------------------------------- MODULE Facts -------------------------------
(***************************************************************************)
(* The fact engine (factengine/engine.go, retract.go) and the hot-window   *)
(* promotion that feeds it (consolidation/hotwindow.go).                   *)
(* Writers, the buttons of the weekly ritual and the command line work on  *)
(* the facts of one (subject, predicate, object) at the same time; every   *)
(* operation is several SQL statements without a transaction, and each     *)
(* step below is one statement.                                            *)
(*                                                                         *)
(* Confidence is log-odds, in tenths.  A daemon that dies leaves a part of *)
(* the statements of its operations done.                                  *)
(***************************************************************************)
EXTENDS Integers, Sequences, FiniteSets, FiniteSetsExt, Sums

CONSTANTS Clients,       \* goroutines that use the engine
          ChatSessions, NoChat,
          TaintedChats,  \* sessions whose taint row is not clean
          Episodes,      \* cold episodes, one detail atom each, all the same
          MaxFacts, MaxUses, MaxDeaths

ASSUME FactsAssumption ==
    /\ NoChat \notin ChatSessions
    /\ TaintedChats \subseteq ChatSessions
    /\ {MaxFacts, MaxUses, MaxDeaths} \subseteq Nat

Tiers == {"user_asserted", "external_doc", "screen", "agent_derived"}
Provenances == Tiers
TierDelta == [user_asserted |-> 29, external_doc |-> 14, screen |-> 8, agent_derived |-> -4]
DenialLogOdds == -29
InjectionThreshold == -8

VARIABLES
    facts,      \* rows of facts with the one triple, in id order
    evidence,   \* rows of evidence
    cooled,     \* episodes with cooled_at set
    client,
    uses, deaths,
    asserted    \* history: rows inserted for what the user said in a clean session

factVars == <<facts, evidence, cooled, client, uses, deaths, asserted>>

IdleClient == [pc |-> "idle", op |-> "none", chat |-> NoChat, tier |-> "agent_derived",
               claim |-> "agent_derived",
               fact |-> 0, seen |-> {}, todo |-> {}]

FactsInit ==
    /\ facts = <<>>
    /\ evidence = {}
    /\ cooled = {}
    /\ client = [a \in Clients |-> IdleClient]
    /\ uses = 0
    /\ deaths = 0
    /\ asserted = {}

ClientAt(a, pc) == client[a].pc = pc
ClientSet(a, pc) == client' = [client EXCEPT ![a].pc = pc]
Leave(a) == client' = [client EXCEPT ![a] = IdleClient]

\* GetActiveFactByTriple: the newest active row, 0 for none.
ActiveFact ==
    LET act == {i \in 1..Len(facts) : facts[i].status = "active"}
    IN IF act = {} THEN 0 ELSE Max(act)

\* Defect: a claim of the user is believed without asking for the session.
BugTrustClaim(prov, chat) == prov

\* assignSourceTier: what the extractor claims is ignored; a user's assertion
\* needs a session, and a clean one.
AssignSourceTier(prov, chat) ==
    IF prov = "user_asserted" /\ (chat = NoChat \/ chat \in TaintedChats)
    THEN "agent_derived" ELSE prov

-----------------------------------------------------------------------------
(* Writing a fact. *)

WriteFact(a, prov, chat) ==
    /\ ClientAt(a, "idle")
    /\ uses < MaxUses
    /\ uses' = uses + 1
    /\ client' = [client EXCEPT ![a] = [IdleClient EXCEPT
                    !.pc = "lookup", !.op = "write", !.chat = chat,
                    !.tier = AssignSourceTier(prov, chat), !.claim = prov]]
    /\ UNCHANGED <<facts, evidence, cooled, deaths, asserted>>

\* Defect: an episode is marked before its atoms are written.
BugCoolFirst(a) ==
    /\ ClientAt(a, "idle")
    /\ uses < MaxUses
    /\ Episodes \ cooled # {}
    /\ \A b \in Clients : client[b].op # "promote"
    /\ uses' = uses + 1
    /\ cooled' = Episodes
    /\ client' = [client EXCEPT ![a] = [IdleClient EXCEPT
                    !.pc = "lookup", !.op = "promote", !.todo = Episodes \ cooled]]
    /\ UNCHANGED <<facts, evidence, deaths, asserted>>

\* PromoteHotWindow: the atoms of every cold episode, then its cooled_at.
PromoteHotWindow(a) ==
    /\ ClientAt(a, "idle")
    /\ uses < MaxUses
    /\ Episodes \ cooled # {}
    /\ \A b \in Clients : client[b].op # "promote"
    /\ uses' = uses + 1
    /\ client' = [client EXCEPT ![a] = [IdleClient EXCEPT
                    !.pc = "lookup", !.op = "promote", !.todo = Episodes \ cooled]]
    /\ UNCHANGED <<facts, evidence, cooled, deaths, asserted>>

\* Defect: a missing row is not inserted.
BugLookup(a) ==
    /\ ClientAt(a, "lookup")
    /\ client' = [client EXCEPT ![a].fact = ActiveFact, ![a].pc = "dedupe"]
    /\ UNCHANGED <<facts, evidence, cooled, uses, deaths, asserted>>

LookupFact(a) ==
    /\ ClientAt(a, "lookup")
    /\ client' = [client EXCEPT ![a].fact = ActiveFact,
                                ![a].pc = IF ActiveFact = 0 THEN "insert" ELSE "dedupe"]
    /\ UNCHANGED <<facts, evidence, cooled, uses, deaths, asserted>>

InsertFact(a) ==
    /\ ClientAt(a, "insert")
    /\ Len(facts) < MaxFacts
    /\ facts' = Append(facts, [status |-> "active", tier |-> client[a].tier,
                               confirmed |-> FALSE, confidence |-> 0])
    /\ asserted' = IF client[a].claim = "user_asserted"
                      /\ client[a].chat \in ChatSessions \ TaintedChats
                   THEN asserted \cup {Len(facts')} ELSE asserted
    /\ client' = [client EXCEPT ![a].fact = Len(facts'), ![a].pc = "dedupe"]
    /\ UNCHANGED <<evidence, cooled, uses, deaths>>

-----------------------------------------------------------------------------
(* Evidence and the confidence computed from it, shared by all operations. *)

PolarityOf(a) == IF client[a].op \in {"deny", "retract"} THEN -1 ELSE 1
WeightOf(a) == IF PolarityOf(a) = 1 THEN TierDelta[client[a].tier] ELSE DenialLogOdds
SameVote(a, e) ==
    e.fact = client[a].fact /\ e.chat = client[a].chat /\ e.chat # NoChat
      /\ e.polarity = PolarityOf(a)

\* The early-out of addEvidence.
DedupeEvidence(a) ==
    /\ ClientAt(a, "dedupe")
    /\ ClientSet(a, IF \E e \in evidence : SameVote(a, e) THEN "list" ELSE "vote")
    /\ UNCHANGED <<facts, evidence, cooled, uses, deaths, asserted>>

\* Defect: no unique index behind the early-out.
BugInsertEvidence(a) ==
    /\ ClientAt(a, "vote")
    /\ evidence' = evidence \cup
          {[id |-> Cardinality(evidence) + 1, fact |-> client[a].fact, chat |-> client[a].chat,
            polarity |-> PolarityOf(a), weight |-> WeightOf(a)]}
    /\ ClientSet(a, "list")
    /\ UNCHANGED <<facts, cooled, uses, deaths, asserted>>

\* The INSERT, on which the unique index decides; a loser is a repeat.
InsertEvidence(a) ==
    /\ ClientAt(a, "vote")
    /\ evidence' = IF \E e \in evidence : SameVote(a, e) THEN evidence
                   ELSE evidence \cup
          {[id |-> Cardinality(evidence) + 1, fact |-> client[a].fact, chat |-> client[a].chat,
            polarity |-> PolarityOf(a), weight |-> WeightOf(a)]}
    /\ ClientSet(a, "list")
    /\ UNCHANGED <<facts, cooled, uses, deaths, asserted>>

ListEvidence(a) ==
    /\ ClientAt(a, "list")
    /\ client' = [client EXCEPT ![a].seen = {e \in evidence : e.fact = client[a].fact},
                                ![a].pc = "update"]
    /\ UNCHANGED <<facts, evidence, cooled, uses, deaths, asserted>>

\* The key a row is counted under: a tier once, a denying session once, and a
\* denial without a session for itself.
EvidenceKey(e) ==
    IF e.polarity > 0 THEN <<"pos", e.weight>>
    ELSE IF e.chat = NoChat THEN <<"row", e.id>> ELSE <<"neg", e.chat>>

EvidenceKeys(rows) == {EvidenceKey(e) : e \in rows}

\* What each key counts for, once.
KeyWeight(rows) ==
    [k \in EvidenceKeys(rows) |-> (CHOOSE e \in rows : EvidenceKey(e) = k).weight]

\* Defect: the sum is not clamped to the strongest tier behind it.
BugNoClamp(rows) == SumOn(KeyWeight(rows), EvidenceKeys(rows))

\* recomputeConfidence over the rows it has read.
Confidence(rows) ==
    LET sum  == SumOn(KeyWeight(rows), EvidenceKeys(rows))
        caps == {e.weight : e \in {x \in rows : x.polarity > 0}}
    IN IF caps # {} /\ sum > Max(caps) THEN Max(caps) ELSE sum

\* UpdateFactConfidence, then what the operation has left to do.
UpdateConfidence(a) ==
    /\ ClientAt(a, "update")
    /\ facts' = [facts EXCEPT ![client[a].fact].confidence = Confidence(client[a].seen)]
    /\ IF client[a].op = "promote" THEN ClientSet(a, "cool") ELSE Leave(a)
    /\ UNCHANGED <<evidence, cooled, uses, deaths, asserted>>

MarkEpisodeCooled(a) ==
    /\ ClientAt(a, "cool")
    /\ LET ep == CHOOSE x \in client[a].todo : TRUE
           rest == client[a].todo \ {ep}
       IN /\ cooled' = cooled \cup {ep}
          /\ IF rest = {} THEN Leave(a)
             ELSE client' = [client EXCEPT ![a].todo = rest, ![a].pc = "lookup"]
    /\ UNCHANGED <<facts, evidence, uses, deaths, asserted>>

-----------------------------------------------------------------------------
(* Confirm, deny, retract. *)

ConfirmFact(i) ==
    /\ i \in 1..Len(facts)
    /\ ~facts[i].confirmed
    /\ facts' = [facts EXCEPT ![i].confirmed = TRUE]
    /\ UNCHANGED <<evidence, cooled, client, uses, deaths, asserted>>

DenyFact(a, i, chat) ==
    /\ ClientAt(a, "idle")
    /\ i \in 1..Len(facts)
    /\ uses < MaxUses
    /\ uses' = uses + 1
    /\ client' = [client EXCEPT ![a] = [IdleClient EXCEPT
                    !.pc = "dedupe", !.op = "deny", !.chat = chat, !.fact = i]]
    /\ UNCHANGED <<facts, evidence, cooled, deaths, asserted>>

\* RetractFact: the lookup decides the row, which is closed first and then
\* denied; without an active row nothing happens.
RetractLookup(a, chat) ==
    /\ ClientAt(a, "idle")
    /\ ActiveFact # 0
    /\ uses < MaxUses
    /\ uses' = uses + 1
    /\ client' = [client EXCEPT ![a] = [IdleClient EXCEPT
                    !.pc = "close", !.op = "retract", !.chat = chat, !.fact = ActiveFact]]
    /\ UNCHANGED <<facts, evidence, cooled, deaths, asserted>>

RetractFact(a) ==
    /\ ClientAt(a, "close")
    /\ facts' = [facts EXCEPT ![client[a].fact].status = "retracted"]
    /\ ClientSet(a, "dedupe")
    /\ UNCHANGED <<evidence, cooled, uses, deaths, asserted>>

-----------------------------------------------------------------------------
\* The daemon dies: every operation stops where it is.
FactsDeath ==
    /\ deaths < MaxDeaths
    /\ deaths' = deaths + 1
    /\ client' = [a \in Clients |-> IdleClient]
    /\ UNCHANGED <<facts, evidence, cooled, uses, asserted>>

ClientStep(a) ==
    \/ \E prov \in {"user_asserted", "external_doc", "screen"}, chat \in ChatSessions \cup {NoChat} :
          WriteFact(a, prov, chat)
    \/ PromoteHotWindow(a) \/ LookupFact(a) \/ InsertFact(a) \/ DedupeEvidence(a)
    \/ InsertEvidence(a) \/ ListEvidence(a) \/ UpdateConfidence(a) \/ MarkEpisodeCooled(a)
    \/ \E chat \in ChatSessions :
          (\E i \in 1..Len(facts) : DenyFact(a, i, chat)) \/ RetractLookup(a, chat)
    \/ RetractFact(a)

FactsNext ==
    \/ \E a \in Clients : ClientStep(a)
    \/ \E i \in 1..Len(facts) : ConfirmFact(i)
    \/ FactsDeath

-----------------------------------------------------------------------------
FactsTypeOK ==
    /\ \A i \in 1..Len(facts) :
          facts[i] \in [status : {"active", "retracted"}, tier : Tiers,
                        confirmed : BOOLEAN, confidence : Int]
    /\ \A e \in evidence : e.fact \in 1..Len(facts) /\ e.polarity \in {1, -1}
    /\ cooled \subseteq Episodes
    /\ \A a \in Clients : client[a].seen \subseteq evidence /\ client[a].todo \subseteq Episodes

\* InjectionEligible: what reaches a prompt without being asked for.
InjectionEligible(i) ==
    /\ facts[i].status = "active"
    /\ facts[i].confidence >= InjectionThreshold
    /\ facts[i].tier # "agent_derived" \/ facts[i].confirmed

\* Two taps of one button, or a tap repeated after a crash, are one vote:
\* a session counts once for and once against a fact.
OneVotePerSession ==
    \A e1, e2 \in evidence :
       e1.chat # NoChat /\ e1.fact = e2.fact /\ e1.chat = e2.chat /\ e1.polarity = e2.polarity
          => e1.id = e2.id

\* However many observations pile up, in whatever order they are read and
\* written, a fact is never held more strongly than its strongest source
\* allows (0 until it was first computed).
NeverAboveItsSources ==
    \A i \in 1..Len(facts) :
       facts[i].confidence <= Max({0} \cup {e.weight : e \in {x \in evidence : x.fact = i /\ x.polarity > 0}})

\* No chain of writes, promotions and restarts turns something the model made
\* up, or a tainted session said, into a fact of the user: a fact that is
\* injected as the user's was asserted in a clean session or confirmed.
InjectedIsVouchedFor ==
    \A i \in 1..Len(facts) :
       InjectionEligible(i) /\ facts[i].tier = "user_asserted" /\ ~facts[i].confirmed =>
          i \in asserted

\* A crash in the middle of a promotion loses no atom: a cooled episode has
\* left its evidence behind.
CooledIsPromoted ==
    cooled # {} => \E e \in evidence : e.weight = TierDelta["agent_derived"] /\ e.polarity > 0

\* The fact engine's promise under concurrent writers and deaths between two
\* statements: a session has one vote, a fact is not believed beyond its
\* sources or put before the model unvouched for, and cooled means promoted.
ConfidenceIsEarned ==
    FactsTypeOK /\ OneVotePerSession /\ NeverAboveItsSources
        /\ InjectedIsVouchedFor /\ CooledIsPromoted
=============================================================================
