----------------------------- MODULE MemoryProof -----------------------------
(***************************************************************************)
(* For any number of entities, facts, writers and sessions: merges are     *)
(* reversible, and a fact is believed no more than its sources warrant.    *)
(* For any chunks and any results of the legs of a search: hits come in    *)
(* the order of the evidence for them.  For any files, writers and walks:  *)
(* the index follows the disk.  For any passages, nights, edits and        *)
(* crashes: nothing lands without consent, and the user's words stay.  For *)
(* any document and limits: its chunks lose no line.  For any file and     *)
(* rewrite: the line filter keeps the touched lines and drops no other     *)
(* change.  The components share no state.                                 *)
(***************************************************************************)
EXTENDS EntityMerge, Facts, HybridSearch, MemoryIndex, Chunker, Consolidation,
        UserEditWins, SumsProof, FiniteSetTheorems, SequenceTheorems, TLAPS

EntitySpec == EntityInit /\ [][EntityNext]_entityVars

EntityTypes ==
    /\ entity \in [Entities -> [status : {"none", "active", "merged"}, provisional : BOOLEAN]]
    /\ owner \in [Entities -> Entities \cup {Absent}]

LedgerRecs == [op : {"merge", "split"}, src : Entities, dst : Entities,
               moved : SUBSET Entities, was : [Entities -> Entities \cup {Absent}],
               had : {"none", "active", "merged"}]

\* A ledger row names two entities and remembers the owners it found: what it
\* moved is what its source had.
LedgerRow(m) ==
    /\ m.src \in Entities /\ m.dst \in Entities
    /\ m.was \in [Entities -> Entities \cup {Absent}]
    /\ m.moved = {al \in Entities : m.was[al] = m.src}

Snapshots ==
    /\ mergeLedger \in Seq(LedgerRecs)
    /\ \A n \in 1..Len(mergeLedger) : LedgerRow(mergeLedger[n])

\* A name that is not yet an entity has no alias, and neither has anybody one
\* of it.
UnbornAlone ==
    \A x \in Entities : entity[x].status = "none" =>
        /\ owner[x] = Absent
        /\ \A n \in 1..Len(mergeLedger) : mergeLedger[n].was[x] = Absent /\ mergeLedger[n].src # x

MergeInv == EntityTypes /\ Snapshots /\ UnbornAlone

\* No entity and no merge at the start.
LEMMA InitMerge == EntityInit => MergeInv
BY DEF EntityInit, MergeInv, EntityTypes, Snapshots, UnbornAlone

\* What a ledger row is.
LEMMA LedgerElement ==
    ASSUME Snapshots, NEW n \in 1..Len(mergeLedger)
    PROVE  mergeLedger[n] \in LedgerRecs /\ LedgerRow(mergeLedger[n])
<1>1. mergeLedger \in Seq(LedgerRecs)
  BY DEF Snapshots
<1> QED BY <1>1, ElementOfSeq DEF Snapshots

\* Appending a row that is one keeps the ledger.
LEMMA LedgerGrows ==
    ASSUME Snapshots, NEW m \in LedgerRecs, LedgerRow(m),
           mergeLedger' \in {mergeLedger, Append(mergeLedger, m)}
    PROVE  /\ Snapshots'
           /\ \A n \in 1..Len(mergeLedger') :
                 \/ n \in 1..Len(mergeLedger) /\ mergeLedger'[n] = mergeLedger[n]
                 \/ mergeLedger'[n] = m
<1>0. mergeLedger \in Seq(LedgerRecs)
  BY DEF Snapshots
<1>1. CASE mergeLedger' = mergeLedger
  BY <1>1 DEF Snapshots, LedgerRow
<1>2. CASE mergeLedger' = Append(mergeLedger, m)
  <2>1. /\ mergeLedger' \in Seq(LedgerRecs) /\ Len(mergeLedger') = Len(mergeLedger) + 1
        /\ \A n \in 1..Len(mergeLedger) : mergeLedger'[n] = mergeLedger[n]
        /\ mergeLedger'[Len(mergeLedger) + 1] = m
    BY <1>0, <1>2, AppendProperties
  <2>2. \A n \in 1..Len(mergeLedger') :
           \/ n \in 1..Len(mergeLedger) /\ mergeLedger'[n] = mergeLedger[n]
           \/ mergeLedger'[n] = m
    BY <1>0, <2>1
  <2>3. \A n \in 1..Len(mergeLedger') : LedgerRow(mergeLedger'[n])
    BY <2>2 DEF Snapshots
  <2>4. \A n \in 1..Len(mergeLedger') : LedgerRow(mergeLedger[n])'
    BY <2>3 DEF LedgerRow
  <2> QED BY <2>1, <2>2, <2>4 DEF Snapshots
<1> QED BY <1>1, <1>2

\* ResolveOrCreateEntity.
LEMMA CreateStep ==
    ASSUME MergeInv, NEW x \in Entities, ResolveOrCreateEntity(x) PROVE MergeInv'
<1>1. UNCHANGED mergeLedger /\ entity[x].status = "none" /\ owner' \in {owner, [owner EXCEPT ![x] = x]}
  BY DEF ResolveOrCreateEntity
<1>2. PICK p \in BOOLEAN : entity' = [entity EXCEPT ![x] = [status |-> "active", provisional |-> p]]
  BY DEF ResolveOrCreateEntity
<1>3. EntityTypes'
  BY <1>1, <1>2 DEF MergeInv, EntityTypes
<1>4. Snapshots'
  BY <1>1 DEF MergeInv, Snapshots, LedgerRow
<1>5. UnbornAlone'
  BY <1>1, <1>2 DEF MergeInv, UnbornAlone, EntityTypes
<1> QED BY <1>3, <1>4, <1>5 DEF MergeInv

\* MergeEntities, wherever it stopped.
LEMMA MergeStep ==
    ASSUME MergeInv, NEW dst \in Entities, NEW src \in Entities, MergeEntities(dst, src)
    PROVE  MergeInv'
<1>0. EntityTypes /\ Snapshots /\ UnbornAlone
  BY DEF MergeInv
<1>1. /\ entity[dst].status # "none" /\ entity[src].status # "none"
  BY DEF MergeEntities, Mentioned
<1>2. PICK moved \in SUBSET OwnedBy(src) :
        /\ owner' = [al \in Entities |-> IF al \in moved THEN dst ELSE owner[al]]
        /\ \/ UNCHANGED <<entity, mergeLedger>>
           \/ /\ moved = OwnedBy(src)
              /\ entity' = [entity EXCEPT ![src].status = "merged"]
              /\ mergeLedger' \in {mergeLedger, Append(mergeLedger,
                    [op |-> "merge", src |-> src, dst |-> dst, moved |-> moved,
                     was |-> owner, had |-> entity[src].status])}
  BY DEF MergeEntities
<1>3. EntityTypes'
  BY <1>0, <1>2 DEF EntityTypes
<1>4. \A x \in Entities : entity'[x].status = "none" => entity[x].status = "none"
  BY <1>0, <1>2 DEF EntityTypes
<1>5. \A x \in Entities : entity'[x].status = "none" => owner'[x] = Absent
  BY <1>0, <1>1, <1>2, <1>4, EntityAssumption DEF UnbornAlone, OwnedBy
<1>6. CASE UNCHANGED mergeLedger
  BY <1>0, <1>3, <1>4, <1>5, <1>6 DEF MergeInv, Snapshots, LedgerRow, UnbornAlone
<1>7. CASE ~UNCHANGED mergeLedger
  <2> DEFINE m == [op |-> "merge", src |-> src, dst |-> dst, moved |-> moved,
                   was |-> owner, had |-> entity[src].status]
  <2>1. moved = OwnedBy(src) /\ mergeLedger' \in {mergeLedger, Append(mergeLedger, m)}
    BY <1>2, <1>7
  <2>2. m \in LedgerRecs /\ LedgerRow(m)
    BY <1>0, <2>1 DEF LedgerRecs, LedgerRow, OwnedBy, EntityTypes
  <2>3. Snapshots' /\ \A n \in 1..Len(mergeLedger') :
                        \/ n \in 1..Len(mergeLedger) /\ mergeLedger'[n] = mergeLedger[n]
                        \/ mergeLedger'[n] = m
    <3> HIDE DEF m
    <3> QED BY <1>0, <2>1, <2>2, LedgerGrows
  <2>4. UnbornAlone'
    BY <1>0, <1>1, <1>4, <1>5, <2>3 DEF UnbornAlone
  <2> QED BY <1>3, <2>3, <2>4 DEF MergeInv
<1> QED BY <1>6, <1>7

\* SplitEntities, wherever it stopped.
LEMMA SplitStep ==
    ASSUME MergeInv, NEW n \in 1..Len(mergeLedger), SplitEntities(n) PROVE MergeInv'
<1>0. EntityTypes /\ Snapshots /\ UnbornAlone
  BY DEF MergeInv
<1> DEFINE m == mergeLedger[n]
           k == [m EXCEPT !.op = "split"]
<1>1. PICK back \in SUBSET m.moved :
        /\ owner' = [al \in Entities |-> IF al \in back THEN m.src ELSE owner[al]]
        /\ \/ UNCHANGED <<entity, mergeLedger>>
           \/ /\ back = m.moved
              /\ entity' = [entity EXCEPT ![m.src].status = "active"]
              /\ mergeLedger' \in {mergeLedger, Append(mergeLedger, k)}
  BY DEF SplitEntities
<1>2. m \in LedgerRecs /\ LedgerRow(m)
  BY <1>0, LedgerElement
<1>3. k \in LedgerRecs /\ LedgerRow(k) /\ k.src = m.src /\ k.was = m.was
  BY <1>2 DEF LedgerRecs, LedgerRow
<1>4. EntityTypes'
  BY <1>0, <1>1, <1>2 DEF EntityTypes, LedgerRow
<1>5. \A x \in Entities : entity'[x].status = "none" => entity[x].status = "none"
  BY <1>0, <1>1, <1>2 DEF EntityTypes, LedgerRow
<1>6. \A x \in Entities : entity[x].status = "none" =>
         owner[x] = Absent /\ x \notin m.moved /\ m.was[x] = Absent /\ m.src # x
  BY <1>0, <1>2, EntityAssumption DEF UnbornAlone, LedgerRow
<1>7. \A x \in Entities : entity'[x].status = "none" => owner'[x] = Absent
  BY <1>1, <1>5, <1>6
<1>8. mergeLedger' \in {mergeLedger, Append(mergeLedger, k)}
  BY <1>1
<1>9. Snapshots' /\ \A i \in 1..Len(mergeLedger') :
                      \/ i \in 1..Len(mergeLedger) /\ mergeLedger'[i] = mergeLedger[i]
                      \/ mergeLedger'[i] = k
  <2> HIDE DEF k
  <2> QED BY <1>0, <1>3, <1>8, LedgerGrows
<1>10. UnbornAlone'
  <2> SUFFICES ASSUME NEW x \in Entities, entity'[x].status = "none",
                      NEW i \in 1..Len(mergeLedger')
               PROVE  mergeLedger'[i].was[x] = Absent /\ mergeLedger'[i].src # x
    BY <1>7 DEF UnbornAlone
  <2>1. entity[x].status = "none"
    BY <1>5
  <2>2. CASE mergeLedger'[i] = k
    BY <1>3, <1>6, <2>1, <2>2
  <2>3. CASE i \in 1..Len(mergeLedger) /\ mergeLedger'[i] = mergeLedger[i]
    BY <1>0, <2>1, <2>3 DEF UnbornAlone
  <2> QED BY <1>9, <2>2, <2>3
<1> QED BY <1>4, <1>9, <1>10 DEF MergeInv

\* The invariant holds in every reachable state.
LEMMA MergeInvariant == EntitySpec => []MergeInv
<1>1. MergeInv /\ [EntityNext]_entityVars => MergeInv'
  <2>1. MergeInv /\ (RetractEvidence \/ UNCHANGED entityVars) => MergeInv'
    BY DEF RetractEvidence, entityVars, MergeInv, EntityTypes, Snapshots, LedgerRow, UnbornAlone
  <2> QED BY <2>1, CreateStep, MergeStep, SplitStep DEF EntityNext
<1> QED BY <1>1, InitMerge, PTL DEF EntitySpec

\* Only ResolveOrCreateEntity brings an entity to life, beside its namesakes.
LEMMA NamesJoinNobody ==
    ASSUME MergeInv, [EntityNext]_entityVars PROVE NeverJoinedByName
<1> SUFFICES ASSUME NEW x \in Entities, entity[x].status = "none", entity'[x].status # "none"
             PROVE  /\ owner'[x] \in {Absent, x}
                    /\ \A y \in Entities \ {x} : NameOf[y] = NameOf[x] /\ owner[y] # Absent
                          => entity'[x].provisional /\ owner'[y] = owner[y]
  BY DEF NeverJoinedByName
<1>0. EntityTypes /\ Snapshots /\ UnbornAlone
  BY DEF MergeInv
<1>1. ASSUME NEW z \in Entities, ResolveOrCreateEntity(z)
      PROVE  /\ owner'[x] \in {Absent, x}
             /\ \A y \in Entities \ {x} : NameOf[y] = NameOf[x] /\ owner[y] # Absent
                   => entity'[x].provisional /\ owner'[y] = owner[y]
  <2>1. z = x
    BY <1>0, <1>1 DEF ResolveOrCreateEntity, EntityTypes
  <2>2. owner[x] = Absent
    BY <1>0 DEF UnbornAlone
  <2> QED BY <1>0, <1>1, <2>1, <2>2 DEF ResolveOrCreateEntity, EntityTypes
<1>2. ASSUME NEW dst \in Entities, NEW src \in Entities, MergeEntities(dst, src) PROVE FALSE
  BY <1>0, <1>2 DEF MergeEntities, Mentioned, EntityTypes
<1>3. ASSUME NEW n \in 1..Len(mergeLedger), SplitEntities(n) PROVE FALSE
  <2>1. mergeLedger[n].src # x
    BY <1>0 DEF UnbornAlone
  <2> QED BY <1>0, <1>3, <2>1 DEF SplitEntities, EntityTypes
<1> QED
  BY <1>1, <1>2, <1>3 DEF EntityNext, RetractEvidence, entityVars

\* The step that ledgers the split of a merge put back the merge's snapshot.
LEMMA SplitIsUndo ==
    ASSUME MergeInv, [EntityNext]_entityVars PROVE SplitUndoesMerge
<1>0. EntityTypes /\ Snapshots /\ mergeLedger \in Seq(LedgerRecs)
  BY DEF MergeInv, Snapshots
<1> SUFFICES ASSUME NEW n \in 1..Len(mergeLedger), NEW m, m = mergeLedger[n],
                    m.op = "merge", m.had = "active",
                    mergeLedger' = Append(mergeLedger, [m EXCEPT !.op = "split"]),
                    \A al \in Entities : owner[al] = m.was[al] \/ al \in m.moved
             PROVE  owner' = m.was /\ entity'[m.src].status = "active"
  BY DEF SplitUndoesMerge
<1>1. m \in LedgerRecs /\ LedgerRow(m)
  BY <1>0, LedgerElement
<1>2. [m EXCEPT !.op = "split"] \in LedgerRecs
  BY <1>1 DEF LedgerRecs
<1>3. /\ Len(mergeLedger') = Len(mergeLedger) + 1 /\ Len(mergeLedger) \in Nat
      /\ mergeLedger'[Len(mergeLedger) + 1] = [m EXCEPT !.op = "split"]
  BY <1>0, <1>2, AppendProperties
<1>4. mergeLedger' # mergeLedger
  BY <1>3
<1>5. ASSUME NEW r, mergeLedger' = Append(mergeLedger, r), r \in LedgerRecs
      PROVE  r = [m EXCEPT !.op = "split"]
  BY <1>0, <1>3, <1>5, AppendProperties
<1>6. ASSUME NEW dst \in Entities, NEW src \in Entities, MergeEntities(dst, src) PROVE FALSE
  <2>1. PICK moved \in SUBSET OwnedBy(src) :
          mergeLedger' = Append(mergeLedger,
                    [op |-> "merge", src |-> src, dst |-> dst, moved |-> moved,
                     was |-> owner, had |-> entity[src].status])
    BY <1>4, <1>6 DEF MergeEntities
  <2> DEFINE r == [op |-> "merge", src |-> src, dst |-> dst, moved |-> moved,
                   was |-> owner, had |-> entity[src].status]
  <2>2. r \in LedgerRecs /\ r.op = "merge"
    BY <1>0 DEF LedgerRecs, OwnedBy, EntityTypes
  <2>3. r = [m EXCEPT !.op = "split"]
    BY <1>5, <2>1, <2>2
  <2>4. r.op = "split"
    BY <1>1, <2>3 DEF LedgerRecs
  <2> QED BY <2>2, <2>4
<1>7. ASSUME NEW i \in 1..Len(mergeLedger), SplitEntities(i)
      PROVE  owner' = m.was /\ entity'[m.src].status = "active"
  <2> DEFINE o == mergeLedger[i]
  <2>1. /\ owner' = [al \in Entities |-> IF al \in o.moved THEN o.src ELSE owner[al]]
        /\ entity' = [entity EXCEPT ![o.src].status = "active"]
        /\ mergeLedger' = Append(mergeLedger, [o EXCEPT !.op = "split"])
    BY <1>4, <1>7 DEF SplitEntities
  <2>2. o \in LedgerRecs /\ [o EXCEPT !.op = "split"] \in LedgerRecs
    BY <1>0, LedgerElement DEF LedgerRecs
  <2>3. [o EXCEPT !.op = "split"] = [m EXCEPT !.op = "split"]
    BY <1>5, <2>1, <2>2
  <2>4. [o EXCEPT !.op = "split"].src = o.src /\ [o EXCEPT !.op = "split"].moved = o.moved
    BY <2>2 DEF LedgerRecs
  <2>5. [m EXCEPT !.op = "split"].src = m.src /\ [m EXCEPT !.op = "split"].moved = m.moved
    BY <1>1 DEF LedgerRecs
  <2>6. o.src = m.src /\ o.moved = m.moved
    BY <2>3, <2>4, <2>5
  <2>7. \A al \in Entities : owner'[al] = m.was[al]
    BY <1>1, <2>1, <2>6 DEF LedgerRow
  <2>8. owner' = m.was
    BY <1>1, <2>1, <2>7 DEF LedgerRow
  <2>9. entity'[m.src].status = "active"
    BY <1>0, <1>1, <2>1, <2>6 DEF EntityTypes, LedgerRow
  <2> QED BY <2>8, <2>9
<1> QED
  BY <1>4, <1>6, <1>7 DEF EntityNext, ResolveOrCreateEntity, RetractEvidence, entityVars

\* An entity is joined to another by a merge and by nothing else, and
\* splitting a merge puts back what it found, also when merges overlap or
\* stop half way.
THEOREM MergesCanBeUndone == EntitySpec => MergesAreReversible
<1>1. MergeInv /\ [EntityNext]_entityVars => NeverJoinedByName /\ SplitUndoesMerge
  BY NamesJoinNobody, SplitIsUndo
<1> QED
  BY <1>1, MergeInvariant, PTL DEF EntitySpec, MergesAreReversible

-----------------------------------------------------------------------------
(* The fact engine.                                                        *)

FactsSpec == FactsInit /\ [][FactsNext]_factVars

FactRows == [status : {"active", "retracted"}, tier : Tiers,
             confirmed : BOOLEAN, confidence : Int]

Chats == ChatSessions \cup {NoChat}
TierWeights == {29, 14, 8, -4}

EvidenceRows == [id : Nat, fact : Nat, chat : Chats, polarity : {1, -1},
                 weight : TierWeights \cup {DenialLogOdds}]

ClientRows ==
    [pc : {"idle", "lookup", "insert", "dedupe", "vote", "list", "update", "cool", "close"},
     op : {"none", "write", "promote", "deny", "retract"}, chat : Chats,
     tier : Tiers, claim : Tiers, fact : Nat, seen : SUBSET EvidenceRows,
     todo : SUBSET Episodes]

FactTypes ==
    /\ facts \in Seq(FactRows)
    /\ evidence \in SUBSET EvidenceRows
    /\ IsFiniteSet(evidence)
    /\ cooled \in SUBSET Episodes
    /\ client \in [Clients -> ClientRows]

\* A row of evidence is about a fact there is, and weighs what its polarity
\* says.
EvidenceOK ==
    \A e \in evidence :
        /\ e.fact \in 1..Len(facts)
        /\ IF e.polarity = 1 THEN e.weight \in TierWeights ELSE e.weight = DenialLogOdds

Promoted == \E e \in evidence : e.weight = -4 /\ e.polarity > 0

\* What an operation remembers between two of its statements.
ClientOK(c) ==
    /\ c.pc \in {"dedupe", "vote", "list", "update", "close"} => c.fact \in 1..Len(facts)
    /\ c.seen \subseteq evidence
    /\ c.pc = "update" => \A e \in c.seen : e.fact = c.fact
    /\ c.tier = "user_asserted" =>
          c.claim = "user_asserted" /\ c.chat \in ChatSessions \ TaintedChats
    /\ c.op = "promote" => c.tier = "agent_derived" /\ c.chat = NoChat /\ c.todo # {}
    /\ c.pc = "cool" => c.op = "promote"
    /\ c.op = "promote" /\ c.pc \in {"list", "update", "cool"} => Promoted

UserRowsAsserted == \A i \in 1..Len(facts) : facts[i].tier = "user_asserted" => i \in asserted

Caps(i) == {0} \cup {e.weight : e \in {x \in evidence : x.fact = i /\ x.polarity > 0}}

FactsInv ==
    /\ FactTypes
    /\ EvidenceOK
    /\ \A a \in Clients : ClientOK(client[a])
    /\ UserRowsAsserted
    /\ CooledIsPromoted
    /\ OneVotePerSession
    /\ NeverAboveItsSources

\* The row an idle client rests on.
LEMMA IdleOK == IdleClient \in ClientRows /\ ClientOK(IdleClient)
  BY FactsAssumption DEF IdleClient, ClientRows, ClientOK, Tiers, Chats

\* Initially nothing is known and nobody works.
LEMMA InitFacts == FactsInit => FactsInv
<1> SUFFICES ASSUME FactsInit PROVE FactsInv
  OBVIOUS
<1>1. FactTypes
  <2>1. IsFiniteSet({})
    BY FS_EmptySet
  <2> QED BY <2>1, IdleOK DEF FactsInit, FactTypes
<1>2. \A a \in Clients : ClientOK(client[a])
  BY IdleOK DEF FactsInit
<1>3. Len(facts) = 0
  BY DEF FactsInit
<1> QED
  BY <1>1, <1>2, <1>3 DEF FactsInv, FactsInit, EvidenceOK, UserRowsAsserted, CooledIsPromoted,
     OneVotePerSession, NeverAboveItsSources

\* The greatest of the weights a fact may be held with.
LEMMA MaxOfWeights ==
    ASSUME NEW A \in SUBSET ({0} \cup TierWeights), A # {}
    PROVE  Max(A) \in A /\ \A y \in A : y <= Max(A)
<1>1. \E x \in A : \A y \in A : x >= y
  <2>0. A \subseteq {29, 14, 8, 0, -4}
    BY DEF TierWeights
  <2>1. CASE 29 \in A
    BY <2>0, <2>1
  <2>2. CASE 29 \notin A /\ 14 \in A
    BY <2>0, <2>2
  <2>3. CASE 29 \notin A /\ 14 \notin A /\ 8 \in A
    BY <2>0, <2>3
  <2>4. CASE 29 \notin A /\ 14 \notin A /\ 8 \notin A /\ 0 \in A
    BY <2>0, <2>4
  <2>5. CASE A \subseteq {-4}
    <3>1. -4 \in A /\ \A y \in A : y = -4
      BY <2>5
    <3> QED BY <3>1
  <2> QED BY <2>0, <2>1, <2>2, <2>3, <2>4, <2>5
<1>2. Max(A) \in A /\ \A y \in A : Max(A) >= y
  BY <1>1 DEF Max
<1>3. A \subseteq Int
  BY DEF TierWeights
<1> QED BY <1>2, <1>3

\* recomputeConfidence yields a number no greater than the strongest source it
\* has read.
LEMMA ConfidenceIsCapped ==
    ASSUME NEW rows \in SUBSET EvidenceRows, IsFiniteSet(rows),
           \A e \in rows : IF e.polarity = 1 THEN e.weight \in TierWeights
                                            ELSE e.weight = DenialLogOdds
    PROVE  /\ Confidence(rows) \in Int
           /\ Confidence(rows) <= Max({0} \cup {e.weight : e \in {x \in rows : x.polarity > 0}})
<1> DEFINE keys == EvidenceKeys(rows)
           w == KeyWeight(rows)
           sum == SumOn(w, keys)
           caps == {e.weight : e \in {x \in rows : x.polarity > 0}}
<1>1. IsFiniteSet(keys)
  <2> DEFINE f == [e \in rows |-> EvidenceKey(e)]
  <2>1. f \in Surjection(rows, keys)
    BY DEF Surjection, EvidenceKeys
  <2> QED BY <2>1, FS_Surjection
<1>2. ASSUME NEW k \in keys PROVE \E e \in rows : w[k] = e.weight
  <2>1. \E e \in rows : EvidenceKey(e) = k
    BY <1>2 DEF EvidenceKeys
  <2> QED BY <2>1 DEF KeyWeight
<1>3. w \in [keys -> Int]
  <2>1. \A e \in rows : e.weight \in Int
    BY DEF EvidenceRows, TierWeights, DenialLogOdds
  <2>2. w = [k \in keys |-> (CHOOSE e \in rows : EvidenceKey(e) = k).weight]
    BY DEF KeyWeight
  <2> QED BY <1>2, <2>1, <2>2
<1>4. sum \in Int
  BY <1>1, <1>3, SumIsInteger
<1>5. caps \in SUBSET TierWeights
  BY DEF EvidenceRows
<1>6. Confidence(rows) = IF caps # {} /\ sum > Max(caps) THEN Max(caps) ELSE sum
  BY DEF Confidence
<1> HIDE DEF caps, sum
<1>0. {0} \cup TierWeights \subseteq Int
  BY DEF TierWeights
<1>7. Max({0} \cup caps) \in Int /\ \A y \in {0} \cup caps : y <= Max({0} \cup caps)
  <2> DEFINE A == {0} \cup caps
  <2>1. A \in SUBSET ({0} \cup TierWeights) /\ A # {}
    BY <1>5
  <2> HIDE DEF A
  <2>2. Max(A) \in A /\ \A y \in A : y <= Max(A)
    BY <2>1, MaxOfWeights
  <2> QED BY <1>0, <2>1, <2>2 DEF A
<1>8. CASE caps # {}
  <2>1. Max(caps) \in caps /\ Max(caps) \in Int
    <3>1. Max(caps) \in caps
      BY <1>5, <1>8, MaxOfWeights
    <3> QED BY <1>0, <1>5, <3>1
  <2>2. Max(caps) <= Max({0} \cup caps)
    BY <1>7, <2>1
  <2> QED BY <1>4, <1>6, <1>7, <2>1, <2>2 DEF caps
<1>9. CASE caps = {}
  <2>1. \A e \in rows : e.weight <= 0
    BY <1>9 DEF caps, EvidenceRows, DenialLogOdds
  <2>2. \A k \in keys : w[k] <= 0
    BY <1>2, <2>1
  <2>3. sum <= 0
    <3> HIDE DEF keys, w
    <3> QED BY <1>1, <1>3, <2>2, SumSign DEF sum
  <2> QED BY <1>4, <1>6, <1>7, <1>9, <2>3 DEF caps
<1> QED BY <1>8, <1>9

\* One client moves on while facts and evidence only grow.
LEMMA OneClientMoves ==
    ASSUME FactTypes, \A b \in Clients : ClientOK(client[b]),
           Len(facts) \in Nat, Len(facts') \in Nat, Len(facts) <= Len(facts'),
           evidence \subseteq evidence',
           NEW a \in Clients, NEW r \in ClientRows, ClientOK(r)',
           client' = [client EXCEPT ![a] = r]
    PROVE  client' \in [Clients -> ClientRows] /\ (\A b \in Clients : ClientOK(client[b]))'
<1>1. client' \in [Clients -> ClientRows]
  BY DEF FactTypes
<1>2. ASSUME NEW b \in Clients PROVE ClientOK(client[b])'
  <2>1. CASE b = a
    <3>1. client'[b] = r
      BY <2>1 DEF FactTypes
    <3> QED BY <3>1 DEF ClientOK, Promoted
  <2>2. CASE b # a
    <3>1. client'[b] = client[b]
      BY <2>2 DEF FactTypes
    <3>2. ClientOK(client[b])
      OBVIOUS
    <3>3. Promoted => Promoted'
      BY DEF Promoted
    <3>4. \A k \in 1..Len(facts) : k \in 1..Len(facts')
      OBVIOUS
    <3> QED BY <3>1, <3>2, <3>3, <3>4 DEF ClientOK
  <2> QED BY <2>1, <2>2
<1> QED BY <1>1, <1>2

\* A step that only moves a client.
LEMMA QuietStep ==
    ASSUME FactsInv, UNCHANGED <<facts, evidence, cooled, asserted>>,
           NEW a \in Clients, NEW r \in ClientRows, ClientOK(r),
           client' = [client EXCEPT ![a] = r]
    PROVE  FactsInv'
<1>1. Len(facts) \in Nat
  BY DEF FactsInv, FactTypes
<1>2. ClientOK(r)'
  BY DEF ClientOK, Promoted
<1>3. client' \in [Clients -> ClientRows] /\ (\A b \in Clients : ClientOK(client[b]))'
  <2>1. /\ FactTypes /\ \A b \in Clients : ClientOK(client[b])
        /\ Len(facts') \in Nat /\ Len(facts) <= Len(facts') /\ evidence \subseteq evidence'
    BY <1>1 DEF FactsInv
  <2> QED BY <1>1, <1>2, <2>1, OneClientMoves
<1> QED
  BY <1>3 DEF FactsInv, FactTypes, EvidenceOK, UserRowsAsserted, CooledIsPromoted,
              OneVotePerSession, NeverAboveItsSources

\* GetActiveFactByTriple finds a row there is.
LEMMA ActiveFactExists ==
    ASSUME FactTypes PROVE ActiveFact \in Nat /\ (ActiveFact # 0 => ActiveFact \in 1..Len(facts))
<1> DEFINE act == {i \in 1..Len(facts) : facts[i].status = "active"}
<1>1. CASE act = {}
  BY <1>1 DEF ActiveFact
<1>2. CASE act # {}
  <2>1. Len(facts) \in Nat
    BY DEF FactTypes
  <2>2. \E x \in act : \A y \in act : x >= y
    <3>1. act \in SUBSET (1..Len(facts))
      OBVIOUS
    <3> HIDE DEF act
    <3> QED BY <1>2, <2>1, <3>1, GreatestNumber
  <2>3. ActiveFact = Max(act)
    BY <1>2 DEF ActiveFact
  <2>4. Max(act) \in act
    BY <2>2 DEF Max
  <2> QED BY <2>1, <2>3, <2>4
<1> QED BY <1>1, <1>2

\* The rows that the quiet statements leave in the client.
LEMMA QuietSteps ==
    ASSUME FactsInv, NEW a \in Clients,
           \/ \E prov \in {"user_asserted", "external_doc", "screen"}, chat \in Chats : WriteFact(a, prov, chat)
           \/ PromoteHotWindow(a) \/ LookupFact(a) \/ DedupeEvidence(a) \/ ListEvidence(a)
           \/ \E chat \in ChatSessions :
                 (\E i \in 1..Len(facts) : DenyFact(a, i, chat)) \/ RetractLookup(a, chat)
    PROVE  FactsInv'
<1>0. /\ FactTypes /\ EvidenceOK /\ \A b \in Clients : ClientOK(client[b])
      /\ client[a] \in ClientRows /\ ClientOK(client[a]) /\ Len(facts) \in Nat
      /\ ActiveFact \in Nat /\ (ActiveFact # 0 => ActiveFact \in 1..Len(facts))
  BY ActiveFactExists DEF FactsInv, FactTypes
<1>1. ASSUME NEW prov \in {"user_asserted", "external_doc", "screen"}, NEW chat \in Chats,
             WriteFact(a, prov, chat)
      PROVE  FactsInv'
  <2> DEFINE r == [IdleClient EXCEPT
                    !.pc = "lookup", !.op = "write", !.chat = chat,
                    !.tier = AssignSourceTier(prov, chat), !.claim = prov]
  <2>1. r \in ClientRows /\ ClientOK(r)
    BY FactsAssumption DEF IdleClient, ClientRows, ClientOK, Tiers, Chats, AssignSourceTier
  <2>2. client' = [client EXCEPT ![a] = r] /\ UNCHANGED <<facts, evidence, cooled, asserted>>
    BY <1>1 DEF WriteFact
  <2> HIDE DEF r
  <2> QED BY <2>1, <2>2, QuietStep
<1>2. ASSUME PromoteHotWindow(a) PROVE FactsInv'
  <2> DEFINE r == [IdleClient EXCEPT !.pc = "lookup", !.op = "promote", !.todo = Episodes \ cooled]
  <2>1. r \in ClientRows /\ ClientOK(r)
    BY <1>2, FactsAssumption DEF PromoteHotWindow, IdleClient, ClientRows, ClientOK, Tiers, Chats
  <2>2. client' = [client EXCEPT ![a] = r] /\ UNCHANGED <<facts, evidence, cooled, asserted>>
    BY <1>2 DEF PromoteHotWindow
  <2> HIDE DEF r
  <2> QED BY <2>1, <2>2, QuietStep
<1>3. ASSUME LookupFact(a) PROVE FactsInv'
  <2> DEFINE r == [client[a] EXCEPT !.fact = ActiveFact,
                                    !.pc = IF ActiveFact = 0 THEN "insert" ELSE "dedupe"]
  <2>1. r \in ClientRows /\ ClientOK(r)
    BY <1>0 DEF ClientRows, ClientOK
  <2>2. client' = [client EXCEPT ![a] = r] /\ UNCHANGED <<facts, evidence, cooled, asserted>>
    BY <1>0, <1>3 DEF LookupFact, FactTypes
  <2> HIDE DEF r
  <2> QED BY <2>1, <2>2, QuietStep
<1>4. ASSUME DedupeEvidence(a) PROVE FactsInv'
  <2> DEFINE r == [client[a] EXCEPT !.pc =
                     IF \E e \in evidence : SameVote(a, e) THEN "list" ELSE "vote"]
  <2>0. client[a].pc = "dedupe"
    BY <1>4 DEF DedupeEvidence, ClientAt
  <2>3. client[a].op = "promote" => ~ \E e \in evidence : SameVote(a, e)
    BY <1>0 DEF ClientOK, SameVote
  <2>1. r \in ClientRows /\ ClientOK(r)
    BY <1>0, <2>0, <2>3 DEF ClientRows, ClientOK
  <2>2. client' = [client EXCEPT ![a] = r] /\ UNCHANGED <<facts, evidence, cooled, asserted>>
    BY <1>0, <1>4 DEF DedupeEvidence, ClientSet, FactTypes
  <2> HIDE DEF r
  <2> QED BY <2>1, <2>2, QuietStep
<1>5. ASSUME ListEvidence(a) PROVE FactsInv'
  <2> DEFINE r == [client[a] EXCEPT !.seen = {e \in evidence : e.fact = client[a].fact},
                                    !.pc = "update"]
  <2>0. client[a].pc = "list"
    BY <1>5 DEF ListEvidence, ClientAt
  <2>1. r \in ClientRows /\ ClientOK(r)
    BY <1>0, <2>0 DEF ClientRows, ClientOK, FactTypes
  <2>2. client' = [client EXCEPT ![a] = r] /\ UNCHANGED <<facts, evidence, cooled, asserted>>
    BY <1>0, <1>5 DEF ListEvidence, FactTypes
  <2> HIDE DEF r
  <2> QED BY <2>1, <2>2, QuietStep
<1>6. ASSUME NEW chat \in ChatSessions, NEW i \in 1..Len(facts), DenyFact(a, i, chat)
      PROVE  FactsInv'
  <2> DEFINE r == [IdleClient EXCEPT !.pc = "dedupe", !.op = "deny", !.chat = chat, !.fact = i]
  <2>1. r \in ClientRows /\ ClientOK(r)
    <3>1. i \in Nat /\ chat \in Chats /\ i \in 1..Len(facts)
      BY <1>0 DEF Chats
    <3>2. IdleClient.op = "none" /\ IdleClient.seen = {} /\ IdleClient.tier = "agent_derived"
      BY DEF IdleClient
    <3>3. r \in ClientRows
      BY <3>1, IdleOK DEF ClientRows
    <3>4. /\ r.pc = "dedupe" /\ r.op = "deny" /\ r.fact = i /\ r.seen = {}
          /\ r.tier = "agent_derived"
      BY <3>2, IdleOK DEF ClientRows
    <3> HIDE DEF r
    <3> QED BY <3>1, <3>3, <3>4 DEF ClientOK
  <2>2. client' = [client EXCEPT ![a] = r] /\ UNCHANGED <<facts, evidence, cooled, asserted>>
    BY <1>6 DEF DenyFact
  <2> HIDE DEF r
  <2> QED BY <2>1, <2>2, QuietStep
<1>7. ASSUME NEW chat \in ChatSessions, RetractLookup(a, chat) PROVE FactsInv'
  <2> DEFINE r == [IdleClient EXCEPT
                    !.pc = "close", !.op = "retract", !.chat = chat, !.fact = ActiveFact]
  <2>1. r \in ClientRows /\ ClientOK(r)
    <3>1. ActiveFact \in Nat /\ chat \in Chats /\ ActiveFact \in 1..Len(facts)
      BY <1>0, <1>7 DEF RetractLookup, Chats
    <3>2. IdleClient.op = "none" /\ IdleClient.seen = {} /\ IdleClient.tier = "agent_derived"
      BY DEF IdleClient
    <3>3. r \in ClientRows
      BY <3>1, IdleOK DEF ClientRows
    <3>4. /\ r.pc = "close" /\ r.op = "retract" /\ r.fact = ActiveFact /\ r.seen = {}
          /\ r.tier = "agent_derived"
      BY <3>2, IdleOK DEF ClientRows
    <3> HIDE DEF r
    <3> QED BY <3>1, <3>3, <3>4 DEF ClientOK
  <2>2. client' = [client EXCEPT ![a] = r] /\ UNCHANGED <<facts, evidence, cooled, asserted>>
    BY <1>7 DEF RetractLookup
  <2> HIDE DEF r
  <2> QED BY <2>1, <2>2, QuietStep
<1> QED BY <1>1, <1>2, <1>3, <1>4, <1>5, <1>6, <1>7

\* UpdateConfidence, ConfirmFact and RetractFact rewrite one row and keep its
\* tier.
LEMMA RowRewritten ==
    ASSUME FactsInv, UNCHANGED <<evidence, cooled, asserted>>,
           NEW i \in 1..Len(facts), NEW row \in FactRows,
           row.tier = facts[i].tier,
           row.confidence <= Max(Caps(i)),
           facts' = [facts EXCEPT ![i] = row],
           \/ UNCHANGED client
           \/ \E a \in Clients, r \in ClientRows : ClientOK(r) /\ client' = [client EXCEPT ![a] = r]
    PROVE  FactsInv'
<1>0. facts \in Seq(FactRows) /\ Len(facts) \in Nat
  BY DEF FactsInv, FactTypes
<1>1. facts' \in Seq(FactRows) /\ Len(facts') = Len(facts)
  BY <1>0
<1>2. \A k \in 1..Len(facts) : facts'[k] = IF k = i THEN row ELSE facts[k]
  BY <1>0
<1>3. client' \in [Clients -> ClientRows] /\ (\A b \in Clients : ClientOK(client[b]))'
  <2>1. CASE UNCHANGED client
    BY <1>1, <2>1 DEF FactsInv, FactTypes, ClientOK, Promoted
  <2>2. ASSUME NEW a \in Clients, NEW r \in ClientRows, ClientOK(r),
               client' = [client EXCEPT ![a] = r]
        PROVE  client' \in [Clients -> ClientRows] /\ (\A b \in Clients : ClientOK(client[b]))'
    <3>1. ClientOK(r)'
      BY <1>1, <2>2 DEF ClientOK, Promoted
    <3>2. /\ FactTypes /\ \A b \in Clients : ClientOK(client[b])
          /\ Len(facts') \in Nat /\ Len(facts) <= Len(facts') /\ evidence \subseteq evidence'
      BY <1>0, <1>1 DEF FactsInv
    <3> QED BY <1>0, <2>2, <3>1, <3>2, OneClientMoves
  <2> QED BY <2>1, <2>2
<1>4. UserRowsAsserted'
  BY <1>1, <1>2 DEF FactsInv, UserRowsAsserted
<1>5. NeverAboveItsSources'
  <2>1. \A k \in 1..Len(facts) : facts[k].confidence <= Max(Caps(k))
    BY DEF FactsInv, NeverAboveItsSources, Caps
  <2>2. \A k \in 1..Len(facts') : facts'[k].confidence <= Max(Caps(k))
    BY <1>1, <1>2, <2>1
  <2> QED BY <2>2 DEF NeverAboveItsSources, Caps
<1> QED
  BY <1>1, <1>3, <1>4, <1>5 DEF FactsInv, FactTypes, EvidenceOK, CooledIsPromoted, OneVotePerSession

\* More sources allow no less.
LEMMA MaxGrows ==
    ASSUME NEW B \in SUBSET ({0} \cup TierWeights), NEW A \in SUBSET B, A # {}
    PROVE  Max(A) \in Int /\ Max(B) \in Int /\ Max(A) <= Max(B)
<1>1. Max(A) \in A
  BY MaxOfWeights
<1>2. Max(B) \in B /\ \A y \in B : y <= Max(B)
  BY MaxOfWeights
<1>3. {0} \cup TierWeights \subseteq Int
  BY DEF TierWeights
<1> QED BY <1>1, <1>2, <1>3

\* The caps of a fact are weights of tiers.
LEMMA CapsAreWeights ==
    ASSUME FactTypes, EvidenceOK, NEW i
    PROVE  Caps(i) \in SUBSET ({0} \cup TierWeights) /\ 0 \in Caps(i)
<1>1. \A e \in evidence : e.polarity > 0 => e.weight \in TierWeights
  BY DEF FactTypes, EvidenceOK, EvidenceRows
<1> QED BY <1>1 DEF Caps

\* UpdateFactConfidence writes what the rows read at most justify.
LEMMA UpdateStep ==
    ASSUME FactsInv, NEW a \in Clients, UpdateConfidence(a) PROVE FactsInv'
<1>0. /\ FactTypes /\ EvidenceOK /\ client[a] \in ClientRows /\ ClientOK(client[a])
      /\ Len(facts) \in Nat /\ facts \in Seq(FactRows) /\ client[a].pc = "update"
  BY DEF FactsInv, FactTypes, UpdateConfidence, ClientAt
<1> DEFINE i == client[a].fact
           rows == client[a].seen
           row == [facts[i] EXCEPT !.confidence = Confidence(rows)]
           r == IF client[a].op = "promote" THEN [client[a] EXCEPT !.pc = "cool"] ELSE IdleClient
<1>1. i \in 1..Len(facts) /\ facts[i] \in FactRows
  BY <1>0 DEF ClientOK
<1>2. rows \in SUBSET EvidenceRows /\ rows \subseteq evidence /\ \A e \in rows : e.fact = i
  BY <1>0 DEF ClientOK, ClientRows
<1>3. IsFiniteSet(rows)
  BY <1>0, <1>2, FS_Subset DEF FactTypes
<1>4. \A e \in rows : IF e.polarity = 1 THEN e.weight \in TierWeights ELSE e.weight = DenialLogOdds
  BY <1>0, <1>2 DEF EvidenceOK
<1> DEFINE A == {0} \cup {e.weight : e \in {x \in rows : x.polarity > 0}}
<1>5. Confidence(rows) \in Int /\ Confidence(rows) <= Max(A)
  <2> HIDE DEF rows
  <2> QED BY <1>2, <1>3, <1>4, ConfidenceIsCapped
<1>6. A \in SUBSET Caps(i) /\ A # {}
  BY <1>2 DEF Caps
<1>7. Max(A) \in Int /\ Max(Caps(i)) \in Int /\ Max(A) <= Max(Caps(i))
  <2> HIDE DEF A
  <2> QED BY <1>0, <1>6, CapsAreWeights, MaxGrows
<1>8. row \in FactRows /\ row.tier = facts[i].tier /\ row.confidence = Confidence(rows)
  BY <1>1, <1>5 DEF FactRows
<1>9. row.confidence <= Max(Caps(i))
  <2> HIDE DEF A, row, rows, i
  <2> QED BY <1>5, <1>7, <1>8
<1>10. facts' = [facts EXCEPT ![i] = row] /\ UNCHANGED <<evidence, cooled, asserted>>
  BY <1>0, <1>1 DEF UpdateConfidence
<1>11. r \in ClientRows /\ ClientOK(r) /\ client' = [client EXCEPT ![a] = r]
  <2>1. r \in ClientRows /\ ClientOK(r)
    BY <1>0, IdleOK DEF ClientRows, ClientOK
  <2>2. client' = [client EXCEPT ![a] = r]
    BY <1>0 DEF UpdateConfidence, ClientSet, Leave, FactTypes
  <2> QED BY <2>1, <2>2
<1> HIDE DEF i, row, r
<1> QED BY <1>1, <1>8, <1>9, <1>10, <1>11, RowRewritten

\* ConfirmFact and the closing statement of RetractFact.
LEMMA MarkStep ==
    ASSUME FactsInv,
           \/ \E i \in 1..Len(facts) : ConfirmFact(i)
           \/ \E a \in Clients : RetractFact(a)
    PROVE  FactsInv'
<1>0. /\ FactTypes /\ EvidenceOK /\ Len(facts) \in Nat /\ facts \in Seq(FactRows)
  BY DEF FactsInv, FactTypes
<1>1. ASSUME NEW i \in 1..Len(facts)
      PROVE  facts[i] \in FactRows /\ facts[i].confidence <= Max(Caps(i))
  BY <1>0 DEF FactsInv, NeverAboveItsSources, Caps
<1>2. ASSUME NEW i \in 1..Len(facts), ConfirmFact(i) PROVE FactsInv'
  <2> DEFINE row == [facts[i] EXCEPT !.confirmed = TRUE]
  <2>1. /\ row \in FactRows /\ row.tier = facts[i].tier /\ row.confidence = facts[i].confidence
    BY <1>1 DEF FactRows
  <2>2. facts' = [facts EXCEPT ![i] = row] /\ UNCHANGED <<evidence, cooled, asserted, client>>
    BY <1>0, <1>2 DEF ConfirmFact
  <2>3. row.confidence <= Max(Caps(i))
    <3> HIDE DEF row
    <3> QED BY <1>1, <2>1
  <2> HIDE DEF row
  <2> QED BY <2>1, <2>2, <2>3, RowRewritten
<1>3. ASSUME NEW a \in Clients, RetractFact(a) PROVE FactsInv'
  <2> DEFINE i == client[a].fact
             row == [facts[i] EXCEPT !.status = "retracted"]
             r == [client[a] EXCEPT !.pc = "dedupe"]
  <2>0. client[a] \in ClientRows /\ ClientOK(client[a]) /\ client[a].pc = "close"
    BY <1>3 DEF FactsInv, FactTypes, RetractFact, ClientAt
  <2>1. i \in 1..Len(facts)
    BY <2>0 DEF ClientOK
  <2>2. /\ row \in FactRows /\ row.tier = facts[i].tier /\ row.confidence = facts[i].confidence
    BY <1>1, <2>1 DEF FactRows
  <2>3. facts' = [facts EXCEPT ![i] = row] /\ UNCHANGED <<evidence, cooled, asserted>>
    BY <1>0, <1>3, <2>1 DEF RetractFact
  <2>4. r \in ClientRows /\ ClientOK(r)
    BY <2>0, <1>0 DEF ClientRows, ClientOK
  <2>5. client' = [client EXCEPT ![a] = r]
    BY <1>0, <1>3 DEF RetractFact, ClientSet, FactTypes
  <2>6. row.confidence <= Max(Caps(i))
    <3> HIDE DEF row, i
    <3> QED BY <1>1, <2>1, <2>2
  <2> HIDE DEF row, r, i
  <2> QED BY <2>1, <2>2, <2>3, <2>4, <2>5, <2>6, RowRewritten
<1> QED BY <1>2, <1>3

\* MarkEpisodeCooled: the evidence of the promotion is there.
LEMMA CoolStep ==
    ASSUME FactsInv, NEW a \in Clients, MarkEpisodeCooled(a) PROVE FactsInv'
<1>0. /\ FactTypes /\ EvidenceOK /\ client[a] \in ClientRows /\ ClientOK(client[a])
      /\ Len(facts) \in Nat /\ client[a].pc = "cool"
      /\ \A b \in Clients : ClientOK(client[b])
  BY DEF FactsInv, FactTypes, MarkEpisodeCooled, ClientAt
<1> DEFINE ep == CHOOSE x \in client[a].todo : TRUE
           rest == client[a].todo \ {ep}
           after == IF rest = {} THEN IdleClient
                    ELSE [client[a] EXCEPT !.todo = rest, !.pc = "lookup"]
<1>1. /\ client[a].op = "promote" /\ client[a].todo # {} /\ Promoted
      /\ client[a].todo \subseteq Episodes
  BY <1>0 DEF ClientOK, ClientRows
<1>2. ep \in Episodes
  BY <1>1
<1>3. cooled' = cooled \cup {ep} /\ UNCHANGED <<facts, evidence, asserted>>
  BY DEF MarkEpisodeCooled
<1>4. client' = [client EXCEPT ![a] = after]
  BY <1>0 DEF MarkEpisodeCooled, Leave, FactTypes
<1>5. PICK r \in ClientRows : ClientOK(r) /\ client' = [client EXCEPT ![a] = r]
  <2>1. rest \in SUBSET Episodes
    BY <1>1
  <2> HIDE DEF rest
  <2>2. CASE rest = {}
    BY <1>4, <2>2, IdleOK
  <2>3. CASE rest # {}
    <3>1. after = [client[a] EXCEPT !.todo = rest, !.pc = "lookup"]
      BY <2>3
    <3>2. after \in ClientRows
      BY <1>0, <2>1, <3>1 DEF ClientRows
    <3>3. /\ after.pc = "lookup" /\ after.seen = client[a].seen /\ after.tier = client[a].tier
          /\ after.claim = client[a].claim /\ after.chat = client[a].chat /\ after.todo = rest
      BY <1>0, <3>1 DEF ClientRows
    <3>4. ClientOK(after)
      <4> HIDE DEF after
      <4> QED BY <1>0, <1>1, <2>3, <3>3 DEF ClientOK
    <3> QED BY <1>4, <3>2, <3>4
  <2> QED BY <2>2, <2>3
<1> HIDE DEF ep, rest, after
<1>6. ClientOK(r)'
  BY <1>3, <1>5 DEF ClientOK, Promoted
<1>7. client' \in [Clients -> ClientRows] /\ (\A b \in Clients : ClientOK(client[b]))'
  <2>1. Len(facts') \in Nat /\ Len(facts) <= Len(facts') /\ evidence \subseteq evidence'
    BY <1>0, <1>3
  <2> QED BY <1>0, <1>5, <1>6, <2>1, OneClientMoves
<1>8. CooledIsPromoted'
  BY <1>1, <1>3 DEF CooledIsPromoted, Promoted, TierDelta
<1> QED
  BY <1>0, <1>2, <1>3, <1>7, <1>8 DEF FactsInv, FactTypes, EvidenceOK, UserRowsAsserted,
              OneVotePerSession, NeverAboveItsSources

\* The death of the daemon leaves every client idle.
LEMMA DeathStep == ASSUME FactsInv, FactsDeath PROVE FactsInv'
<1>1. client' \in [Clients -> ClientRows] /\ \A b \in Clients : client'[b] = IdleClient
  BY IdleOK DEF FactsDeath
<1>2. UNCHANGED <<facts, evidence, cooled, asserted>>
  BY DEF FactsDeath
<1>3. ClientOK(IdleClient)'
  BY <1>2, IdleOK DEF ClientOK, Promoted, IdleClient
<1>4. (\A b \in Clients : ClientOK(client[b]))'
  BY <1>1, <1>3 DEF ClientOK, Promoted, IdleClient
<1> QED
  BY <1>1, <1>2, <1>4 DEF FactsInv, FactTypes, EvidenceOK, UserRowsAsserted, CooledIsPromoted,
              OneVotePerSession, NeverAboveItsSources

\* InsertFact: a row of the tier the client was given, believed not at all.
LEMMA InsertFactStep ==
    ASSUME FactsInv, NEW a \in Clients, InsertFact(a) PROVE FactsInv'
<1>0. /\ FactTypes /\ EvidenceOK /\ client[a] \in ClientRows /\ ClientOK(client[a])
      /\ Len(facts) \in Nat /\ facts \in Seq(FactRows) /\ client[a].pc = "insert"
      /\ \A b \in Clients : ClientOK(client[b])
  BY DEF FactsInv, FactTypes, InsertFact, ClientAt
<1> DEFINE row == [status |-> "active", tier |-> client[a].tier,
                   confirmed |-> FALSE, confidence |-> 0]
           after == [client[a] EXCEPT !.fact = Len(facts) + 1, !.pc = "dedupe"]
<1>1. row \in FactRows /\ row.tier = client[a].tier /\ row.confidence = 0
  BY <1>0 DEF FactRows, ClientRows
<1>2. facts' = Append(facts, row) /\ UNCHANGED <<evidence, cooled>>
  BY DEF InsertFact
<1>3. /\ facts' \in Seq(FactRows) /\ Len(facts') = Len(facts) + 1
      /\ \A k \in 1..Len(facts) : facts'[k] = facts[k]
      /\ facts'[Len(facts) + 1] = row
  <2> HIDE DEF row
  <2> QED BY <1>0, <1>1, <1>2, AppendProperties
<1>4. asserted' = IF client[a].claim = "user_asserted"
                      /\ client[a].chat \in ChatSessions \ TaintedChats
                  THEN asserted \cup {Len(facts) + 1} ELSE asserted
  BY <1>3 DEF InsertFact
<1>5. PICK r \in ClientRows : /\ client' = [client EXCEPT ![a] = r]
                             /\ r.pc = "dedupe" /\ r.fact = Len(facts) + 1
                             /\ r.seen = client[a].seen /\ r.tier = client[a].tier
                             /\ r.claim = client[a].claim /\ r.chat = client[a].chat
                             /\ r.op = client[a].op /\ r.todo = client[a].todo
  <2>1. client' = [client EXCEPT ![a] = after]
    BY <1>0, <1>3 DEF InsertFact, FactTypes
  <2>2. after \in ClientRows
    <3> DEFINE n == Len(facts) + 1
    <3>1. n \in Nat
      BY <1>0
    <3> HIDE DEF n
    <3>2. [client[a] EXCEPT !.fact = n, !.pc = "dedupe"] \in ClientRows
      BY <1>0, <3>1 DEF ClientRows
    <3> QED BY <3>2 DEF n
  <2>3. /\ after.pc = "dedupe" /\ after.fact = Len(facts) + 1
        /\ after.seen = client[a].seen /\ after.tier = client[a].tier
        /\ after.claim = client[a].claim /\ after.chat = client[a].chat
        /\ after.op = client[a].op /\ after.todo = client[a].todo
    BY <1>0 DEF ClientRows
  <2> HIDE DEF after
  <2> QED BY <2>1, <2>2, <2>3
<1> HIDE DEF row
<1>6. ClientOK(r)'
  <2>1. Len(facts) + 1 \in 1..Len(facts')
    BY <1>0, <1>3
  <2> QED BY <1>0, <1>2, <1>5, <2>1 DEF ClientOK
<1>7. client' \in [Clients -> ClientRows] /\ (\A b \in Clients : ClientOK(client[b]))'
  <2>1. Len(facts') \in Nat /\ Len(facts) <= Len(facts') /\ evidence \subseteq evidence'
    BY <1>0, <1>2, <1>3
  <2> QED BY <1>0, <1>5, <1>6, <2>1, OneClientMoves
<1>8. UserRowsAsserted'
  <2> SUFFICES ASSUME NEW k \in 1..Len(facts'), facts'[k].tier = "user_asserted"
               PROVE  k \in asserted'
    BY DEF UserRowsAsserted
  <2>1. CASE k \in 1..Len(facts)
    BY <1>3, <1>4, <2>1 DEF FactsInv, UserRowsAsserted
  <2>2. CASE k = Len(facts) + 1
    BY <1>0, <1>1, <1>3, <1>4, <2>2 DEF ClientOK
  <2> QED BY <1>0, <1>3, <2>1, <2>2
<1>9. NeverAboveItsSources'
  <2>1. \A k \in 1..Len(facts) : facts[k].confidence <= Max(Caps(k))
    BY DEF FactsInv, NeverAboveItsSources, Caps
  <2>2. ASSUME NEW k \in 1..Len(facts') PROVE facts'[k].confidence <= Max(Caps(k))
    <3>1. CASE k \in 1..Len(facts)
      BY <1>3, <2>1, <3>1
    <3>2. CASE k = Len(facts) + 1
      <4>1. facts'[k].confidence = 0
        BY <1>1, <1>3, <3>2
      <4>2. Caps(k) \in SUBSET ({0} \cup TierWeights) /\ 0 \in Caps(k)
        BY <1>0, CapsAreWeights
      <4>3. 0 <= Max(Caps(k))
        BY <4>2, MaxOfWeights
      <4> QED BY <4>1, <4>3
    <3> QED BY <1>0, <1>3, <3>1, <3>2
  <2> QED BY <1>2, <2>2 DEF NeverAboveItsSources, Caps
<1>10. EvidenceOK'
  BY <1>0, <1>2, <1>3 DEF EvidenceOK
<1> QED
  BY <1>0, <1>2, <1>3, <1>7, <1>8, <1>9, <1>10 DEF FactsInv, FactTypes, CooledIsPromoted, OneVotePerSession

\* InsertEvidence: the unique index lets a session vote once.
LEMMA InsertEvidenceStep ==
    ASSUME FactsInv, NEW a \in Clients, InsertEvidence(a) PROVE FactsInv'
<1>0. /\ FactTypes /\ EvidenceOK /\ client[a] \in ClientRows /\ ClientOK(client[a])
      /\ Len(facts) \in Nat /\ client[a].pc = "vote"
      /\ \A b \in Clients : ClientOK(client[b])
  BY DEF FactsInv, FactTypes, InsertEvidence, ClientAt
<1> DEFINE e == [id |-> Cardinality(evidence) + 1, fact |-> client[a].fact,
                 chat |-> client[a].chat, polarity |-> PolarityOf(a), weight |-> WeightOf(a)]
           twice == \E x \in evidence : SameVote(a, x)
           after == [client[a] EXCEPT !.pc = "list"]
<1>1. UNCHANGED <<facts, cooled, asserted>>
  BY DEF InsertEvidence
<1>2. evidence' = IF twice THEN evidence ELSE evidence \cup {e}
  BY DEF InsertEvidence
<1>3. /\ e.fact = client[a].fact /\ e.chat = client[a].chat /\ e.polarity = PolarityOf(a)
      /\ e.weight = WeightOf(a)
  OBVIOUS
<1>4. /\ PolarityOf(a) \in {1, -1}
      /\ IF PolarityOf(a) = 1 THEN WeightOf(a) \in TierWeights ELSE WeightOf(a) = DenialLogOdds
      /\ client[a].op = "promote" => PolarityOf(a) = 1 /\ WeightOf(a) = -4
  BY <1>0 DEF PolarityOf, WeightOf, TierDelta, TierWeights, ClientRows, Tiers, ClientOK
<1>5. e \in EvidenceRows
  <2>1. Cardinality(evidence) \in Nat
    BY <1>0, FS_CardinalityType DEF FactTypes
  <2>2. client[a].fact \in Nat /\ client[a].chat \in Chats
    BY <1>0 DEF ClientRows
  <2> QED BY <1>4, <2>1, <2>2 DEF EvidenceRows
<1>6. client[a].fact \in 1..Len(facts)
  BY <1>0 DEF ClientOK
<1>7. client[a].op = "promote" => ~twice
  BY <1>0 DEF ClientOK, SameVote
<1>8. PICK r \in ClientRows : /\ client' = [client EXCEPT ![a] = r]
                             /\ r.pc = "list" /\ r.fact = client[a].fact
                             /\ r.seen = client[a].seen /\ r.tier = client[a].tier
                             /\ r.claim = client[a].claim /\ r.chat = client[a].chat
                             /\ r.op = client[a].op /\ r.todo = client[a].todo
  <2>1. client' = [client EXCEPT ![a] = after]
    BY <1>0 DEF InsertEvidence, ClientSet, FactTypes
  <2>2. after \in ClientRows
    BY <1>0 DEF ClientRows
  <2>3. /\ after.pc = "list" /\ after.fact = client[a].fact
        /\ after.seen = client[a].seen /\ after.tier = client[a].tier
        /\ after.claim = client[a].claim /\ after.chat = client[a].chat
        /\ after.op = client[a].op /\ after.todo = client[a].todo
    BY <1>0 DEF ClientRows
  <2> HIDE DEF after
  <2> QED BY <2>1, <2>2, <2>3
<1>9. /\ evidence' \in SUBSET EvidenceRows /\ IsFiniteSet(evidence') /\ evidence \subseteq evidence'
  <2>1. IsFiniteSet(evidence \cup {e})
    BY <1>0, FS_AddElement DEF FactTypes
  <2> QED BY <1>0, <1>2, <1>5, <2>1 DEF FactTypes
<1>10. ASSUME NEW x \in evidence' PROVE x \in evidence \/ (~twice /\ x = e)
  BY <1>2
<1>11. client[a].op = "promote" => Promoted'
  <2>1. client[a].op = "promote" => e \in evidence'
    BY <1>2, <1>7
  <2>2. client[a].op = "promote" => e.weight = -4 /\ e.polarity > 0
    <3> HIDE DEF e
    <3> QED BY <1>3, <1>4
  <2> HIDE DEF e
  <2> QED BY <2>1, <2>2 DEF Promoted
<1>12. OneVotePerSession'
  <2> SUFFICES ASSUME NEW e1 \in evidence', NEW e2 \in evidence', e1.chat # NoChat,
                      e1.fact = e2.fact, e1.chat = e2.chat, e1.polarity = e2.polarity
               PROVE  e1.id = e2.id
    BY DEF OneVotePerSession
  <2>1. CASE e1 \in evidence /\ e2 \in evidence
    BY <2>1 DEF FactsInv, OneVotePerSession
  <2>2. ASSUME e1 \in evidence, ~twice, e2 = e PROVE FALSE
    <3>1. SameVote(a, e1)
      BY <1>3, <2>2 DEF SameVote
    <3> QED BY <2>2, <3>1
  <2>3. ASSUME e2 \in evidence, ~twice, e1 = e PROVE FALSE
    <3>1. SameVote(a, e2)
      BY <1>3, <2>3 DEF SameVote
    <3> QED BY <2>3, <3>1
  <2>4. CASE e1 = e /\ e2 = e
    BY <2>4
  <2> HIDE DEF e, twice
  <2> QED BY <1>10, <2>1, <2>2, <2>3, <2>4
<1>13. EvidenceOK'
  <2>1. ASSUME NEW x \in evidence'
        PROVE  /\ x.fact \in 1..Len(facts)
               /\ IF x.polarity = 1 THEN x.weight \in TierWeights ELSE x.weight = DenialLogOdds
    <3>1. CASE x \in evidence
      BY <1>0, <3>1 DEF EvidenceOK
    <3>2. CASE x = e
      <4> HIDE DEF e
      <4> QED BY <1>3, <1>4, <1>6, <3>2
    <3> QED BY <1>10, <3>1, <3>2
  <2> QED BY <1>1, <2>1 DEF EvidenceOK
<1> HIDE DEF e, twice, after
<1>14. ClientOK(r)'
  BY <1>0, <1>1, <1>6, <1>8, <1>9, <1>11 DEF ClientOK
<1>15. client' \in [Clients -> ClientRows] /\ (\A b \in Clients : ClientOK(client[b]))'
  <2>1. Len(facts') \in Nat /\ Len(facts) <= Len(facts')
    BY <1>0, <1>1
  <2> QED BY <1>0, <1>8, <1>9, <1>14, <2>1, OneClientMoves
<1>16. FactTypes'
  BY <1>0, <1>1, <1>9, <1>15 DEF FactTypes
<1>17. NeverAboveItsSources'
  <2> SUFFICES ASSUME NEW k \in 1..Len(facts) PROVE facts[k].confidence <= Max(Caps(k)')
    BY <1>1 DEF NeverAboveItsSources, Caps
  <2>1. facts[k].confidence <= Max(Caps(k)) /\ facts[k].confidence \in Int
    <3>1. facts[k].confidence <= Max(Caps(k))
      BY DEF FactsInv, NeverAboveItsSources, Caps
    <3>2. facts[k] \in FactRows
      BY <1>0 DEF FactTypes
    <3> QED BY <3>1, <3>2 DEF FactRows
  <2>2. Caps(k) # {} /\ Caps(k) \in SUBSET (Caps(k)')
    BY <1>9 DEF Caps
  <2>3. Caps(k)' \in SUBSET ({0} \cup TierWeights)
    <3>1. \A x \in evidence' : x.polarity > 0 => x.weight \in TierWeights
      BY <1>9, <1>13 DEF EvidenceOK, EvidenceRows
    <3> QED BY <3>1 DEF Caps
  <2>4. Max(Caps(k)) \in Int /\ Max(Caps(k)') \in Int /\ Max(Caps(k)) <= Max(Caps(k)')
    BY <2>2, <2>3, MaxGrows
  <2> QED BY <2>1, <2>4
<1>18. CooledIsPromoted' /\ UserRowsAsserted'
  BY <1>1, <1>9 DEF FactsInv, CooledIsPromoted, UserRowsAsserted
<1> QED
  BY <1>12, <1>13, <1>15, <1>16, <1>17, <1>18 DEF FactsInv

\* The invariant is inductive.
LEMMA FactsStep == FactsInv /\ [FactsNext]_factVars => FactsInv'
<1> SUFFICES ASSUME FactsInv, [FactsNext]_factVars PROVE FactsInv'
  OBVIOUS
<1>1. CASE UNCHANGED factVars
  BY <1>1 DEF factVars, FactsInv, FactTypes, EvidenceOK, ClientOK, Promoted, UserRowsAsserted,
              CooledIsPromoted, OneVotePerSession, NeverAboveItsSources
<1>2. ASSUME NEW a \in Clients, ClientStep(a) PROVE FactsInv'
  BY <1>2, QuietSteps, InsertFactStep, InsertEvidenceStep, UpdateStep, CoolStep, MarkStep
     DEF ClientStep, Chats
<1> QED BY <1>1, <1>2, MarkStep, DeathStep DEF FactsNext

\* For any number of writers, sessions, facts and deaths of the daemon between
\* two statements: a session has one vote on a fact, a fact is never held more
\* strongly than its strongest source allows, what is injected as the user's
\* was asserted in a clean session or confirmed, and a cooled episode has left
\* its evidence.
THEOREM BeliefIsEarned == FactsSpec => []ConfidenceIsEarned
<1>1. FactsInv => ConfidenceIsEarned
  <2> SUFFICES ASSUME FactsInv PROVE ConfidenceIsEarned
    OBVIOUS
  <2>1. FactsTypeOK
    <3>1. \A i \in 1..Len(facts) : facts[i] \in FactRows
      BY DEF FactsInv, FactTypes
    <3>2. \A e \in evidence : e.fact \in 1..Len(facts) /\ e.polarity \in {1, -1}
      BY DEF FactsInv, FactTypes, EvidenceOK, EvidenceRows
    <3>3. \A a \in Clients : client[a].seen \subseteq evidence /\ client[a].todo \subseteq Episodes
      BY DEF FactsInv, FactTypes, ClientOK, ClientRows
    <3> QED BY <3>1, <3>2, <3>3 DEF FactsTypeOK, FactRows, FactsInv, FactTypes
  <2>2. InjectedIsVouchedFor
    BY DEF FactsInv, UserRowsAsserted, InjectedIsVouchedFor
  <2> QED BY <2>1, <2>2 DEF FactsInv, ConfidenceIsEarned
<1> QED BY <1>1, InitFacts, FactsStep, PTL DEF FactsSpec

-----------------------------------------------------------------------------
(***************************************************************************)
(* The ranking of a search, for any set of chunks, any k and any scores    *)
(* the legs can give: what matters of a leg is that its scaling keeps the  *)
(* order, and what matters of the ranking is that the number of better     *)
(* chunks is a different one for every chunk that was found.               *)
(***************************************************************************)
SearchSafety == SearchInit /\ [][HandleSearch]_searchVars

\* The legs are what they were when the query came in; the answer is theirs.
SearchInv ==
    /\ embedOk \in BOOLEAN /\ searched \in BOOLEAN
    /\ tri \in [ChunkIds -> TriRaw]
    /\ uni \in [ChunkIds -> LegRaw] /\ vec \in [ChunkIds -> LegRaw]
    /\ searched => hits = Search

\* How many found chunks are better.
Rank(c) == Cardinality({d \in Found : Before(d, c)})

\* A leg of matches is normalised to the scale: the order of the matches is
\* kept, two different scores end at the two ends, and the rest has nothing.
LEMMA NormalizeKeepsOrder ==
    ASSUME NEW leg \in [ChunkIds -> TriRaw], NEW c \in ChunkIds, NEW d \in ChunkIds
    PROVE  /\ MinMaxNormalize(leg, c) \in {0, 20}
           /\ leg[c] \in {NoHit, Scan} => MinMaxNormalize(leg, c) = 0
           /\ leg[c] = 2 => MinMaxNormalize(leg, c) = 20
           /\ leg[c] = 1 /\ leg[d] = 1 => MinMaxNormalize(leg, c) = MinMaxNormalize(leg, d)
           /\ leg[c] = 1 /\ leg[d] = 2 => MinMaxNormalize(leg, c) = 0
<1> DEFINE vals == {leg[x] : x \in Hit(leg)}
<1>0. /\ \A x \in ChunkIds : leg[x] \in {NoHit, Scan} \/ leg[x] \in {1, 2}
      /\ \A x \in ChunkIds : x \in Hit(leg) <=> leg[x] \in {1, 2}
      /\ vals \subseteq {1, 2}
  BY SearchAssumption DEF TriRaw, Hit
<1>1. /\ 2 \in vals => Max(vals) = 2
      /\ 1 \in vals => Min(vals) = 1
      /\ 1 \notin vals /\ vals # {} => Min(vals) = 2 /\ Max(vals) = 2
      /\ 2 \notin vals /\ vals # {} => Min(vals) = 1 /\ Max(vals) = 1
  <2>1. ASSUME 2 \in vals PROVE Max(vals) = 2
    <3>1. 2 \in vals /\ \A y \in vals : 2 >= y
      BY <1>0, <2>1
    <3>2. Max(vals) \in vals /\ \A y \in vals : Max(vals) >= y
      BY <3>1 DEF Max
    <3> QED BY <3>1, <3>2, <1>0
  <2>2. ASSUME 1 \in vals PROVE Min(vals) = 1
    <3>1. 1 \in vals /\ \A y \in vals : 1 =< y
      BY <1>0, <2>2
    <3>2. Min(vals) \in vals /\ \A y \in vals : Min(vals) =< y
      BY <3>1 DEF Min
    <3> QED BY <3>1, <3>2, <1>0
  <2>3. ASSUME 1 \notin vals, vals # {} PROVE Min(vals) = 2 /\ Max(vals) = 2
    <3>1. vals = {2}
      BY <1>0, <2>3
    <3> QED BY <3>1 DEF Min, Max
  <2>4. ASSUME 2 \notin vals, vals # {} PROVE Min(vals) = 1 /\ Max(vals) = 1
    <3>1. vals = {1}
      BY <1>0, <2>4
    <3> QED BY <3>1 DEF Min, Max
  <2> HIDE DEF vals
  <2> QED BY <2>1, <2>2, <2>3, <2>4
<1>2. ASSUME NEW x \in ChunkIds
      PROVE  MinMaxNormalize(leg, x) =
                IF x \notin Hit(leg) THEN 0 ELSE IF Max(vals) = Min(vals) THEN 20
                ELSE (20 * (leg[x] - Min(vals))) \div (Max(vals) - Min(vals))
  BY DEF MinMaxNormalize
<1>3. \A x \in ChunkIds : leg[x] \in {1, 2} => leg[x] \in vals
  BY <1>0
<1> HIDE DEF vals
<1>4. ASSUME NEW x \in ChunkIds, leg[x] \in {1, 2}
      PROVE  MinMaxNormalize(leg, x) =
                IF vals = {1, 2} THEN IF leg[x] = 1 THEN 0 ELSE 20 ELSE 20
  <2>1. x \in Hit(leg) /\ leg[x] \in vals
    BY <1>0, <1>3, <1>4
  <2>2. CASE vals = {1, 2}
    <3>1. Max(vals) = 2 /\ Min(vals) = 1
      BY <2>2, <1>1
    <3>2. MinMaxNormalize(leg, x) = (20 * (leg[x] - 1)) \div (2 - 1)
      BY <1>2, <2>1, <3>1
    <3>3. CASE leg[x] = 1
      BY <3>2, <3>3, <2>2
    <3>4. CASE leg[x] = 2
      BY <3>2, <3>4, <2>2
    <3> QED BY <3>3, <3>4, <1>4
  <2>3. CASE vals # {1, 2}
    <3>1. Max(vals) = Min(vals)
      BY <2>3, <1>1, <1>0, <2>1
    <3> QED BY <3>1, <1>2, <2>1, <2>3
  <2> QED BY <2>2, <2>3
<1>5. ASSUME NEW x \in ChunkIds, leg[x] \in {NoHit, Scan} PROVE MinMaxNormalize(leg, x) = 0
  BY <1>2, <1>0, <1>5, SearchAssumption
<1>6. leg[c] \in {NoHit, Scan} \/ leg[c] \in {1, 2}
  BY <1>0
<1>7. leg[c] = 1 /\ leg[d] = 2 => vals = {1, 2}
  BY <1>0, <1>3
<1>8. NoHit \notin {1, 2} /\ Scan \notin {1, 2}
  BY SearchAssumption
<1>9. leg[c] = 2 => MinMaxNormalize(leg, c) = 20
  BY <1>4
<1>10. leg[c] = 1 /\ leg[d] = 1 => MinMaxNormalize(leg, c) = MinMaxNormalize(leg, d)
  BY <1>4
<1>11. leg[c] = 1 /\ leg[d] = 2 => MinMaxNormalize(leg, c) = 0
  BY <1>4, <1>7
<1>12. MinMaxNormalize(leg, c) \in {0, 20}
  BY <1>4, <1>5, <1>6
<1> QED BY <1>5, <1>9, <1>10, <1>11, <1>12

\* A leg that ranks one chunk at least as high as another gives it at least
\* as much.
LEMMA NormalizeIsMonotone ==
    ASSUME NEW leg \in [ChunkIds -> LegRaw], NEW c \in ChunkIds, NEW d \in ChunkIds,
           Strength(leg[c]) >= Strength(leg[d])
    PROVE  /\ MinMaxNormalize(leg, c) \in {0, 20} /\ MinMaxNormalize(leg, d) \in {0, 20}
           /\ MinMaxNormalize(leg, c) >= MinMaxNormalize(leg, d)
<1>1. leg \in [ChunkIds -> TriRaw]
  BY DEF LegRaw, TriRaw
<1>2. leg[c] \in {NoHit, 1, 2} /\ leg[d] \in {NoHit, 1, 2} /\ NoHit \notin {1, 2} /\ NoHit # Scan
      /\ Scan \notin {1, 2}
  BY SearchAssumption DEF LegRaw
<1>3. /\ MinMaxNormalize(leg, c) \in {0, 20} /\ MinMaxNormalize(leg, d) \in {0, 20}
      /\ leg[c] = 2 => MinMaxNormalize(leg, c) = 20
      /\ leg[d] = NoHit => MinMaxNormalize(leg, d) = 0
      /\ leg[c] = 1 /\ leg[d] = 1 => MinMaxNormalize(leg, c) = MinMaxNormalize(leg, d)
  BY <1>1, NormalizeKeepsOrder
<1>4. leg[c] = 2 \/ leg[d] = NoHit \/ (leg[c] = 1 /\ leg[d] = 1)
  BY <1>2 DEF Strength
<1>5. MinMaxNormalize(leg, c) = 20 \/ MinMaxNormalize(leg, d) = 0
        \/ MinMaxNormalize(leg, c) = MinMaxNormalize(leg, d)
  BY <1>3, <1>4
<1> HIDE DEF MinMaxNormalize
<1> QED BY <1>3, <1>5

\* A match is lifted above every chunk that only the scan found, and a better
\* match above a worse one.
LEMMA TriScoreIsMonotone ==
    ASSUME tri \in [ChunkIds -> TriRaw], NEW c \in ChunkIds, NEW d \in ChunkIds
    PROVE  /\ TriScore(c) \in 0..20
           /\ Strength(tri[c]) > Strength(tri[d]) => TriScore(c) > TriScore(d)
           /\ tri[c] = 2 => TriScore(c) = 20
<1>1. ASSUME NEW x \in ChunkIds, NEW y \in ChunkIds
      PROVE  /\ tri[x] \in {NoHit, Scan, 1, 2}
             /\ MinMaxNormalize(tri, x) \in {0, 20}
             /\ tri[x] = 2 => MinMaxNormalize(tri, x) = 20
             /\ tri[x] = 1 /\ tri[y] = 2 => MinMaxNormalize(tri, x) = 0
  BY NormalizeKeepsOrder DEF TriRaw
<1>2. /\ NoHit \notin {1, 2} /\ Scan \notin {1, 2} /\ NoHit # Scan
  BY SearchAssumption
<1>3. ASSUME NEW x \in ChunkIds
      PROVE  /\ tri[x] = NoHit => TriScore(x) = 0 /\ Strength(tri[x]) = -1
             /\ tri[x] = Scan => TriScore(x) = 2 /\ Strength(tri[x]) = 0
             /\ tri[x] = 1 => TriScore(x) = 4 + (16 * MinMaxNormalize(tri, x)) \div 20
                              /\ Strength(tri[x]) = 1
             /\ tri[x] = 2 => TriScore(x) = 4 + (16 * MinMaxNormalize(tri, x)) \div 20
                              /\ Strength(tri[x]) = 2
  BY <1>2 DEF TriScore, Strength, ScanFloorScore, MatchFloorScore
<1>4. (16 * 20) \div 20 = 16 /\ (16 * 0) \div 20 = 0
  OBVIOUS
<1>5. ASSUME NEW x \in ChunkIds, NEW y \in ChunkIds
      PROVE  /\ tri[x] = 2 => TriScore(x) = 20
             /\ tri[x] = 1 => TriScore(x) = 4 \/ TriScore(x) = 20
             /\ tri[x] = 1 /\ tri[y] = 2 => TriScore(x) = 4
  BY <1>1, <1>3, <1>4
<1>6. TriScore(c) \in 0..20
  BY <1>1, <1>3, <1>5
<1>7. ASSUME Strength(tri[c]) > Strength(tri[d]) PROVE TriScore(c) > TriScore(d)
  <2>1. CASE tri[d] = NoHit
    BY <1>1, <1>3, <1>5, <1>7, <2>1
  <2>2. CASE tri[d] = Scan
    BY <1>1, <1>3, <1>5, <1>7, <2>2
  <2>3. CASE tri[d] = 1
    <3>1. tri[c] = 2
      BY <1>1, <1>3, <1>7, <2>3
    <3> QED BY <1>5, <2>3, <3>1
  <2>4. CASE tri[d] = 2
    BY <1>1, <1>3, <1>7, <2>4
  <2> QED BY <1>1, <2>1, <2>2, <2>3, <2>4
<1> QED BY <1>5, <1>6, <1>7

\* The fused score is a number, and grows with every leg.
LEMMA FusedIsMonotone ==
    ASSUME SearchInv, NEW c \in ChunkIds, NEW d \in ChunkIds
    PROVE  /\ Fused(c) \in Nat
           /\ /\ Strength(tri[c]) > Strength(tri[d])
              /\ Strength(uni[c]) >= Strength(uni[d])
              /\ embedOk => Strength(vec[c]) >= Strength(vec[d])
              => Fused(c) > Fused(d)
<1> DEFINE Tri(x) == TriScore(x)
           Uni(x) == MinMaxNormalize(uni, x)
           Vec(x) == MinMaxNormalize(vec, x)
<1>0. /\ tri \in [ChunkIds -> TriRaw] /\ embedOk \in BOOLEAN
      /\ uni \in [ChunkIds -> LegRaw] /\ vec \in [ChunkIds -> LegRaw]
      /\ uni \in [ChunkIds -> TriRaw] /\ vec \in [ChunkIds -> TriRaw]
  BY DEF SearchInv, LegRaw, TriRaw
<1>1. ASSUME NEW x \in ChunkIds
      PROVE  Tri(x) \in 0..20 /\ Uni(x) \in {0, 20} /\ Vec(x) \in {0, 20}
  BY <1>0, TriScoreIsMonotone, NormalizeKeepsOrder
<1>2. ASSUME NEW x \in ChunkIds
      PROVE  Fused(x) = IF embedOk THEN 3 * Tri(x) + 2 * Uni(x) + 5 * Vec(x)
                        ELSE 6 * Tri(x) + 4 * Uni(x)
  <2> HIDE DEF Tri, Uni, Vec
  <2>0. Fused(x) = Weights.tri * Tri(x) + Weights.uni * Uni(x)
                     + (IF embedOk THEN Weights.vec * Vec(x) ELSE 0)
    BY DEF Fused, Tri, Uni, Vec
  <2>1. CASE embedOk
    <3>1. Weights.tri = 3 /\ Weights.uni = 2 /\ Weights.vec = 5
      BY <2>1 DEF Weights
    <3> QED BY <2>0, <2>1, <3>1, <1>1
  <2>2. CASE ~embedOk
    <3>1. Weights.tri = 6 /\ Weights.uni = 4
      BY <2>2 DEF Weights
    <3> QED BY <2>0, <2>2, <3>1, <1>1
  <2> QED BY <2>1, <2>2
<1>3. ASSUME Strength(tri[c]) > Strength(tri[d]), Strength(uni[c]) >= Strength(uni[d]),
             embedOk => Strength(vec[c]) >= Strength(vec[d])
      PROVE  Fused(c) > Fused(d)
  <2>1. Tri(c) > Tri(d) /\ Uni(c) >= Uni(d) /\ (embedOk => Vec(c) >= Vec(d))
    BY <1>0, <1>3, TriScoreIsMonotone, NormalizeIsMonotone
  <2> HIDE DEF Tri, Uni, Vec
  <2>2. CASE embedOk
    BY <1>1, <1>2, <2>1, <2>2
  <2>3. CASE ~embedOk
    BY <1>1, <1>2, <2>1, <2>3
  <2> QED BY <2>2, <2>3
<1> HIDE DEF Tri, Uni, Vec
<1>4. Fused(c) \in Nat
  BY <1>1, <1>2
<1> QED BY <1>3, <1>4

\* Better is a strict order of the found chunks, and one of two is better.
LEMMA BeforeIsStrictOrder ==
    ASSUME SearchInv
    PROVE  /\ Found \subseteq ChunkIds
           /\ \A x \in Found : ~Before(x, x)
           /\ \A x, y \in Found : x # y => Before(x, y) \/ Before(y, x)
           /\ \A x, y, z \in Found : Before(x, y) /\ Before(y, z) => Before(x, z)
<1>1. Found \subseteq ChunkIds /\ \A x \in Found : x \in Nat
  BY SearchAssumption DEF Found
<1>2. \A x \in Found : Fused(x) \in Nat
  BY <1>1, FusedIsMonotone
<1> QED BY <1>1, <1>2 DEF Before

\* The number of better chunks tells the found chunks apart, grows from a
\* better to a worse one, and takes every value below their number.
LEMMA RankIsPlace ==
    ASSUME SearchInv
    PROVE  /\ Cardinality(Found) \in Nat
           /\ \A x \in Found : Rank(x) \in 0..(Cardinality(Found) - 1)
           /\ \A x, y \in Found : Before(x, y) => Rank(x) < Rank(y)
           /\ \A x, y \in Found : Rank(x) = Rank(y) => x = y
           /\ \A n \in 1..Cardinality(Found) : \E x \in Found : Rank(x) = n - 1
<1>0. IsFiniteSet(Found) /\ Cardinality(Found) \in Nat
  BY BeforeIsStrictOrder, SearchAssumption, FS_Subset, FS_CardinalityType
<1> DEFINE Ahead(x) == {d \in Found : Before(d, x)}
<1>1. ASSUME NEW x \in Found
      PROVE  IsFiniteSet(Ahead(x)) /\ Rank(x) = Cardinality(Ahead(x)) /\ Rank(x) \in Nat
  <2>1. Ahead(x) \in SUBSET Found
    OBVIOUS
  <2> QED BY <1>0, <2>1, FS_Subset, FS_CardinalityType DEF Rank
<1>2. ASSUME NEW x \in Found PROVE Rank(x) \in 0..(Cardinality(Found) - 1)
  <2>1. Ahead(x) \in SUBSET Found /\ Ahead(x) # Found
    BY BeforeIsStrictOrder
  <2>2. Cardinality(Ahead(x)) <= Cardinality(Found) /\ Cardinality(Ahead(x)) # Cardinality(Found)
    BY <1>0, <2>1, FS_Subset
  <2> HIDE DEF Ahead
  <2> QED BY <1>0, <1>1, <2>2
<1>3. ASSUME NEW x \in Found, NEW y \in Found, Before(x, y) PROVE Rank(x) < Rank(y)
  <2>1. Ahead(x) \in SUBSET Ahead(y) /\ Ahead(x) # Ahead(y)
    BY <1>3, BeforeIsStrictOrder
  <2>2. Cardinality(Ahead(x)) <= Cardinality(Ahead(y)) /\ Cardinality(Ahead(x)) # Cardinality(Ahead(y))
    BY <1>1, <2>1, FS_Subset
  <2> HIDE DEF Ahead
  <2> QED BY <1>1, <2>2
<1>4. ASSUME NEW x \in Found, NEW y \in Found, Rank(x) = Rank(y) PROVE x = y
  <2>0. Rank(x) \in Nat /\ Rank(y) \in Nat
    BY <1>1
  <2> HIDE DEF Ahead
  <2>1. ~Before(x, y) /\ ~Before(y, x)
    BY <2>0, <1>3, <1>4
  <2> QED BY <2>1, BeforeIsStrictOrder
<1>5. ASSUME NEW n \in 1..Cardinality(Found) PROVE \E x \in Found : Rank(x) = n - 1
  <2> DEFINE places == 0..(Cardinality(Found) - 1)
             rank == [x \in Found |-> Rank(x)]
  <2>1. IsFiniteSet(places) /\ Cardinality(places) = Cardinality(Found)
    <3>1. 0 \in Int /\ Cardinality(Found) - 1 \in Int
      BY <1>0
    <3>2. /\ IsFiniteSet(places)
          /\ Cardinality(places) = IF 0 > Cardinality(Found) - 1 THEN 0
                                   ELSE (Cardinality(Found) - 1) - 0 + 1
      BY <3>1, FS_Interval
    <3> QED BY <1>0, <3>2
  <2>2. rank \in [Found -> places] /\ \A x \in Found : rank[x] = Rank(x)
    BY <1>2
  <2>3. \A x, y \in Found : rank[x] = rank[y] => x = y
    BY <1>4, <2>2
  <2> HIDE DEF rank, places
  <2>4. rank \in Injection(Found, places)
    BY <2>2, <2>3 DEF Injection, IsInjective
  <2>5. rank \in Surjection(Found, places)
    BY <1>0, <2>1, <2>4, FS_Injection
  <2>6. n - 1 \in places
    BY <1>0 DEF places
  <2>7. PICK x \in Found : rank[x] = n - 1
    BY <2>5, <2>6 DEF Surjection
  <2> QED BY <2>2, <2>7
<1> QED BY <1>0, <1>2, <1>3, <1>4, <1>5

\* An answer lists found chunks, at the place after those that are better,
\* and no more than k of them.
LEMMA HitsAreRanked ==
    ASSUME SearchInv, searched
    PROVE  /\ Len(hits) \in Nat /\ Len(hits) <= TopK
           /\ \A n \in 1..Len(hits) : hits[n] \in Found /\ Rank(hits[n]) = n - 1
           /\ \A x \in Found : Rank(x) < Len(hits) => hits[Rank(x) + 1] = x
<1> DEFINE size == Cardinality(Found)
           ranked == [n \in 1..size |->
                        CHOOSE c \in Found : Cardinality({d \in Found : Before(d, c)}) = n - 1]
           top == IF Len(ranked) > TopK THEN TopK ELSE Len(ranked)
<1>0. size \in Nat /\ TopK \in Nat
  BY RankIsPlace, SearchAssumption
<1>1. \A n \in 1..size : ranked[n] \in Found /\ Rank(ranked[n]) = n - 1
  <2> SUFFICES ASSUME NEW n \in 1..size PROVE ranked[n] \in Found /\ Rank(ranked[n]) = n - 1
    OBVIOUS
  <2>1. \E x \in Found : Cardinality({d \in Found : Before(d, x)}) = n - 1
    BY RankIsPlace DEF Rank
  <2>2. ranked[n] = CHOOSE x \in Found : Cardinality({d \in Found : Before(d, x)}) = n - 1
    OBVIOUS
  <2> HIDE DEF ranked
  <2>3. ranked[n] \in Found /\ Cardinality({d \in Found : Before(d, ranked[n])}) = n - 1
    BY <2>1, <2>2
  <2> QED BY <2>3 DEF Rank
<1>2. ranked \in Seq(Found) /\ Len(ranked) = size
  <2>1. ranked \in [1..size -> Found]
    BY <1>1
  <2> HIDE DEF ranked, size
  <2> QED BY <1>0, <2>1
<1>3. hits = SubSeq(ranked, 1, top)
  BY DEF SearchInv, Search
<1> HIDE DEF ranked
<1>4. top \in Nat /\ top <= size /\ top <= TopK
  <2> HIDE DEF size
  <2> QED BY <1>0, <1>2
<1> HIDE DEF top, size
<1>5. Len(hits) = top /\ \A n \in 1..top : hits[n] = ranked[n]
  BY <1>2, <1>3, <1>4
<1>6. \A n \in 1..Len(hits) : hits[n] \in Found /\ Rank(hits[n]) = n - 1
  BY <1>0, <1>1, <1>4, <1>5
<1>7. ASSUME NEW x \in Found, Rank(x) < Len(hits) PROVE hits[Rank(x) + 1] = x
  <2>1. Rank(x) \in Nat
    BY RankIsPlace
  <2>2. Rank(x) + 1 \in 1..Len(hits) /\ (Rank(x) + 1) - 1 = Rank(x)
    BY <1>4, <1>5, <1>7, <2>1
  <2>3. hits[Rank(x) + 1] \in Found /\ Rank(hits[Rank(x) + 1]) = Rank(x)
    BY <1>6, <2>2
  <2> QED BY <2>3, RankIsPlace
<1> QED BY <1>4, <1>5, <1>6, <1>7

\* A found chunk has its rank for a place, or the one after the last.
LEMMA PlaceIsRank ==
    ASSUME SearchInv, searched, NEW c \in ChunkIds
    PROVE  /\ Place(c) \in 1..(TopK + 1)
           /\ c \notin Found => Place(c) = TopK + 1
           /\ c \in Found => Place(c) = IF Rank(c) < Len(hits) THEN Rank(c) + 1 ELSE TopK + 1
<1>0. /\ Len(hits) \in Nat /\ Len(hits) <= TopK /\ TopK \in Nat
      /\ \A n \in 1..Len(hits) : hits[n] \in Found /\ Rank(hits[n]) = n - 1
      /\ \A x \in Found : Rank(x) < Len(hits) => hits[Rank(x) + 1] = x
      /\ \A x \in Found : Rank(x) \in Nat
  BY HitsAreRanked, RankIsPlace, SearchAssumption
<1>1. CASE \E n \in 1..Len(hits) : hits[n] = c
  <2>1. Place(c) \in 1..Len(hits) /\ hits[Place(c)] = c
    BY <1>1 DEF Place
  <2>2. c \in Found /\ Rank(c) = Place(c) - 1
    BY <1>0, <2>1
  <2> QED BY <1>0, <2>1, <2>2
<1>2. CASE ~\E n \in 1..Len(hits) : hits[n] = c
  <2>1. Place(c) = TopK + 1
    BY <1>2 DEF Place
  <2>2. c \in Found => ~(Rank(c) < Len(hits))
    <3> SUFFICES ASSUME c \in Found, Rank(c) < Len(hits) PROVE FALSE
      OBVIOUS
    <3>1. hits[Rank(c) + 1] = c /\ Rank(c) + 1 \in 1..Len(hits)
      BY <1>0
    <3> QED BY <3>1, <1>2
  <2> QED BY <1>0, <2>1, <2>2
<1> QED BY <1>1, <1>2

\* A query starts without an answer.
LEMMA InitSearch == SearchInit => SearchInv
<1> SUFFICES ASSUME SearchInit PROVE SearchInv
  OBVIOUS
<1>1. vec \in [ChunkIds -> LegRaw]
  <2>1. CASE embedOk
    BY <2>1 DEF SearchInit
  <2>2. CASE ~embedOk
    BY <2>2 DEF SearchInit, LegRaw
  <2> QED BY <2>1, <2>2
<1> QED BY <1>1 DEF SearchInit, SearchInv

\* The answer comes from the legs, which stay.
LEMMA SearchStep == SearchInv /\ [HandleSearch]_searchVars => SearchInv'
<1> SUFFICES ASSUME SearchInv, [HandleSearch]_searchVars PROVE SearchInv'
  OBVIOUS
<1>1. UNCHANGED <<tri, uni, vec, embedOk>>
  BY DEF HandleSearch, searchVars
<1>2. Search' = Search
  BY <1>1 DEF Search, Found, Before, Fused, Weights, TriScore, MinMaxNormalize, Hit
<1>3. searched' \in BOOLEAN /\ (searched' => hits' = Search)
  <2>1. CASE HandleSearch
    BY <1>2, <2>1 DEF HandleSearch
  <2>2. CASE UNCHANGED searchVars
    BY <1>2, <2>2 DEF searchVars, SearchInv
  <2> QED BY <2>1, <2>2
<1> QED BY <1>1, <1>2, <1>3 DEF SearchInv

\* For any chunks, k and scores: what is better in the text leg and nowhere
\* worse is never ranked below, cut or not, and a search without the embedder
\* keeps its scale.
THEOREM RankingIsFair == SearchSafety => []RankingIsSound
<1>1. ASSUME SearchInv PROVE RankingRespectsLegs
  <2> SUFFICES ASSUME searched, NEW c \in ChunkIds, NEW d \in ChunkIds,
                      Strength(tri[c]) > Strength(tri[d]),
                      Strength(uni[c]) >= Strength(uni[d]),
                      embedOk => Strength(vec[c]) >= Strength(vec[d])
               PROVE  Place(c) <= Place(d)
    BY DEF RankingRespectsLegs
  <2>0. /\ TopK \in Nat /\ Len(hits) \in Nat /\ Len(hits) <= TopK
        /\ Place(c) \in 1..(TopK + 1) /\ Place(d) \in 1..(TopK + 1)
    BY <1>1, PlaceIsRank, HitsAreRanked, SearchAssumption
  <2>1. Fused(c) > Fused(d)
    BY <1>1, FusedIsMonotone
  <2>2. c \in Found
    BY SearchAssumption, <1>1 DEF Found, Strength, SearchInv, TriRaw
  <2>3. CASE d \notin Found
    BY <1>1, <2>0, <2>3, PlaceIsRank
  <2>4. CASE d \in Found
    <3>1. Rank(c) < Rank(d) /\ Rank(c) \in Nat /\ Rank(d) \in Nat
      BY <1>1, <2>1, <2>2, <2>4, RankIsPlace DEF Before
    <3>2. /\ Place(c) = IF Rank(c) < Len(hits) THEN Rank(c) + 1 ELSE TopK + 1
          /\ Place(d) = IF Rank(d) < Len(hits) THEN Rank(d) + 1 ELSE TopK + 1
      BY <1>1, <2>2, <2>4, PlaceIsRank
    <3> QED BY <2>0, <3>1, <3>2
  <2> QED BY <2>3, <2>4
<1>2. ASSUME SearchInv PROVE DegradedKeepsScale
  <2> SUFFICES ASSUME ~embedOk, NEW c \in ChunkIds, Strength(tri[c]) = 2, Strength(uni[c]) = 2
               PROVE  Fused(c) = 200
    BY DEF DegradedKeepsScale
  <2>1. tri[c] \in {NoHit, Scan, 1, 2} /\ uni[c] \in {NoHit, 1, 2}
    BY <1>2 DEF SearchInv, TriRaw, LegRaw
  <2>2. tri[c] = 2 /\ uni[c] = 2
    BY <2>1, SearchAssumption DEF Strength
  <2>3. TriScore(c) = 20 /\ MinMaxNormalize(uni, c) = 20
    <3>1. uni \in [ChunkIds -> TriRaw] /\ tri \in [ChunkIds -> TriRaw]
      BY <1>2 DEF SearchInv, TriRaw, LegRaw
    <3> QED BY <2>2, <3>1, TriScoreIsMonotone, NormalizeKeepsOrder
  <2>4. Weights.tri = 6 /\ Weights.uni = 4
    BY DEF Weights
  <2>5. Fused(c) = Weights.tri * 20 + Weights.uni * 20 + 0
    BY <2>3 DEF Fused
  <2> QED BY <2>4, <2>5
<1>3. SearchInv => RankingIsSound
  BY <1>1, <1>2 DEF RankingIsSound
<1> QED BY <1>3, InitSearch, SearchStep, PTL DEF SearchSafety

-----------------------------------------------------------------------------
(***************************************************************************)
(* The search index against the files, for any files, texts, walks and     *)
(* backfills.  A walk answers for the files nobody changed since it began: *)
(* what it has seen is indexed as it is on disk, what is there is seen or  *)
(* still to do, and what it has not seen was not there.                    *)
(***************************************************************************)
IndexSafety == IndexInit /\ [][IndexNext]_indexVars

AnyText == MdTexts \cup {NoText}
WalkRows == [pc : {"idle", "next", "index", "remove"}, full : BOOLEAN, todo : SUBSET MdFiles,
             seen : SUBSET MdFiles, file : MdFiles \cup {"none"}, text : AnyText]

IndexTypes ==
    /\ disk \in [MdFiles -> AnyText]
    /\ episode \in [MdFiles -> [status : {"none", "active", "deleted"}, hash : AnyText]]
    /\ chunks \subseteq [id : Nat, file : MdFiles, text : MdTexts] /\ IsFiniteSet(chunks)
    /\ walk \in WalkRows

\* An indexed file has one chunk, with the text of its episode; another has
\* none.
OneChunk(f) ==
    IF episode[f].status = "active"
    THEN \E c \in chunks : ChunksOf(f) = {c} /\ c.text = episode[f].hash
    ELSE ChunksOf(f) = {}

UniqueIds ==
    /\ \A c1, c2 \in chunks : c1.id = c2.id => c1 = c2
    /\ \A v1, v2 \in vectors : v1.id = v2.id => v1 = v2

\* What the walk under way knows of a file.
WalkKnows(f) ==
    /\ f \in missing \cup walk.todo \cup walk.seen
    /\ f \notin changed =>
          /\ disk[f] = NoText => f \notin walk.todo \cup walk.seen
          /\ disk[f] # NoText => f \in walk.todo \cup walk.seen
          /\ walk.pc = "index" /\ walk.file = f => walk.text = disk[f]
          /\ f \in walk.seen /\ ~(walk.pc = "index" /\ walk.file = f) =>
                episode[f].status = "active" /\ episode[f].hash = disk[f]

WalkOK ==
    /\ walk.pc # "idle" => \A f \in MdFiles : WalkKnows(f)
    /\ walk.pc = "index" => walk.file \in walk.seen /\ walk.text \in MdTexts
    /\ walk.pc = "remove" => walk.todo = {}

IndexInv == IndexTypes /\ (\A f \in MdFiles : OneChunk(f)) /\ UniqueIds /\ WalkOK

\* Nothing is indexed at the start.
LEMMA InitIndex == IndexInit => IndexInv
<1> SUFFICES ASSUME IndexInit PROVE IndexInv
  OBVIOUS
<1>1. IndexTypes
  BY FS_EmptySet DEF IndexInit, IndexTypes, AnyText, WalkRows, IdleWalk
<1>2. \A f \in MdFiles : OneChunk(f)
  BY DEF IndexInit, OneChunk, ChunksOf
<1>3. UniqueIds /\ WalkOK
  BY DEF IndexInit, UniqueIds, WalkOK, IdleWalk
<1> QED BY <1>1, <1>2, <1>3 DEF IndexInv

\* A finite set of rows that is not empty has one with the largest id.
LEMMA LargestId ==
    ASSUME NEW rows, IsFiniteSet(rows), \A c \in rows : c.id \in Nat, rows # {}
    PROVE  \E c \in rows : \A d \in rows : c.id >= d.id
<1> DEFINE Good == {s \in SUBSET rows : s = {} \/ \E c \in s : \A d \in s : c.id >= d.id}
<1>1. \A s \in SUBSET rows : s # {} /\ s \ {Pick(s)} \in Good => s \in Good
  <2> SUFFICES ASSUME NEW s \in SUBSET rows, s # {}, s \ {Pick(s)} \in Good PROVE s \in Good
    OBVIOUS
  <2>0. Pick(s) \in s /\ Pick(s).id \in Nat
    BY Smaller
  <2>1. CASE s \ {Pick(s)} = {}
    <3>1. \A d \in s : Pick(s).id >= d.id
      BY <2>0, <2>1
    <3> QED BY <2>0, <3>1
  <2>2. CASE s \ {Pick(s)} # {}
    <3>1. PICK c \in s \ {Pick(s)} : \A d \in s \ {Pick(s)} : c.id >= d.id
      BY <2>2
    <3>2. CASE c.id >= Pick(s).id
      <4>1. \A d \in s : c.id >= d.id
        BY <3>1, <3>2
      <4> QED BY <3>1, <4>1
    <3>3. CASE ~(c.id >= Pick(s).id)
      <4>1. \A d \in s : Pick(s).id >= d.id
        BY <2>0, <3>1, <3>3
      <4> QED BY <2>0, <4>1
    <3> QED BY <3>2, <3>3
  <2> QED BY <2>1, <2>2
<1>2. Good \in SUBSET (SUBSET rows) /\ {} \in Good
  OBVIOUS
<1> HIDE DEF Good
<1>3. Good = SUBSET rows
  BY <1>1, <1>2, SubsetInduction
<1>4. rows \in Good
  BY <1>3
<1> QED BY <1>4 DEF Good

\* The next id is above every one in use.
LEMMA NextIdIsFree ==
    ASSUME NEW rows, IsFiniteSet(rows), \A c \in rows : c.id \in Nat
    PROVE  NextId(rows) \in Nat /\ \A c \in rows : c.id < NextId(rows)
<1>1. CASE rows = {}
  BY <1>1 DEF NextId
<1>2. CASE rows # {}
  <2> DEFINE ids == {c.id : c \in rows}
  <2>1. PICK top \in rows : \A d \in rows : top.id >= d.id
    BY <1>2, LargestId
  <2>2. top.id \in ids /\ \A y \in ids : top.id >= y
    BY <2>1
  <2>3. Max(ids) \in ids /\ \A y \in ids : Max(ids) >= y
    <3> HIDE DEF ids
    <3> QED BY <2>2 DEF Max
  <2>4. Max(ids) \in Nat /\ \A c \in rows : c.id <= Max(ids)
    BY <2>3
  <2>5. NextId(rows) = Max(ids) + 1
    BY <1>2 DEF NextId
  <2> HIDE DEF ids
  <2> QED BY <2>4, <2>5
<1> QED BY <1>1, <1>2

\* What a transaction that indexes a text does to its file, and to no other.
LEMMA TextIndexed ==
    ASSUME IndexTypes, \A f \in MdFiles : OneChunk(f), UniqueIds,
           NEW f \in MdFiles, NEW text \in MdTexts, NEW full \in BOOLEAN,
           IndexText(f, text, full)
    PROVE  /\ episode' \in [MdFiles -> [status : {"none", "active", "deleted"}, hash : AnyText]]
           /\ chunks' \subseteq [id : Nat, file : MdFiles, text : MdTexts] /\ IsFiniteSet(chunks')
           /\ \A g \in MdFiles : OneChunk(g)'
           /\ UniqueIds'
           /\ episode'[f].status = "active" /\ episode'[f].hash = text
           /\ \A g \in MdFiles \ {f} : episode'[g] = episode[g]
<1>1. CASE Unchanged(f, text, full)
  <2>1. UNCHANGED <<episode, chunks, vectors>>
    BY <1>1 DEF IndexText
  <2> QED BY <1>1, <2>1 DEF Unchanged, OneChunk, ChunksOf, UniqueIds, IndexTypes
<1>2. CASE ~Unchanged(f, text, full)
  <2> DEFINE rest == chunks \ ChunksOf(f)
             new == [id |-> NextId(rest), file |-> f, text |-> text]
  <2>1. /\ episode' = [episode EXCEPT ![f] = [status |-> "active", hash |-> text]]
        /\ chunks' = rest \cup {new}
        /\ vectors' \subseteq vectors
    BY <1>2 DEF IndexText, ReplaceChunks
  <2>2. IsFiniteSet(rest) /\ \A c \in rest : c.id \in Nat
    BY FS_Difference DEF IndexTypes
  <2>3. NextId(rest) \in Nat /\ \A c \in rest : c.id < NextId(rest)
    BY <2>2, NextIdIsFree
  <2>4. new.id = NextId(rest) /\ new.file = f /\ new.text = text
        /\ new \in [id : Nat, file : MdFiles, text : MdTexts]
    BY <2>3
  <2>5. /\ chunks' \subseteq [id : Nat, file : MdFiles, text : MdTexts]
        /\ IsFiniteSet(chunks')
    <3>1. IsFiniteSet(rest \cup {new})
      BY <2>2, FS_AddElement
    <3> HIDE DEF new
    <3> QED BY <2>1, <2>4, <3>1 DEF IndexTypes
  <2>6. /\ episode' \in [MdFiles -> [status : {"none", "active", "deleted"}, hash : AnyText]]
        /\ episode'[f].status = "active" /\ episode'[f].hash = text
        /\ \A g \in MdFiles \ {f} : episode'[g] = episode[g]
    BY <2>1 DEF IndexTypes, AnyText
  <2>7. \A c1, c2 \in chunks' : c1.id = c2.id => c1 = c2
    <3> SUFFICES ASSUME NEW c1 \in chunks', NEW c2 \in chunks', c1.id = c2.id PROVE c1 = c2
      OBVIOUS
    <3> HIDE DEF new
    <3>1. \A c \in rest : c.id # new.id
      BY <2>2, <2>3, <2>4
    <3>2. \A d1, d2 \in rest : d1.id = d2.id => d1 = d2
      BY DEF UniqueIds
    <3> HIDE DEF rest
    <3> QED BY <2>1, <3>1, <3>2
  <2>8. UniqueIds'
    BY <2>1, <2>7 DEF UniqueIds
  <2>9. ASSUME NEW g \in MdFiles PROVE OneChunk(g)'
    <3>1. \A c \in rest : c.file # f
      BY DEF ChunksOf
    <3> HIDE DEF new
    <3>2. CASE g = f
      <4>1. ChunksOf(g)' = {new}
        BY <2>1, <2>4, <3>1, <3>2 DEF ChunksOf
      <4>2. new \in chunks' /\ new.text = episode'[g].hash /\ episode'[g].status = "active"
        BY <2>1, <2>4, <2>6, <3>2
      <4> QED BY <4>1, <4>2 DEF OneChunk
    <3>3. CASE g # f
      <4>1. ChunksOf(g)' = ChunksOf(g)
        BY <2>1, <2>4, <3>3 DEF ChunksOf
      <4>2. episode'[g] = episode[g]
        BY <2>6, <3>3
      <4>3. \A c \in ChunksOf(g) : c \in chunks'
        BY <4>1 DEF ChunksOf
      <4> QED BY <4>1, <4>2, <4>3 DEF OneChunk
    <3> QED BY <3>2, <3>3
  <2> QED BY <2>5, <2>6, <2>8, <2>9
<1> QED BY <1>1, <1>2

\* What a removal does to its file, and to no other.
LEMMA EpisodeRemoved ==
    ASSUME IndexTypes, \A f \in MdFiles : OneChunk(f), UniqueIds,
           NEW f \in MdFiles, RemoveEpisode(f)
    PROVE  /\ episode' \in [MdFiles -> [status : {"none", "active", "deleted"}, hash : AnyText]]
           /\ chunks' \subseteq [id : Nat, file : MdFiles, text : MdTexts] /\ IsFiniteSet(chunks')
           /\ \A g \in MdFiles : OneChunk(g)'
           /\ UniqueIds'
           /\ episode'[f].status = "deleted"
           /\ \A g \in MdFiles \ {f} : episode'[g] = episode[g]
<1>1. /\ episode' = [episode EXCEPT ![f].status = "deleted"]
      /\ chunks' = chunks \ ChunksOf(f)
      /\ vectors' \subseteq vectors
  BY DEF RemoveEpisode, WithoutChunks
<1>2. /\ episode' \in [MdFiles -> [status : {"none", "active", "deleted"}, hash : AnyText]]
      /\ episode'[f].status = "deleted"
      /\ \A g \in MdFiles \ {f} : episode'[g] = episode[g]
  BY <1>1 DEF IndexTypes
<1>3. chunks' \subseteq [id : Nat, file : MdFiles, text : MdTexts] /\ IsFiniteSet(chunks')
  BY <1>1, FS_Difference DEF IndexTypes
<1>4. UniqueIds'
  BY <1>1 DEF UniqueIds
<1>5. ASSUME NEW g \in MdFiles PROVE OneChunk(g)'
  <2>1. CASE g = f
    <3>1. ChunksOf(g)' = {}
      BY <1>1, <2>1 DEF ChunksOf
    <3> QED BY <1>2, <2>1, <3>1 DEF OneChunk
  <2>2. CASE g # f
    <3>1. ChunksOf(g)' = ChunksOf(g)
      BY <1>1, <2>2 DEF ChunksOf
    <3>2. episode'[g] = episode[g]
      BY <1>2, <2>2
    <3>3. \A c \in ChunksOf(g) : c \in chunks'
      BY <3>1 DEF ChunksOf
    <3> QED BY <3>1, <3>2, <3>3 DEF OneChunk
  <2> QED BY <2>1, <2>2
<1> QED BY <1>2, <1>3, <1>4, <1>5

\* A change on disk is noted against the walk.
LEMMA ChangeStep ==
    ASSUME IndexInv, NEW f \in MdFiles, NEW text \in MdTexts \cup {NoText}, ChangeFile(f, text)
    PROVE  IndexInv'
<1>1. /\ UNCHANGED <<episode, chunks, vectors, walk>>
      /\ disk' = [disk EXCEPT ![f] = text] /\ changed' = changed \cup {f}
      /\ missing \subseteq missing'
  BY DEF ChangeFile
<1>2. IndexTypes'
  BY <1>1 DEF IndexInv, IndexTypes, AnyText
<1>3. (\A g \in MdFiles : OneChunk(g)') /\ UniqueIds'
  BY <1>1 DEF IndexInv, OneChunk, ChunksOf, UniqueIds
<1>4. ASSUME NEW g \in MdFiles, WalkKnows(g) PROVE WalkKnows(g)'
  <2>1. g \notin changed' => g \notin changed /\ disk'[g] = disk[g]
    BY <1>1 DEF IndexInv, IndexTypes
  <2> QED BY <1>1, <1>4, <2>1 DEF WalkKnows
<1>5. WalkOK'
  BY <1>1, <1>4 DEF IndexInv, WalkOK
<1> QED BY <1>2, <1>3, <1>5 DEF IndexInv

\* A walk begins with the files that are there.
LEMMA StartWalkStep ==
    ASSUME IndexInv, NEW full \in BOOLEAN, StartReindex(full)
    PROVE  IndexInv'
<1> DEFINE here == {f \in MdFiles : disk[f] # NoText}
<1>1. /\ UNCHANGED <<disk, episode, chunks, vectors>>
      /\ walk' = [IdleWalk EXCEPT !.pc = "next", !.full = full, !.todo = here]
      /\ changed' = {} /\ missing' = {f \in MdFiles : disk[f] = NoText}
  BY DEF StartReindex
<1>2. /\ walk' \in WalkRows /\ walk'.pc = "next" /\ walk'.todo = here /\ walk'.seen = {}
  <2>1. walk' = [pc |-> "next", full |-> full, todo |-> here, seen |-> {}, file |-> "none",
                 text |-> NoText]
    BY <1>1 DEF IdleWalk
  <2>2. here \in SUBSET MdFiles
    OBVIOUS
  <2> HIDE DEF here
  <2> QED BY <2>1, <2>2 DEF WalkRows, AnyText
<1>3. IndexTypes'
  BY <1>1, <1>2 DEF IndexInv, IndexTypes
<1>4. (\A g \in MdFiles : OneChunk(g)') /\ UniqueIds'
  BY <1>1 DEF IndexInv, OneChunk, ChunksOf, UniqueIds
<1>5. ASSUME NEW g \in MdFiles PROVE WalkKnows(g)'
  BY <1>1, <1>2 DEF WalkKnows
<1>6. WalkOK'
  BY <1>2, <1>5 DEF WalkOK
<1> QED BY <1>3, <1>4, <1>6 DEF IndexInv

\* Reading a file marks it as seen, and holds what was on disk.
LEMMA ReadStep ==
    ASSUME IndexInv, NEW f \in MdFiles, ReadFile(f)
    PROVE  IndexInv'
<1>1. /\ walk.pc = "next" /\ f \in walk.todo
      /\ UNCHANGED <<disk, episode, chunks, vectors, changed, missing>>
      /\ walk' = [walk EXCEPT !.todo = walk.todo \ {f}, !.seen = walk.seen \cup {f},
                              !.pc = IF disk[f] = NoText THEN "next" ELSE "index",
                              !.file = f, !.text = disk[f]]
  BY DEF ReadFile
<1>2. walk \in WalkRows /\ disk[f] \in AnyText
  BY DEF IndexInv, IndexTypes
<1>3. /\ walk' \in WalkRows /\ walk'.pc = (IF disk[f] = NoText THEN "next" ELSE "index")
      /\ walk'.todo = walk.todo \ {f} /\ walk'.seen = walk.seen \cup {f}
      /\ walk'.file = f /\ walk'.text = disk[f]
  BY <1>1, <1>2 DEF WalkRows
<1>4. IndexTypes'
  BY <1>1, <1>3 DEF IndexInv, IndexTypes
<1>5. (\A g \in MdFiles : OneChunk(g)') /\ UniqueIds'
  BY <1>1 DEF IndexInv, OneChunk, ChunksOf, UniqueIds
<1>6. ASSUME NEW g \in MdFiles PROVE WalkKnows(g)'
  <2>1. WalkKnows(g)
    BY <1>1 DEF IndexInv, WalkOK
  <2>2. CASE g = f
    BY <1>1, <1>3, <2>1, <2>2 DEF WalkKnows
  <2>3. CASE g # f
    BY <1>1, <1>3, <2>1, <2>3 DEF WalkKnows
  <2> QED BY <2>2, <2>3
<1>7. walk'.pc = "index" => walk'.file \in walk'.seen /\ walk'.text \in MdTexts
  BY <1>2, <1>3 DEF AnyText
<1>8. WalkOK'
  BY <1>3, <1>6, <1>7 DEF WalkOK
<1> QED BY <1>4, <1>5, <1>8 DEF IndexInv

\* A transaction indexes the text that was read, or the file counts as
\* changed.
LEMMA ProcessStep == ASSUME IndexInv, ProcessFile PROVE IndexInv'
<1> DEFINE f == walk.file
<1>1. /\ walk.pc = "index" /\ UNCHANGED <<disk, missing>>
      /\ walk' = [walk EXCEPT !.pc = "next"]
      /\ \/ IndexText(f, walk.text, walk.full) /\ changed' = changed
         \/ UNCHANGED <<episode, chunks, vectors>> /\ changed' = changed \cup {f}
  BY DEF ProcessFile, WalkTo
<1>2. /\ walk \in WalkRows /\ f \in walk.seen /\ walk.text \in MdTexts /\ f \in MdFiles
      /\ walk.full \in BOOLEAN
  BY <1>1 DEF IndexInv, IndexTypes, WalkOK, WalkRows
<1>3. /\ walk' \in WalkRows /\ walk'.pc = "next" /\ walk'.todo = walk.todo /\ walk'.seen = walk.seen
  BY <1>1, <1>2 DEF WalkRows
<1>4. \A g \in MdFiles : WalkKnows(g)
  BY <1>1 DEF IndexInv, WalkOK
<1>5. CASE IndexText(f, walk.text, walk.full) /\ changed' = changed
  <2>1. /\ episode' \in [MdFiles -> [status : {"none", "active", "deleted"}, hash : AnyText]]
        /\ chunks' \subseteq [id : Nat, file : MdFiles, text : MdTexts] /\ IsFiniteSet(chunks')
        /\ \A g \in MdFiles : OneChunk(g)'
        /\ UniqueIds'
        /\ episode'[f].status = "active" /\ episode'[f].hash = walk.text
        /\ \A g \in MdFiles \ {f} : episode'[g] = episode[g]
    BY <1>2, <1>5, TextIndexed DEF IndexInv
  <2>2. IndexTypes'
    BY <1>1, <1>3, <2>1 DEF IndexInv, IndexTypes
  <2>3. ASSUME NEW g \in MdFiles PROVE WalkKnows(g)'
    <3>1. CASE g = f
      BY <1>1, <1>2, <1>3, <1>4, <1>5, <2>1, <3>1 DEF WalkKnows
    <3>2. CASE g # f
      BY <1>1, <1>2, <1>3, <1>4, <1>5, <2>1, <3>2 DEF WalkKnows
    <3> QED BY <3>1, <3>2
  <2>4. WalkOK'
    BY <1>3, <2>3 DEF WalkOK
  <2> QED BY <2>1, <2>2, <2>4 DEF IndexInv
<1>6. CASE UNCHANGED <<episode, chunks, vectors>> /\ changed' = changed \cup {f}
  <2>1. IndexTypes'
    BY <1>1, <1>3, <1>6 DEF IndexInv, IndexTypes
  <2>2. (\A g \in MdFiles : OneChunk(g)') /\ UniqueIds'
    BY <1>6 DEF IndexInv, OneChunk, ChunksOf, UniqueIds
  <2>3. ASSUME NEW g \in MdFiles PROVE WalkKnows(g)'
    BY <1>1, <1>3, <1>4, <1>6 DEF WalkKnows
  <2>4. WalkOK'
    BY <1>3, <2>3 DEF WalkOK
  <2> QED BY <2>1, <2>2, <2>4 DEF IndexInv
<1> QED BY <1>1, <1>5, <1>6

\* A walk turns to the removals when nothing is left to do, and ends when it
\* is cancelled or nothing is left to remove.
LEMMA WalkStep ==
    ASSUME IndexInv, RemovalPass \/ CancelReindex \/ FinishReindex
    PROVE  IndexInv'
<1>0. walk \in WalkRows
  BY DEF IndexInv, IndexTypes
<1>1. /\ UNCHANGED <<disk, episode, chunks, vectors, changed, missing>>
      /\ \/ /\ walk.pc = "next" /\ walk.todo = {} /\ walk'.pc = "remove" /\ walk' \in WalkRows
            /\ walk'.todo = walk.todo /\ walk'.seen = walk.seen
         \/ walk' = IdleWalk
  BY <1>0 DEF RemovalPass, CancelReindex, FinishReindex, WalkTo, WalkRows
<1>2. walk' \in WalkRows
  <2>1. IdleWalk \in WalkRows
    BY DEF IdleWalk, WalkRows, AnyText
  <2> QED BY <1>1, <2>1
<1>3. IndexTypes'
  BY <1>1, <1>2 DEF IndexInv, IndexTypes
<1>4. (\A g \in MdFiles : OneChunk(g)') /\ UniqueIds'
  BY <1>1 DEF IndexInv, OneChunk, ChunksOf, UniqueIds
<1>5. CASE walk' = IdleWalk
  <2>1. WalkOK'
    BY <1>5 DEF WalkOK, IdleWalk
  <2> QED BY <1>3, <1>4, <2>1 DEF IndexInv
<1>6. CASE ~(walk' = IdleWalk)
  <2>1. ASSUME NEW g \in MdFiles PROVE WalkKnows(g)'
    <3>1. WalkKnows(g)
      BY <1>1, <1>6 DEF IndexInv, WalkOK
    <3> QED BY <1>1, <1>6, <3>1 DEF WalkKnows
  <2>2. WalkOK'
    BY <1>1, <1>6, <2>1 DEF WalkOK
  <2> QED BY <1>3, <1>4, <2>2 DEF IndexInv
<1> QED BY <1>5, <1>6

\* What was not seen is removed.
LEMMA RemoveStep ==
    ASSUME IndexInv, NEW f \in MdFiles, RemoveGone(f)
    PROVE  IndexInv'
<1>1. /\ walk.pc = "remove" /\ f \notin walk.seen /\ RemoveEpisode(f)
      /\ UNCHANGED <<disk, walk, changed, missing>>
  BY DEF RemoveGone, Gone
<1>2. /\ episode' \in [MdFiles -> [status : {"none", "active", "deleted"}, hash : AnyText]]
      /\ chunks' \subseteq [id : Nat, file : MdFiles, text : MdTexts] /\ IsFiniteSet(chunks')
      /\ \A g \in MdFiles : OneChunk(g)'
      /\ UniqueIds'
      /\ \A g \in MdFiles \ {f} : episode'[g] = episode[g]
  BY <1>1, EpisodeRemoved DEF IndexInv
<1>3. IndexTypes'
  BY <1>1, <1>2 DEF IndexInv, IndexTypes
<1>4. ASSUME NEW g \in MdFiles PROVE WalkKnows(g)'
  <2>1. WalkKnows(g)
    BY <1>1 DEF IndexInv, WalkOK
  <2>2. CASE g = f
    BY <1>1, <2>1, <2>2 DEF WalkKnows
  <2>3. CASE g # f
    BY <1>1, <1>2, <2>1, <2>3 DEF WalkKnows
  <2> QED BY <2>2, <2>3
<1>5. WalkOK'
  BY <1>1, <1>4 DEF IndexInv, WalkOK
<1> QED BY <1>2, <1>3, <1>5 DEF IndexInv

\* A single file is indexed or removed only when no walk is under way.
LEMMA ReindexFileStep ==
    ASSUME IndexInv, NEW f \in MdFiles, ReindexFile(f)
    PROVE  IndexInv'
<1>1. /\ walk.pc = "idle" /\ UNCHANGED <<disk, walk, changed, missing>>
      /\ IF disk[f] # NoText THEN IndexText(f, disk[f], FALSE) ELSE RemoveEpisode(f)
  BY DEF ReindexFile
<1>2. disk[f] # NoText => disk[f] \in MdTexts
  BY DEF IndexInv, IndexTypes, AnyText
<1>3. /\ episode' \in [MdFiles -> [status : {"none", "active", "deleted"}, hash : AnyText]]
      /\ chunks' \subseteq [id : Nat, file : MdFiles, text : MdTexts] /\ IsFiniteSet(chunks')
      /\ \A g \in MdFiles : OneChunk(g)'
      /\ UniqueIds'
  <2>1. CASE disk[f] # NoText
    <3>1. IndexText(f, disk[f], FALSE) /\ FALSE \in BOOLEAN
      BY <1>1, <2>1
    <3> QED BY <1>2, <2>1, <3>1, TextIndexed DEF IndexInv
  <2>2. CASE disk[f] = NoText
    <3>1. RemoveEpisode(f)
      BY <1>1, <2>2
    <3> QED BY <3>1, EpisodeRemoved DEF IndexInv
  <2> QED BY <2>1, <2>2
<1>4. IndexTypes'
  BY <1>1, <1>3 DEF IndexInv, IndexTypes
<1>5. WalkOK'
  BY <1>1 DEF IndexInv, WalkOK
<1> QED BY <1>3, <1>4, <1>5 DEF IndexInv

\* A backfill writes vectors only, one of a chunk at a time.
LEMMA BackfillStep ==
    ASSUME IndexInv, NEW b \in Fillers,
           \/ \E full \in BOOLEAN : SelectTargets(b, full)
           \/ \E c \in filler[b].rows : UpsertVector(b, c)
           \/ BackfillDone(b)
    PROVE  IndexInv'
<1>1. UNCHANGED <<disk, episode, chunks, walk, changed, missing>>
  BY DEF SelectTargets, UpsertVector, BackfillDone
<1>2. \A v1, v2 \in vectors' : v1.id = v2.id => v1 = v2
  <2>1. CASE UNCHANGED vectors
    BY <2>1 DEF IndexInv, UniqueIds
  <2>2. ASSUME NEW c \in filler[b].rows, UpsertVector(b, c)
        PROVE  \A v1, v2 \in vectors' : v1.id = v2.id => v1 = v2
    <3> DEFINE others == {v \in vectors : v.id # c.id}
               row == [id |-> c.id, text |-> c.text]
    <3>1. vectors' \in {vectors, others, others \cup {row}}
      BY <2>2 DEF UpsertVector
    <3>2. row.id = c.id /\ \A v \in others : v.id # c.id
      OBVIOUS
    <3>3. \A v1, v2 \in vectors : v1.id = v2.id => v1 = v2
      BY DEF IndexInv, UniqueIds
    <3>4. others \subseteq vectors
      OBVIOUS
    <3> HIDE DEF row, others
    <3> QED BY <3>1, <3>2, <3>3, <3>4
  <2> QED BY <2>1, <2>2 DEF SelectTargets, BackfillDone
<1>3. IndexTypes' /\ (\A g \in MdFiles : OneChunk(g)') /\ UniqueIds'
  BY <1>1, <1>2 DEF IndexInv, IndexTypes, OneChunk, ChunksOf, UniqueIds
<1>4. WalkOK'
  BY <1>1 DEF IndexInv, WalkOK, WalkKnows
<1> QED BY <1>3, <1>4 DEF IndexInv

\* Every step of the files, the indexer and the backfills keeps the invariant.
LEMMA IndexStep == IndexInv /\ [IndexNext]_indexVars => IndexInv'
<1> SUFFICES ASSUME IndexInv, [IndexNext]_indexVars PROVE IndexInv'
  OBVIOUS
<1>1. CASE UNCHANGED indexVars
  BY <1>1 DEF indexVars, IndexInv, IndexTypes, OneChunk, ChunksOf, UniqueIds, WalkOK, WalkKnows
<1>2. ASSUME NEW f \in MdFiles, ReadFile(f) \/ RemoveGone(f) \/ ReindexFile(f) PROVE IndexInv'
  BY <1>2, ReadStep, RemoveStep, ReindexFileStep
<1>3. ASSUME NEW f \in MdFiles, NEW text \in MdTexts \cup {NoText}, ChangeFile(f, text)
      PROVE  IndexInv'
  BY <1>3, ChangeStep
<1>4. ASSUME NEW full \in BOOLEAN, StartReindex(full) PROVE IndexInv'
  BY <1>4, StartWalkStep
<1>5. CASE ProcessFile \/ RemovalPass \/ CancelReindex \/ FinishReindex
  BY <1>5, ProcessStep, WalkStep
<1>6. ASSUME NEW b \in Fillers,
             \/ \E full \in BOOLEAN : SelectTargets(b, full)
             \/ \E c \in filler[b].rows : UpsertVector(b, c)
             \/ BackfillDone(b)
      PROVE  IndexInv'
  BY <1>6, BackfillStep
<1> QED BY <1>1, <1>2, <1>3, <1>4, <1>5, <1>6 DEF IndexNext

\* For any files, texts, walks and backfills: a file has one chunk or none, a
\* walk that ran to its end leaves the index equal to the disk where nobody
\* wrote meanwhile, and no walk drops a file that was there all the time.
THEOREM IndexIsFaithful == IndexSafety => IndexFollowsDisk
<1>1. IndexInv => IndexTypeOK
  <2> SUFFICES ASSUME IndexInv PROVE IndexTypeOK
    OBVIOUS
  <2>1. ASSUME NEW f \in MdFiles
        PROVE  /\ episode[f].status \in {"none", "active", "deleted"}
               /\ Cardinality(ChunksOf(f)) = IF episode[f].status = "active" THEN 1 ELSE 0
    <3>1. OneChunk(f)
      BY DEF IndexInv
    <3>2. Cardinality({}) = 0 /\ \A c : Cardinality({c}) = 1
      BY FS_EmptySet, FS_Singleton
    <3>3. episode[f].status \in {"none", "active", "deleted"}
      BY DEF IndexInv, IndexTypes
    <3> QED BY <3>1, <3>2, <3>3 DEF OneChunk
  <2> QED BY <2>1 DEF IndexInv, UniqueIds, IndexTypeOK
<1>2. IndexInv /\ [IndexNext]_indexVars => [NoLiveFileDropped /\ ReindexSettles]_indexVars
  <2> SUFFICES ASSUME IndexInv, IndexNext PROVE NoLiveFileDropped /\ ReindexSettles
    OBVIOUS
  <2>1. ASSUME NEW f \in MdFiles, episode[f].status = "active", episode'[f].status = "deleted",
               walk.pc # "idle"
        PROVE  f \in missing
    <3>1. WalkKnows(f)
      BY <2>1 DEF IndexInv, WalkOK
    <3>2. ASSUME NEW g \in MdFiles, RemoveGone(g) PROVE f \in missing
      <4>1. walk.pc = "remove" /\ g \notin walk.seen /\ RemoveEpisode(g)
        BY <3>2 DEF RemoveGone, Gone
      <4>2. walk.todo = {}
        BY <4>1 DEF IndexInv, WalkOK
      <4>3. episode' = [episode EXCEPT ![g].status = "deleted"]
        BY <4>1 DEF RemoveEpisode
      <4>4. g = f
        BY <2>1, <4>3 DEF IndexInv, IndexTypes
      <4> QED BY <3>1, <4>1, <4>2, <4>4 DEF WalkKnows
    <3>3. CASE ProcessFile
      <4>1. walk.file \in MdFiles /\ walk.text \in MdTexts /\ walk.full \in BOOLEAN
        BY <3>3 DEF ProcessFile, IndexInv, IndexTypes, WalkOK, WalkRows
      <4>2. CASE UNCHANGED episode
        BY <4>2, <2>1
      <4>3. CASE IndexText(walk.file, walk.text, walk.full)
        <5>1. /\ episode'[walk.file].status = "active"
              /\ \A g \in MdFiles \ {walk.file} : episode'[g] = episode[g]
          BY <4>1, <4>3, TextIndexed DEF IndexInv
        <5> QED BY <2>1, <5>1
      <4> QED BY <3>3, <4>2, <4>3 DEF ProcessFile
    <3>4. CASE UNCHANGED episode
      BY <2>1, <3>4
    <3> QED BY <2>1, <3>2, <3>3, <3>4 DEF IndexNext, ChangeFile, StartReindex, ReadFile, ReindexFile,
              RemovalPass, CancelReindex, FinishReindex, SelectTargets, UpsertVector, BackfillDone
  <2>2. ASSUME FinishReindex, NEW f \in MdFiles \ changed
        PROVE  {c.text : c \in ChunksOf(f)} = {disk[f]} \ {NoText}
    <3>1. walk.pc = "remove" /\ Gone = {} /\ walk.todo = {}
      BY <2>2 DEF FinishReindex, IndexInv, WalkOK
    <3>2. WalkKnows(f) /\ OneChunk(f)
      BY <3>1 DEF IndexInv, WalkOK
    <3>3. CASE disk[f] = NoText
      <4>1. f \notin walk.seen
        BY <3>2, <3>3 DEF WalkKnows
      <4>2. episode[f].status # "active"
        BY <3>1, <4>1 DEF Gone
      <4> QED BY <3>2, <3>3, <4>2 DEF OneChunk
    <3>4. CASE disk[f] # NoText
      <4>1. episode[f].status = "active" /\ episode[f].hash = disk[f]
        BY <3>1, <3>2, <3>4 DEF WalkKnows
      <4>2. PICK c \in chunks : ChunksOf(f) = {c} /\ c.text = disk[f]
        BY <3>2, <4>1 DEF OneChunk
      <4> QED BY <3>4, <4>2
    <3> QED BY <3>3, <3>4
  <2> QED BY <2>1, <2>2 DEF NoLiveFileDropped, ReindexSettles
<1> QED BY <1>1, <1>2, InitIndex, IndexStep, PTL DEF IndexSafety, IndexFollowsDisk

-----------------------------------------------------------------------------
(***************************************************************************)
(* The nightly run and the markdown repository, for any number of          *)
(* passages, files, nights, edits and crashes.  Two invariants: one for    *)
(* consent and the queue of suggestions, whatever the switches are, and    *)
(* one for the user's words, which needs the memory tools to keep away     *)
(* from files with open edits.                                             *)
(***************************************************************************)
ConsSafety == ConsInit /\ [][ConsNext]_consVars

BranchRows == [base : Nat, from : Contents, text : Contents]
PendingRows == [trace : 1..MaxRuns, day : 1..MaxDays]
RunRows == [pc : {"idle", "touched", "supersede", "read", "worktree", "sessions", "commit",
                  "pending", "cleanup"},
            trace : 0..MaxRuns, touched : SUBSET Passages, read : Contents, old : Nat]
DecRows == [pc : {"idle", "rebase", "merge", "delete", "ledger"}, op : {"none", "approve", "auto"},
            trace : 0..MaxRuns, day : 0..MaxDays]

ConsTypes ==
    /\ main \in Contents /\ work \in Contents /\ version \in Nat
    /\ dayBase \in Contents \cup {NoBase}
    /\ branches \in [1..MaxDays -> BranchRows \cup {NoBranch}]
    /\ pendings \in Seq(PendingRows)
    /\ run \in RunRows /\ dec \in DecRows
    /\ today \in 1..MaxDays /\ ranOn \in 0..MaxDays /\ runs \in 0..MaxRuns
    /\ resolved \subseteq 1..runs

\* One run a day: what is pending or being approved is of an earlier day than
\* the run under way, which is the last one.
OneRunADay ==
    /\ ranOn <= today
    /\ dayBase # NoBase => ranOn = today
    /\ run.pc # "idle" => ranOn = today /\ run.trace = runs /\ runs > 0
    /\ run.pc = "sessions" => branches[today] # NoBranch
    /\ \A i \in 1..Len(pendings) :
          /\ pendings[i].trace <= runs /\ pendings[i].day <= ranOn
          /\ run.pc # "idle" => pendings[i].day < today
    /\ dec.pc # "idle" =>
          /\ dec.trace \in 1..runs /\ dec.day \in 1..ranOn
          /\ run.pc # "idle" => dec.day < today

\* A branch is a suggestion on top of a main that was, or still is.
BasesAreMains ==
    \A d \in 1..MaxDays : branches[d] # NoBranch =>
        branches[d].base <= version /\ (branches[d].base = version => branches[d].from = main)

\* A run that gets to its own suggestion has settled all older ones.
QueueSettled ==
    /\ OnePending
    /\ run.pc \in {"read", "worktree", "sessions", "commit", "pending"} =>
          \A i \in 1..Len(pendings) : pendings[i].trace \in resolved
    /\ run.pc = "supersede" => run.old = Len(pendings) /\ run.old \in 1..Len(pendings)

\* The texts of runs in a tree are of the given ones.
RunsOf(tree, ok) == \A x \in Passages : tree[x].by = "kahya" => tree[x].run \in ok

\* What is on main, on disk or under a branch was consented to; what a branch
\* adds to that is the suggestion of its own run.
ConsentKnown ==
    /\ RunsOf(main, consent) /\ RunsOf(work, consent)
    /\ run.pc \in {"worktree", "sessions"} => RunsOf(run.read, consent)
    /\ \A d \in 1..MaxDays : branches[d] # NoBranch => RunsOf(branches[d].from, consent)
    /\ \A i \in 1..Len(pendings) : branches[pendings[i].day] # NoBranch =>
          RunsOf(branches[pendings[i].day].text, consent \cup {pendings[i].trace})
    /\ dec.pc # "idle" =>
          /\ dec.trace \in consent
          /\ branches[dec.day] # NoBranch => RunsOf(branches[dec.day].text, consent)
    /\ run.pc \in {"sessions", "commit", "pending"} /\ branches[today] # NoBranch =>
          RunsOf(branches[today].text, consent \cup {runs})

ConsInv == ConsTypes /\ OneRunADay /\ BasesAreMains /\ QueueSettled /\ ConsentKnown

\* The user's last committed word in a passage is of the time when there had
\* been s runs: the passage is that word, or the text of a later run than the
\* one that committed it.
Since(t, s) == IF t.by = "user" THEN t.run = s ELSE IF t.by = "kahya" THEN t.run > s + 1 ELSE s = -1

Dirty(x) == work[x] # main[x]
LatestRun(x) == IF Dirty(x) THEN work[x].run ELSE runs
RunUpTo(t, n) == t.by = "kahya" => t.run <= n

\* A passage as the user's words see it: on main, on disk, in every branch and
\* in the run under way.
PassageKept(x, s) ==
    /\ s \in Int /\ -1 <= s /\ s < runs
    /\ Since(main[x], s) /\ RunUpTo(main[x], LatestRun(x))
    /\ Dirty(x) =>
          /\ work[x].by = "user" /\ s < work[x].run /\ work[x].run <= runs
          /\ run.pc # "idle" => work[x].run = runs

BranchKept(b, x, s) ==
    /\ b.from[x].by = "user" => b.from[x].run <= s
    /\ RunUpTo(b.from[x], LatestRun(x)) /\ RunUpTo(b.text[x], LatestRun(x))
    /\ Since(b.from[x], s) /\ b.text[x] # b.from[x] => Since(b.text[x], s) \/ Dirty(x)

RunKept(x, s) ==
    /\ run.pc = "touched" /\ s = runs - 1 => dayBase # NoBase /\ dayBase[x] # Text("user", runs - 1)
    /\ run.pc \in {"supersede", "read", "worktree", "sessions"} /\ s = runs - 1 => x \in run.touched
    /\ run.pc \in {"worktree", "sessions"} =>
          RunUpTo(run.read[x], LatestRun(x)) /\ (Since(run.read[x], s) \/ Dirty(x))
    /\ run.pc = "sessions" /\ branches[today] # NoBranch => Since(branches[today].from[x], s)

WordKept(x, s) ==
    /\ PassageKept(x, s) /\ RunKept(x, s)
    /\ \A d \in 1..MaxDays : branches[d] # NoBranch => BranchKept(branches[d], x, s)

WordsInv == \A x \in Passages \ retold : \E s \in Int : WordKept(x, s)

\* A step does not put the text of a run over a word of the user that is
\* newer than the run before it, on main or on disk.
WordStays(x) ==
    /\ main'[x] # main[x] /\ main'[x].by = "kahya" =>
          main[x].by # "user" \/ main[x].run + 1 < main'[x].run
    /\ work'[x] # work[x] /\ work'[x].by = "kahya" =>
          work[x].by # "user" \/ work[x].run + 1 < work'[x].run

\* The first day, with nothing written and nothing suggested.
LEMMA InitCons == ConsInit => ConsInv
<1> SUFFICES ASSUME ConsInit PROVE ConsInv
  OBVIOUS
<1>0. MaxRuns \in Nat /\ MaxDays \in Nat /\ MaxDays > 0
  BY ConsolidationAssumption
<1>1. main \in Contents /\ work \in Contents /\ IdleRun.read \in Contents
      /\ \A x \in Passages : main[x].by = "old" /\ work[x].by = "old"
  BY <1>0 DEF ConsInit, Contents, Texts, Text, IdleRun
<1>2. run \in RunRows /\ dec \in DecRows /\ run.pc = "idle" /\ dec.pc = "idle"
  BY <1>0, <1>1 DEF ConsInit, IdleRun, IdleDec, RunRows, DecRows
<1>3. ConsTypes
  BY <1>0, <1>1, <1>2 DEF ConsInit, ConsTypes
<1>4. OneRunADay /\ BasesAreMains /\ QueueSettled
  BY <1>0, <1>2 DEF ConsInit, OneRunADay, BasesAreMains, QueueSettled, OnePending
<1>5. ConsentKnown
  BY <1>0, <1>1, <1>2 DEF ConsInit, ConsentKnown, RunsOf
<1> QED BY <1>3, <1>4, <1>5 DEF ConsInv

\* What the types say of the parts, and what a run or a request becomes.
LEMMA ConsParts ==
    ASSUME ConsTypes
    PROVE  /\ MaxRuns \in Nat /\ MaxDays \in Nat /\ version \in Nat
           /\ main \in Contents /\ work \in Contents /\ run.read \in Contents
           /\ run.pc \in {"idle", "touched", "supersede", "read", "worktree", "sessions", "commit",
                          "pending", "cleanup"}
           /\ run.trace \in 0..MaxRuns /\ run.touched \in SUBSET Passages /\ run.old \in Nat
           /\ dec.pc \in {"idle", "rebase", "merge", "delete", "ledger"}
           /\ dec.op \in {"none", "approve", "auto"}
           /\ dec.trace \in 0..MaxRuns /\ dec.day \in 0..MaxDays
           /\ today \in 1..MaxDays /\ ranOn \in 0..MaxDays /\ runs \in 0..MaxRuns
           /\ Len(pendings) \in Nat
           /\ \A i \in 1..Len(pendings) :
                 pendings[i].trace \in 1..MaxRuns /\ pendings[i].day \in 1..MaxDays
           /\ \A d \in 1..MaxDays : branches[d] # NoBranch =>
                 /\ branches[d] \in BranchRows /\ branches[d].base \in Nat
                 /\ branches[d].from \in Contents /\ branches[d].text \in Contents
<1>1. /\ MaxRuns \in Nat /\ MaxDays \in Nat /\ version \in Nat
      /\ main \in Contents /\ work \in Contents
      /\ today \in 1..MaxDays /\ ranOn \in 0..MaxDays /\ runs \in 0..MaxRuns
  BY ConsolidationAssumption DEF ConsTypes
<1>2. /\ run.read \in Contents
      /\ run.pc \in {"idle", "touched", "supersede", "read", "worktree", "sessions", "commit",
                     "pending", "cleanup"}
      /\ run.trace \in 0..MaxRuns /\ run.touched \in SUBSET Passages /\ run.old \in Nat
  BY DEF ConsTypes, RunRows
<1>3. /\ dec.pc \in {"idle", "rebase", "merge", "delete", "ledger"}
      /\ dec.op \in {"none", "approve", "auto"}
      /\ dec.trace \in 0..MaxRuns /\ dec.day \in 0..MaxDays
  BY DEF ConsTypes, DecRows
<1>4. Len(pendings) \in Nat /\ \A i \in 1..Len(pendings) :
         pendings[i].trace \in 1..MaxRuns /\ pendings[i].day \in 1..MaxDays
  <2>1. pendings \in Seq(PendingRows)
    BY DEF ConsTypes
  <2>2. Len(pendings) \in Nat /\ \A i \in 1..Len(pendings) : pendings[i] \in PendingRows
    BY <2>1, LenProperties, ElementOfSeq
  <2> QED BY <2>2 DEF PendingRows
<1>5. \A d \in 1..MaxDays : branches[d] # NoBranch =>
         /\ branches[d] \in BranchRows /\ branches[d].base \in Nat
         /\ branches[d].from \in Contents /\ branches[d].text \in Contents
  BY DEF ConsTypes, BranchRows
<1> QED BY <1>1, <1>2, <1>3, <1>4, <1>5

\* The user writes, or a day goes by: nothing of a run is consented to or
\* queued by that.
LEMMA UserStep ==
    ASSUME ConsInv, NEW x \in Passages, UserEdit(x)
    PROVE  ConsInv'
<1>0. MaxRuns \in Nat /\ runs \in 0..MaxRuns /\ work \in Contents
  BY ConsParts DEF ConsInv
<1>1. /\ work' = [work EXCEPT ![x] = Text("user", runs)]
      /\ UNCHANGED <<main, version, dayBase, branches, pendings, resolved, run, dec, today, ranOn,
                     runs, consent>>
  BY DEF UserEdit, ledgerVars
<1>2. work' \in Contents /\ \A y \in Passages : work'[y].by = "kahya" => work'[y] = work[y]
  BY <1>0, <1>1 DEF Contents, Texts, Text
<1>3. ConsTypes'
  BY <1>1, <1>2 DEF ConsInv, ConsTypes
<1>4. OneRunADay' /\ BasesAreMains' /\ QueueSettled'
  BY <1>1 DEF ConsInv, OneRunADay, BasesAreMains, QueueSettled, OnePending
<1>5. ConsentKnown'
  BY <1>1, <1>2 DEF ConsInv, ConsentKnown, RunsOf
<1> QED BY <1>3, <1>4, <1>5 DEF ConsInv

\* A day begins without a first commit of the user.
LEMMA DayStep == ASSUME ConsInv, NextDay PROVE ConsInv'
<1>0. MaxDays \in Nat /\ today \in 1..MaxDays /\ ranOn \in 0..MaxDays
  BY ConsParts DEF ConsInv
<1>1. /\ run.pc = "idle" /\ today < MaxDays /\ today' = today + 1 /\ dayBase' = NoBase
      /\ UNCHANGED <<main, version, work, branches, pendings, resolved, run, dec, ranOn, runs,
                     consent>>
  BY DEF NextDay, ledgerVars
<1>3. ConsTypes'
  BY <1>0, <1>1 DEF ConsInv, ConsTypes
<1>4. OneRunADay' /\ BasesAreMains' /\ QueueSettled'
  BY <1>0, <1>1 DEF ConsInv, OneRunADay, BasesAreMains, QueueSettled, OnePending
<1>5. ConsentKnown'
  BY <1>1 DEF ConsInv, ConsentKnown, RunsOf
<1> QED BY <1>3, <1>4, <1>5 DEF ConsInv

\* A memory tool commits what is on disk of one file.
LEMMA ToolStep ==
    ASSUME ConsInv, NEW f \in Files, NEW told, NEW by \in {"note", "gone"}, MemoryTool(f, told, by)
    PROVE  ConsInv'
<1>0. MaxRuns \in Nat /\ work \in Contents /\ main \in Contents /\ version \in Nat
  BY ConsParts DEF ConsInv
<1>1. /\ work' = [x \in Passages |-> IF x \in told THEN Text(by, 0) ELSE work[x]]
      /\ main' = [x \in Passages |-> IF x \in PassagesOf(f) THEN work'[x] ELSE main[x]]
      /\ version' = version + 1
      /\ UNCHANGED <<dayBase, branches, pendings, resolved, run, dec, today, ranOn, runs, consent>>
  BY DEF MemoryTool, ledgerVars
<1>2. work' \in Contents /\ \A y \in Passages : work'[y].by = "kahya" => work'[y] = work[y]
  BY <1>0, <1>1 DEF Contents, Texts, Text
<1>3. main' \in Contents
      /\ \A y \in Passages : main'[y].by = "kahya" => main'[y] = work[y] \/ main'[y] = main[y]
  BY <1>0, <1>1, <1>2 DEF Contents
<1>4. ConsTypes'
  BY <1>0, <1>1, <1>2, <1>3 DEF ConsInv, ConsTypes
<1>5. OneRunADay' /\ QueueSettled'
  BY <1>1 DEF ConsInv, OneRunADay, QueueSettled, OnePending
<1>6. BasesAreMains'
  <2>1. \A d \in 1..MaxDays : branches[d] # NoBranch => branches[d].base \in Nat
    BY ConsParts DEF ConsInv
  <2> QED BY <1>0, <1>1, <2>1 DEF ConsInv, BasesAreMains
<1>7. ConsentKnown'
  <2>1. RunsOf(main', consent) /\ RunsOf(work', consent)
    BY <1>2, <1>3 DEF ConsInv, ConsentKnown, RunsOf
  <2> QED BY <1>1, <2>1 DEF ConsInv, ConsentKnown, RunsOf
<1> QED BY <1>4, <1>5, <1>6, <1>7 DEF ConsInv

\* A run goes from one stage to the next with what it has.
LEMMA RunGoes ==
    ASSUME ConsTypes, NEW pc, RunTo(pc),
           pc \in {"idle", "touched", "supersede", "read", "worktree", "sessions", "commit",
                   "pending", "cleanup"}
    PROVE  /\ run' \in RunRows /\ run'.pc = pc
           /\ run'.trace = run.trace /\ run'.touched = run.touched /\ run'.read = run.read
           /\ run'.old = run.old
BY DEF RunTo, ConsTypes, RunRows

\* A run that is over.
LEMMA IdleRunOK == IdleRun \in RunRows /\ IdleRun.pc = "idle"
<1>1. MaxRuns \in Nat
  BY ConsolidationAssumption
<1>2. [x \in Passages |-> Text("old", 0)] \in Contents
  BY <1>1 DEF Contents, Texts, Text
<1> QED BY <1>1, <1>2 DEF IdleRun, RunRows

\* A run that ends where it is, or after its last step, or with the daemon,
\* leaves everything else as it was.
LEMMA RunOver ==
    ASSUME ConsInv, run'.pc \in {"idle", "cleanup"}, run' \in RunRows,
           run'.pc # "idle" => run.pc # "idle" /\ run'.trace = run.trace,
           dec' \in {dec, IdleDec},
           UNCHANGED <<main, version, work, dayBase, branches, pendings, resolved, today, ranOn,
                       runs, consent>>
    PROVE  ConsInv'
<1>1. dec' \in DecRows /\ (dec' = dec \/ dec'.pc = "idle")
  BY ConsolidationAssumption DEF ConsInv, ConsTypes, IdleDec, DecRows
<1>2. ConsTypes'
  BY <1>1 DEF ConsInv, ConsTypes
<1>3. OneRunADay'
  BY <1>1 DEF ConsInv, OneRunADay
<1>4. BasesAreMains' /\ QueueSettled'
  BY DEF ConsInv, BasesAreMains, QueueSettled, OnePending
<1>5. ConsentKnown'
  BY <1>1 DEF ConsInv, ConsentKnown, RunsOf
<1> QED BY <1>2, <1>3, <1>4, <1>5 DEF ConsInv

\* A failure, a death of the daemon.
LEMMA FailStep == ASSUME ConsInv, RunFails \/ ConsCrash PROVE ConsInv'
<1>0. IdleRun \in RunRows /\ IdleRun.pc = "idle" /\ ConsTypes
  BY IdleRunOK DEF ConsInv
<1>1. UNCHANGED <<main, version, work, dayBase, branches, pendings, resolved, today, ranOn, runs,
                  consent>>
  BY DEF RunFails, ConsCrash, repoVars, ledgerVars, countVars
<1>2. CASE RunFails
  <2>1. /\ run.pc # "idle" /\ dec' = dec
        /\ RunTo(IF run.pc \in {"sessions", "commit"} THEN "cleanup" ELSE "idle")
    BY <1>2 DEF RunFails
  <2>2. run' \in RunRows /\ run'.pc \in {"idle", "cleanup"} /\ run'.trace = run.trace
    BY <1>0, <2>1, RunGoes
  <2> QED BY <1>1, <2>1, <2>2, RunOver
<1>3. CASE ConsCrash
  <2>1. run' = IdleRun /\ dec' = IdleDec
    BY <1>3 DEF ConsCrash
  <2> QED BY <1>0, <1>1, <2>1, RunOver
<1> QED BY <1>2, <1>3

\* The night begins with a commit of the user, or is over at once.
LEMMA StartStep == ASSUME ConsInv, StartRun PROVE ConsInv'
<1>0. /\ MaxRuns \in Nat /\ MaxDays \in Nat /\ runs \in 0..MaxRuns /\ today \in 1..MaxDays
      /\ ranOn \in 0..MaxDays
      /\ main \in Contents /\ work \in Contents /\ version \in Nat
      /\ IdleRun \in RunRows /\ IdleRun.pc = "idle" /\ ConsTypes
  BY ConsParts, IdleRunOK DEF ConsInv
<1>1. /\ run.pc = "idle" /\ runs < MaxRuns /\ ranOn < today /\ ranOn' = today /\ runs' = runs + 1
      /\ UNCHANGED <<branches, pendings, resolved, dec, today, consent>>
      /\ run' \in {[IdleRun EXCEPT !.pc = "touched", !.trace = runs + 1], IdleRun}
  BY DEF StartRun, ledgerVars
<1>2. run' \in RunRows /\ (run'.pc = "idle" \/ (run'.pc = "touched" /\ run'.trace = runs + 1))
  <2>1. IdleRun \in RunRows /\ IdleRun.pc = "idle" /\ runs + 1 \in 0..MaxRuns
    BY <1>0, <1>1
  <2>2. CASE run' = IdleRun
    BY <2>1, <2>2
  <2>3. CASE run' = [IdleRun EXCEPT !.pc = "touched", !.trace = runs + 1]
    BY <2>1, <2>3 DEF RunRows
  <2> QED BY <1>1, <2>2, <2>3
<1>3. \/ UNCHANGED <<main, version, work, dayBase>>
      \/ /\ main' = work /\ version' = version + 1 /\ UNCHANGED work
         /\ dayBase' = IF dayBase = NoBase THEN main ELSE dayBase
  BY DEF StartRun, repoVars
<1>4. ConsTypes'
  <2>1. main' \in Contents /\ work' \in Contents /\ version' \in Nat
        /\ dayBase' \in Contents \cup {NoBase}
    BY <1>0, <1>3 DEF ConsInv, ConsTypes
  <2>2. resolved' \subseteq 1..runs' /\ runs' \in 0..MaxRuns /\ ranOn' \in 0..MaxDays
    BY <1>0, <1>1 DEF ConsInv, ConsTypes
  <2> QED BY <1>1, <1>2, <2>1, <2>2 DEF ConsInv, ConsTypes
<1>5. OneRunADay'
  <2>1. \A i \in 1..Len(pendings) : pendings[i].trace \in 1..MaxRuns /\ pendings[i].day \in 1..MaxDays
    BY ConsParts, <1>0
  <2>2. dec.trace \in 0..MaxRuns /\ dec.day \in 0..MaxDays
    BY ConsParts, <1>0
  <2>3. \A i \in 1..Len(pendings) : pendings[i].trace <= runs' /\ pendings[i].day < today
    BY <1>0, <1>1, <2>1 DEF ConsInv, OneRunADay
  <2>4. dec.pc # "idle" => dec.trace \in 1..runs' /\ dec.day \in 1..ranOn' /\ dec.day < today
    BY <1>0, <1>1, <2>2 DEF ConsInv, OneRunADay
  <2> QED BY <1>0, <1>1, <1>2, <2>1, <2>3, <2>4 DEF OneRunADay
<1>6. BasesAreMains'
  <2>1. \A d \in 1..MaxDays : branches[d] # NoBranch => branches[d].base \in Nat
    BY ConsParts DEF ConsInv
  <2> QED BY <1>0, <1>1, <1>3, <2>1 DEF ConsInv, BasesAreMains
<1>7. QueueSettled'
  BY <1>1, <1>2 DEF ConsInv, QueueSettled, OnePending
<1>8. ConsentKnown'
  <2>1. RunsOf(main', consent) /\ RunsOf(work', consent)
    BY <1>3 DEF ConsInv, ConsentKnown, RunsOf
  <2> QED BY <1>1, <1>2, <2>1 DEF ConsInv, ConsentKnown, RunsOf
<1> QED BY <1>4, <1>5, <1>6, <1>7, <1>8 DEF ConsInv

\* The pending suggestion is the last one, unless the ledger settled it.
LEMMA PendingIsLast ==
    ASSUME ConsInv
    PROVE  /\ FindPending \in Nat
           /\ FindPending # 0 => FindPending = Len(pendings) /\ FindPending \in 1..Len(pendings)
           /\ FindPending = 0 => \A i \in 1..Len(pendings) : pendings[i].trace \in resolved
<1>1. pendings \in Seq(PendingRows) /\ Len(pendings) \in Nat
  BY LenProperties DEF ConsInv, ConsTypes
<1>2. CASE pendings = <<>>
  BY <1>1, <1>2 DEF FindPending
<1>3. CASE pendings # <<>>
  <2>1. Len(pendings) \in 1..Len(pendings)
    BY <1>1, <1>3, EmptySeq
  <2>2. \A i \in 1..Len(pendings) : i < Len(pendings) => pendings[i].trace \in resolved
    BY DEF ConsInv, QueueSettled, OnePending
  <2>3. FindPending = IF pendings[Len(pendings)].trace \in resolved THEN 0 ELSE Len(pendings)
    BY <1>3 DEF FindPending
  <2>4. CASE pendings[Len(pendings)].trace \in resolved
    BY <1>1, <2>1, <2>2, <2>3, <2>4
  <2>5. CASE pendings[Len(pendings)].trace \notin resolved
    BY <1>1, <2>1, <2>3, <2>5
  <2> QED BY <2>4, <2>5
<1> QED BY <1>2, <1>3

\* The touched lines, and what was pending, are looked up before anything is
\* read.
LEMMA TouchedStep == ASSUME ConsInv, TouchedLines PROVE ConsInv'
<1>0. run \in RunRows /\ run.pc = "touched"
  BY DEF ConsInv, ConsTypes, TouchedLines
<1>1. /\ run' = [run EXCEPT !.touched = ComputeUserTouchedLines, !.old = FindPending,
                            !.pc = IF FindPending = 0 THEN "read" ELSE "supersede"]
      /\ UNCHANGED <<main, version, work, dayBase, branches, pendings, resolved, dec, today, ranOn,
                     runs, consent>>
  BY DEF TouchedLines, repoVars, ledgerVars, countVars
<1>2. ComputeUserTouchedLines \in SUBSET Passages
  BY DEF ComputeUserTouchedLines
<1>3. /\ run' \in RunRows /\ run'.trace = run.trace /\ run'.old = FindPending
      /\ run'.pc = IF FindPending = 0 THEN "read" ELSE "supersede"
  BY <1>0, <1>1, <1>2, PendingIsLast DEF RunRows
<1>4. ConsTypes' /\ OneRunADay' /\ BasesAreMains'
  BY <1>0, <1>1, <1>3 DEF ConsInv, ConsTypes, OneRunADay, BasesAreMains
<1>5. QueueSettled'
  BY <1>1, <1>3, PendingIsLast DEF ConsInv, QueueSettled, OnePending
<1>6. ConsentKnown'
  BY <1>0, <1>1, <1>3 DEF ConsInv, ConsentKnown, RunsOf
<1> QED BY <1>4, <1>5, <1>6 DEF ConsInv

\* Dropping a branch drops it, or does nothing.
LEMMA BranchDropped ==
    ASSUME ConsTypes, NEW day \in 1..MaxDays, DropBranch(day)
    PROVE  /\ branches' \in [1..MaxDays -> BranchRows \cup {NoBranch}]
           /\ \A d \in 1..MaxDays : branches'[d] # NoBranch => branches'[d] = branches[d]
           /\ \A d \in 1..MaxDays : d # day => branches'[d] = branches[d]
BY DEF DropBranch, ConsTypes

\* A dropped branch takes nothing with it but itself, whoever drops it.
LEMMA BranchGone ==
    ASSUME ConsInv, UNCHANGED <<main, work, version, pendings, today, runs, consent>>,
           run'.pc = run.pc \/ run'.pc = "idle" \/ (run.pc = "supersede" /\ run'.pc = "read"),
           run'.pc # "idle" => run'.read = run.read,
           dec' = dec \/ dec'.pc = "idle" \/ (dec.pc # "idle" /\ dec'.trace = dec.trace /\ dec'.day = dec.day),
           \A d \in 1..MaxDays : branches'[d] # NoBranch => branches'[d] = branches[d]
    PROVE  BasesAreMains' /\ ConsentKnown'
<1>1. BasesAreMains'
  BY DEF ConsInv, BasesAreMains
<1>2. today \in 1..MaxDays /\ \A i \in 1..Len(pendings) : pendings[i].day \in 1..MaxDays
  BY ConsParts DEF ConsInv
<1>3. dec.pc # "idle" => dec.day \in 1..MaxDays
  <2>1. dec.day \in 0..MaxDays /\ MaxDays \in Nat /\ ranOn \in 0..MaxDays
    BY ConsParts DEF ConsInv
  <2>2. dec.pc # "idle" => dec.day \in 1..ranOn
    BY DEF ConsInv, OneRunADay
  <2> QED BY <2>1, <2>2
<1>4. RunsOf(main', consent') /\ RunsOf(work', consent')
  BY DEF ConsInv, ConsentKnown, RunsOf
<1>5. run'.pc \in {"worktree", "sessions"} => RunsOf(run'.read, consent')
  BY DEF ConsInv, ConsentKnown
<1>6. \A d \in 1..MaxDays : branches'[d] # NoBranch => RunsOf(branches'[d].from, consent')
  BY DEF ConsInv, ConsentKnown
<1>7. \A i \in 1..Len(pendings') : branches'[pendings'[i].day] # NoBranch =>
          RunsOf(branches'[pendings'[i].day].text, consent' \cup {pendings'[i].trace})
  BY <1>2 DEF ConsInv, ConsentKnown
<1>8. dec'.pc # "idle" =>
          /\ dec'.trace \in consent'
          /\ branches'[dec'.day] # NoBranch => RunsOf(branches'[dec'.day].text, consent')
  BY <1>3 DEF ConsInv, ConsentKnown
<1>9. run'.pc \in {"sessions", "commit", "pending"} /\ branches'[today'] # NoBranch =>
          RunsOf(branches'[today'].text, consent' \cup {runs'})
  BY <1>2 DEF ConsInv, ConsentKnown
<1> QED BY <1>1, <1>4, <1>5, <1>6, <1>7, <1>8, <1>9 DEF ConsentKnown

\* The old suggestion is taken down and the ledger says so.
LEMMA SupersedeStep == ASSUME ConsInv, Supersede PROVE ConsInv'
<1>0. ConsTypes /\ run.pc = "supersede" /\ runs \in Nat /\ Len(pendings) \in Nat
  BY ConsParts DEF ConsInv, Supersede
<1>1. /\ DropBranch(pendings[run.old].day) /\ RunTo("read")
      /\ resolved' = resolved \cup {pendings[run.old].trace}
      /\ UNCHANGED <<main, version, work, dayBase, pendings, dec, today, ranOn, runs, consent>>
  BY DEF Supersede, repoVars, countVars
<1>2. run.old = Len(pendings) /\ run.old \in 1..Len(pendings)
  BY <1>0 DEF ConsInv, QueueSettled
<1>3. /\ pendings[run.old].trace \in 1..MaxRuns /\ pendings[run.old].day \in 1..MaxDays
      /\ pendings[run.old].trace <= runs
  BY <1>0, <1>2, ConsParts DEF ConsInv, OneRunADay
<1>4. run' \in RunRows /\ run'.pc = "read" /\ run'.trace = run.trace /\ run'.read = run.read
  BY <1>0, <1>1, RunGoes
<1>5. /\ branches' \in [1..MaxDays -> BranchRows \cup {NoBranch}]
      /\ \A d \in 1..MaxDays : branches'[d] # NoBranch => branches'[d] = branches[d]
  BY <1>0, <1>1, <1>3, BranchDropped
<1>6. resolved' \subseteq 1..runs
  <2>1. pendings[run.old].trace \in 1..runs
    BY <1>0, <1>3
  <2> QED BY <1>1, <2>1 DEF ConsInv, ConsTypes
<1>7. ConsTypes'
  BY <1>1, <1>4, <1>5, <1>6 DEF ConsInv, ConsTypes
<1>8. OneRunADay'
  BY <1>0, <1>1, <1>4 DEF ConsInv, OneRunADay
<1>9. QueueSettled'
  <2>1. \A i \in 1..Len(pendings) : pendings[i].trace \in resolved'
    BY <1>0, <1>1, <1>2 DEF ConsInv, QueueSettled, OnePending
  <2> QED BY <1>1, <1>4, <2>1 DEF QueueSettled, OnePending
<1>10. BasesAreMains' /\ ConsentKnown'
  BY <1>0, <1>1, <1>4, <1>5, BranchGone
<1> QED BY <1>7, <1>8, <1>9, <1>10 DEF ConsInv

\* What a run reads is on disk.
LEMMA ReadFilesStep == ASSUME ConsInv, ReadMemoryFiles PROVE ConsInv'
<1>0. run \in RunRows /\ run.pc = "read" /\ work \in Contents
  BY DEF ConsInv, ConsTypes, ReadMemoryFiles
<1>1. /\ run' = [run EXCEPT !.read = work, !.pc = "worktree"]
      /\ UNCHANGED <<main, version, work, dayBase, branches, pendings, resolved, dec, today, ranOn,
                     runs, consent>>
  BY DEF ReadMemoryFiles, repoVars, ledgerVars, countVars
<1>2. run' \in RunRows /\ run'.pc = "worktree" /\ run'.read = work /\ run'.trace = run.trace
  BY <1>0, <1>1 DEF RunRows
<1>3. ConsTypes' /\ OneRunADay' /\ BasesAreMains'
  BY <1>0, <1>1, <1>2 DEF ConsInv, ConsTypes, OneRunADay, BasesAreMains
<1>4. QueueSettled'
  BY <1>0, <1>1, <1>2 DEF ConsInv, QueueSettled, OnePending
<1>5. ConsentKnown'
  BY <1>0, <1>1, <1>2 DEF ConsInv, ConsentKnown, RunsOf
<1> QED BY <1>3, <1>4, <1>5 DEF ConsInv

\* A new branch is main, which was consented to.
LEMMA WorktreeStep == ASSUME ConsInv, CreateWorktree PROVE ConsInv'
<1>0. ConsTypes /\ run.pc = "worktree" /\ today \in 1..MaxDays /\ main \in Contents /\ version \in Nat
  BY ConsParts DEF ConsInv, CreateWorktree
<1>1. /\ branches[today] = NoBranch /\ RunTo("sessions")
      /\ branches' = [branches EXCEPT ![today] = [base |-> version, from |-> main, text |-> main]]
      /\ UNCHANGED <<main, version, work, dayBase, pendings, resolved, dec, today, ranOn, runs,
                     consent>>
  BY DEF CreateWorktree, repoVars, ledgerVars, countVars
<1>2. run' \in RunRows /\ run'.pc = "sessions" /\ run'.trace = run.trace /\ run'.read = run.read
  BY <1>0, <1>1, RunGoes
<1> DEFINE new == [base |-> version, from |-> main, text |-> main]
<1>3. new \in BranchRows /\ new.base = version /\ new.from = main /\ new.text = main /\ new # NoBranch
  BY <1>0, NothingAssumption DEF BranchRows
<1>4. /\ branches' \in [1..MaxDays -> BranchRows \cup {NoBranch}]
      /\ branches'[today] = new /\ \A d \in 1..MaxDays : d # today => branches'[d] = branches[d]
  BY <1>0, <1>1, <1>3 DEF ConsTypes
<1> HIDE DEF new
<1>5. ConsTypes'
  BY <1>1, <1>2, <1>4 DEF ConsInv, ConsTypes
<1>6. OneRunADay'
  BY <1>0, <1>1, <1>2, <1>3, <1>4 DEF ConsInv, OneRunADay
<1>7. BasesAreMains'
  BY <1>0, <1>1, <1>3, <1>4 DEF ConsInv, BasesAreMains
<1>8. QueueSettled'
  BY <1>0, <1>1, <1>2 DEF ConsInv, QueueSettled, OnePending
<1>9. ConsentKnown'
  <2>1. RunsOf(main, consent) /\ RunsOf(main, consent \cup {runs})
    BY DEF ConsInv, ConsentKnown, RunsOf
  <2>2. \A i \in 1..Len(pendings) : pendings[i].day \in 1..MaxDays /\ pendings[i].day < today
    BY <1>0, ConsParts DEF ConsInv, OneRunADay
  <2>3. dec.pc # "idle" => dec.day \in 1..MaxDays /\ dec.day < today
    BY <1>0, ConsParts DEF ConsInv, OneRunADay
  <2>4. RunsOf(main', consent') /\ RunsOf(work', consent')
        /\ (run'.pc \in {"worktree", "sessions"} => RunsOf(run'.read, consent'))
    BY <1>0, <1>1, <1>2 DEF ConsInv, ConsentKnown
  <2>5. \A d \in 1..MaxDays : branches'[d] # NoBranch => RunsOf(branches'[d].from, consent')
    BY <1>0, <1>1, <1>3, <1>4, <2>1 DEF ConsInv, ConsentKnown
  <2>6. \A i \in 1..Len(pendings') : branches'[pendings'[i].day] # NoBranch =>
          RunsOf(branches'[pendings'[i].day].text, consent' \cup {pendings'[i].trace})
    <3>1. \A i \in 1..Len(pendings) : branches'[pendings[i].day] = branches[pendings[i].day]
      BY <1>0, <1>4, <2>2, ConsParts
    <3>2. \A i \in 1..Len(pendings) : branches[pendings[i].day] # NoBranch =>
              RunsOf(branches[pendings[i].day].text, consent \cup {pendings[i].trace})
      BY DEF ConsInv, ConsentKnown
    <3> QED BY <1>1, <3>1, <3>2
  <2>7. dec'.pc # "idle" =>
          /\ dec'.trace \in consent'
          /\ branches'[dec'.day] # NoBranch => RunsOf(branches'[dec'.day].text, consent')
    BY <1>0, <1>1, <1>4, <2>3 DEF ConsInv, ConsentKnown
  <2>8. branches'[today'] # NoBranch => RunsOf(branches'[today'].text, consent' \cup {runs'})
    BY <1>1, <1>3, <1>4, <2>1
  <2> QED BY <2>4, <2>5, <2>6, <2>7, <2>8 DEF ConsentKnown
<1> QED BY <1>5, <1>6, <1>7, <1>8, <1>9 DEF ConsInv

\* What the sessions write carries the run's own trace.
LEMMA SessionsStep ==
    ASSUME ConsInv, NEW rewritten \in SUBSET Passages, Consolidate(rewritten)
    PROVE  ConsInv'
<1>0. /\ ConsTypes /\ run.pc = "sessions" /\ today \in 1..MaxDays /\ runs \in 0..MaxRuns
      /\ run.read \in Contents /\ run.trace = runs /\ branches[today] # NoBranch /\ MaxRuns \in Nat
  BY ConsParts DEF ConsInv, Consolidate, OneRunADay
<1> DEFINE kept == rewritten \ run.touched
           file(x) == \E y \in kept : FileOf[y] = FileOf[x]
           b == branches[today]
           text == [x \in Passages |->
              CASE x \in kept -> Text("kahya", run.trace)
                [] x \notin kept /\ file(x) -> run.read[x]
                [] OTHER -> b.from[x]]
<1>1. /\ branches' = [branches EXCEPT ![today].text = text] /\ RunTo("commit")
      /\ UNCHANGED <<main, version, work, dayBase, pendings, resolved, dec, today, ranOn, runs,
                     consent>>
  BY DEF Consolidate, repoVars, ledgerVars, countVars
<1>2. run' \in RunRows /\ run'.pc = "commit" /\ run'.trace = run.trace
  BY <1>0, <1>1, RunGoes
<1>3. b \in BranchRows /\ b.from \in Contents
  BY <1>0, ConsParts
<1>4. \A x \in Passages : text[x] \in {Text("kahya", runs), run.read[x], b.from[x]}
  <2> SUFFICES ASSUME NEW x \in Passages PROVE text[x] \in {Text("kahya", runs), run.read[x], b.from[x]}
    OBVIOUS
  <2>1. text[x] = CASE x \in kept -> Text("kahya", run.trace)
                    [] x \notin kept /\ file(x) -> run.read[x]
                    [] OTHER -> b.from[x]
    OBVIOUS
  <2> HIDE DEF kept, file, text, b
  <2>2. CASE x \in kept
    BY <1>0, <2>1, <2>2
  <2>3. CASE x \notin kept /\ file(x)
    BY <2>1, <2>3
  <2>4. CASE x \notin kept /\ ~file(x)
    BY <2>1, <2>4
  <2> QED BY <2>2, <2>3, <2>4
<1>5. text = [x \in Passages |-> text[x]]
  OBVIOUS
<1> HIDE DEF text
<1>6. text \in Contents
  <2>1. Text("kahya", runs) \in Texts
    BY <1>0 DEF Text, Texts
  <2>2. \A x \in Passages : text[x] \in Texts
    BY <1>0, <1>3, <1>4, <2>1 DEF Contents
  <2> QED BY <1>5, <2>2 DEF Contents
<1> HIDE DEF b
<1>7. /\ branches'[today] = [b EXCEPT !.text = text]
      /\ branches' \in [1..MaxDays -> BranchRows \cup {NoBranch}]
      /\ \A d \in 1..MaxDays : d # today => branches'[d] = branches[d]
  <2>1. branches' = [branches EXCEPT ![today] = [b EXCEPT !.text = text]]
    BY <1>1 DEF b
  <2>2. [b EXCEPT !.text = text] \in BranchRows
    BY <1>3, <1>6 DEF BranchRows
  <2> QED BY <1>0, <2>1, <2>2 DEF ConsTypes
<1>8. branches'[today].base = b.base /\ branches'[today].from = b.from /\ branches'[today].text = text
  BY <1>3, <1>7 DEF BranchRows
<1>9. ConsTypes'
  BY <1>1, <1>2, <1>7 DEF ConsInv, ConsTypes
<1>10. OneRunADay'
  BY <1>0, <1>1, <1>2 DEF ConsInv, OneRunADay
<1>11. BasesAreMains'
  BY <1>0, <1>1, <1>7, <1>8 DEF ConsInv, BasesAreMains, b
<1>12. QueueSettled'
  BY <1>0, <1>1, <1>2 DEF ConsInv, QueueSettled, OnePending
<1>13. ConsentKnown'
  <2>1. \A i \in 1..Len(pendings) : pendings[i].day \in 1..MaxDays /\ pendings[i].day < today
    BY <1>0, ConsParts DEF ConsInv, OneRunADay
  <2>2. dec.pc # "idle" => dec.day \in 1..MaxDays /\ dec.day < today
    BY <1>0, ConsParts DEF ConsInv, OneRunADay
  <2>3. RunsOf(main', consent') /\ RunsOf(work', consent') /\ run'.pc \notin {"worktree", "sessions"}
    BY <1>1, <1>2 DEF ConsInv, ConsentKnown
  <2>4. \A d \in 1..MaxDays : branches'[d] # NoBranch => RunsOf(branches'[d].from, consent')
    <3>1. RunsOf(b.from, consent)
      BY <1>0 DEF ConsInv, ConsentKnown, b
    <3> QED BY <1>0, <1>1, <1>7, <1>8, <3>1 DEF ConsInv, ConsentKnown
  <2>5. \A i \in 1..Len(pendings') : branches'[pendings'[i].day] # NoBranch =>
          RunsOf(branches'[pendings'[i].day].text, consent' \cup {pendings'[i].trace})
    <3>1. \A i \in 1..Len(pendings) : branches'[pendings[i].day] = branches[pendings[i].day]
      BY <1>0, <1>7, <2>1, ConsParts
    <3>2. \A i \in 1..Len(pendings) : branches[pendings[i].day] # NoBranch =>
              RunsOf(branches[pendings[i].day].text, consent \cup {pendings[i].trace})
      BY DEF ConsInv, ConsentKnown
    <3> QED BY <1>1, <3>1, <3>2
  <2>6. dec'.pc # "idle" =>
          /\ dec'.trace \in consent'
          /\ branches'[dec'.day] # NoBranch => RunsOf(branches'[dec'.day].text, consent')
    BY <1>0, <1>1, <1>7, <2>2 DEF ConsInv, ConsentKnown
  <2>7. RunsOf(branches'[today'].text, consent' \cup {runs'})
    <3>1. RunsOf(run.read, consent) /\ RunsOf(b.from, consent)
      BY <1>0 DEF ConsInv, ConsentKnown, b
    <3>2. Text("kahya", runs).run = runs
      BY DEF Text
    <3>3. RunsOf(text, consent \cup {runs})
      BY <1>4, <3>1, <3>2 DEF RunsOf
    <3> QED BY <1>1, <1>8, <3>3
  <2> QED BY <2>3, <2>4, <2>5, <2>6, <2>7 DEF ConsentKnown
<1> QED BY <1>9, <1>10, <1>11, <1>12, <1>13 DEF ConsInv

\* The worktree of a run that came to nothing goes with its branch.
LEMMA CleanupStep == ASSUME ConsInv, CleanupWorktree PROVE ConsInv'
<1>0. /\ ConsTypes /\ today \in 1..MaxDays
      /\ IdleRun \in RunRows /\ IdleRun.pc = "idle"
  BY ConsParts, IdleRunOK DEF ConsInv
<1>1. /\ DropBranch(today) /\ run' = IdleRun
      /\ UNCHANGED <<main, version, work, dayBase, pendings, resolved, dec, today, ranOn, runs,
                     consent>>
  BY DEF CleanupWorktree, repoVars, ledgerVars, countVars
<1>2. /\ branches' \in [1..MaxDays -> BranchRows \cup {NoBranch}]
      /\ \A d \in 1..MaxDays : branches'[d] # NoBranch => branches'[d] = branches[d]
  BY <1>0, <1>1, BranchDropped
<1>3. ConsTypes' /\ OneRunADay' /\ QueueSettled'
  BY <1>0, <1>1, <1>2 DEF ConsInv, ConsTypes, OneRunADay, QueueSettled, OnePending
<1>4. BasesAreMains' /\ ConsentKnown'
  BY <1>0, <1>1, <1>2, BranchGone
<1> QED BY <1>3, <1>4 DEF ConsInv

\* The gate's consent is to the run that asks.
LEMMA CommitStep == ASSUME ConsInv, CommitSuggestion PROVE ConsInv'
<1>0. /\ ConsTypes /\ run.pc = "commit" /\ today \in 1..MaxDays /\ runs \in 0..MaxRuns
      /\ MaxRuns \in Nat /\ run.trace = runs /\ runs > 0 /\ ranOn = today
      /\ IdleRun \in RunRows /\ IdleRun.pc = "idle"
  BY ConsParts, IdleRunOK DEF ConsInv, CommitSuggestion, OneRunADay
<1>1. UNCHANGED <<main, version, work, dayBase, branches, pendings, resolved, today, ranOn, runs>>
  BY DEF CommitSuggestion, repoVars, ledgerVars, countVars
<1>2. CASE RunTo("cleanup") /\ UNCHANGED <<dec, consent>>
  <2>1. run' \in RunRows /\ run'.pc = "cleanup" /\ run'.trace = run.trace
    BY <1>0, <1>2, RunGoes
  <2> QED BY <1>0, <1>1, <1>2, <2>1, RunOver
<1>3. CASE RunTo("pending") /\ UNCHANGED <<dec, consent>>
  <2>1. run' \in RunRows /\ run'.pc = "pending" /\ run'.trace = run.trace
    BY <1>0, <1>3, RunGoes
  <2>2. ConsTypes' /\ OneRunADay' /\ BasesAreMains' /\ QueueSettled'
    BY <1>0, <1>1, <1>3, <2>1 DEF ConsInv, ConsTypes, OneRunADay, BasesAreMains, QueueSettled, OnePending
  <2>3. ConsentKnown'
    BY <1>0, <1>1, <1>3, <2>1 DEF ConsInv, ConsentKnown, RunsOf
  <2> QED BY <2>2, <2>3 DEF ConsInv
<1>4. CASE /\ branches[today] # NoBranch
           /\ dec.pc = "idle"
           /\ dec' = [pc |-> "rebase", op |-> "auto", trace |-> run.trace, day |-> today]
           /\ consent' = consent \cup {run.trace}
           /\ run' = IdleRun
  <2>1. /\ dec' \in DecRows /\ dec'.pc = "rebase" /\ dec'.trace = runs /\ dec'.day = today
        /\ run'.pc = "idle"
    BY <1>0, <1>4 DEF DecRows
  <2>2. ConsTypes' /\ BasesAreMains' /\ QueueSettled'
    BY <1>0, <1>1, <1>4, <2>1 DEF ConsInv, ConsTypes, BasesAreMains, QueueSettled, OnePending
  <2>3. OneRunADay'
    BY <1>0, <1>1, <1>4, <2>1 DEF ConsInv, OneRunADay
  <2>4. ConsentKnown'
    <3>1. RunsOf(branches[today].text, consent')
      BY <1>0, <1>4 DEF ConsInv, ConsentKnown
    <3>2. \A tree : RunsOf(tree, consent) => RunsOf(tree, consent')
      BY <1>4 DEF RunsOf
    <3>3. \A tree, k : RunsOf(tree, consent \cup {k}) => RunsOf(tree, consent' \cup {k})
      BY <1>4 DEF RunsOf
    <3> QED BY <1>0, <1>1, <1>4, <2>1, <3>1, <3>2, <3>3 DEF ConsInv, ConsentKnown
  <2> QED BY <2>2, <2>3, <2>4 DEF ConsInv
<1> QED BY <1>2, <1>3, <1>4 DEF CommitSuggestion

\* A suggestion becomes pending when all others are settled.
LEMMA PendingStep == ASSUME ConsInv, LedgerPending PROVE ConsInv'
<1>0. /\ ConsTypes /\ run.pc = "pending" /\ today \in 1..MaxDays /\ runs \in 0..MaxRuns
      /\ MaxRuns \in Nat /\ run.trace = runs /\ runs > 0 /\ ranOn = today
      /\ Len(pendings) \in Nat /\ pendings \in Seq(PendingRows)
      /\ IdleRun \in RunRows /\ IdleRun.pc = "idle"
  BY ConsParts, IdleRunOK DEF ConsInv, LedgerPending, OneRunADay, ConsTypes
<1>1. /\ run' = IdleRun
      /\ UNCHANGED <<main, version, work, dayBase, branches, resolved, dec, today, ranOn, runs,
                     consent>>
  BY DEF LedgerPending, repoVars, countVars
<1> DEFINE row == [trace |-> run.trace, day |-> today]
<1>2. pendings' \in {pendings, Append(pendings, row)}
  BY DEF LedgerPending
<1>3. row \in PendingRows /\ row.trace = runs /\ row.day = today
  BY <1>0 DEF PendingRows
<1> HIDE DEF row
<1>4. CASE pendings' = pendings
  BY <1>0, <1>1, <1>4, RunOver
<1>5. CASE pendings' = Append(pendings, row)
  <2>1. /\ pendings' \in Seq(PendingRows) /\ Len(pendings') = Len(pendings) + 1
        /\ \A i \in 1..Len(pendings) : pendings'[i] = pendings[i]
        /\ pendings'[Len(pendings) + 1] = row
    BY <1>0, <1>3, <1>5, AppendProperties
  <2>2. \A i \in 1..Len(pendings') : i \in 1..Len(pendings) \/ i = Len(pendings) + 1
    BY <1>0, <2>1
  <2>3. ConsTypes' /\ BasesAreMains'
    BY <1>0, <1>1, <2>1 DEF ConsInv, ConsTypes, BasesAreMains
  <2>4. OneRunADay'
    BY <1>0, <1>1, <1>3, <2>1, <2>2 DEF ConsInv, OneRunADay
  <2>5. QueueSettled'
    <3>1. \A i \in 1..Len(pendings') : i < Len(pendings') => pendings'[i].trace \in resolved'
      BY <1>0, <1>1, <2>1 DEF ConsInv, QueueSettled
    <3> QED BY <1>0, <1>1, <3>1 DEF QueueSettled, OnePending
  <2>6. ConsentKnown'
    <3>1. branches[today] # NoBranch => RunsOf(branches[today].text, consent \cup {runs})
      BY <1>0 DEF ConsInv, ConsentKnown
    <3>2. \A i \in 1..Len(pendings') : branches'[pendings'[i].day] # NoBranch =>
            RunsOf(branches'[pendings'[i].day].text, consent' \cup {pendings'[i].trace})
      <4> SUFFICES ASSUME NEW i \in 1..Len(pendings'), branches[pendings'[i].day] # NoBranch
                   PROVE  RunsOf(branches[pendings'[i].day].text, consent \cup {pendings'[i].trace})
        BY <1>1
      <4>1. CASE i \in 1..Len(pendings)
        BY <2>1, <4>1 DEF ConsInv, ConsentKnown
      <4>2. CASE i = Len(pendings) + 1
        BY <1>3, <2>1, <3>1, <4>2
      <4> QED BY <2>2, <4>1, <4>2
    <3> QED BY <1>0, <1>1, <3>2 DEF ConsInv, ConsentKnown
  <2> QED BY <2>3, <2>4, <2>5, <2>6 DEF ConsInv
<1> QED BY <1>2, <1>4, <1>5

\* A request that fails, a branch that is deleted, a ledger row: they take no
\* consent away.
LEMMA DecStays ==
    ASSUME ConsInv, dec' \in DecRows,
           dec'.pc # "idle" => dec.pc # "idle" /\ dec'.trace = dec.trace /\ dec'.day = dec.day,
           branches' \in [1..MaxDays -> BranchRows \cup {NoBranch}],
           \A d \in 1..MaxDays : branches'[d] # NoBranch => branches'[d] = branches[d],
           run.pc = "sessions" => branches'[today] = branches[today],
           resolved \subseteq resolved', resolved' \subseteq 1..runs,
           UNCHANGED <<main, version, work, dayBase, pendings, run, today, ranOn, runs, consent>>
    PROVE  ConsInv'
<1>1. ConsTypes' /\ OneRunADay'
  BY DEF ConsInv, ConsTypes, OneRunADay
<1>2. QueueSettled'
  BY DEF ConsInv, QueueSettled, OnePending
<1>3. dec'.pc = "idle" \/ (dec.pc # "idle" /\ dec'.trace = dec.trace /\ dec'.day = dec.day)
  OBVIOUS
<1>4. BasesAreMains' /\ ConsentKnown'
  BY <1>3, BranchGone
<1> QED BY <1>1, <1>2, <1>4 DEF ConsInv

\* The request goes from one stage to the next.
LEMMA DecGoes ==
    ASSUME ConsTypes, NEW pc \in {"idle", "rebase", "merge", "delete", "ledger"}, DecTo(pc)
    PROVE  dec' \in DecRows /\ dec'.pc = pc /\ dec'.trace = dec.trace /\ dec'.day = dec.day
BY DEF DecTo, ConsTypes, DecRows

\* The request is about a day there was a run, not about tonight's.
LEMMA DecDay ==
    ASSUME ConsInv, dec.pc # "idle"
    PROVE  dec.day \in 1..MaxDays /\ dec.trace \in 1..runs /\ (run.pc # "idle" => dec.day # today)
<1>1. dec.day \in 1..ranOn /\ dec.trace \in 1..runs /\ (run.pc # "idle" => dec.day < today)
  BY DEF ConsInv, OneRunADay
<1>2. ranOn \in 0..MaxDays /\ MaxDays \in Nat /\ today \in 1..MaxDays
  BY ConsParts DEF ConsInv
<1> QED BY <1>1, <1>2

\* The end of a request, whatever the ledger did.
LEMMA DecEndStep == ASSUME ConsInv, DecFails \/ DeleteBranch \/ LedgerApproved PROVE ConsInv'
<1>0. ConsTypes /\ IdleDec \in DecRows /\ IdleDec.pc = "idle" /\ dec.pc # "idle"
  BY ConsolidationAssumption DEF ConsInv, IdleDec, DecRows, DecFails, DeleteBranch, LedgerApproved
<1>1. UNCHANGED <<main, version, work, dayBase, pendings, run, today, ranOn, runs, consent>>
  BY DEF DecFails, DeleteBranch, LedgerApproved, repoVars, ledgerVars, countVars
<1>2. resolved \subseteq 1..runs /\ branches \in [1..MaxDays -> BranchRows \cup {NoBranch}]
  BY <1>0 DEF ConsTypes
<1>3. dec.day \in 1..MaxDays /\ dec.trace \in 1..runs /\ (run.pc # "idle" => dec.day # today)
  BY <1>0, DecDay
<1>4. CASE DecFails
  <2>1. dec' = IdleDec /\ UNCHANGED <<branches, resolved>>
    BY <1>4 DEF DecFails, ledgerVars
  <2> QED BY <1>0, <1>1, <1>2, <2>1, DecStays
<1>5. CASE DeleteBranch
  <2>1. DropBranch(dec.day) /\ DecTo("ledger") /\ UNCHANGED resolved
    BY <1>5 DEF DeleteBranch, ledgerVars
  <2>2. dec' \in DecRows /\ dec'.trace = dec.trace /\ dec'.day = dec.day
    BY <1>0, <2>1, DecGoes
  <2>3. /\ branches' \in [1..MaxDays -> BranchRows \cup {NoBranch}]
        /\ \A d \in 1..MaxDays : branches'[d] # NoBranch => branches'[d] = branches[d]
        /\ \A d \in 1..MaxDays : d # dec.day => branches'[d] = branches[d]
    BY <1>0, <1>3, <2>1, BranchDropped
  <2>4. run.pc = "sessions" => branches'[today] = branches[today]
    BY <1>0, <1>3, <2>3 DEF ConsTypes
  <2> QED BY <1>0, <1>1, <1>2, <2>1, <2>2, <2>3, <2>4, DecStays
<1>6. CASE LedgerApproved
  <2>1. dec' = IdleDec /\ UNCHANGED branches /\ resolved' \in {resolved, resolved \cup {dec.trace}}
    BY <1>6 DEF LedgerApproved
  <2> QED BY <1>0, <1>1, <1>2, <1>3, <2>1, DecStays
<1> QED BY <1>4, <1>5, <1>6

\* To approve is to consent.
LEMMA ApproveStep == ASSUME ConsInv, Approve PROVE ConsInv'
<1> DEFINE p == pendings[FindPending]
<1>0. /\ ConsTypes /\ dec.pc = "idle" /\ FindPending \in 1..Len(pendings)
      /\ MaxRuns \in Nat /\ MaxDays \in Nat /\ runs \in 0..MaxRuns /\ ranOn \in 0..MaxDays
  BY ConsParts, PendingIsLast DEF ConsInv, Approve
<1>1. /\ dec' = [pc |-> "rebase", op |-> "approve", trace |-> p.trace, day |-> p.day]
      /\ consent' = consent \cup {p.trace}
      /\ UNCHANGED <<main, version, work, dayBase, branches, pendings, resolved, run, today, ranOn,
                     runs>>
  BY DEF Approve, repoVars, ledgerVars, countVars
<1>2. /\ p.trace \in 1..MaxRuns /\ p.day \in 1..MaxDays /\ p.trace <= runs /\ p.day <= ranOn
      /\ run.pc # "idle" => p.day < today
  BY <1>0, ConsParts DEF ConsInv, OneRunADay
<1>3. branches[p.day] # NoBranch => RunsOf(branches[p.day].text, consent')
  BY <1>0, <1>1 DEF ConsInv, ConsentKnown
<1> HIDE DEF p
<1>4. dec' \in DecRows /\ dec'.pc = "rebase" /\ dec'.trace = p.trace /\ dec'.day = p.day
  BY <1>0, <1>1, <1>2 DEF DecRows
<1>5. ConsTypes' /\ BasesAreMains' /\ QueueSettled'
  BY <1>1, <1>4 DEF ConsInv, ConsTypes, BasesAreMains, QueueSettled, OnePending
<1>6. OneRunADay'
  BY <1>0, <1>1, <1>2, <1>4 DEF ConsInv, OneRunADay
<1>7. ConsentKnown'
  <2>1. \A tree : RunsOf(tree, consent) => RunsOf(tree, consent')
    BY <1>1 DEF RunsOf
  <2>2. \A tree, k : RunsOf(tree, consent \cup {k}) => RunsOf(tree, consent' \cup {k})
    BY <1>1 DEF RunsOf
  <2>3. p.trace \in consent'
    BY <1>1
  <2> QED BY <1>1, <1>3, <1>4, <2>1, <2>2, <2>3 DEF ConsInv, ConsentKnown
<1> QED BY <1>5, <1>6, <1>7 DEF ConsInv

\* A rejected suggestion loses its branch.
LEMMA RejectStep == ASSUME ConsInv, Reject PROVE ConsInv'
<1> DEFINE p == pendings[FindPending]
<1>0. /\ ConsTypes /\ dec.pc = "idle" /\ FindPending \in 1..Len(pendings)
      /\ runs \in Nat /\ today \in 1..MaxDays
  BY ConsParts, PendingIsLast DEF ConsInv, Reject
<1>1. /\ branches' = [branches EXCEPT ![p.day] = NoBranch]
      /\ resolved' \in {resolved, resolved \cup {p.trace}}
      /\ UNCHANGED <<main, version, work, dayBase, pendings, run, dec, today, ranOn, runs, consent>>
  BY DEF Reject, repoVars, countVars
<1>2. /\ p.trace \in 1..MaxRuns /\ p.day \in 1..MaxDays /\ p.trace <= runs
      /\ run.pc # "idle" => p.day < today
  BY <1>0, ConsParts DEF ConsInv, OneRunADay
<1> HIDE DEF p
<1>3. p.trace \in 1..runs /\ (run.pc # "idle" => p.day # today)
  BY <1>0, <1>2
<1>4. /\ branches' \in [1..MaxDays -> BranchRows \cup {NoBranch}]
      /\ \A d \in 1..MaxDays : branches'[d] # NoBranch => branches'[d] = branches[d]
      /\ run.pc = "sessions" => branches'[today] = branches[today]
  BY <1>0, <1>1, <1>2, <1>3 DEF ConsTypes
<1>5. dec' \in DecRows /\ resolved \subseteq resolved' /\ resolved' \subseteq 1..runs
  BY <1>1, <1>3 DEF ConsInv, ConsTypes
<1> QED BY <1>0, <1>1, <1>4, <1>5, DecStays

\* The branch of a request, moved on top of main, holds nothing that was not
\* on main or consented to.
LEMMA RebaseStep == ASSUME ConsInv, RebaseWorktreeOnto PROVE ConsInv'
<1> DEFINE b == branches[dec.day]
           new == Rebased(b)
<1>0. /\ ConsTypes /\ dec.pc = "rebase" /\ b # NoBranch /\ main \in Contents /\ version \in Nat
      /\ today \in 1..MaxDays
  BY ConsParts DEF ConsInv, RebaseWorktreeOnto
<1>1. /\ branches' = [branches EXCEPT ![dec.day] = new] /\ DecTo("merge")
      /\ UNCHANGED <<main, version, work, dayBase, pendings, resolved, run, today, ranOn, runs,
                     consent>>
  BY DEF RebaseWorktreeOnto, repoVars, ledgerVars, countVars
<1>2. dec.day \in 1..MaxDays /\ (run.pc # "idle" => dec.day # today)
  BY <1>0, DecDay
<1>3. dec' \in DecRows /\ dec'.pc = "merge" /\ dec'.trace = dec.trace /\ dec'.day = dec.day
  BY <1>0, <1>1, DecGoes
<1>4. b \in BranchRows /\ b.text \in Contents
  BY <1>0, <1>2, ConsParts
<1>5. /\ new.base = version /\ new.from = main
      /\ new.text = [x \in Passages |-> IF b.text[x] # b.from[x] THEN b.text[x] ELSE main[x]]
      /\ new \in BranchRows
  <2>1. [x \in Passages |-> IF b.text[x] # b.from[x] THEN b.text[x] ELSE main[x]] \in Contents
    BY <1>0, <1>4 DEF Contents
  <2> QED BY <1>0, <2>1 DEF Rebased, BranchRows
<1>6. RunsOf(new.text, consent)
  <2>1. RunsOf(b.text, consent) /\ RunsOf(main, consent)
    BY <1>0 DEF ConsInv, ConsentKnown
  <2> QED BY <1>5, <2>1 DEF RunsOf
<1> HIDE DEF b, new
<1>7. /\ branches' \in [1..MaxDays -> BranchRows \cup {NoBranch}]
      /\ branches'[dec.day] = new /\ \A d \in 1..MaxDays : d # dec.day => branches'[d] = branches[d]
  BY <1>1, <1>0, <1>2, <1>5 DEF ConsTypes
<1>8. ConsTypes' /\ QueueSettled'
  BY <1>1, <1>3, <1>7 DEF ConsInv, ConsTypes, QueueSettled, OnePending
<1>9. OneRunADay'
  <2>1. run.pc = "sessions" => branches'[today] = branches[today]
    BY <1>0, <1>2, <1>7
  <2> QED BY <1>0, <1>1, <1>3, <2>1 DEF ConsInv, OneRunADay
<1>10. BasesAreMains'
  BY <1>0, <1>1, <1>2, <1>5, <1>7 DEF ConsInv, BasesAreMains
<1>11. ConsentKnown'
  <2>1. RunsOf(main', consent') /\ RunsOf(work', consent')
        /\ (run'.pc \in {"worktree", "sessions"} => RunsOf(run'.read, consent'))
    BY <1>1 DEF ConsInv, ConsentKnown
  <2>2. \A d \in 1..MaxDays : branches'[d] # NoBranch => RunsOf(branches'[d].from, consent')
    BY <1>1, <1>2, <1>5, <1>7 DEF ConsInv, ConsentKnown
  <2>3. \A i \in 1..Len(pendings) : branches'[pendings[i].day] # NoBranch =>
          RunsOf(branches'[pendings[i].day].text, consent \cup {pendings[i].trace})
    <3> SUFFICES ASSUME NEW i \in 1..Len(pendings), branches'[pendings[i].day] # NoBranch
                 PROVE  RunsOf(branches'[pendings[i].day].text, consent \cup {pendings[i].trace})
      OBVIOUS
    <3>1. CASE pendings[i].day = dec.day
      BY <1>6, <1>7, <3>1 DEF RunsOf
    <3>2. CASE pendings[i].day # dec.day
      <4>1. pendings[i].day \in 1..MaxDays
        BY <1>0, ConsParts
      <4> QED BY <1>7, <3>2, <4>1 DEF ConsInv, ConsentKnown
    <3> QED BY <3>1, <3>2
  <2>4. /\ dec'.trace \in consent'
        /\ RunsOf(branches'[dec'.day].text, consent')
    BY <1>0, <1>1, <1>3, <1>6, <1>7 DEF ConsInv, ConsentKnown
  <2>5. run'.pc \in {"sessions", "commit", "pending"} /\ branches'[today'] # NoBranch =>
          RunsOf(branches'[today'].text, consent' \cup {runs'})
    <3>1. run.pc # "idle" => branches'[today] = branches[today]
      BY <1>0, <1>2, <1>7
    <3> QED BY <1>1, <3>1 DEF ConsInv, ConsentKnown
  <2> QED BY <1>1, <2>1, <2>2, <2>3, <2>4, <2>5 DEF ConsentKnown
<1> QED BY <1>8, <1>9, <1>10, <1>11 DEF ConsInv

\* What is merged was consented to.
LEMMA MergeSuggestionStep == ASSUME ConsInv, MergeFastForwardOnly PROVE ConsInv'
<1> DEFINE b == branches[dec.day]
<1>0. /\ ConsTypes /\ dec.pc = "merge" /\ b # NoBranch /\ main \in Contents /\ work \in Contents
      /\ version \in Nat
  BY ConsParts DEF ConsInv, MergeFastForwardOnly
<1>1. /\ work' = [x \in Passages |-> IF b.text[x] # main[x] THEN b.text[x] ELSE work[x]]
      /\ main' = b.text /\ version' = IF b.text = main THEN version ELSE version + 1
      /\ DecTo("delete")
      /\ UNCHANGED <<dayBase, branches, pendings, resolved, run, today, ranOn, runs, consent>>
  BY DEF MergeFastForwardOnly, ledgerVars, countVars
<1>2. dec.day \in 1..MaxDays
  BY <1>0, DecDay
<1>3. dec' \in DecRows /\ dec'.pc = "delete" /\ dec'.trace = dec.trace /\ dec'.day = dec.day
  BY <1>0, <1>1, DecGoes
<1>4. b.text \in Contents
  BY <1>0, <1>2, ConsParts
<1>5. RunsOf(b.text, consent)
  BY <1>0 DEF ConsInv, ConsentKnown
<1> HIDE DEF b
<1>6. main' \in Contents /\ work' \in Contents /\ version' \in Nat
  BY <1>0, <1>1, <1>4 DEF Contents
<1>7. RunsOf(main', consent) /\ RunsOf(work', consent)
  BY <1>1, <1>5 DEF ConsInv, ConsentKnown, RunsOf
<1>8. ConsTypes'
  BY <1>1, <1>3, <1>6 DEF ConsInv, ConsTypes
<1>9. OneRunADay' /\ QueueSettled'
  BY <1>0, <1>1, <1>3 DEF ConsInv, OneRunADay, QueueSettled, OnePending
<1>10. BasesAreMains'
  <2>1. \A d \in 1..MaxDays : branches[d] # NoBranch => branches[d].base \in Nat
    BY <1>0, ConsParts
  <2>2. CASE b.text = main
    BY <1>1, <2>2 DEF ConsInv, BasesAreMains
  <2>3. CASE b.text # main
    BY <1>0, <1>1, <2>1, <2>3 DEF ConsInv, BasesAreMains
  <2> QED BY <2>2, <2>3
<1>11. ConsentKnown'
  BY <1>0, <1>1, <1>3, <1>7 DEF ConsInv, ConsentKnown
<1> QED BY <1>8, <1>9, <1>10, <1>11 DEF ConsInv

\* Whatever is done in the repository, nothing lands without consent and the
\* suggestions stay in order.
LEMMA ConsStep == ConsInv /\ [ConsNext]_consVars => ConsInv'
<1> SUFFICES ASSUME ConsInv, [ConsNext]_consVars PROVE ConsInv'
  OBVIOUS
<1>1. CASE UNCHANGED consVars
  BY <1>1 DEF consVars, ConsInv, ConsTypes, OneRunADay, BasesAreMains, QueueSettled, OnePending,
              ConsentKnown, RunsOf
<1>2. CASE \E x \in Passages : UserEdit(x)
  BY <1>2, UserStep
<1>3. CASE \E f \in Files : HandleWrite(f) \/ HandleForget(f)
  BY <1>3, ToolStep DEF HandleWrite, HandleForget
<1>4. CASE NextDay
  BY <1>4, DayStep
<1>5. CASE RunStep
  BY <1>5, StartStep, TouchedStep, SupersedeStep, ReadFilesStep, WorktreeStep, SessionsStep,
     CommitStep, PendingStep, CleanupStep, FailStep DEF RunStep
<1>6. CASE DecStep
  BY <1>6, ApproveStep, RejectStep, RebaseStep, MergeSuggestionStep, DecEndStep DEF DecStep
<1>7. CASE ConsCrash
  BY <1>7, FailStep
<1> QED BY <1>1, <1>2, <1>3, <1>4, <1>5, <1>6, <1>7 DEF ConsNext

\* Nothing lands on main that the user did not approve and the gate did not
\* let through, and no suggestion disappears behind a newer one, with any
\* interleaving of the user, the tools, the runs, the approvals and the
\* crashes, on any number of passages and for any number of nights
\* (consolidation.go runOnce, Approve, Reject; git.go mergeFastForwardOnly).
THEOREM SuggestionsAskFirst == ConsSafety => [](ConsTypeOK /\ OnePending /\ LandsWithConsent)
<1>1. ConsInv => ConsTypeOK /\ OnePending /\ LandsWithConsent
  <2> SUFFICES ASSUME ConsInv PROVE ConsTypeOK /\ OnePending /\ LandsWithConsent
    OBVIOUS
  <2>1. ConsTypeOK
    <3>1. /\ main \in Contents /\ work \in Contents /\ run.read \in Contents
          /\ run.touched \subseteq Passages
          /\ \A d \in 1..MaxDays : branches[d] # NoBranch =>
                branches[d].from \in Contents /\ branches[d].text \in Contents
      BY ConsParts DEF ConsInv
    <3> QED BY <3>1 DEF ConsInv, ConsTypes, BasesAreMains, ConsTypeOK
  <2>2. OnePending /\ LandsWithConsent
    BY DEF ConsInv, QueueSettled, ConsentKnown, RunsOf, LandsWithConsent
  <2> QED BY <2>1, <2>2
<1> QED BY <1>1, InitCons, ConsStep, PTL DEF ConsSafety

\* What a passage is in a tree.
LEMMA TextParts ==
    ASSUME NEW tree \in Contents, NEW x \in Passages
    PROVE  /\ tree[x] \in Texts /\ tree[x].by \in {"old", "user", "note", "gone", "kahya"}
           /\ tree[x].run \in Nat /\ MaxRuns \in Nat
           /\ tree[x] = Text(tree[x].by, tree[x].run)
BY ConsolidationAssumption DEF Contents, Texts, Text

\* A passage nobody wrote to, and branches that stay as they are or go: only
\* the run under way can make a difference.
LEMMA WordFrame ==
    ASSUME NEW x \in Passages, NEW s \in Int, WordKept(x, s), RunKept(x, s)',
           main'[x] = main[x], work'[x] = work[x], runs' = runs,
           run'.pc # "idle" => run.pc # "idle",
           \A d \in 1..MaxDays : branches'[d] # NoBranch => branches'[d] = branches[d]
    PROVE  WordKept(x, s)' /\ WordStays(x)
<1>1. Dirty(x)' = Dirty(x) /\ LatestRun(x)' = LatestRun(x)
  BY DEF Dirty, LatestRun
<1>2. PassageKept(x, s)'
  BY <1>1 DEF WordKept, PassageKept, RunUpTo
<1>4. \A d \in 1..MaxDays : (branches[d] # NoBranch => BranchKept(branches[d], x, s))'
  BY <1>1 DEF WordKept, BranchKept, RunUpTo
<1>5. WordStays(x)
  BY DEF WordStays
<1> QED BY <1>2, <1>4, <1>5 DEF WordKept

\* The run under way knows what it knew, or is past what it must know.
LEMMA RunFrame ==
    ASSUME NEW x \in Passages, NEW s \in Int, WordKept(x, s),
           main'[x] = main[x], work'[x] = work[x], runs' = runs,
           \/ run'.pc \in {"idle", "commit", "pending", "cleanup"}
           \/ /\ run'.pc = run.pc /\ run'.touched = run.touched /\ run'.read = run.read
              /\ today' = today /\ dayBase' = dayBase
              /\ run.pc = "sessions" /\ branches'[today] # NoBranch => branches'[today] = branches[today]
    PROVE  RunKept(x, s)'
<1>1. CASE run'.pc \in {"idle", "commit", "pending", "cleanup"}
  BY <1>1 DEF RunKept
<1>2. CASE /\ run'.pc = run.pc /\ run'.touched = run.touched /\ run'.read = run.read
           /\ today' = today /\ dayBase' = dayBase
           /\ run.pc = "sessions" /\ branches'[today] # NoBranch => branches'[today] = branches[today]
  <2>1. Dirty(x)' = Dirty(x) /\ LatestRun(x)' = LatestRun(x)
    BY DEF Dirty, LatestRun
  <2> QED BY <1>2, <2>1 DEF WordKept, RunKept, RunUpTo
<1> QED BY <1>1, <1>2

\* On the first day there are no words of the user.
LEMMA InitWords == ConsInit => WordsInv
<1> SUFFICES ASSUME ConsInit, NEW x \in Passages PROVE WordKept(x, -1)
  BY DEF WordsInv
<1>1. /\ main[x] = Text("old", 0) /\ work[x] = Text("old", 0) /\ runs = 0 /\ run.pc = "idle"
      /\ \A d \in 1..MaxDays : branches[d] = NoBranch
  BY DEF ConsInit, IdleRun
<1>2. PassageKept(x, -1)
  BY <1>1 DEF PassageKept, Since, RunUpTo, Dirty, Text
<1> QED BY <1>1, <1>2 DEF WordKept, RunKept

\* The user's word of now is newer than all that was committed.
LEMMA UserWord ==
    ASSUME ConsInv, NEW y \in Passages, UserEdit(y),
           NEW x \in Passages, NEW s \in Int, WordKept(x, s)
    PROVE  WordKept(x, s)' /\ WordStays(x)
<1>0. /\ runs \in Nat /\ main[x].run \in Nat /\ work[x].run \in Nat
      /\ \A d \in 1..MaxDays : branches[d] # NoBranch =>
            branches[d].from[x].run \in Nat /\ branches[d].text[x].run \in Nat
      /\ run.read[x].run \in Nat
  <2>1. \A tree \in Contents : tree[x].run \in Nat
    BY TextParts
  <2> QED BY <2>1, ConsParts DEF ConsInv
<1>1. /\ work' = [work EXCEPT ![y] = Text("user", runs)] /\ work \in Contents
      /\ UNCHANGED <<main, dayBase, branches, run, today, runs>>
  BY DEF UserEdit, ConsInv, ConsTypes
<1>2. CASE x # y
  <2>1. work'[x] = work[x]
    BY <1>1, <1>2 DEF Contents
  <2> QED BY <1>1, <2>1, WordFrame, RunFrame
<1>3. CASE x = y
  <2>1. work'[x] = Text("user", runs) /\ work'[x].by = "user" /\ work'[x].run = runs
    BY <1>1, <1>3 DEF Contents, Text
  <2>2. PassageKept(x, s) /\ s < runs
    BY DEF WordKept, PassageKept
  <2>3. Dirty(x)' /\ LatestRun(x)' = runs
    <3>1. main[x] # work'[x]
      BY <2>1, <2>2, <1>0 DEF PassageKept, Since
    <3> QED BY <1>1, <2>1, <3>1 DEF Dirty, LatestRun
  <2>4. LatestRun(x) \in Nat /\ LatestRun(x) <= runs
    BY <1>0, <2>2 DEF LatestRun, PassageKept
  <2>5. PassageKept(x, s)'
    BY <1>0, <1>1, <2>1, <2>2, <2>3, <2>4 DEF PassageKept, RunUpTo
  <2>6. RunKept(x, s)'
    BY <1>0, <1>1, <2>3, <2>4 DEF WordKept, RunKept, RunUpTo
  <2>7. \A d \in 1..MaxDays : (branches[d] # NoBranch => BranchKept(branches[d], x, s))'
    BY <1>0, <1>1, <2>3, <2>4 DEF WordKept, BranchKept, RunUpTo
  <2>8. WordStays(x)
    BY <1>1, <2>1 DEF WordStays
  <2> QED BY <2>5, <2>6, <2>7, <2>8 DEF WordKept
<1> QED BY <1>2, <1>3

\* A memory tool commits a file without open edits, so that it commits its
\* own words and no others.
LEMMA ToolWord ==
    ASSUME ConsInv, ~NotesOnDirty,
           NEW f \in Files, NEW told, NEW by, MemoryTool(f, told, by),
           NEW x \in Passages, x \notin retold', NEW s \in Int, WordKept(x, s)
    PROVE  WordKept(x, s)' /\ WordStays(x)
<1>1. /\ ~IsDirty(f) /\ retold' = retold \cup told
      /\ work' = [z \in Passages |-> IF z \in told THEN Text(by, 0) ELSE work[z]]
      /\ main' = [z \in Passages |-> IF z \in PassagesOf(f) THEN work'[z] ELSE main[z]]
      /\ UNCHANGED <<dayBase, branches, run, today, runs>>
  BY DEF MemoryTool
<1>2. work'[x] = work[x]
  BY <1>1
<1>3. main'[x] = main[x]
  BY <1>1, <1>2 DEF IsDirty
<1> QED BY <1>1, <1>2, <1>3, WordFrame, RunFrame

\* The steps that write no text, neither on disk nor on main nor in a branch.
LEMMA QuietWord ==
    ASSUME ConsInv,
           \/ NextDay \/ ConsCrash \/ Supersede \/ CommitSuggestion \/ LedgerPending
           \/ CleanupWorktree \/ RunFails \/ Approve \/ Reject \/ DeleteBranch \/ LedgerApproved
           \/ DecFails,
           NEW x \in Passages, NEW s \in Int, WordKept(x, s)
    PROVE  WordKept(x, s)' /\ WordStays(x)
<1>0. ConsTypes /\ IdleRun.pc = "idle" /\ today \in 1..MaxDays
  BY IdleRunOK, ConsParts DEF ConsInv
<1>1. UNCHANGED <<main, work, runs>>
  BY DEF NextDay, ConsCrash, Supersede, CommitSuggestion, LedgerPending, CleanupWorktree, RunFails,
         Approve, Reject, DeleteBranch, LedgerApproved, DecFails, repoVars, countVars
<1>2. \A d \in 1..MaxDays : branches'[d] # NoBranch => branches'[d] = branches[d]
  <2>1. CASE NextDay \/ ConsCrash \/ CommitSuggestion \/ LedgerPending \/ RunFails \/ Approve
             \/ LedgerApproved \/ DecFails
    BY <2>1 DEF NextDay, ConsCrash, CommitSuggestion, LedgerPending, RunFails, Approve,
                LedgerApproved, DecFails
  <2>2. CASE Reject
    BY <2>2, <1>0 DEF Reject, ConsTypes
  <2>3. CASE Supersede \/ CleanupWorktree \/ DeleteBranch
    <3>1. \E day : DropBranch(day)
      BY <2>3 DEF Supersede, CleanupWorktree, DeleteBranch
    <3> QED BY <1>0, <3>1 DEF DropBranch, ConsTypes
  <2> QED BY <2>1, <2>2, <2>3
<1>3. CASE Supersede
  <2>1. RunTo("read") /\ run.pc = "supersede" /\ UNCHANGED dayBase
    BY <1>3 DEF Supersede, repoVars
  <2>2. run'.pc = "read" /\ run'.touched = run.touched
    BY <1>0, <2>1, RunGoes
  <2>3. RunKept(x, s)'
    BY <1>1, <2>1, <2>2 DEF WordKept, RunKept
  <2> QED BY <1>1, <1>2, <2>1, <2>3, WordFrame
<1>4. CASE NextDay \/ ConsCrash \/ LedgerPending \/ CleanupWorktree
  <2>1. run'.pc = "idle"
    BY <1>0, <1>4 DEF NextDay, ConsCrash, LedgerPending, CleanupWorktree
  <2> QED BY <1>1, <1>2, <2>1, WordFrame, RunFrame
<1>5. CASE CommitSuggestion \/ RunFails
  <2>1. run'.pc \in {"idle", "cleanup", "pending"} /\ run.pc # "idle"
    BY <1>0, <1>5, RunGoes DEF CommitSuggestion, RunFails
  <2> QED BY <1>1, <1>2, <2>1, WordFrame, RunFrame
<1>6. CASE Approve \/ Reject \/ DeleteBranch \/ LedgerApproved \/ DecFails
  <2>1. UNCHANGED <<run, today, dayBase>>
    BY <1>6 DEF Approve, Reject, DeleteBranch, LedgerApproved, DecFails, repoVars, countVars
  <2> QED BY <1>0, <1>1, <1>2, <2>1, WordFrame, RunFrame
<1> QED BY <1>3, <1>4, <1>5, <1>6

\* What a run knows of a passage when it has looked up the touched lines: if
\* the last commit of the user wrote it, it is touched.
LEMMA TouchedWord ==
    ASSUME ConsInv, TouchedLines, NEW x \in Passages, NEW s \in Int, WordKept(x, s)
    PROVE  WordKept(x, s)' /\ WordStays(x)
<1>0. /\ run \in RunRows /\ run.pc = "touched" /\ runs \in Nat /\ runs > 0
      /\ main[x] = Text(main[x].by, main[x].run) /\ main[x].run \in Nat
      /\ main[x].by \in {"old", "user", "note", "gone", "kahya"}
  BY ConsParts, TextParts DEF ConsInv, ConsTypes, TouchedLines, OneRunADay
<1>1. /\ run' = [run EXCEPT !.touched = ComputeUserTouchedLines, !.old = FindPending,
                            !.pc = IF FindPending = 0 THEN "read" ELSE "supersede"]
      /\ UNCHANGED <<main, work, dayBase, branches, today, runs>>
  BY DEF TouchedLines, repoVars, countVars
<1>2. run'.touched = ComputeUserTouchedLines /\ run'.pc \in {"read", "supersede"}
  BY <1>0, <1>1 DEF RunRows
<1>3. s = runs - 1 => x \in ComputeUserTouchedLines
  <2> SUFFICES ASSUME s = runs - 1 PROVE x \in ComputeUserTouchedLines
    OBVIOUS
  <2>1. dayBase # NoBase /\ dayBase[x] # Text("user", runs - 1)
    BY <1>0 DEF WordKept, RunKept
  <2>2. PassageKept(x, s) /\ LatestRun(x) <= runs
    BY <1>0 DEF WordKept, PassageKept, LatestRun
  <2>3. LatestRun(x) \in Nat
    BY <1>0, ConsParts, TextParts DEF LatestRun, ConsInv
  <2>4. main[x].by = "user" /\ main[x].run = s
    BY <1>0, <2>2, <2>3 DEF PassageKept, Since, RunUpTo
  <2> QED BY <1>0, <2>1, <2>4 DEF ComputeUserTouchedLines
<1>4. RunKept(x, s)'
  BY <1>1, <1>2, <1>3 DEF RunKept
<1> QED BY <1>0, <1>1, <1>4, WordFrame

\* What is read of a passage without an open edit is what is on main.
LEMMA ReadWord ==
    ASSUME ConsInv, ReadMemoryFiles, NEW x \in Passages, NEW s \in Int, WordKept(x, s)
    PROVE  WordKept(x, s)' /\ WordStays(x)
<1>0. run \in RunRows /\ run.pc = "read"
  BY DEF ConsInv, ConsTypes, ReadMemoryFiles
<1>1. /\ run' = [run EXCEPT !.read = work, !.pc = "worktree"]
      /\ UNCHANGED <<main, work, dayBase, branches, today, runs>>
  BY DEF ReadMemoryFiles, repoVars, countVars
<1>2. run'.pc = "worktree" /\ run'.read = work /\ run'.touched = run.touched
  BY <1>0, <1>1 DEF RunRows
<1>3. PassageKept(x, s) /\ (s = runs - 1 => x \in run.touched)
  BY <1>0 DEF WordKept, RunKept
<1>4. Dirty(x)' = Dirty(x) /\ LatestRun(x)' = LatestRun(x)
  BY <1>1 DEF Dirty, LatestRun
<1>5. RunUpTo(work[x], LatestRun(x)) /\ (Since(work[x], s) \/ Dirty(x))
  BY <1>3 DEF PassageKept, Dirty, RunUpTo
<1>6. RunKept(x, s)'
  BY <1>1, <1>2, <1>3, <1>4, <1>5 DEF RunKept, RunUpTo
<1> QED BY <1>0, <1>1, <1>6, WordFrame

\* A new branch starts with the words on main.
LEMMA WorktreeWord ==
    ASSUME ConsInv, CreateWorktree, NEW x \in Passages, NEW s \in Int, WordKept(x, s)
    PROVE  WordKept(x, s)' /\ WordStays(x)
<1>0. ConsTypes /\ run.pc = "worktree" /\ today \in 1..MaxDays
  BY ConsParts DEF ConsInv, CreateWorktree
<1> DEFINE new == [base |-> version, from |-> main, text |-> main]
<1>1. /\ RunTo("sessions") /\ branches' = [branches EXCEPT ![today] = new]
      /\ UNCHANGED <<main, work, dayBase, today, runs>>
  BY DEF CreateWorktree, repoVars, countVars
<1>2. run'.pc = "sessions" /\ run'.read = run.read /\ run'.touched = run.touched
  BY <1>0, <1>1, RunGoes
<1>3. branches'[today] = new /\ \A d \in 1..MaxDays : d # today => branches'[d] = branches[d]
  BY <1>0, <1>1 DEF ConsTypes
<1>4. new.from = main /\ new.text = main
  OBVIOUS
<1> HIDE DEF new
<1>5. Dirty(x)' = Dirty(x) /\ LatestRun(x)' = LatestRun(x)
  BY <1>1 DEF Dirty, LatestRun
<1>6. PassageKept(x, s)' /\ Since(main[x], s) /\ RunUpTo(main[x], LatestRun(x))
  BY <1>0, <1>1, <1>5 DEF WordKept, PassageKept, RunUpTo
<1>7. \A d \in 1..MaxDays : (branches[d] # NoBranch => BranchKept(branches[d], x, s))'
  <2> SUFFICES ASSUME NEW d \in 1..MaxDays PROVE (branches[d] # NoBranch => BranchKept(branches[d], x, s))'
    OBVIOUS
  <2>1. CASE d = today
    <3>1. s \in Int /\ main[x].by = "user" => main[x].run <= s
      BY <1>6 DEF Since
    <3> QED BY <1>3, <1>4, <1>5, <1>6, <2>1, <3>1 DEF BranchKept, RunUpTo
  <2>2. CASE d # today
    BY <1>3, <1>5, <2>2 DEF WordKept, BranchKept, RunUpTo
  <2> QED BY <2>1, <2>2
<1>8. RunKept(x, s)'
  BY <1>0, <1>1, <1>2, <1>3, <1>4, <1>5, <1>6 DEF WordKept, RunKept, RunUpTo
<1>9. WordStays(x)
  BY <1>1 DEF WordStays
<1> QED BY <1>6, <1>7, <1>8, <1>9 DEF WordKept

\* What the sessions write over is not touched, hence older than the run
\* before; and in a passage with an open edit it does not matter, for it
\* cannot be merged.
LEMMA SessionsWord ==
    ASSUME ConsInv, NEW rewritten \in SUBSET Passages, Consolidate(rewritten),
           NEW x \in Passages, NEW s \in Int, WordKept(x, s)
    PROVE  WordKept(x, s)' /\ WordStays(x)
<1>0. /\ ConsTypes /\ run.pc = "sessions" /\ today \in 1..MaxDays /\ runs \in Nat
      /\ run.trace = runs /\ branches[today] # NoBranch
  BY ConsParts DEF ConsInv, Consolidate, OneRunADay
<1> DEFINE kept == rewritten \ run.touched
           file(y) == \E z \in kept : FileOf[z] = FileOf[y]
           b == branches[today]
           text == [y \in Passages |->
              CASE y \in kept -> Text("kahya", run.trace)
                [] y \notin kept /\ file(y) -> run.read[y]
                [] OTHER -> b.from[y]]
<1>1. /\ branches' = [branches EXCEPT ![today].text = text] /\ RunTo("commit")
      /\ UNCHANGED <<main, work, dayBase, today, runs>>
  BY DEF Consolidate, repoVars, countVars
<1>2. run'.pc = "commit"
  BY <1>0, <1>1, RunGoes
<1>3. b \in BranchRows
  BY <1>0, ConsParts
<1>4. \/ text[x] = Text("kahya", runs) /\ x \notin run.touched
      \/ text[x] \in {run.read[x], b.from[x]}
  <2>1. text[x] = CASE x \in kept -> Text("kahya", run.trace)
                    [] x \notin kept /\ file(x) -> run.read[x]
                    [] OTHER -> b.from[x]
    OBVIOUS
  <2>2. x \in kept => x \notin run.touched
    OBVIOUS
  <2> HIDE DEF kept, file, text, b
  <2>3. CASE x \in kept
    BY <1>0, <2>1, <2>2, <2>3
  <2>4. CASE x \notin kept /\ file(x)
    BY <2>1, <2>4
  <2>5. CASE x \notin kept /\ ~file(x)
    BY <2>1, <2>5
  <2> QED BY <2>3, <2>4, <2>5
<1> HIDE DEF text, b
<1>5. /\ branches'[today].from = b.from /\ branches'[today].text = text
      /\ \A d \in 1..MaxDays : d # today => branches'[d] = branches[d]
  <2>1. branches' = [branches EXCEPT ![today] = [b EXCEPT !.text = text]]
    BY <1>1 DEF b
  <2>2. branches'[today] = [b EXCEPT !.text = text]
        /\ \A d \in 1..MaxDays : d # today => branches'[d] = branches[d]
    BY <1>0, <2>1 DEF ConsTypes
  <2> QED BY <1>3, <2>2 DEF BranchRows
<1>6. Dirty(x)' = Dirty(x) /\ LatestRun(x)' = LatestRun(x)
  BY <1>1 DEF Dirty, LatestRun
<1>7. PassageKept(x, s)' /\ s < runs /\ s \in Int /\ (Dirty(x) => work[x].run = runs)
  BY <1>0, <1>1, <1>2, <1>6 DEF WordKept, PassageKept, RunUpTo
<1>8. /\ s = runs - 1 => x \in run.touched
      /\ RunUpTo(run.read[x], LatestRun(x)) /\ (Since(run.read[x], s) \/ Dirty(x))
      /\ Since(b.from[x], s)
  BY <1>0 DEF WordKept, RunKept, b
<1>9. BranchKept(b, x, s)
  BY <1>0 DEF WordKept, b
<1>10. RunUpTo(text[x], LatestRun(x)) /\ (text[x] # b.from[x] => Since(text[x], s) \/ Dirty(x))
  <2>1. CASE text[x] = Text("kahya", runs) /\ x \notin run.touched
    <3>1. text[x].by = "kahya" /\ text[x].run = runs
      BY <2>1 DEF Text
    <3>2. LatestRun(x) = runs
      BY <1>7 DEF LatestRun
    <3>3. runs > s + 1
      BY <1>0, <1>7, <1>8, <2>1
    <3> QED BY <1>0, <3>1, <3>2, <3>3 DEF RunUpTo, Since
  <2>2. CASE text[x] \in {run.read[x], b.from[x]}
    BY <1>8, <1>9, <2>2 DEF BranchKept
  <2> QED BY <1>4, <2>1, <2>2
<1>11. \A d \in 1..MaxDays : (branches[d] # NoBranch => BranchKept(branches[d], x, s))'
  <2> SUFFICES ASSUME NEW d \in 1..MaxDays PROVE (branches[d] # NoBranch => BranchKept(branches[d], x, s))'
    OBVIOUS
  <2>1. CASE d = today
    BY <1>5, <1>6, <1>9, <1>10, <2>1, <1>1 DEF BranchKept, RunUpTo
  <2>2. CASE d # today
    BY <1>5, <1>6, <2>2 DEF WordKept, BranchKept, RunUpTo
  <2> QED BY <2>1, <2>2
<1>12. RunKept(x, s)'
  BY <1>2 DEF RunKept
<1>13. WordStays(x)
  BY <1>1 DEF WordStays
<1> QED BY <1>7, <1>11, <1>12, <1>13 DEF WordKept

\* Without a conflict, what the branch changes main did not change.
LEMMA RebaseWord ==
    ASSUME ConsInv, RebaseWorktreeOnto, NEW x \in Passages, NEW s \in Int, WordKept(x, s)
    PROVE  WordKept(x, s)' /\ WordStays(x)
<1> DEFINE b == branches[dec.day]
           new == Rebased(b)
<1>0. ConsTypes /\ dec.pc = "rebase" /\ b # NoBranch /\ ~Conflicts(b)
  BY DEF ConsInv, RebaseWorktreeOnto
<1>1. /\ branches' = [branches EXCEPT ![dec.day] = new]
      /\ UNCHANGED <<main, work, dayBase, run, today, runs>>
  BY DEF RebaseWorktreeOnto, repoVars, countVars
<1>2. dec.day \in 1..MaxDays /\ (run.pc # "idle" => dec.day # today) /\ today \in 1..MaxDays
  BY <1>0, DecDay, ConsParts
<1>3. /\ new.from[x] = main[x]
      /\ new.text[x] = IF b.text[x] # b.from[x] THEN b.text[x] ELSE main[x]
  BY DEF Rebased
<1>4. branches'[dec.day] = new /\ \A d \in 1..MaxDays : d # dec.day => branches'[d] = branches[d]
  BY <1>0, <1>1, <1>2 DEF ConsTypes
<1>5. b.text[x] = b.from[x] \/ main[x] = b.from[x] \/ main[x] = b.text[x]
  BY <1>0 DEF Conflicts
<1>6. BranchKept(b, x, s) /\ PassageKept(x, s)
  BY <1>0, <1>2 DEF WordKept
<1> HIDE DEF b, new
<1>7. Dirty(x)' = Dirty(x) /\ LatestRun(x)' = LatestRun(x)
  BY <1>1 DEF Dirty, LatestRun
<1>8. PassageKept(x, s)'
  BY <1>1, <1>6, <1>7 DEF PassageKept, RunUpTo
<1>9. \A d \in 1..MaxDays : (branches[d] # NoBranch => BranchKept(branches[d], x, s))'
  <2> SUFFICES ASSUME NEW d \in 1..MaxDays PROVE (branches[d] # NoBranch => BranchKept(branches[d], x, s))'
    OBVIOUS
  <2>1. CASE d = dec.day
    <3>1. main[x].by = "user" => main[x].run <= s
      BY <1>6 DEF PassageKept, Since
    <3>2. RunUpTo(main[x], LatestRun(x)) /\ RunUpTo(new.text[x], LatestRun(x))
      BY <1>3, <1>6 DEF PassageKept, BranchKept
    <3>3. new.text[x] # main[x] => Since(new.text[x], s) \/ Dirty(x)
      BY <1>3, <1>5, <1>6 DEF PassageKept, BranchKept
    <3> QED BY <1>1, <1>3, <1>4, <1>7, <2>1, <3>1, <3>2, <3>3 DEF BranchKept, RunUpTo
  <2>2. CASE d # dec.day
    BY <1>4, <1>7, <2>2 DEF WordKept, BranchKept, RunUpTo
  <2> QED BY <2>1, <2>2
<1>10. RunKept(x, s)'
  <2>1. run.pc = "sessions" => branches'[today] = branches[today]
    BY <1>2, <1>4
  <2> QED BY <1>1, <2>1, RunFrame
<1>11. WordStays(x)
  BY <1>1 DEF WordStays
<1> QED BY <1>8, <1>9, <1>10, <1>11 DEF WordKept

\* A fast-forward changes passages without an open edit, and only to what is
\* newer than the user's word.
LEMMA MergeWord ==
    ASSUME ConsInv, MergeFastForwardOnly, NEW x \in Passages, NEW s \in Int, WordKept(x, s)
    PROVE  WordKept(x, s)' /\ WordStays(x)
<1> DEFINE b == branches[dec.day]
<1>0. /\ dec.pc = "merge" /\ b # NoBranch /\ b.base = version /\ Overwritten(b) = {}
      /\ runs \in Nat
  BY ConsParts DEF ConsInv, MergeFastForwardOnly
<1>1. /\ work' = [y \in Passages |-> IF b.text[y] # main[y] THEN b.text[y] ELSE work[y]]
      /\ main' = b.text
      /\ UNCHANGED <<dayBase, branches, run, today, runs>>
  BY DEF MergeFastForwardOnly, countVars
<1>2. dec.day \in 1..MaxDays
  BY <1>0, DecDay
<1>3. b.from = main
  BY <1>0, <1>2 DEF ConsInv, BasesAreMains
<1>4. BranchKept(b, x, s) /\ PassageKept(x, s)
  BY <1>0, <1>2 DEF WordKept
<1> HIDE DEF b
<1>5. main'[x] = b.text[x] /\ work'[x] = IF b.text[x] # main[x] THEN b.text[x] ELSE work[x]
  BY <1>1
<1>6. CASE b.text[x] = main[x]
  <2>1. main'[x] = main[x] /\ work'[x] = work[x]
    BY <1>5, <1>6
  <2> QED BY <1>1, <2>1, WordFrame, RunFrame
<1>7. CASE b.text[x] # main[x]
  <2>1. ~Dirty(x)
    <3>1. FileOf[x] \in Files /\ x \in PassagesOf(FileOf[x])
      BY ConsolidationAssumption DEF PassagesOf
    <3> QED BY <1>0, <1>7, <3>1 DEF Overwritten, IsDirty, Dirty
  <2>2. work'[x] = main'[x] /\ ~Dirty(x)' /\ LatestRun(x) = runs /\ LatestRun(x)' = runs
    BY <1>1, <1>5, <1>7, <2>1 DEF Dirty, LatestRun
  <2>3. Since(main[x], s) /\ Since(main'[x], s) /\ RunUpTo(main'[x], runs) /\ s \in Int /\ -1 <= s /\ s < runs
    BY <1>3, <1>4, <1>5, <1>7, <2>1, <2>2 DEF BranchKept, PassageKept
  <2>4. PassageKept(x, s)'
    BY <1>1, <2>2, <2>3 DEF PassageKept
  <2>5. \A d \in 1..MaxDays : (branches[d] # NoBranch => BranchKept(branches[d], x, s))'
    BY <1>1, <2>1, <2>2 DEF WordKept, BranchKept
  <2>6. RunKept(x, s)'
    BY <1>1, <2>1, <2>2 DEF WordKept, RunKept
  <2>7. WordStays(x)
    <3>1. main[x] = work[x]
      BY <2>1 DEF Dirty
    <3>2. main[x].by = "user" => main[x].run = s
      BY <2>3 DEF Since
    <3>3. main'[x].by = "kahya" => main'[x].run > s + 1
      BY <2>3 DEF Since
    <3> QED BY <2>2, <3>1, <3>2, <3>3 DEF WordStays
  <2> QED BY <2>4, <2>5, <2>6, <2>7 DEF WordKept
<1> QED BY <1>6, <1>7

\* The night takes what is on disk for the user's last word: from then on it
\* is newer than every branch there is.
LEMMA StartWord ==
    ASSUME ConsInv, StartRun, NEW x \in Passages, NEW s \in Int, WordKept(x, s)
    PROVE  /\ \E t \in Int : WordKept(x, t)'
           /\ WordStays(x)
<1>0. /\ runs \in Nat /\ run.pc = "idle" /\ runs' = runs + 1 /\ work' = work
      /\ branches' = branches /\ PassageKept(x, s)
      /\ dayBase = NoBase /\ main \in Contents /\ NoBase \notin Contents
  BY ConsParts, NothingAssumption
  DEF ConsInv, StartRun, OneRunADay, WordKept, PassageKept, repoVars
<1>1. /\ main[x].run \in Nat /\ work[x].run \in Nat
      /\ work[x] = Text(work[x].by, work[x].run)
      /\ \A d \in 1..MaxDays : branches[d] # NoBranch =>
            branches[d].from[x].run \in Nat /\ branches[d].text[x].run \in Nat
  <2>1. \A tree \in Contents : tree[x].run \in Nat /\ tree[x] = Text(tree[x].by, tree[x].run)
    BY TextParts
  <2> QED BY <2>1, ConsParts DEF ConsInv
<1>2. run'.pc \in {"idle", "touched"}
  <2>1. IdleRun \in RunRows /\ IdleRun.pc = "idle"
    BY IdleRunOK
  <2> QED BY <2>1 DEF StartRun, RunRows
<1>3. LatestRun(x) \in Nat /\ LatestRun(x) <= runs
  BY <1>0, <1>1 DEF LatestRun, PassageKept
<1>4. CASE main'[x] = main[x] /\ (run'.pc = "idle" \/ ~Dirty(x))
  <2>1. Dirty(x)' = Dirty(x) /\ LatestRun(x)' \in Nat /\ LatestRun(x) <= LatestRun(x)'
    BY <1>0, <1>1, <1>4, <1>3 DEF Dirty, LatestRun
  <2>2. PassageKept(x, s)'
    BY <1>0, <1>1, <1>2, <1>3, <1>4, <2>1 DEF PassageKept, RunUpTo
  <2>3. \A d \in 1..MaxDays : (branches[d] # NoBranch => BranchKept(branches[d], x, s))'
    BY <1>0, <1>1, <1>3, <2>1 DEF WordKept, BranchKept, RunUpTo
  <2>4. RunKept(x, s)'
    BY <1>0, <1>2 DEF PassageKept, RunKept
  <2>5. WordStays(x)
    BY <1>0, <1>4 DEF WordStays
  <2> QED BY <2>2, <2>3, <2>4, <2>5 DEF WordKept
<1>5. CASE Dirty(x) /\ main' = work /\ dayBase' = main
  <2>0. PICK t \in Nat : t = work[x].run
    BY <1>1
  <2>1. work[x].by = "user" /\ s < t /\ t <= runs /\ t \in Int /\ s >= -1 /\ LatestRun(x) = t
    BY <1>0, <1>1, <1>5, <2>0 DEF PassageKept, LatestRun
  <2>2. ~Dirty(x)' /\ LatestRun(x)' = runs + 1 /\ main'[x] = work[x]
    BY <1>0, <1>5 DEF Dirty, LatestRun
  <2>3. PassageKept(x, t)'
    BY <1>0, <2>0, <2>1, <2>2 DEF PassageKept, Since, RunUpTo
  <2>4. \A d \in 1..MaxDays : (branches[d] # NoBranch => BranchKept(branches[d], x, t))'
    <3> SUFFICES ASSUME NEW d \in 1..MaxDays, branches[d] # NoBranch
                 PROVE  BranchKept(branches[d], x, t)'
      BY <1>0
    <3> DEFINE b == branches[d]
    <3>1. BranchKept(b, x, s) /\ b.from[x].run \in Nat /\ b.text[x].run \in Nat /\ b' = b
      BY <1>0, <1>1 DEF WordKept
    <3> HIDE DEF b
    <3>2. b.from[x].by = "user" => b.from[x].run <= s /\ b.from[x].run <= t
      BY <2>1, <3>1 DEF BranchKept
    <3>3. RunUpTo(b.from[x], t) /\ RunUpTo(b.text[x], t)
      BY <2>1, <3>1 DEF BranchKept
    <3>4. ~Since(b.from[x], t)
      BY <2>1, <3>1, <3>2, <3>3 DEF Since, RunUpTo
    <3>5. RunUpTo(b.from[x], runs + 1) /\ RunUpTo(b.text[x], runs + 1)
      BY <1>0, <2>1, <3>1, <3>3 DEF RunUpTo
    <3>6. BranchKept(b, x, t)'
      BY <2>2, <3>1, <3>2, <3>4, <3>5 DEF BranchKept, RunUpTo
    <3> QED BY <3>6 DEF b
  <2>5. RunKept(x, t)'
    <3>1. main[x] # Text("user", t) /\ main # NoBase
      BY <1>0, <1>1, <1>5, <2>0, <2>1 DEF Dirty
    <3> QED BY <1>0, <1>2, <1>5, <2>1, <3>1 DEF RunKept
  <2>6. WordStays(x)
    BY <1>0, <2>1, <2>2 DEF WordStays
  <2> QED BY <2>1, <2>3, <2>4, <2>5, <2>6 DEF WordKept
<1>6. CASE ~Dirty(x) /\ main' = work
  BY <1>4, <1>6 DEF Dirty
<1>7. \/ run' = IdleRun /\ main' = main
      \/ work = main /\ main' = main
      \/ main' = work /\ dayBase' = main
  BY <1>0 DEF StartRun, repoVars
<1> QED BY <1>4, <1>5, <1>6, <1>7, IdleRunOK DEF Dirty

\* No step of anybody loses track of the user's words or writes over them.
LEMMA WordStep ==
    ASSUME ConsInv, ~NotesOnDirty, WordsInv, [ConsNext]_consVars
    PROVE  WordsInv' /\ \A x \in Passages \ retold' : WordStays(x)
<1>1. retold \subseteq retold'
  BY DEF ConsNext, RunStep, DecStep, UserEdit, HandleWrite, HandleForget, MemoryTool, NextDay,
         StartRun, TouchedLines, Supersede, ReadMemoryFiles, CreateWorktree, Consolidate,
         CommitSuggestion, LedgerPending, CleanupWorktree, RunFails, Approve, Reject,
         RebaseWorktreeOnto, MergeFastForwardOnly, DeleteBranch, LedgerApproved, DecFails,
         ConsCrash, countVars, consVars
<1> SUFFICES ASSUME NEW x \in Passages, x \notin retold'
             PROVE  (\E t \in Int : WordKept(x, t)') /\ WordStays(x)
  BY DEF WordsInv
<1>2. PICK s \in Int : WordKept(x, s)
  BY <1>1 DEF WordsInv
<1>3. CASE UNCHANGED consVars
  BY <1>2, <1>3, WordFrame, RunFrame DEF consVars
<1>4. CASE \E y \in Passages : UserEdit(y)
  BY <1>2, <1>4, UserWord
<1>5. CASE \E f \in Files : HandleWrite(f) \/ HandleForget(f)
  <2>1. \E f \in Files : \E told, by : MemoryTool(f, told, by)
    BY <1>5 DEF HandleWrite, HandleForget
  <2> QED BY <1>2, <2>1, ToolWord
<1>6. CASE StartRun
  BY <1>2, <1>6, StartWord
<1>7. CASE NextDay \/ ConsCrash \/ Supersede \/ CommitSuggestion \/ LedgerPending
           \/ CleanupWorktree \/ RunFails \/ Approve \/ Reject \/ DeleteBranch \/ LedgerApproved
           \/ DecFails
  BY <1>2, <1>7, QuietWord
<1>8. CASE TouchedLines
  BY <1>2, <1>8, TouchedWord
<1>9. CASE ReadMemoryFiles
  BY <1>2, <1>9, ReadWord
<1>10. CASE CreateWorktree
  BY <1>2, <1>10, WorktreeWord
<1>11. CASE \E rewritten \in SUBSET Passages : Consolidate(rewritten)
  BY <1>2, <1>11, SessionsWord
<1>12. CASE RebaseWorktreeOnto
  BY <1>2, <1>12, RebaseWord
<1>13. CASE MergeFastForwardOnly
  BY <1>2, <1>13, MergeWord
<1> QED BY <1>3, <1>4, <1>5, <1>6, <1>7, <1>8, <1>9, <1>10, <1>11, <1>12, <1>13
        DEF ConsNext, RunStep, DecStep

\* The nightly run asks first, whatever interleaves: nothing lands without
\* consent, no suggestion disappears behind another, and what the user wrote
\* after the run before is never written over, on main or on disk - as long as
\* the memory tools keep away from files with open edits (consolidation.go
\* runOnce, Approve; git.go mergeFastForwardOnly; userlines.go
\* ComputeUserTouchedLines).
THEOREM UserWordsStay == ~NotesOnDirty => (ConsSafety => ConsolidationAsksFirst)
<1> SUFFICES ASSUME ~NotesOnDirty PROVE ConsSafety => ConsolidationAsksFirst
  OBVIOUS
<1> DEFINE Both == ConsInv /\ WordsInv
           Kept == \A x \in Passages \ retold' :
                      /\ main'[x] # main[x] /\ main'[x].by = "kahya" =>
                            main[x].by # "user" \/ main[x].run + 1 < main'[x].run
                      /\ work'[x] # work[x] /\ work'[x].by = "kahya" =>
                            work[x].by # "user" \/ work[x].run + 1 < work'[x].run
<1>1. ConsInit => Both
  BY InitCons, InitWords
<1>2. Both /\ [ConsNext]_consVars => Both' /\ Kept
  BY ConsStep, WordStep DEF WordStays
<1>3. Both /\ [ConsNext]_consVars => Both' /\ [Kept]_consVars
  BY <1>2
<1>4. ConsSafety => [][Kept]_consVars
  BY <1>1, <1>3, PTL DEF ConsSafety
<1> QED BY <1>4, SuggestionsAskFirst DEF ConsolidationAsksFirst, KeepsUserEdits

-----------------------------------------------------------------------------
(* Chunking.  A fold over the positions of a sequence is unfolded into one *)
(* that takes them in order; what holds after every position is shown by   *)
(* a least counterexample.                                                 *)

\* The greatest number of 1..k with k in it is k, and what is left is below.
LEMMA MaxIsLast ==
    ASSUME NEW k \in Nat, NEW s \in SUBSET (1..k), k \in s
    PROVE  Max(s) = k
<1>1. \A y \in s : k >= y
  OBVIOUS
<1>2. \A x \in s : (\A y \in s : x >= y) => x = k
  OBVIOUS
<1> QED BY <1>1, <1>2 DEF Max

\* The greatest of some numbers up to n is one of them.
LEMMA MaxIsThere ==
    ASSUME NEW n \in Nat, NEW s \in SUBSET (1..n), s # {}
    PROVE  Max(s) \in s
<1>1. \E x \in s : \A y \in s : x >= y
  BY GreatestNumber
<1> QED BY <1>1 DEF Max

\* g folds F over every set of numbers up to n, the greatest last.
FoldsUp(g, base, F, n) ==
    \A s \in SUBSET (1..n) : g[s] = IF s = {} THEN base ELSE F[<<g[s \ {Max(s)}], Max(s)>>]

\* A fold over the numbers up to k - 1 becomes one over those up to k.
LEMMA FoldStep ==
    ASSUME NEW St, NEW base \in St, NEW n \in Nat, NEW F \in [St \X (1..n) -> St],
           NEW k \in 1..n, NEW g \in [SUBSET (1..(k - 1)) -> St], FoldsUp(g, base, F, k - 1)
    PROVE  \E h \in [SUBSET (1..k) -> St] : FoldsUp(h, base, F, k)
<1> DEFINE V(s) == IF k \in s THEN F[<<g[s \ {k}], k>>] ELSE g[s]
           h == [s \in SUBSET (1..k) |-> V(s)]
<1>1. ASSUME NEW s \in SUBSET (1..k) PROVE k \in s => s \ {k} \in SUBSET (1..(k - 1))
  OBVIOUS
<1>2. ASSUME NEW s \in SUBSET (1..k), k \notin s PROVE s \in SUBSET (1..(k - 1))
  BY <1>2
<1>3. \A s \in SUBSET (1..k) : V(s) \in St
  BY <1>1, <1>2
<1>4. \A s \in SUBSET (1..(k - 1)) : s \in SUBSET (1..k) /\ k \notin s
  OBVIOUS
<1>5. \A s \in SUBSET (1..(k - 1)) : h[s] = g[s]
  BY <1>4
<1>6. ASSUME NEW s \in SUBSET (1..k)
      PROVE  h[s] = IF s = {} THEN base ELSE F[<<h[s \ {Max(s)}], Max(s)>>]
  <2>0. h[s] = V(s)
    OBVIOUS
  <2>1. CASE k \in s
    <3>1. Max(s) = k
      BY <2>1, MaxIsLast
    <3>2. h[s \ {k}] = g[s \ {k}]
      BY <1>1, <1>5, <2>1
    <3> HIDE DEF h
    <3> QED BY <2>0, <2>1, <3>1, <3>2
  <2>2. CASE k \notin s
    <3>1. s \in SUBSET (1..(k - 1)) /\ s \ {Max(s)} \in SUBSET (1..(k - 1))
      BY <1>2, <2>2
    <3>2. g[s] = IF s = {} THEN base ELSE F[<<g[s \ {Max(s)}], Max(s)>>]
      BY <3>1 DEF FoldsUp
    <3> HIDE DEF h
    <3> QED BY <1>5, <3>1, <3>2
  <2> QED BY <2>1, <2>2
<1>7. h \in [SUBSET (1..k) -> St]
  BY <1>3
<1> HIDE DEF h
<1> QED BY <1>6, <1>7 DEF FoldsUp

\* A fold exists, whatever is folded.
LEMMA FoldExists ==
    ASSUME NEW St, NEW base \in St, NEW n \in Nat, NEW F \in [St \X (1..n) -> St]
    PROVE  \E g \in [SUBSET (1..n) -> St] : FoldsUp(g, base, F, n)
<1> DEFINE T == {k \in 0..n : ~ \E g \in [SUBSET (1..k) -> St] : FoldsUp(g, base, F, k)}
<1>0. n \in 0..n /\ \A x \in 0..n : x \in Nat
  OBVIOUS
<1>1. SUFFICES ASSUME n \in T PROVE FALSE
  BY <1>0, Zenon
<1>2. PICK k \in T : \A m \in T : k <= m
  <2>1. T \in SUBSET Nat /\ T # {}
    BY <1>0, <1>1, Zenon
  <2> HIDE DEF T
  <2> QED BY <2>1, LeastNumber
<1>3. k \in 0..n /\ ~ \E g \in [SUBSET (1..k) -> St] : FoldsUp(g, base, F, k)
  OBVIOUS
<1>4. CASE k = 0
  <2> DEFINE g == [s \in SUBSET (1..0) |-> base]
  <2>1. \A s \in SUBSET (1..0) : s = {}
    OBVIOUS
  <2>2. g \in [SUBSET (1..0) -> St]
    OBVIOUS
  <2>3. FoldsUp(g, base, F, 0)
    BY <2>1 DEF FoldsUp
  <2> QED BY <1>3, <1>4, <2>2, <2>3
<1>5. CASE k # 0
  <2>1. k \in 1..n /\ k - 1 \in 0..n /\ ~(k <= k - 1)
    BY <1>3, <1>5
  <2>2. k - 1 \notin T
    BY <1>2, <2>1
  <2>3. PICK g \in [SUBSET (1..(k - 1)) -> St] : FoldsUp(g, base, F, k - 1)
    BY <2>1, <2>2
  <2>4. \E h \in [SUBSET (1..k) -> St] : FoldsUp(h, base, F, k)
    BY <2>1, <2>3, FoldStep
  <2> QED BY <1>3, <2>4
<1> QED BY <1>4, <1>5

\* What a fold has after the first i elements: it starts at base and takes
\* one element at a time.
LEMMA FoldRuns ==
    ASSUME NEW n \in Nat, NEW g, NEW base, NEW F, FoldsUp(g, base, F, n)
    PROVE  /\ g[{}] = base
           /\ \A i \in 1..n : g[1..i] = F[<<g[1..(i - 1)], i>>]
<1>1. g[{}] = base
  BY DEF FoldsUp
<1>2. ASSUME NEW i \in 1..n PROVE g[1..i] = F[<<g[1..(i - 1)], i>>]
  <2>1. 1..i \in SUBSET (1..n) /\ 1..i # {} /\ i \in 1..i /\ 1..i \in SUBSET (1..i)
    OBVIOUS
  <2>2. Max(1..i) = i
    BY <2>1, MaxIsLast
  <2>3. (1..i) \ {i} = 1..(i - 1)
    OBVIOUS
  <2> QED BY <2>1, <2>2, <2>3 DEF FoldsUp
<1> QED BY <1>1, <1>2

-----------------------------------------------------------------------------
(* Splitting a document into pieces.                                       *)

\* The line numbers of a text, which may also have line breaks; a text has
\* them in the order of the document.
Numbers(r) == Range(r) \ {0}
InOrder(r) == \A p, q \in 1..Len(r) : p < q /\ r[p] # 0 /\ r[q] # 0 => r[p] < r[q]

Pieces == [text : Seq(Nat), protected : BOOLEAN]
Splits == [pieces : Seq(Pieces), cur : Seq(Nat), fence : Seq(Nat), open : Nat]
NoSplit == [pieces |-> <<>>, cur |-> <<>>, fence |-> <<>>, open |-> 0]

\* Lines up to the n-th, in order.
LinesUpTo(c, n) ==
    /\ c \in Seq(Nat)
    /\ \A p \in 1..Len(c) : c[p] >= 1 /\ c[p] <= n
    /\ \A p, q \in 1..Len(c) : p < q => c[p] < c[q]

\* The lines of c are of the last piece.
After(P, c) == \A j \in 1..Len(P), p \in 1..Len(c) : \A x \in Numbers(P[j].text) : x < c[p]

\* Pieces come in the order of the document and have a line each.
PiecesFit(P, n) ==
    /\ P \in Seq(Pieces)
    /\ \A j \in 1..Len(P) :
          /\ InOrder(P[j].text) /\ Numbers(P[j].text) # {}
          /\ \A x \in Numbers(P[j].text) : x >= 1 /\ x <= n
    /\ \A i, j \in 1..Len(P) : i < j =>
          \A x \in Numbers(P[i].text), y \in Numbers(P[j].text) : x < y

InPieces(P, k) == \E j \in 1..Len(P) : k \in Numbers(P[j].text)

\* After i lines every line is in a piece or in what is being collected.
SplitInv(s, i, ls) ==
    /\ s \in Splits
    /\ PiecesFit(s.pieces, i)
    /\ LinesUpTo(s.cur, i) /\ After(s.pieces, s.cur)
    /\ LinesUpTo(s.fence, i)
    /\ s.open > 0 => s.cur = <<>> /\ s.fence # <<>> /\ After(s.pieces, s.fence)
    /\ \A k \in 1..i : ls[k] # "blank" =>
          \/ InPieces(s.pieces, k)
          \/ k \in Range(s.cur)
          \/ s.open > 0 /\ k \in Range(s.fence)

\* What a piece is made of.
LEMMA PieceTyped ==
    ASSUME NEW P \in Seq(Pieces), NEW j \in 1..Len(P)
    PROVE  /\ P[j] \in Pieces /\ P[j].text \in Seq(Nat) /\ P[j].protected \in BOOLEAN
           /\ Numbers(P[j].text) \subseteq Nat
<1>1. P[j] \in Pieces
  BY ElementOfSeq
<1>2. P[j].text \in Seq(Nat) /\ P[j].protected \in BOOLEAN
  BY <1>1 DEF Pieces
<1>3. \A p \in DOMAIN P[j].text : P[j].text[p] \in Nat
  BY <1>2
<1> QED BY <1>1, <1>2, <1>3 DEF Numbers, Range

\* A state of the split is made of its four parts.
LEMMA SplitTyped ==
    ASSUME NEW s \in Splits
    PROVE  /\ s = [pieces |-> s.pieces, cur |-> s.cur, fence |-> s.fence, open |-> s.open]
           /\ s.pieces \in Seq(Pieces) /\ s.cur \in Seq(Nat) /\ s.fence \in Seq(Nat) /\ s.open \in Nat
BY DEF Splits

\* Four parts that fit make a state of the split.
LEMMA SplitFits ==
    ASSUME NEW n, NEW P, PiecesFit(P, n), NEW c, LinesUpTo(c, n), NEW d, LinesUpTo(d, n), NEW o \in Nat
    PROVE  [pieces |-> P, cur |-> c, fence |-> d, open |-> o] \in Splits
BY DEF Splits, PiecesFit, LinesUpTo

\* Joining lines puts a break between any two.
LEMMA JoinIs ==
    ASSUME NEW c \in Seq(Nat), c # <<>>, \A p \in 1..Len(c) : c[p] # 0
    PROVE  /\ Join(c) \in Seq(Nat) /\ Len(Join(c)) = 2 * Len(c) - 1
           /\ \A p \in 1..Len(c) : 2 * p - 1 \in 1..Len(Join(c)) /\ Join(c)[2 * p - 1] = c[p]
           /\ \A q \in 1..Len(Join(c)) : Join(c)[q] # 0 =>
                 \E p \in 1..Len(c) : q = 2 * p - 1 /\ Join(c)[q] = c[p]
<1> DEFINE L == 2 * Len(c) - 1
<1>1. Len(c) \in Nat /\ Len(c) >= 1 /\ L \in Nat
  OBVIOUS
<1>2. Join(c) = [n \in 1..L |-> IF n % 2 = 1 THEN c[(n + 1) \div 2] ELSE 0]
  BY <1>1 DEF Join
<1>3. ASSUME NEW n \in 1..L, n % 2 = 1
      PROVE  (n + 1) \div 2 \in 1..Len(c) /\ n = 2 * ((n + 1) \div 2) - 1
  BY <1>1, <1>3
<1>4. \A n \in 1..L : Join(c)[n] \in Nat
  BY <1>2, <1>3
<1>5. Join(c) \in Seq(Nat) /\ Len(Join(c)) = L
  <2> HIDE DEF L
  <2>1. Join(c) \in [1..L -> Nat]
    BY <1>2, <1>4
  <2> QED BY <1>1, <2>1
<1>6. ASSUME NEW p \in 1..Len(c) PROVE 2 * p - 1 \in 1..L /\ Join(c)[2 * p - 1] = c[p]
  <2>1. 2 * p - 1 \in 1..L /\ (2 * p - 1) % 2 = 1 /\ ((2 * p - 1) + 1) \div 2 = p
    BY <1>1
  <2> QED BY <2>1, <1>2
<1>7. ASSUME NEW q \in 1..L, Join(c)[q] # 0
      PROVE  \E p \in 1..Len(c) : q = 2 * p - 1 /\ Join(c)[q] = c[p]
  <2>1. q % 2 = 1
    BY <1>2, <1>7
  <2> QED BY <1>2, <1>3, <2>1
<1> QED BY <1>5, <1>6, <1>7

\* The text of a piece has the lines that were collected, in order.
LEMMA JoinFits ==
    ASSUME NEW n \in Nat, NEW c, LinesUpTo(c, n), c # <<>>
    PROVE  /\ Join(c) \in Seq(Nat) /\ InOrder(Join(c))
           /\ Numbers(Join(c)) = Range(c) /\ Range(c) # {}
<1>0. c \in Seq(Nat) /\ \A p \in 1..Len(c) : c[p] # 0
  BY DEF LinesUpTo
<1>1. /\ Join(c) \in Seq(Nat) /\ Len(Join(c)) = 2 * Len(c) - 1
      /\ \A p \in 1..Len(c) : 2 * p - 1 \in 1..Len(Join(c)) /\ Join(c)[2 * p - 1] = c[p]
      /\ \A q \in 1..Len(Join(c)) : Join(c)[q] # 0 =>
            \E p \in 1..Len(c) : q = 2 * p - 1 /\ Join(c)[q] = c[p]
  BY <1>0, JoinIs
<1>2. InOrder(Join(c))
  <2>1. SUFFICES ASSUME NEW p \in 1..Len(Join(c)), NEW q \in 1..Len(Join(c)), p < q,
                        Join(c)[p] # 0, Join(c)[q] # 0
                 PROVE  Join(c)[p] < Join(c)[q]
    BY DEF InOrder
  <2>2. PICK a \in 1..Len(c) : p = 2 * a - 1 /\ Join(c)[p] = c[a]
    BY <1>1, <2>1
  <2>3. PICK b \in 1..Len(c) : q = 2 * b - 1 /\ Join(c)[q] = c[b]
    BY <1>1, <2>1
  <2>4. a < b
    BY <2>1, <2>2, <2>3
  <2> QED BY <2>2, <2>3, <2>4 DEF LinesUpTo
<1>3. DOMAIN c = 1..Len(c) /\ DOMAIN Join(c) = 1..Len(Join(c)) /\ 1 \in 1..Len(c)
  BY <1>0, <1>1
<1>4. Numbers(Join(c)) = Range(c)
  <2>1. ASSUME NEW x \in Numbers(Join(c)) PROVE x \in Range(c)
    <3>1. PICK q \in 1..Len(Join(c)) : x = Join(c)[q] /\ x # 0
      BY <1>3, <2>1 DEF Numbers, Range
    <3>2. PICK p \in 1..Len(c) : Join(c)[q] = c[p]
      BY <1>1, <3>1
    <3> QED BY <1>3, <3>1, <3>2 DEF Range
  <2>2. ASSUME NEW x \in Range(c) PROVE x \in Numbers(Join(c))
    <3>1. PICK p \in 1..Len(c) : x = c[p]
      BY <1>3, <2>2 DEF Range
    <3>2. 2 * p - 1 \in 1..Len(Join(c)) /\ Join(c)[2 * p - 1] = x /\ x # 0
      BY <1>0, <1>1, <3>1
    <3> QED BY <1>3, <3>2 DEF Numbers, Range
  <2> QED BY <2>1, <2>2
<1>5. Range(c) # {}
  BY <1>3 DEF Range
<1> QED BY <1>1, <1>2, <1>4, <1>5

\* One more piece, of lines after all the others.
LEMMA PieceAdded ==
    ASSUME NEW n \in Nat, NEW P, PiecesFit(P, n), NEW c, LinesUpTo(c, n), c # <<>>,
           After(P, c), NEW b \in BOOLEAN
    PROVE  /\ PiecesFit(Append(P, Piece(c, b)), n)
           /\ \A k : InPieces(P, k) \/ k \in Range(c) => InPieces(Append(P, Piece(c, b)), k)
           /\ \A d : After(P, d) /\ (\A x \in Range(c), p \in 1..Len(d) : x < d[p])
                        => After(Append(P, Piece(c, b)), d)
<1> DEFINE Q == Append(P, Piece(c, b))
           m == Len(P) + 1
<1>1. /\ Join(c) \in Seq(Nat) /\ InOrder(Join(c))
      /\ Numbers(Join(c)) = Range(c) /\ Range(c) # {}
  BY JoinFits
<1>2. /\ Piece(c, b) \in Pieces /\ Piece(c, b).text = Join(c)
  BY <1>1 DEF Piece, Pieces
<1>3. P \in Seq(Pieces) /\ Len(P) \in Nat
  BY DEF PiecesFit
<1>4. /\ Q \in Seq(Pieces) /\ Len(Q) = m
      /\ Q[m] = Piece(c, b) /\ \A j \in 1..Len(P) : Q[j] = P[j]
  BY <1>2, <1>3
<1>5. \A j \in 1..m : j = m \/ j \in 1..Len(P)
  BY <1>3
<1>6. \A x \in Range(c) : x >= 1 /\ x <= n
  BY DEF LinesUpTo, Range
<1>7. \A j \in 1..Len(P) : \A x \in Numbers(P[j].text), y \in Range(c) : x < y
  BY DEF After, LinesUpTo, Range
<1> HIDE DEF Q
<1>8. \A j \in 1..m :
         /\ InOrder(Q[j].text) /\ Numbers(Q[j].text) # {}
         /\ \A x \in Numbers(Q[j].text) : x >= 1 /\ x <= n
  BY <1>1, <1>2, <1>4, <1>5, <1>6 DEF PiecesFit
<1>9. ASSUME NEW i \in 1..m, NEW j \in 1..m, i < j
      PROVE  \A x \in Numbers(Q[i].text), y \in Numbers(Q[j].text) : x < y
  <2>1. i \in 1..Len(P)
    BY <1>3, <1>9
  <2>2. CASE j = m
    BY <1>1, <1>2, <1>4, <1>7, <2>1, <2>2
  <2>3. CASE j \in 1..Len(P)
    BY <1>4, <1>9, <2>1, <2>3 DEF PiecesFit
  <2> QED BY <1>5, <2>2, <2>3
<1>10. PiecesFit(Q, n)
  BY <1>4, <1>8, <1>9 DEF PiecesFit
<1>11. ASSUME NEW k, InPieces(P, k) \/ k \in Range(c) PROVE InPieces(Q, k)
  <2>1. 1..Len(P) \subseteq 1..m /\ m \in 1..m
    BY <1>3
  <2> QED BY <1>1, <1>2, <1>4, <1>11, <2>1 DEF InPieces
<1>12. ASSUME NEW d, After(P, d), \A x \in Range(c), p \in 1..Len(d) : x < d[p] PROVE After(Q, d)
  BY <1>1, <1>2, <1>4, <1>5, <1>12 DEF After
<1> QED BY <1>10, <1>11, <1>12 DEF Q

\* More lines to come do not disturb what there is.
LEMMA LinesGrow ==
    ASSUME NEW n \in Nat, NEW c, LinesUpTo(c, n)
    PROVE  /\ LinesUpTo(c, n + 1)
           /\ LinesUpTo(Append(c, n + 1), n + 1) /\ Append(c, n + 1) # <<>>
           /\ Range(Append(c, n + 1)) = Range(c) \cup {n + 1}
           /\ \A P : PiecesFit(P, n) /\ After(P, c) => After(P, Append(c, n + 1))
<1> DEFINE d == Append(c, n + 1)
           m == Len(c) + 1
<1>1. c \in Seq(Nat) /\ Len(c) \in Nat /\ \A p \in 1..Len(c) : c[p] >= 1 /\ c[p] <= n /\ c[p] \in Nat
  BY DEF LinesUpTo
<1>2. /\ d \in Seq(Nat) /\ Len(d) = m /\ d # <<>>
      /\ d[m] = n + 1 /\ \A p \in 1..Len(c) : d[p] = c[p]
  BY <1>1
<1>3. \A p \in 1..m : p = m \/ p \in 1..Len(c)
  BY <1>1
<1>4. 1..Len(c) \subseteq 1..m /\ m \in 1..m
  BY <1>1
<1> HIDE DEF d
<1>5. ASSUME NEW p \in 1..m PROVE d[p] >= 1 /\ d[p] <= n + 1
  <2>1. CASE p = m
    BY <1>2, <2>1
  <2>2. CASE p \in 1..Len(c)
    <3>1. d[p] = c[p] /\ c[p] >= 1 /\ c[p] <= n /\ c[p] \in Nat
      BY <1>1, <1>2, <2>2
    <3> HIDE DEF m
    <3> QED BY <3>1
  <2> QED BY <1>3, <2>1, <2>2
<1>6. ASSUME NEW p \in 1..m, NEW q \in 1..m, p < q PROVE d[p] < d[q]
  <2>1. p \in 1..Len(c)
    BY <1>1, <1>6
  <2>2. CASE q = m
    BY <1>1, <1>2, <2>1, <2>2
  <2>3. CASE q \in 1..Len(c)
    BY <1>2, <1>6, <2>1, <2>3 DEF LinesUpTo
  <2> QED BY <1>3, <2>2, <2>3
<1>7. LinesUpTo(d, n + 1)
  BY <1>2, <1>5, <1>6 DEF LinesUpTo
<1>8. LinesUpTo(c, n + 1)
  BY <1>1 DEF LinesUpTo
<1>9. DOMAIN c = 1..Len(c) /\ DOMAIN d = 1..m
  BY <1>1, <1>2
<1>10. Range(d) = Range(c) \cup {n + 1}
  <2>1. ASSUME NEW x \in Range(d) PROVE x \in Range(c) \cup {n + 1}
    BY <1>2, <1>3, <1>9 DEF Range
  <2>2. ASSUME NEW x \in Range(c) \cup {n + 1} PROVE x \in Range(d)
    BY <1>2, <1>4, <1>9 DEF Range
  <2> QED BY <2>1, <2>2
<1>11. ASSUME NEW P, PiecesFit(P, n), After(P, c) PROVE After(P, d)
  <2>1. SUFFICES ASSUME NEW j \in 1..Len(P), NEW p \in 1..m, NEW x \in Numbers(P[j].text)
                 PROVE  x < d[p]
    BY <1>2 DEF After
  <2>2. x <= n
    BY <1>11 DEF PiecesFit
  <2>3. x \in Nat
    BY <1>11, <2>1, PieceTyped DEF PiecesFit
  <2>4. p \in 1..Len(c) => x < c[p]
    BY <1>11 DEF After
  <2> QED BY <1>2, <1>3, <2>2, <2>3, <2>4
<1> QED BY <1>2, <1>7, <1>8, <1>10, <1>11 DEF d

\* Pieces that fit a document fit one of a line more.
LEMMA PiecesGrow ==
    ASSUME NEW n \in Nat, NEW P, PiecesFit(P, n)
    PROVE  PiecesFit(P, n + 1)
<1>1. P \in Seq(Pieces)
  BY DEF PiecesFit
<1>2. ASSUME NEW j \in 1..Len(P), NEW x \in Numbers(P[j].text) PROVE x >= 1 /\ x <= n + 1
  <2>1. x \in Nat
    BY <1>1, PieceTyped
  <2>2. x >= 1 /\ x <= n
    BY DEF PiecesFit
  <2> QED BY <2>1, <2>2
<1> QED BY <1>2 DEF PiecesFit

\* A line of its own starts a collection after all pieces.
LEMMA LineStarts ==
    ASSUME NEW n \in Nat, NEW P, PiecesFit(P, n)
    PROVE  /\ LinesUpTo(<<n + 1>>, n + 1) /\ After(P, <<n + 1>>)
           /\ Range(<<n + 1>>) = {n + 1} /\ <<n + 1>> # <<>>
<1>1. LinesUpTo(<<>>, n) /\ After(P, <<>>) /\ Append(<<>>, n + 1) = <<n + 1>>
  BY DEF LinesUpTo, After
<1>2. Range(<<>>) = {}
  BY DEF Range
<1>3. /\ LinesUpTo(Append(<<>>, n + 1), n + 1) /\ Append(<<>>, n + 1) # <<>>
      /\ Range(Append(<<>>, n + 1)) = Range(<<>>) \cup {n + 1}
      /\ After(P, Append(<<>>, n + 1))
  BY <1>1, LinesGrow
<1> QED BY <1>1, <1>2, <1>3

\* Before the first line nothing is collected.
LEMMA NothingCollected ==
    /\ \A n : LinesUpTo(<<>>, n)
    /\ \A P : After(P, <<>>)
    /\ Range(<<>>) = {}
BY DEF LinesUpTo, After, Range

\* A paragraph that ends becomes a piece.
LEMMA FlushKeeps ==
    ASSUME NEW ls, NEW n \in Nat, NEW s, SplitInv(s, n, ls)
    PROVE  SplitInv(FlushParagraph(s), n, ls) /\ FlushParagraph(s).cur = <<>>
           /\ FlushParagraph(s).open = s.open /\ FlushParagraph(s).fence = s.fence
<1> DEFINE t == FlushParagraph(s)
           Q == Append(s.pieces, Piece(s.cur, FALSE))
<1>1. CASE s.cur = <<>>
  BY <1>1 DEF FlushParagraph
<1>2. CASE s.cur # <<>>
  <2>1. s \in Splits /\ s.open \in Nat
    BY DEF SplitInv, Splits
  <2>2. s.open = 0
    BY <1>2, <2>1 DEF SplitInv
  <2>3. t = [pieces |-> Q, cur |-> <<>>, fence |-> s.fence, open |-> s.open]
    BY <1>2, <2>1 DEF FlushParagraph, Splits
  <2>4. PiecesFit(Q, n) /\ \A k : InPieces(s.pieces, k) \/ k \in Range(s.cur) => InPieces(Q, k)
    BY <1>2, PieceAdded DEF SplitInv
  <2>5. LinesUpTo(<<>>, n) /\ After(Q, <<>>)
    BY NothingCollected
  <2> HIDE DEF Q, t
  <2>6. t \in Splits
    BY <2>1, <2>3, <2>4, <2>5, SplitFits DEF SplitInv
  <2>7. \A k \in 1..n : ls[k] # "blank" => InPieces(Q, k)
    BY <2>1, <2>2, <2>4 DEF SplitInv
  <2>8. SplitInv(t, n, ls)
    BY <2>2, <2>3, <2>4, <2>5, <2>6, <2>7 DEF SplitInv
  <2> QED BY <2>3, <2>8 DEF t
<1> QED BY <1>1, <1>2

\* Whatever the next line is, it is collected or closes what was collected.
LEMMA LineKeeps ==
    ASSUME NEW ls \in Seq(LineKinds), NEW n \in Nat, n + 1 \in 1..Len(ls), NEW s, SplitInv(s, n, ls)
    PROVE  SplitInv(SplitLine(s, n + 1, ls[n + 1]), n + 1, ls)
<1> DEFINE kind == ls[n + 1]
           t == SplitLine(s, n + 1, kind)
           f == FlushParagraph(s)
<1>1. s \in Splits /\ s.open \in Nat /\ kind \in LineKinds /\ FenceLen(kind) \in Nat
  BY DEF SplitInv, Splits, FenceLen
<1>2. n + 1 \in Nat /\ \A k \in 1..(n + 1) : k = n + 1 \/ k \in 1..n
  OBVIOUS
<1>3. /\ SplitInv(f, n, ls) /\ f.cur = <<>> /\ f.open = s.open /\ f.fence = s.fence /\ f \in Splits
  BY FlushKeeps DEF SplitInv
<1>4. CASE s.open > 0 /\ FenceLen(kind) >= s.open
  <2> DEFINE c == Append(s.fence, n + 1)
             Q == Append(s.pieces, Piece(c, TRUE))
  <2>1. t = [pieces |-> Q, cur |-> s.cur, fence |-> <<>>, open |-> 0] /\ s.cur = <<>>
    BY <1>1, <1>4 DEF SplitLine, Splits, SplitInv
  <2>2. /\ LinesUpTo(c, n + 1) /\ c # <<>> /\ Range(c) = Range(s.fence) \cup {n + 1}
        /\ After(s.pieces, c) /\ PiecesFit(s.pieces, n + 1)
    BY <1>4, LinesGrow, PiecesGrow DEF SplitInv
  <2>3. /\ PiecesFit(Q, n + 1)
        /\ \A k : InPieces(s.pieces, k) \/ k \in Range(c) => InPieces(Q, k)
    <3> HIDE DEF c
    <3> QED BY <1>2, <2>2, PieceAdded
  <2>4. LinesUpTo(<<>>, n + 1) /\ After(Q, <<>>)
    <3> HIDE DEF Q
    <3> QED BY NothingCollected
  <2>5. t \in Splits
    <3> HIDE DEF Q, t
    <3> QED BY <2>1, <2>3, <2>4, SplitFits
  <2>6. \A k \in 1..(n + 1) : ls[k] # "blank" => InPieces(Q, k)
    <3>1. Range(s.cur) = {}
      BY <2>1, NothingCollected
    <3> HIDE DEF Q, c
    <3> QED BY <1>2, <2>2, <2>3, <3>1 DEF SplitInv
  <2> HIDE DEF Q, c, t
  <2> QED BY <2>1, <2>3, <2>4, <2>5, <2>6 DEF SplitInv, t
<1>5. CASE s.open > 0 /\ ~(FenceLen(kind) >= s.open)
  <2> DEFINE c == Append(s.fence, n + 1)
  <2>1. t = [pieces |-> s.pieces, cur |-> s.cur, fence |-> c, open |-> s.open] /\ s.cur = <<>>
    BY <1>1, <1>5 DEF SplitLine, Splits, SplitInv
  <2>2. /\ LinesUpTo(c, n + 1) /\ c # <<>> /\ Range(c) = Range(s.fence) \cup {n + 1}
        /\ After(s.pieces, c) /\ PiecesFit(s.pieces, n + 1)
    BY <1>5, LinesGrow, PiecesGrow DEF SplitInv
  <2>3. LinesUpTo(<<>>, n + 1) /\ After(s.pieces, <<>>)
    BY NothingCollected
  <2> HIDE DEF c, t
  <2>4. t \in Splits
    BY <1>1, <2>1, <2>2, <2>3, SplitFits
  <2>5. \A k \in 1..(n + 1) : ls[k] # "blank" =>
           InPieces(s.pieces, k) \/ k \in Range(s.cur) \/ k \in Range(c)
    BY <1>2, <2>2 DEF SplitInv
  <2> QED BY <1>5, <2>1, <2>2, <2>3, <2>4, <2>5 DEF SplitInv, t
<1>6. CASE ~(s.open > 0) /\ FenceLen(kind) > 0
  <2> DEFINE c == <<n + 1>>
  <2>1. t = [pieces |-> f.pieces, cur |-> <<>>, fence |-> c, open |-> FenceLen(kind)]
    <3>1. kind # "blank" /\ kind # "head"
      BY <1>6 DEF FenceLen
    <3>2. t = [f EXCEPT !.open = FenceLen(kind), !.fence = c]
      BY <1>6, <3>1 DEF SplitLine
    <3> HIDE DEF f, t, c, kind
    <3> QED BY <1>3, <3>2 DEF Splits
  <2>2. /\ LinesUpTo(c, n + 1) /\ c # <<>> /\ Range(c) = {n + 1}
        /\ After(f.pieces, c) /\ PiecesFit(f.pieces, n + 1)
    BY <1>3, LineStarts, PiecesGrow DEF SplitInv
  <2>3. LinesUpTo(<<>>, n + 1) /\ After(f.pieces, <<>>) /\ Range(<<>>) = {}
    BY NothingCollected
  <2>4. t \in Splits
    <3> HIDE DEF f, t, c, kind
    <3> QED BY <1>1, <2>1, <2>2, <2>3, SplitFits
  <2>5. \A k \in 1..n : ls[k] # "blank" => InPieces(f.pieces, k)
    BY <1>1, <1>3, <1>6, <2>3 DEF SplitInv
  <2> HIDE DEF c, t, f
  <2>6. \A k \in 1..(n + 1) : ls[k] # "blank" => InPieces(f.pieces, k) \/ k \in Range(c)
    BY <1>2, <2>2, <2>5
  <2> QED BY <1>6, <2>1, <2>2, <2>3, <2>4, <2>6 DEF SplitInv, t
<1>7. CASE ~(s.open > 0) /\ ~(FenceLen(kind) > 0) /\ kind = "blank"
  <2>1. t = f /\ f.open = 0
    BY <1>1, <1>3, <1>7 DEF SplitLine, FenceLen
  <2>2. /\ LinesUpTo(f.fence, n + 1) /\ PiecesFit(f.pieces, n + 1)
        /\ LinesUpTo(<<>>, n + 1) /\ After(f.pieces, <<>>)
    BY <1>3, LinesGrow, PiecesGrow, NothingCollected DEF SplitInv
  <2> HIDE DEF t, f
  <2>3. \A k \in 1..(n + 1) : ls[k] # "blank" => InPieces(f.pieces, k) \/ k \in Range(f.cur)
    BY <1>2, <1>3, <1>7, <2>1 DEF SplitInv, kind
  <2> QED BY <1>3, <2>1, <2>2, <2>3 DEF SplitInv, t
<1>8. CASE ~(s.open > 0) /\ ~(FenceLen(kind) > 0) /\ kind = "head"
  <2> DEFINE c == <<n + 1>>
  <2>1. t = [pieces |-> f.pieces, cur |-> c, fence |-> f.fence, open |-> f.open] /\ f.open = 0
    <3>1. t = [f EXCEPT !.cur = c]
      BY <1>8 DEF SplitLine
    <3>2. f.open = 0
      BY <1>1, <1>3, <1>8
    <3> HIDE DEF f, t, c, kind
    <3> QED BY <1>3, <3>1, <3>2 DEF Splits
  <2>2. /\ LinesUpTo(c, n + 1) /\ c # <<>> /\ Range(c) = {n + 1}
        /\ After(f.pieces, c) /\ PiecesFit(f.pieces, n + 1) /\ LinesUpTo(f.fence, n + 1)
    BY <1>3, LineStarts, PiecesGrow, LinesGrow DEF SplitInv
  <2>3. t \in Splits
    <3> HIDE DEF f, t, c, kind
    <3> QED BY <2>1, <2>2, SplitFits
  <2>4. Range(<<>>) = {}
    BY NothingCollected
  <2>5. \A k \in 1..n : ls[k] # "blank" => InPieces(f.pieces, k)
    BY <1>3, <2>1, <2>4 DEF SplitInv
  <2> HIDE DEF c, t, f
  <2>6. \A k \in 1..(n + 1) : ls[k] # "blank" => InPieces(f.pieces, k) \/ k \in Range(c)
    BY <1>2, <2>2, <2>5
  <2> QED BY <2>1, <2>2, <2>3, <2>6 DEF SplitInv, t
<1>9. CASE ~(s.open > 0) /\ ~(FenceLen(kind) > 0) /\ kind \notin {"blank", "head"}
  <2> DEFINE c == Append(s.cur, n + 1)
  <2>1. t = [pieces |-> s.pieces, cur |-> c, fence |-> s.fence, open |-> s.open] /\ s.open = 0
    <3>1. t = [s EXCEPT !.cur = c]
      BY <1>1, <1>9 DEF SplitLine
    <3>2. s.open = 0
      BY <1>1, <1>9
    <3> HIDE DEF t, kind, c
    <3> QED BY <1>1, <3>1, <3>2 DEF Splits
  <2>2. /\ LinesUpTo(c, n + 1) /\ c # <<>> /\ Range(c) = Range(s.cur) \cup {n + 1}
        /\ After(s.pieces, c) /\ PiecesFit(s.pieces, n + 1) /\ LinesUpTo(s.fence, n + 1)
    BY LinesGrow, PiecesGrow DEF SplitInv
  <2> HIDE DEF c, t
  <2>3. t \in Splits
    BY <2>1, <2>2, SplitFits
  <2>4. \A k \in 1..(n + 1) : ls[k] # "blank" => InPieces(s.pieces, k) \/ k \in Range(c)
    BY <1>2, <2>1, <2>2 DEF SplitInv
  <2> QED BY <2>1, <2>2, <2>3, <2>4 DEF SplitInv, t
<1> QED BY <1>4, <1>5, <1>6, <1>7, <1>8, <1>9

\* Joined lines are a text.
LEMMA JoinTyped ==
    ASSUME NEW c \in Seq(Nat) PROVE Join(c) \in Seq(Nat)
<1>1. CASE c = <<>>
  <2>1. Join(c) = [n \in 1..0 |-> IF n % 2 = 1 THEN c[(n + 1) \div 2] ELSE 0]
    BY <1>1 DEF Join
  <2>2. Join(c) = <<>>
    BY <2>1
  <2> QED BY <2>2
<1>2. CASE c # <<>>
  <2> DEFINE L == 2 * Len(c) - 1
  <2>1. Len(c) \in Nat /\ Len(c) >= 1 /\ L \in Nat
    BY <1>2
  <2>2. Join(c) = [n \in 1..L |-> IF n % 2 = 1 THEN c[(n + 1) \div 2] ELSE 0]
    BY <1>2 DEF Join
  <2>3. ASSUME NEW n \in 1..L, n % 2 = 1 PROVE (n + 1) \div 2 \in 1..Len(c)
    BY <2>1, <2>3
  <2>4. \A n \in 1..L : Join(c)[n] \in Nat
    BY <2>2, <2>3
  <2> HIDE DEF L
  <2>5. Join(c) \in [1..L -> Nat]
    BY <2>2, <2>4
  <2> QED BY <2>1, <2>5
<1> QED BY <1>1, <1>2

\* A piece is made of its lines.
LEMMA PieceMade == ASSUME NEW c \in Seq(Nat), NEW b \in BOOLEAN PROVE Piece(c, b) \in Pieces
<1>1. Join(c) \in Seq(Nat)
  BY JoinTyped
<1> QED BY <1>1 DEF Piece, Pieces

\* A state of the split is made of its parts.
LEMMA SplitMade ==
    ASSUME NEW P \in Seq(Pieces), NEW c \in Seq(Nat), NEW d \in Seq(Nat), NEW o \in Nat
    PROVE  [pieces |-> P, cur |-> c, fence |-> d, open |-> o] \in Splits
BY DEF Splits

\* Flushing a paragraph keeps to states of the split.
LEMMA FlushTyped == ASSUME NEW s \in Splits PROVE FlushParagraph(s) \in Splits
<1>1. CASE s.cur = <<>>
  BY <1>1 DEF FlushParagraph
<1>2. CASE s.cur # <<>>
  <2> DEFINE Q == Append(s.pieces, Piece(s.cur, FALSE))
  <2>1. s.pieces \in Seq(Pieces) /\ s.cur \in Seq(Nat) /\ s.fence \in Seq(Nat) /\ s.open \in Nat
    BY SplitTyped
  <2>2. Piece(s.cur, FALSE) \in Pieces
    BY <2>1, PieceMade
  <2>3. Q \in Seq(Pieces)
    BY <2>1, <2>2, AppendProperties
  <2>4. FlushParagraph(s) = [s EXCEPT !.pieces = Q, !.cur = <<>>]
    BY <1>2 DEF FlushParagraph
  <2> HIDE DEF Q
  <2>5. FlushParagraph(s) = [pieces |-> Q, cur |-> <<>>, fence |-> s.fence, open |-> s.open]
    BY <2>4 DEF Splits
  <2>6. <<>> \in Seq(Nat)
    OBVIOUS
  <2> QED BY <2>1, <2>3, <2>5, <2>6, SplitMade
<1> QED BY <1>1, <1>2

\* So does a line, whatever it is.
LEMMA LineTyped ==
    ASSUME NEW s \in Splits, NEW n \in Nat, NEW kind \in LineKinds
    PROVE  SplitLine(s, n, kind) \in Splits
<1> DEFINE f == FlushParagraph(s)
           t == SplitLine(s, n, kind)
           d == Append(s.fence, n)
           c == Append(s.cur, n)
           Q == Append(s.pieces, Piece(d, TRUE))
<1>1. s.pieces \in Seq(Pieces) /\ s.cur \in Seq(Nat) /\ s.fence \in Seq(Nat) /\ s.open \in Nat
  BY SplitTyped
<1>2. /\ f \in Splits
      /\ f.pieces \in Seq(Pieces) /\ f.cur \in Seq(Nat) /\ f.fence \in Seq(Nat) /\ f.open \in Nat
  BY FlushTyped, SplitTyped
<1>3. FenceLen(kind) \in Nat /\ <<n>> \in Seq(Nat) /\ <<>> \in Seq(Nat) /\ 0 \in Nat
  BY DEF FenceLen
<1>4. d \in Seq(Nat) /\ c \in Seq(Nat)
  BY <1>1
<1>5. Q \in Seq(Pieces)
  <2>1. Piece(d, TRUE) \in Pieces
    <3> HIDE DEF d
    <3> QED BY <1>4, PieceMade
  <2> QED BY <1>1, <2>1, AppendProperties
<1>6. CASE s.open > 0 /\ FenceLen(kind) >= s.open
  <2>1. t = [s EXCEPT !.pieces = Q, !.fence = <<>>, !.open = 0]
    BY <1>6 DEF SplitLine
  <2> HIDE DEF t, Q
  <2>2. t = [pieces |-> Q, cur |-> s.cur, fence |-> <<>>, open |-> 0]
    BY <2>1 DEF Splits
  <2> QED BY <1>1, <1>3, <1>5, <2>2, SplitMade DEF t
<1>7. CASE s.open > 0 /\ ~(FenceLen(kind) >= s.open)
  <2>1. t = [s EXCEPT !.fence = d]
    BY <1>7 DEF SplitLine
  <2> HIDE DEF t, d
  <2>2. t = [pieces |-> s.pieces, cur |-> s.cur, fence |-> d, open |-> s.open]
    BY <2>1 DEF Splits
  <2> QED BY <1>1, <1>4, <2>2, SplitMade DEF t
<1>8. CASE ~(s.open > 0) /\ FenceLen(kind) > 0
  <2>1. kind # "blank" /\ kind # "head"
    BY <1>8 DEF FenceLen
  <2>2. t = [f EXCEPT !.open = FenceLen(kind), !.fence = <<n>>]
    BY <1>8, <2>1 DEF SplitLine
  <2> HIDE DEF t, f
  <2>3. t = [pieces |-> f.pieces, cur |-> f.cur, fence |-> <<n>>, open |-> FenceLen(kind)]
    BY <1>2, <2>2 DEF Splits
  <2> QED BY <1>2, <1>3, <2>3, SplitMade DEF t
<1>9. CASE ~(s.open > 0) /\ ~(FenceLen(kind) > 0) /\ kind = "blank"
  <2>1. t = f
    BY <1>9 DEF SplitLine
  <2> QED BY <1>2, <2>1
<1>10. CASE ~(s.open > 0) /\ ~(FenceLen(kind) > 0) /\ kind = "head"
  <2>1. t = [f EXCEPT !.cur = <<n>>]
    BY <1>10 DEF SplitLine
  <2> HIDE DEF t, f
  <2>2. t = [pieces |-> f.pieces, cur |-> <<n>>, fence |-> f.fence, open |-> f.open]
    BY <1>2, <2>1 DEF Splits
  <2> QED BY <1>2, <1>3, <2>2, SplitMade DEF t
<1>11. CASE ~(s.open > 0) /\ ~(FenceLen(kind) > 0) /\ kind \notin {"blank", "head"}
  <2>1. t = [s EXCEPT !.cur = c]
    BY <1>11 DEF SplitLine
  <2> HIDE DEF t, c
  <2>2. t = [pieces |-> s.pieces, cur |-> c, fence |-> s.fence, open |-> s.open]
    BY <2>1 DEF Splits
  <2> QED BY <1>1, <1>4, <2>2, SplitMade DEF t
<1> QED BY <1>6, <1>7, <1>8, <1>9, <1>10, <1>11

\* The split of a document, line by line.
LEMMA SplitRuns ==
    ASSUME NEW ls \in Seq(LineKinds)
    PROVE  \E s : /\ SplitInv(s, Len(ls), ls)
                  /\ SplitIntoPieces(ls) =
                        FlushParagraph(IF s.open > 0
                                       THEN [s EXCEPT !.pieces = Append(s.pieces, Piece(s.fence, TRUE))]
                                       ELSE s).pieces
<1> DEFINE n == Len(ls)
           idx == [k \in 1..Len(ls) |-> k]
           it[s \in SUBSET (DOMAIN idx)] ==
              IF s = {} THEN [pieces |-> <<>>, cur |-> <<>>, fence |-> <<>>, open |-> 0]
              ELSE LET x == Max(s) IN SplitLine(it[s \ {x}], idx[x], ls[idx[x]])
           F == [x \in Splits \X (1..n) |-> SplitLine(x[1], x[2], ls[x[2]])]
<1>1. SplitIntoPieces(ls) =
         FlushParagraph(IF it[DOMAIN idx].open > 0
                        THEN [it[DOMAIN idx] EXCEPT
                                 !.pieces = Append(it[DOMAIN idx].pieces, Piece(it[DOMAIN idx].fence, TRUE))]
                        ELSE it[DOMAIN idx]).pieces
  BY Zenon DEF SplitIntoPieces, FoldLeft, MapThenFoldSet
<1>2. n \in Nat /\ DOMAIN idx = 1..n /\ \A k \in 1..n : idx[k] = k /\ k \in Nat /\ ls[k] \in LineKinds
  OBVIOUS
<1>3. NoSplit \in Splits
  BY DEF NoSplit, Splits
<1>4. F \in [Splits \X (1..n) -> Splits]
  <2>1. \A x \in Splits \X (1..n) : x[1] \in Splits /\ x[2] \in 1..n
    OBVIOUS
  <2>2. \A x \in Splits \X (1..n) : SplitLine(x[1], x[2], ls[x[2]]) \in Splits
    <3> HIDE DEF n, F
    <3> QED BY <1>2, <2>1, LineTyped
  <2> QED BY <2>2
<1>5. \A t \in Splits, k \in 1..n : F[<<t, k>>] = SplitLine(t, k, ls[k])
  OBVIOUS
<1>6. PICK g \in [SUBSET (1..n) -> Splits] : FoldsUp(g, NoSplit, F, n)
  <2> HIDE DEF F, n
  <2> QED BY <1>2, <1>3, <1>4, FoldExists
<1>7. ASSUME NEW s \in SUBSET (1..n)
      PROVE  g[s] = IF s = {} THEN NoSplit
                    ELSE LET x == Max(s) IN SplitLine(g[s \ {x}], idx[x], ls[idx[x]])
  <2>1. g[s] = IF s = {} THEN NoSplit ELSE F[<<g[s \ {Max(s)}], Max(s)>>]
    BY <1>6 DEF FoldsUp
  <2>2. s # {} => Max(s) \in 1..n /\ g[s \ {Max(s)}] \in Splits
    <3> HIDE DEF n
    <3> QED BY <1>2, <1>6, MaxIsThere
  <2> HIDE DEF F, n
  <2> QED BY <1>2, <1>5, <2>1, <2>2
<1>8. g = [s \in SUBSET (DOMAIN idx) |->
              IF s = {} THEN [pieces |-> <<>>, cur |-> <<>>, fence |-> <<>>, open |-> 0]
              ELSE LET x == Max(s) IN SplitLine(g[s \ {x}], idx[x], ls[idx[x]])]
  <2> HIDE DEF F, n, idx, it
  <2> QED BY <1>2, <1>6, <1>7 DEF NoSplit
<1>9. it = [s \in SUBSET (DOMAIN idx) |->
              IF s = {} THEN [pieces |-> <<>>, cur |-> <<>>, fence |-> <<>>, open |-> 0]
              ELSE LET x == Max(s) IN SplitLine(it[s \ {x}], idx[x], ls[idx[x]])]
  <2> HIDE DEF F, n, idx
  <2> QED BY <1>8 DEF it
<1> HIDE DEF it
<1>10. it[{}] = NoSplit
  BY <1>9 DEF NoSplit
<1>11. ASSUME NEW i \in 1..n PROVE it[1..i] = SplitLine(it[1..(i - 1)], i, ls[i])
  <2>1. 1..i \in SUBSET (1..n) /\ 1..i # {} /\ i \in 1..i /\ i \in Nat
    OBVIOUS
  <2>2. Max(1..i) = i
    BY <2>1, MaxIsLast
  <2>3. (1..i) \ {i} = 1..(i - 1)
    OBVIOUS
  <2> HIDE DEF F, n, idx
  <2> QED BY <1>2, <1>9, <2>1, <2>2, <2>3
<1>12. SplitInv(it[{}], 0, ls)
  <2>1. PiecesFit(<<>>, 0)
    BY DEF PiecesFit
  <2> QED BY <1>3, <1>10, <2>1, NothingCollected DEF SplitInv, NoSplit
<1>13. \A i \in 0..n : SplitInv(it[1..i], i, ls)
  <2> DEFINE T == {i \in 0..n : ~SplitInv(it[1..i], i, ls)}
  <2>1. SUFFICES ASSUME NEW i \in T PROVE FALSE
    OBVIOUS
  <2>2. \A k \in 0..n : k \in Nat
    BY <1>2
  <2>3. T \in SUBSET Nat /\ T # {}
    BY <2>1, <2>2, Zenon
  <2>4. PICK k \in T : \A m \in T : k <= m
    <3> HIDE DEF T
    <3> QED BY <2>3, LeastNumber
  <2>5. k \in 0..n /\ ~SplitInv(it[1..k], k, ls)
    OBVIOUS
  <2>6. k # 0
    <3>1. 1..0 = {}
      OBVIOUS
    <3> QED BY <1>12, <2>5, <3>1
  <2>7. k - 1 \in 0..n /\ ~(k <= k - 1) /\ k \in 1..n /\ k - 1 \in Nat /\ (k - 1) + 1 = k
    BY <1>2, <2>5, <2>6
  <2>8. SplitInv(it[1..(k - 1)], k - 1, ls)
    BY <2>4, <2>7
  <2>9. SplitInv(SplitLine(it[1..(k - 1)], k, ls[k]), k, ls)
    <3>1. (k - 1) + 1 \in 1..Len(ls)
      BY <2>7
    <3>2. SplitInv(SplitLine(it[1..(k - 1)], (k - 1) + 1, ls[(k - 1) + 1]), (k - 1) + 1, ls)
      <4> HIDE DEF T, n
      <4> QED BY <2>7, <2>8, <3>1, LineKeeps
    <3> QED BY <2>7, <3>2
  <2> QED BY <1>11, <2>5, <2>7, <2>9
<1>14. SplitInv(it[DOMAIN idx], n, ls)
  <2>1. n \in 0..n
    BY <1>2
  <2> HIDE DEF n, idx
  <2> QED BY <1>2, <1>13, <2>1
<1> HIDE DEF idx
<1> QED BY <1>1, <1>14

\* The pieces of a document have every line that says something, in order.
LEMMA PiecesAreWhole ==
    ASSUME NEW ls \in Seq(LineKinds)
    PROVE  /\ PiecesFit(SplitIntoPieces(ls), Len(ls))
           /\ \A k \in 1..Len(ls) : ls[k] # "blank" => InPieces(SplitIntoPieces(ls), k)
<1> DEFINE n == Len(ls)
<1>0. n \in Nat
  OBVIOUS
<1>1. PICK s : /\ SplitInv(s, n, ls)
               /\ SplitIntoPieces(ls) =
                     FlushParagraph(IF s.open > 0
                                    THEN [s EXCEPT !.pieces = Append(s.pieces, Piece(s.fence, TRUE))]
                                    ELSE s).pieces
  BY SplitRuns
<1>2. s \in Splits /\ s.open \in Nat
  BY <1>1, SplitTyped DEF SplitInv
<1>3. CASE s.open > 0
  <2> DEFINE Q == Append(s.pieces, Piece(s.fence, TRUE))
             t == [s EXCEPT !.pieces = Q]
  <2>1. s.cur = <<>> /\ s.fence # <<>> /\ After(s.pieces, s.fence)
    BY <1>1, <1>3 DEF SplitInv
  <2>2. t.cur = <<>> /\ t.pieces = Q
    <3> HIDE DEF Q
    <3> QED BY <1>2, <2>1 DEF Splits
  <2>3. FlushParagraph(t) = t
    <3> HIDE DEF t
    <3> QED BY <2>2 DEF FlushParagraph
  <2>4. SplitIntoPieces(ls) = Q
    <3>1. SplitIntoPieces(ls) = FlushParagraph(t).pieces
      BY <1>1, <1>3
    <3> HIDE DEF t, Q
    <3> QED BY <2>2, <2>3, <3>1
  <2>5. PiecesFit(Q, n) /\ \A k : InPieces(s.pieces, k) \/ k \in Range(s.fence) => InPieces(Q, k)
    <3> HIDE DEF n
    <3> QED BY <1>0, <1>1, <2>1, PieceAdded DEF SplitInv
  <2>6. \A k \in 1..n : ls[k] # "blank" => InPieces(Q, k)
    <3> HIDE DEF Q, n
    <3> QED BY <1>1, <2>1, <2>5, NothingCollected DEF SplitInv
  <2> HIDE DEF Q
  <2> QED BY <2>4, <2>5, <2>6
<1>4. CASE ~(s.open > 0)
  <2> DEFINE f == FlushParagraph(s)
  <2>1. SplitInv(f, n, ls) /\ f.cur = <<>> /\ f.open = s.open
    <3> HIDE DEF n
    <3> QED BY <1>0, <1>1, FlushKeeps
  <2>2. SplitIntoPieces(ls) = f.pieces
    BY <1>1, <1>4
  <2> HIDE DEF f, n
  <2>3. PiecesFit(f.pieces, n) /\ \A k \in 1..n : ls[k] # "blank" => InPieces(f.pieces, k)
    BY <1>4, <2>1, NothingCollected DEF SplitInv
  <2> QED BY <2>2, <2>3 DEF n
<1> QED BY <1>3, <1>4

-----------------------------------------------------------------------------
(* TextSeqs: tails, joins and windows.                                        *)

\* Dividing leaves less than the divisor.
LEMMA DivIs ==
    ASSUME NEW a \in Nat, NEW b \in Nat, b > 0
    PROVE  a \div b \in Nat /\ (a \div b) * b <= a /\ a < (a \div b) * b + b
OBVIOUS

\* A product grows with its factor.
LEMMA TimesGrows ==
    ASSUME NEW a \in Nat, NEW b \in Nat, NEW d \in Nat, a <= b
    PROVE  a * d <= b * d
OBVIOUS

\* A stretch of a text.
LEMMA StretchIs ==
    ASSUME NEW r \in Seq(Nat), NEW a \in Nat, NEW b \in Nat, a >= 1, b <= Len(r)
    PROVE  /\ SubSeq(r, a, b) \in Seq(Nat)
           /\ Len(SubSeq(r, a, b)) = IF a <= b THEN b - a + 1 ELSE 0
           /\ Range(SubSeq(r, a, b)) \subseteq Range(r)
           /\ InOrder(r) => InOrder(SubSeq(r, a, b))
           /\ \A p \in a..b : r[p] \in Range(SubSeq(r, a, b))
<1> DEFINE t == SubSeq(r, a, b)
<1>1. \A i \in a..b : i \in 1..Len(r) /\ r[i] \in Nat
  OBVIOUS
<1>2. /\ t \in Seq(Nat)
      /\ Len(t) = IF a <= b THEN b - a + 1 ELSE 0
      /\ \A i \in 1..(b - a + 1) : t[i] = r[a + i - 1]
  BY <1>1, SubSeqProperties
<1>3. DOMAIN r = 1..Len(r) /\ DOMAIN t = 1..Len(t)
  BY <1>2
<1>4. \A i \in 1..Len(t) : a + i - 1 \in 1..Len(r) /\ a + i - 1 \in a..b /\ t[i] = r[a + i - 1]
  BY <1>1, <1>2
<1> HIDE DEF t
<1>5. Range(t) \subseteq Range(r)
  BY <1>3, <1>4 DEF Range
<1>6. ASSUME InOrder(r) PROVE InOrder(t)
  <2>1. SUFFICES ASSUME NEW p \in 1..Len(t), NEW q \in 1..Len(t), p < q, t[p] # 0, t[q] # 0
                 PROVE  t[p] < t[q]
    BY DEF InOrder
  <2>2. a + p - 1 < a + q - 1
    BY <2>1
  <2> QED BY <1>4, <1>6, <2>1, <2>2 DEF InOrder
<1>7. ASSUME NEW p \in a..b PROVE r[p] \in Range(t)
  <2>1. p - a + 1 \in 1..Len(t) /\ a + (p - a + 1) - 1 = p
    BY <1>2
  <2>2. t[p - a + 1] = r[p]
    BY <1>4, <2>1
  <2> QED BY <1>3, <2>1, <2>2 DEF Range
<1> QED BY <1>2, <1>5, <1>6, <1>7 DEF t

\* The overlap is carried along in order, and it is short.
LEMMA TailIs ==
    ASSUME NEW r \in Seq(Nat)
    PROVE  /\ OverlapTail(r) \in Seq(Nat) /\ Len(OverlapTail(r)) <= MaxRunes
           /\ Numbers(OverlapTail(r)) \subseteq Numbers(r)
           /\ InOrder(r) => InOrder(OverlapTail(r))
<1> DEFINE a == IF Len(r) <= OverlapRunes THEN 1 ELSE Len(r) - OverlapRunes + 1
           t == OverlapTail(r)
<1>1. MaxRunes \in Nat /\ OverlapRunes \in Nat /\ OverlapRunes < MaxRunes /\ Len(r) \in Nat
  BY ChunkerAssumption
<1>2. a \in Nat /\ a >= 1 /\ Len(r) - a + 1 <= OverlapRunes
  BY <1>1
<1>3. t = SubSeq(r, a, Len(r))
  BY DEF OverlapTail
<1> HIDE DEF a, t
<1>4. /\ t \in Seq(Nat) /\ Len(t) = IF a <= Len(r) THEN Len(r) - a + 1 ELSE 0
      /\ Range(t) \subseteq Range(r) /\ (InOrder(r) => InOrder(t))
  BY <1>1, <1>2, <1>3, StretchIs
<1>5. Len(t) <= MaxRunes
  BY <1>1, <1>2, <1>4
<1> QED BY <1>4, <1>5 DEF Numbers, t

\* Two texts with a break between them.
LEMMA JoinedIs ==
    ASSUME NEW u \in Seq(Nat), NEW v \in Seq(Nat)
    PROVE  /\ Joined(u, v) \in Seq(Nat)
           /\ Numbers(Joined(u, v)) = Numbers(u) \cup Numbers(v)
           /\ InOrder(u) /\ InOrder(v) /\ (\A x \in Numbers(u), y \in Numbers(v) : x < y)
                 => InOrder(Joined(u, v))
           /\ v # <<>> => Joined(u, v) # <<>>
<1>1. CASE u = <<>>
  <2>1. Joined(u, v) = v /\ Range(u) = {}
    BY <1>1 DEF Joined, Range
  <2> QED BY <2>1 DEF Numbers
<1>2. CASE u # <<>>
  <2> DEFINE m == Len(u)
             w == u \o <<0, 0>>
             t == w \o v
  <2>0. Joined(u, v) = t
    BY <1>2 DEF Joined
  <2>1. m \in Nat /\ Len(v) \in Nat /\ <<0, 0>> \in Seq(Nat) /\ Len(<<0, 0>>) = 2
        /\ \A i \in 1..2 : <<0, 0>>[i] = 0
    OBVIOUS
  <2>2. /\ w \in Seq(Nat) /\ Len(w) = m + 2
        /\ \A i \in 1..(m + 2) : w[i] = IF i <= m THEN u[i] ELSE <<0, 0>>[i - m]
    BY <2>1, ConcatProperties
  <2>3. \A i \in 1..(m + 2) : w[i] = IF i <= m THEN u[i] ELSE 0
    <3>1. \A i \in 1..(m + 2) : ~(i <= m) => i - m \in 1..2
      BY <2>1
    <3> QED BY <2>1, <2>2, <3>1
  <2>4. /\ t \in Seq(Nat) /\ Len(t) = m + 2 + Len(v)
        /\ \A i \in 1..(m + 2 + Len(v)) : t[i] = IF i <= m + 2 THEN w[i] ELSE v[i - (m + 2)]
    <3> HIDE DEF w
    <3>1. /\ t \in Seq(Nat) /\ Len(t) = Len(w) + Len(v)
          /\ \A i \in 1..(Len(w) + Len(v)) : t[i] = IF i <= Len(w) THEN w[i] ELSE v[i - Len(w)]
      <4>1. w \in Seq(Nat) /\ v \in Seq(Nat)
        BY <2>2
      <4>2. \A a, b \in Seq(Nat) :
               /\ a \o b \in Seq(Nat) /\ Len(a \o b) = Len(a) + Len(b)
               /\ \A i \in 1..(Len(a) + Len(b)) : (a \o b)[i] = IF i <= Len(a) THEN a[i] ELSE b[i - Len(a)]
        BY ConcatProperties
      <4> QED BY <4>1, <4>2, Zenon
    <3> HIDE DEF t, m
    <3> QED BY <2>2, <3>1
  <2> HIDE DEF w, t
  <2>5. ASSUME NEW i \in 1..Len(t)
        PROVE  \/ i <= m /\ i \in 1..m /\ t[i] = u[i]
               \/ t[i] = 0
               \/ i > m + 2 /\ i - (m + 2) \in 1..Len(v) /\ t[i] = v[i - (m + 2)]
    <3> HIDE DEF m
    <3>1. i \in 1..(m + 2 + Len(v))
      BY <2>4
    <3>2. CASE i <= m
      <4>1. i \in 1..m /\ i \in 1..(m + 2) /\ i <= m + 2
        BY <2>1, <3>1, <3>2
      <4>2. w[i] = u[i] /\ t[i] = w[i]
        BY <2>3, <2>4, <3>1, <3>2, <4>1
      <4> QED BY <3>2, <4>1, <4>2
    <3>3. CASE ~(i <= m) /\ i <= m + 2
      <4>1. i \in 1..(m + 2) /\ w[i] = 0 /\ t[i] = w[i]
        BY <2>1, <2>3, <2>4, <3>1, <3>3
      <4> QED BY <4>1
    <3>4. CASE ~(i <= m + 2)
      BY <2>1, <2>4, <3>1, <3>4
    <3> QED BY <3>2, <3>3, <3>4
  <2>6. ASSUME NEW i \in 1..m PROVE i \in 1..Len(t) /\ t[i] = u[i]
    <3> HIDE DEF m
    <3>1. i \in 1..(m + 2) /\ i \in 1..(m + 2 + Len(v)) /\ i <= m /\ i <= m + 2
      BY <2>1
    <3>2. w[i] = u[i] /\ t[i] = w[i]
      BY <2>3, <2>4, <3>1
    <3> QED BY <2>4, <3>1, <3>2
  <2>7. \A i \in 1..Len(v) : i + (m + 2) \in 1..Len(t) /\ t[i + (m + 2)] = v[i]
    <3>1. \A i \in 1..Len(v) : /\ i + (m + 2) \in 1..(m + 2 + Len(v)) /\ ~(i + (m + 2) <= m + 2)
                               /\ (i + (m + 2)) - (m + 2) = i
      BY <2>1
    <3> QED BY <2>4, <3>1
  <2>8. DOMAIN u = 1..m /\ DOMAIN v = 1..Len(v) /\ DOMAIN t = 1..Len(t)
    BY <2>4
  <2>9. \A i \in 1..m : u[i] # 0 => u[i] \in Numbers(u)
    BY <2>8 DEF Numbers, Range
  <2>10. \A i \in 1..Len(v) : v[i] # 0 => v[i] \in Numbers(v)
    BY <2>8 DEF Numbers, Range
  <2>11. Numbers(t) = Numbers(u) \cup Numbers(v)
    <3>1. ASSUME NEW x \in Numbers(t) PROVE x \in Numbers(u) \cup Numbers(v)
      <4>1. PICK i \in 1..Len(t) : x = t[i] /\ x # 0
        BY <2>8, <3>1 DEF Numbers, Range
      <4> QED BY <2>5, <2>9, <2>10, <4>1
    <3>2. ASSUME NEW x \in Numbers(u) PROVE x \in Numbers(t)
      <4>1. PICK i \in 1..m : x = u[i] /\ x # 0
        BY <2>8, <3>2 DEF Numbers, Range
      <4> QED BY <2>6, <2>8, <4>1 DEF Numbers, Range
    <3>3. ASSUME NEW x \in Numbers(v) PROVE x \in Numbers(t)
      <4>1. PICK i \in 1..Len(v) : x = v[i] /\ x # 0
        BY <2>8, <3>3 DEF Numbers, Range
      <4> QED BY <2>7, <2>8, <4>1 DEF Numbers, Range
    <3> QED BY <3>1, <3>2, <3>3
  <2>12. ASSUME InOrder(u), InOrder(v), \A x \in Numbers(u), y \in Numbers(v) : x < y
         PROVE  InOrder(t)
    <3>1. SUFFICES ASSUME NEW p \in 1..Len(t), NEW q \in 1..Len(t), p < q, t[p] # 0, t[q] # 0
                   PROVE  t[p] < t[q]
      BY DEF InOrder
    <3>2. CASE p <= m /\ q <= m
      BY <2>1, <2>5, <2>12, <3>1, <3>2 DEF InOrder
    <3>3. CASE p <= m /\ ~(q <= m)
      <4>1. p \in 1..m /\ t[p] = u[p]
        BY <2>1, <2>6, <3>1, <3>3
      <4>2. q - (m + 2) \in 1..Len(v) /\ t[q] = v[q - (m + 2)]
        BY <2>5, <3>1, <3>3
      <4>3. t[p] \in Numbers(u) /\ t[q] \in Numbers(v)
        BY <2>9, <2>10, <3>1, <4>1, <4>2
      <4> QED BY <2>12, <4>3
    <3>4. CASE ~(p <= m)
      <4>1. ~(q <= m)
        BY <2>1, <3>1, <3>4
      <4>2. /\ p - (m + 2) \in 1..Len(v) /\ t[p] = v[p - (m + 2)]
            /\ q - (m + 2) \in 1..Len(v) /\ t[q] = v[q - (m + 2)]
        BY <2>5, <3>1, <3>4, <4>1
      <4>3. p - (m + 2) < q - (m + 2)
        BY <2>1, <3>1
      <4> QED BY <2>12, <3>1, <4>2, <4>3 DEF InOrder
    <3> QED BY <3>2, <3>3, <3>4
  <2>13. t # <<>>
    BY <2>1, <2>4
  <2> QED BY <2>0, <2>4, <2>11, <2>12, <2>13
<1> QED BY <1>1, <1>2

TextSeqs == Seq(Seq(Nat))

\* Each of the lines is in a text, and of two lines the first is in the same
\* or an earlier one.
FoundInOrder(Q, S) ==
    \A x, y \in S : x <= y =>
        \E a, b \in 1..Len(Q) : a <= b /\ x \in Range(Q[a]) /\ y \in Range(Q[b])

\* The windows of a text overlap and follow each other to its end.
LEMMA WindowsAre ==
    ASSUME NEW r \in Seq(Nat), r # <<>>
    PROVE  /\ WindowSplit(r) \in TextSeqs /\ Len(WindowSplit(r)) >= 1
           /\ \A k \in 1..Len(WindowSplit(r)) :
                 /\ WindowSplit(r)[k] \in Seq(Nat) /\ Len(WindowSplit(r)[k]) <= MaxRunes
                 /\ Numbers(WindowSplit(r)[k]) \subseteq Numbers(r)
                 /\ InOrder(r) => InOrder(WindowSplit(r)[k])
           /\ InOrder(r) => FoundInOrder(WindowSplit(r), Numbers(r))
<1> DEFINE L == Len(r)
           step == MaxRunes - OverlapRunes
           count == IF L <= MaxRunes THEN 1 ELSE 1 + (L - MaxRunes + step - 1) \div step
           from(k) == 1 + (k - 1) * step
           to(k) == IF from(k) + MaxRunes - 1 > L THEN L ELSE from(k) + MaxRunes - 1
           w == [k \in 1..count |-> SubSeq(r, from(k), to(k))]
<1>1. /\ MaxRunes \in Nat /\ OverlapRunes \in Nat /\ OverlapRunes < MaxRunes
      /\ L \in Nat /\ L >= 1 /\ step \in Nat /\ step >= 1 /\ step <= MaxRunes
  BY ChunkerAssumption
<1>2. WindowSplit(r) = w
  BY DEF WindowSplit
<1>3. count \in Nat /\ count >= 1 /\ (count - 1) * step <= L - 1 /\ (count - 1) * step + MaxRunes >= L
  <2> HIDE DEF L, step
  <2>1. CASE L <= MaxRunes
    <3>1. count = 1 /\ (count - 1) * step = 0
      BY <1>1, <2>1
    <3> HIDE DEF count
    <3> QED BY <1>1, <2>1, <3>1
  <2>2. CASE ~(L <= MaxRunes)
    <3> DEFINE a == L - MaxRunes + step - 1
               q == a \div step
    <3>1. a \in Nat /\ step > 0
      BY <1>1, <2>2
    <3>2. q \in Nat /\ q * step <= a /\ a < q * step + step
      <4> HIDE DEF a
      <4> QED BY <1>1, <3>1, DivIs
    <3>3. count = 1 + q /\ count - 1 = q
      <4>1. count = 1 + q
        BY <2>2
      <4> HIDE DEF count, q
      <4> QED BY <3>2, <4>1
    <3> HIDE DEF count, q
    <3>4. q * step \in Nat
      BY <1>1, <3>2
    <3> DEFINE u == q * step
    <3>5. u \in Nat /\ u <= L - MaxRunes + step - 1 /\ L - MaxRunes + step - 1 < u + step
      BY <3>2, <3>4
    <3> HIDE DEF u
    <3>6. u <= L - 1 /\ u + MaxRunes >= L
      BY <1>1, <3>5
    <3> QED BY <3>2, <3>3, <3>6 DEF u
  <2> QED BY <2>1, <2>2
<1> HIDE DEF count, step, L
<1>4. ASSUME NEW k \in 1..count
      PROVE  /\ from(k) \in Nat /\ 1 <= from(k) /\ from(k) <= L
             /\ to(k) \in Nat /\ from(k) <= to(k) /\ to(k) <= L /\ to(k) - from(k) + 1 <= MaxRunes
             /\ \A p \in 1..L : from(k) <= p /\ p < from(k) + MaxRunes => p <= to(k)
  <2>1. k - 1 \in Nat /\ count - 1 \in Nat /\ k - 1 <= count - 1
    BY <1>3
  <2>2. (k - 1) * step <= (count - 1) * step /\ (k - 1) * step \in Nat
    BY <1>1, <2>1, TimesGrows
  <2> DEFINE u == (k - 1) * step
             v == (count - 1) * step
  <2>3. u \in Nat /\ u <= v /\ v <= L - 1 /\ v \in Int
    BY <1>1, <1>3, <2>1, <2>2
  <2> HIDE DEF u, v
  <2>4. from(k) = 1 + u
    BY DEF u
  <2> HIDE DEF from
  <2> QED BY <1>1, <2>3, <2>4
<1>5. ASSUME NEW k \in 1..count
      PROVE  /\ w[k] \in Seq(Nat) /\ Len(w[k]) <= MaxRunes /\ Range(w[k]) \subseteq Range(r)
             /\ InOrder(r) => InOrder(w[k])
             /\ \A p \in from(k)..to(k) : r[p] \in Range(w[k])
  <2>1. w[k] = SubSeq(r, from(k), to(k))
    OBVIOUS
  <2>2. from(k) \in Nat /\ to(k) \in Nat /\ from(k) >= 1 /\ to(k) <= Len(r)
        /\ from(k) <= to(k) /\ to(k) - from(k) + 1 <= MaxRunes
    BY <1>4 DEF L
  <2> HIDE DEF w, from, to
  <2> QED BY <2>1, <2>2, StretchIs
<1>6. w \in TextSeqs /\ Len(w) = count
  <2>1. w \in [1..count -> Seq(Nat)]
    <3>1. \A k \in 1..count : w[k] \in Seq(Nat)
      BY <1>5
    <3> QED BY <3>1
  <2> HIDE DEF w
  <2> QED BY <1>3, <2>1 DEF TextSeqs
\* The last window that has begun when a line comes is the line's.
<1> DEFINE A(p) == {k \in 1..count : from(k) <= p}
<1>7. ASSUME NEW p \in 1..L
      PROVE  \E k \in A(p) : (\A j \in A(p) : k >= j) /\ r[p] \in Range(w[k])
  <2>1. 1 \in A(p)
    <3>1. 1 \in 1..count /\ from(1) = 1
      BY <1>1, <1>3
    <3> QED BY <3>1
  <2>2. PICK k \in A(p) : \A j \in A(p) : k >= j
    <3>1. A(p) \in SUBSET (1..count) /\ A(p) # {}
      BY <2>1
    <3> HIDE DEF A
    <3> QED BY <1>3, <3>1, GreatestNumber
  <2>3. k \in 1..count /\ from(k) <= p
    OBVIOUS
  <2>4. p <= to(k)
    <3>1. CASE k = count
      <4>1. from(k) + MaxRunes - 1 >= L
        <5> DEFINE v == (count - 1) * step
        <5>1. v \in Int /\ from(k) = 1 + v /\ v + MaxRunes >= L
          BY <1>1, <1>3, <3>1
        <5> HIDE DEF v, from
        <5> QED BY <1>1, <5>1
      <4>2. p < from(k) + MaxRunes
        <5> HIDE DEF from
        <5> QED BY <1>1, <1>4, <2>3, <4>1
      <4> HIDE DEF from, to
      <4> QED BY <1>4, <2>3, <4>2
    <3>2. CASE k # count
      <4>1. k + 1 \in 1..count /\ ~(k >= k + 1)
        BY <1>3, <2>3, <3>2
      <4>2. k + 1 \notin A(p)
        BY <2>2, <4>1
      <4>3. ~(from(k + 1) <= p)
        BY <4>1, <4>2
      <4>4. from(k + 1) = from(k) + step
        BY <1>1, <2>3
      <4>5. p < from(k) + MaxRunes
        <5> HIDE DEF from
        <5> QED BY <1>1, <1>4, <2>3, <4>3, <4>4
      <4> HIDE DEF from, to
      <4> QED BY <1>4, <2>3, <4>5
    <3> QED BY <3>1, <3>2
  <2>5. p \in from(k)..to(k)
    <3> HIDE DEF from, to
    <3> QED BY <1>4, <2>3, <2>4
  <2>6. r[p] \in Range(w[k])
    BY <1>5, <2>3, <2>5
  <2> QED BY <2>2, <2>6
<1>8. ASSUME InOrder(r) PROVE FoundInOrder(w, Numbers(r))
  <2>1. SUFFICES ASSUME NEW x \in Numbers(r), NEW y \in Numbers(r), x <= y
                 PROVE  \E a, b \in 1..Len(w) : a <= b /\ x \in Range(w[a]) /\ y \in Range(w[b])
    BY DEF FoundInOrder
  <2>2. DOMAIN r = 1..L /\ \A p \in 1..L : r[p] \in Nat
    BY DEF L
  <2>3. PICK p \in 1..L : x = r[p] /\ x # 0
    BY <2>2 DEF Numbers, Range
  <2>4. PICK q \in 1..L : y = r[q] /\ y # 0
    BY <2>2 DEF Numbers, Range
  <2>5. p <= q
    <3>1. SUFFICES ASSUME q < p PROVE FALSE
      BY <1>1
    <3>2. r[q] < r[p]
      BY <1>8, <2>3, <2>4, <3>1 DEF InOrder, L
    <3> QED BY <2>1, <2>2, <2>3, <2>4, <3>2
  <2>6. PICK a \in A(p) : (\A j \in A(p) : a >= j) /\ r[p] \in Range(w[a])
    BY <1>7
  <2>7. PICK b \in A(q) : (\A j \in A(q) : b >= j) /\ r[q] \in Range(w[b])
    BY <1>7
  <2>8. a \in 1..count /\ b \in 1..count /\ from(a) <= p
    OBVIOUS
  <2>9. a \in A(q)
    <3>1. from(a) \in Nat
      BY <1>4, <2>8
    <3>2. from(a) <= q
      <4> HIDE DEF from
      <4> QED BY <1>1, <2>5, <2>8, <3>1
    <3> QED BY <2>8, <3>2
  <2>10. a <= b
    BY <2>7, <2>8, <2>9
  <2> HIDE DEF w, A
  <2> QED BY <1>6, <2>3, <2>4, <2>6, <2>7, <2>8, <2>10
<1> HIDE DEF w
<1> QED BY <1>2, <1>3, <1>5, <1>6, <1>8 DEF Numbers

-----------------------------------------------------------------------------
(* Merging the pieces into chunks.                                         *)

Merges == [chunks : TextSeqs, cur : Seq(Nat)]
LinesOf(P, i) == {x \in Nat : \E j \in 1..i : x \in Numbers(P[j].text)}
FencedIn(P, c) == \E p \in Range(P) : p.protected /\ (Range(p.text) \cap Range(c)) \ {0} # {}
SizesFit(P, Q) == \A k \in 1..Len(Q) : Len(Q[k]) > MaxRunes => FencedIn(P, Q[k])

\* After i pieces their lines are in the chunks and in the text under way,
\* which is in order, of these pieces, and fits.
PackInv(m, i, P) ==
    /\ m \in Merges
    /\ InOrder(m.cur) /\ Numbers(m.cur) \subseteq LinesOf(P, i) /\ Len(m.cur) <= MaxRunes
    /\ SizesFit(P, m.chunks)
    /\ FoundInOrder(Append(m.chunks, m.cur), LinesOf(P, i))

\* A state of the merge is made of its two parts.
LEMMA MergeTyped ==
    ASSUME NEW m \in Merges
    PROVE  m.chunks \in TextSeqs /\ m.cur \in Seq(Nat) /\ m = [chunks |-> m.chunks, cur |-> m.cur]
BY DEF Merges

\* Two such parts make a state of the merge.
LEMMA MergeMade ==
    ASSUME NEW Q \in TextSeqs, NEW c \in Seq(Nat)
    PROVE  [chunks |-> Q, cur |-> c] \in Merges
BY DEF Merges

\* A text behind some texts.
LEMMA OneMore ==
    ASSUME NEW Q \in TextSeqs, NEW c \in Seq(Nat)
    PROVE  /\ Append(Q, c) \in TextSeqs /\ Len(Append(Q, c)) = Len(Q) + 1 /\ Len(Q) \in Nat
           /\ Append(Q, c)[Len(Q) + 1] = c
           /\ \A k \in 1..Len(Q) : k \in 1..(Len(Q) + 1) /\ Append(Q, c)[k] = Q[k]
           /\ \A k \in 1..(Len(Q) + 1) : k \in 1..Len(Q) \/ k = Len(Q) + 1
           /\ Len(Q) + 1 \in 1..(Len(Q) + 1)
<1>1. Len(Q) \in Nat
  BY DEF TextSeqs
<1>2. /\ Append(Q, c) \in TextSeqs /\ Len(Append(Q, c)) = Len(Q) + 1
      /\ Append(Q, c)[Len(Q) + 1] = c
      /\ \A k \in 1..Len(Q) : Append(Q, c)[k] = Q[k]
  BY AppendProperties DEF TextSeqs
<1> QED BY <1>1, <1>2

\* TextSeqs behind some texts.
LEMMA SomeMore ==
    ASSUME NEW Q \in TextSeqs, NEW w \in TextSeqs
    PROVE  /\ Q \o w \in TextSeqs /\ Len(Q \o w) = Len(Q) + Len(w) /\ Len(Q) \in Nat /\ Len(w) \in Nat
           /\ \A k \in 1..Len(Q) : k \in 1..(Len(Q) + Len(w)) /\ (Q \o w)[k] = Q[k]
           /\ \A k \in 1..Len(w) : Len(Q) + k \in 1..(Len(Q) + Len(w)) /\ (Q \o w)[Len(Q) + k] = w[k]
           /\ \A k \in 1..(Len(Q) + Len(w)) : k \in 1..Len(Q) \/ \E j \in 1..Len(w) : k = Len(Q) + j
<1>1. Len(Q) \in Nat /\ Len(w) \in Nat
  BY DEF TextSeqs
<1>2. /\ Q \o w \in TextSeqs /\ Len(Q \o w) = Len(Q) + Len(w)
      /\ \A k \in 1..(Len(Q) + Len(w)) : (Q \o w)[k] = IF k <= Len(Q) THEN Q[k] ELSE w[k - Len(Q)]
  BY ConcatProperties DEF TextSeqs
<1> DEFINE a == Len(Q)
           b == Len(w)
<1> HIDE DEF a, b
<1>3. \A k \in 1..a : k \in 1..(a + b) /\ k <= a
  BY <1>1 DEF a, b
<1>4. \A k \in 1..b : a + k \in 1..(a + b) /\ ~(a + k <= a) /\ (a + k) - a = k
  BY <1>1 DEF a, b
<1>5. \A k \in 1..(a + b) : k \in 1..a \/ (k - a \in 1..b /\ k = a + (k - a))
  BY <1>1 DEF a, b
<1> QED BY <1>1, <1>2, <1>3, <1>4, <1>5 DEF a, b

\* What was found stays found when texts are added.
LEMMA FoundStays ==
    ASSUME NEW Q \in TextSeqs, NEW c \in Seq(Nat), NEW S, FoundInOrder(Q, S)
    PROVE  FoundInOrder(Append(Q, c), S)
<1> DEFINE t == Append(Q, c)
<1>1. /\ Len(t) = Len(Q) + 1 /\ Len(Q) \in Nat
      /\ \A k \in 1..Len(Q) : k \in 1..(Len(Q) + 1) /\ t[k] = Q[k]
  BY OneMore
<1> HIDE DEF t
<1>2. SUFFICES ASSUME NEW x \in S, NEW y \in S, x <= y
               PROVE  \E a, b \in 1..Len(t) : a <= b /\ x \in Range(t[a]) /\ y \in Range(t[b])
  BY DEF FoundInOrder, t
<1>3. PICK a \in 1..Len(Q), b \in 1..Len(Q) : a <= b /\ x \in Range(Q[a]) /\ y \in Range(Q[b])
  BY <1>2 DEF FoundInOrder
<1>4. a \in 1..Len(t) /\ b \in 1..Len(t) /\ t[a] = Q[a] /\ t[b] = Q[b]
  BY <1>1
<1> QED BY <1>3, <1>4

\* The text under way is replaced by texts that have its lines and newer ones.
LEMMA FoundWithMore ==
    ASSUME NEW Q \in TextSeqs, NEW c \in Seq(Nat), NEW w \in TextSeqs, NEW S \in SUBSET Nat, NEW N \in SUBSET Nat,
           FoundInOrder(Append(Q, c), S), FoundInOrder(w, N),
           \A x \in S : x \in Range(c) => x \in N,
           \A x \in S, y \in N \ S : x < y
    PROVE  FoundInOrder(Q \o w, S \cup N)
<1> DEFINE a0 == Len(Q)
           t == Q \o w
<1>1. /\ Len(t) = a0 + Len(w) /\ a0 \in Nat /\ Len(w) \in Nat
      /\ \A k \in 1..a0 : k \in 1..Len(t) /\ t[k] = Q[k]
      /\ \A k \in 1..Len(w) : a0 + k \in 1..Len(t) /\ t[a0 + k] = w[k]
  BY SomeMore
<1>2. /\ Len(Append(Q, c)) = a0 + 1 /\ Append(Q, c)[a0 + 1] = c
      /\ \A k \in 1..a0 : Append(Q, c)[k] = Q[k]
      /\ \A k \in 1..(a0 + 1) : k \in 1..a0 \/ k = a0 + 1
  BY OneMore
<1> HIDE DEF a0, t
<1>3. SUFFICES ASSUME NEW x \in S \cup N, NEW y \in S \cup N, x <= y
               PROVE  \E a, b \in 1..Len(t) : a <= b /\ x \in Range(t[a]) /\ y \in Range(t[b])
  BY DEF FoundInOrder, t
<1>4. CASE x \in N /\ y \in N
  <2>1. PICK a \in 1..Len(w), b \in 1..Len(w) : a <= b /\ x \in Range(w[a]) /\ y \in Range(w[b])
    BY <1>3, <1>4 DEF FoundInOrder
  <2>2. a0 + a \in 1..Len(t) /\ a0 + b \in 1..Len(t) /\ a0 + a <= a0 + b
        /\ t[a0 + a] = w[a] /\ t[a0 + b] = w[b]
    BY <1>1, <2>1
  <2> QED BY <2>1, <2>2
<1>5. CASE x \in S /\ x \notin N /\ y \in N
  <2>1. PICK a \in 1..(a0 + 1) : x \in Range(Append(Q, c)[a])
    <3>1. x <= x
      BY <1>5
    <3> QED BY <1>2, <1>5, <3>1 DEF FoundInOrder
  <2>2. a \in 1..a0 /\ x \in Range(Q[a])
    BY <1>2, <1>5, <2>1
  <2>3. PICK b \in 1..Len(w) : y \in Range(w[b])
    <3>1. y <= y
      BY <1>5
    <3> QED BY <1>5, <3>1 DEF FoundInOrder
  <2>4. a \in 1..Len(t) /\ a0 + b \in 1..Len(t) /\ a <= a0 + b /\ t[a] = Q[a] /\ t[a0 + b] = w[b]
    BY <1>1, <2>2
  <2> QED BY <2>2, <2>3, <2>4
<1>6. CASE x \in S /\ y \in S /\ y \notin N
  <2>1. PICK a \in 1..(a0 + 1), b \in 1..(a0 + 1) :
           a <= b /\ x \in Range(Append(Q, c)[a]) /\ y \in Range(Append(Q, c)[b])
    BY <1>2, <1>3, <1>6 DEF FoundInOrder
  <2>2. b \in 1..a0
    BY <1>2, <1>6, <2>1
  <2>3. a \in 1..a0
    BY <1>1, <2>1, <2>2
  <2>4. t[a] = Q[a] /\ t[b] = Q[b] /\ a \in 1..Len(t) /\ b \in 1..Len(t)
    BY <1>1, <2>2, <2>3
  <2> QED BY <1>2, <2>1, <2>2, <2>3, <2>4
<1>7. CASE x \in N /\ x \notin S /\ y \in S
  BY <1>3, <1>7
<1> QED BY <1>3, <1>4, <1>5, <1>6, <1>7

\* Lines of the pieces so far, and of the next one.
LEMMA NextLines ==
    ASSUME NEW n, NEW P, PiecesFit(P, n), NEW i \in Nat, i + 1 \in 1..Len(P)
    PROVE  /\ LinesOf(P, i) \in SUBSET Nat /\ Numbers(P[i + 1].text) \in SUBSET Nat
           /\ 0 \notin LinesOf(P, i)
           /\ LinesOf(P, i + 1) = LinesOf(P, i) \cup Numbers(P[i + 1].text)
           /\ \A x \in LinesOf(P, i), y \in Numbers(P[i + 1].text) : x < y
<1>1. P \in Seq(Pieces)
  BY DEF PiecesFit
<1>2. \A j \in 1..Len(P) : Numbers(P[j].text) \subseteq Nat
  BY <1>1, PieceTyped
<1>3. \A j \in 1..i : j \in 1..Len(P) /\ j < i + 1 /\ j \in 1..(i + 1)
  BY <1>1
<1>4. \A j \in 1..(i + 1) : j = i + 1 \/ j \in 1..i
  OBVIOUS
<1>5. LinesOf(P, i + 1) = LinesOf(P, i) \cup Numbers(P[i + 1].text)
  <2>1. i + 1 \in 1..(i + 1)
    OBVIOUS
  <2> QED BY <1>2, <1>3, <1>4, <2>1 DEF LinesOf
<1>6. \A x \in LinesOf(P, i), y \in Numbers(P[i + 1].text) : x < y
  BY <1>3 DEF LinesOf, PiecesFit
<1>7. 0 \notin LinesOf(P, i)
  BY DEF LinesOf, Numbers
<1> QED BY <1>2, <1>5, <1>6, <1>7 DEF LinesOf

\* An empty text has nothing to find.
LEMMA FoundBefore ==
    ASSUME NEW Q \in TextSeqs, NEW S, FoundInOrder(Append(Q, <<>>), S)
    PROVE  FoundInOrder(Q, S)
<1> DEFINE t == Append(Q, <<>>)
<1>1. /\ Len(t) = Len(Q) + 1 /\ Len(Q) \in Nat /\ t[Len(Q) + 1] = <<>>
      /\ \A k \in 1..Len(Q) : k \in 1..(Len(Q) + 1) /\ t[k] = Q[k]
      /\ \A k \in 1..(Len(Q) + 1) : k \in 1..Len(Q) \/ k = Len(Q) + 1
  <2>1. <<>> \in Seq(Nat)
    OBVIOUS
  <2> QED BY <2>1, OneMore
<1>2. Range(<<>>) = {}
  BY DEF Range
<1> HIDE DEF t
<1>3. SUFFICES ASSUME NEW x \in S, NEW y \in S, x <= y
               PROVE  \E a, b \in 1..Len(Q) : a <= b /\ x \in Range(Q[a]) /\ y \in Range(Q[b])
  BY DEF FoundInOrder
<1>4. PICK a \in 1..Len(t), b \in 1..Len(t) : a <= b /\ x \in Range(t[a]) /\ y \in Range(t[b])
  BY <1>3 DEF FoundInOrder, t
<1>5. a \in 1..Len(Q) /\ b \in 1..Len(Q)
  BY <1>1, <1>2, <1>4
<1> QED BY <1>1, <1>4, <1>5

\* One text more that fits or has a block in it.
LEMMA SizesStay ==
    ASSUME NEW P, NEW Q \in TextSeqs, NEW c \in Seq(Nat), SizesFit(P, Q), Len(c) > MaxRunes => FencedIn(P, c)
    PROVE  SizesFit(P, Append(Q, c))
<1> DEFINE t == Append(Q, c)
<1>1. /\ Len(t) = Len(Q) + 1 /\ t[Len(Q) + 1] = c
      /\ \A k \in 1..Len(Q) : t[k] = Q[k]
      /\ \A k \in 1..(Len(Q) + 1) : k \in 1..Len(Q) \/ k = Len(Q) + 1
  BY OneMore
<1> HIDE DEF t
<1>2. SUFFICES ASSUME NEW k \in 1..Len(t), Len(t[k]) > MaxRunes PROVE FencedIn(P, t[k])
  BY DEF SizesFit, t
<1> QED BY <1>1, <1>2 DEF SizesFit

\* TextSeqs more that all fit.
LEMMA SizesOfMore ==
    ASSUME NEW P, NEW Q \in TextSeqs, NEW w \in TextSeqs, SizesFit(P, Q), \A k \in 1..Len(w) : Len(w[k]) <= MaxRunes
    PROVE  SizesFit(P, Q \o w)
<1> DEFINE t == Q \o w
<1>1. /\ Len(t) = Len(Q) + Len(w)
      /\ \A k \in 1..Len(Q) : t[k] = Q[k]
      /\ \A k \in 1..Len(w) : t[Len(Q) + k] = w[k]
      /\ \A k \in 1..(Len(Q) + Len(w)) : k \in 1..Len(Q) \/ \E j \in 1..Len(w) : k = Len(Q) + j
  BY SomeMore
<1> HIDE DEF t
<1>2. SUFFICES ASSUME NEW k \in 1..Len(t), Len(t[k]) > MaxRunes PROVE FencedIn(P, t[k])
  BY DEF SizesFit, t
<1>3. CASE k \in 1..Len(Q)
  BY <1>1, <1>2, <1>3 DEF SizesFit
<1>4. CASE \E j \in 1..Len(w) : k = Len(Q) + j
  <2>1. PICK j \in 1..Len(w) : k = Len(Q) + j
    BY <1>4
  <2>2. t[k] = w[j] /\ Len(w[j]) <= MaxRunes
    BY <1>1, <2>1
  <2>3. w[j] \in Seq(Nat)
    BY <2>1, ElementOfSeq DEF TextSeqs
  <2>4. Len(w[j]) \in Nat
    BY <2>3
  <2> QED BY <1>2, <2>2, <2>4, ChunkerAssumption
<1> QED BY <1>1, <1>2, <1>3, <1>4

\* Flushing makes the text under way a chunk and goes on with its overlap.
LEMMA FlushFits ==
    ASSUME NEW m, NEW i, NEW P, PackInv(m, i, P)
    PROVE  PackInv(Flush(m), i, P) /\ FoundInOrder(Flush(m).chunks, LinesOf(P, i))
<1>1. m \in Merges /\ m.chunks \in TextSeqs /\ m.cur \in Seq(Nat)
  BY MergeTyped DEF PackInv
<1>2. CASE m.cur = <<>>
  <2>1. Flush(m) = m
    BY <1>2 DEF Flush
  <2>2. FoundInOrder(Append(m.chunks, <<>>), LinesOf(P, i))
    BY <1>2 DEF PackInv
  <2> QED BY <1>1, <2>1, <2>2, FoundBefore
<1>3. CASE m.cur # <<>>
  <2> DEFINE Q == Append(m.chunks, m.cur)
             c == OverlapTail(m.cur)
  <2>1. Flush(m) = [chunks |-> Q, cur |-> c]
    BY <1>3 DEF Flush
  <2>2. Q \in TextSeqs /\ c \in Seq(Nat) /\ Len(c) <= MaxRunes /\ Numbers(c) \subseteq Numbers(m.cur) /\ InOrder(c)
    BY <1>1, OneMore, TailIs DEF PackInv
  <2>3. FoundInOrder(Q, LinesOf(P, i))
    BY DEF PackInv
  <2>4. SizesFit(P, Q)
    <3>1. ~(Len(m.cur) > MaxRunes)
      <4>1. Len(m.cur) \in Nat /\ MaxRunes \in Nat /\ Len(m.cur) <= MaxRunes
        BY <1>1, ChunkerAssumption DEF PackInv
      <4> QED BY <4>1
    <3> QED BY <1>1, <3>1, SizesStay DEF PackInv
  <2> HIDE DEF Q, c
  <2>5. Flush(m) \in Merges /\ Flush(m).chunks = Q /\ Flush(m).cur = c
    BY <2>1, <2>2, MergeMade
  <2>6. FoundInOrder(Append(Q, c), LinesOf(P, i))
    BY <2>2, <2>3, FoundStays
  <2> QED BY <2>2, <2>3, <2>4, <2>5, <2>6 DEF PackInv
<1> QED BY <1>2, <1>3

\* The next piece behind the text under way.
LEMMA JoinedFits ==
    ASSUME NEW n, NEW P, PiecesFit(P, n), NEW i \in Nat, i + 1 \in 1..Len(P), NEW m, PackInv(m, i, P)
    PROVE  LET v == P[i + 1].text
               d == Joined(m.cur, v)
           IN /\ v \in Seq(Nat) /\ InOrder(v) /\ v # <<>> /\ Numbers(v) \subseteq LinesOf(P, i + 1)
              /\ d \in Seq(Nat) /\ InOrder(d) /\ d # <<>>
              /\ Numbers(d) = Numbers(m.cur) \cup Numbers(v)
              /\ Numbers(d) \subseteq LinesOf(P, i + 1)
              /\ P[i + 1].protected => FencedIn(P, d)
<1> DEFINE v == P[i + 1].text
           d == Joined(m.cur, v)
<1>1. m.cur \in Seq(Nat) /\ InOrder(m.cur) /\ Numbers(m.cur) \subseteq LinesOf(P, i)
  BY MergeTyped DEF PackInv
<1>2. P \in Seq(Pieces) /\ v \in Seq(Nat) /\ InOrder(v) /\ Numbers(v) # {}
  BY PieceTyped DEF PiecesFit
<1>3. v # <<>>
  <2>1. Range(<<>>) = {}
    BY DEF Range
  <2> HIDE DEF v
  <2> QED BY <1>2, <2>1 DEF Numbers
<1>4. LinesOf(P, i + 1) = LinesOf(P, i) \cup Numbers(v) /\ \A x \in LinesOf(P, i), y \in Numbers(v) : x < y
  BY NextLines
<1> HIDE DEF v
<1>5. \A x \in Numbers(m.cur), y \in Numbers(v) : x < y
  BY <1>1, <1>4
<1>6. d \in Seq(Nat) /\ InOrder(d) /\ d # <<>> /\ Numbers(d) = Numbers(m.cur) \cup Numbers(v)
  BY <1>1, <1>2, <1>3, <1>5, JoinedIs
<1> HIDE DEF d
<1>7. ASSUME P[i + 1].protected PROVE FencedIn(P, d)
  <2>1. P[i + 1] \in Range(P)
    BY <1>2 DEF Range
  <2>2. (Range(P[i + 1].text) \cap Range(d)) \ {0} # {}
    BY <1>2, <1>6 DEF Numbers, v
  <2> QED BY <1>7, <2>1, <2>2 DEF FencedIn
<1> QED BY <1>1, <1>2, <1>3, <1>4, <1>6, <1>7 DEF v, d

\* The next piece's lines come with texts behind the chunks.
LEMMA TextsAdded ==
    ASSUME NEW n, NEW P, PiecesFit(P, n), NEW i \in Nat, i + 1 \in 1..Len(P),
           NEW Q \in TextSeqs, NEW c \in Seq(Nat), NEW w \in TextSeqs, NEW N \in SUBSET LinesOf(P, i + 1),
           FoundInOrder(Append(Q, c), LinesOf(P, i)), FoundInOrder(w, N),
           Numbers(c) \subseteq N, Numbers(P[i + 1].text) \subseteq N
    PROVE  FoundInOrder(Q \o w, LinesOf(P, i + 1))
<1> DEFINE S == LinesOf(P, i)
           M == Numbers(P[i + 1].text)
<1>1. /\ S \in SUBSET Nat /\ M \in SUBSET Nat /\ 0 \notin S
      /\ LinesOf(P, i + 1) = S \cup M
      /\ \A x \in S, y \in M : x < y
  BY NextLines
<1> HIDE DEF S, M
<1>2. N \in SUBSET Nat /\ S \cup N = LinesOf(P, i + 1)
  BY <1>1 DEF M
<1>3. \A x \in S : x \in Range(c) => x \in N
  BY <1>1 DEF Numbers
<1>4. \A x \in S, y \in N \ S : x < y
  BY <1>1
<1>5. FoundInOrder(Q \o w, S \cup N)
  BY <1>1, <1>2, <1>3, <1>4, FoundWithMore DEF S
<1> QED BY <1>2, <1>5

\* They come with one text.
LEMMA TextAdded ==
    ASSUME NEW n, NEW P, PiecesFit(P, n), NEW i \in Nat, i + 1 \in 1..Len(P),
           NEW Q \in TextSeqs, NEW c \in Seq(Nat), NEW d \in Seq(Nat),
           FoundInOrder(Append(Q, c), LinesOf(P, i)),
           Numbers(c) \subseteq Numbers(d), Numbers(P[i + 1].text) \subseteq Numbers(d),
           Numbers(d) \subseteq LinesOf(P, i + 1)
    PROVE  FoundInOrder(Append(Q, d), LinesOf(P, i + 1))
<1>1. <<d>> \in TextSeqs /\ Len(<<d>>) = 1 /\ <<d>>[1] = d
  BY DEF TextSeqs
<1>2. FoundInOrder(<<d>>, Numbers(d))
  <2>1. 1 \in 1..Len(<<d>>) /\ 1 <= 1
    BY <1>1
  <2> QED BY <1>1, <2>1 DEF FoundInOrder, Numbers
<1>3. FoundInOrder(Q \o <<d>>, LinesOf(P, i + 1))
  BY <1>1, <1>2, TextsAdded
<1>4. Q \o <<d>> = Append(Q, d)
  BY AppendIsConcat DEF TextSeqs
<1> QED BY <1>3, <1>4

\* The merge of a piece by its four cases.
LEMMA MergeIs ==
    ASSUME NEW m \in Merges, NEW p \in Pieces
    PROVE  LET v == p.text
               f == Flush(m)
               d == Joined(m.cur, v)
               w == WindowSplit(d)
               e == IF Len(Joined(f.cur, v)) > MaxRunes THEN v ELSE Joined(f.cur, v)
           IN /\ p.protected => MergePiece(m, p) = [chunks |-> Append(f.chunks, Joined(f.cur, v)), cur |-> OverlapTail(v)]
              /\ ~p.protected /\ Len(v) > MaxRunes =>
                    MergePiece(m, p) = [chunks |-> m.chunks \o w, cur |-> OverlapTail(w[Len(w)])]
              /\ ~p.protected /\ ~(Len(v) > MaxRunes) /\ Len(d) <= MaxRunes =>
                    MergePiece(m, p) = [chunks |-> m.chunks, cur |-> d]
              /\ ~p.protected /\ ~(Len(v) > MaxRunes) /\ ~(Len(d) <= MaxRunes) /\ f \in Merges =>
                    MergePiece(m, p) = [chunks |-> f.chunks, cur |-> e]
<1> DEFINE v == p.text
           f == Flush(m)
           d == Joined(m.cur, v)
           w == WindowSplit(d)
           e == IF Len(Joined(f.cur, v)) > MaxRunes THEN v ELSE Joined(f.cur, v)
<1>1. m = [chunks |-> m.chunks, cur |-> m.cur]
  BY MergeTyped
<1>2. p.protected => MergePiece(m, p) = [chunks |-> Append(f.chunks, Joined(f.cur, v)), cur |-> OverlapTail(v)]
  BY DEF MergePiece
<1>3. ~p.protected /\ Len(v) > MaxRunes =>
         MergePiece(m, p) = [chunks |-> m.chunks \o w, cur |-> OverlapTail(w[Len(w)])]
  BY DEF MergePiece
<1>4. ASSUME ~p.protected, ~(Len(v) > MaxRunes), Len(d) <= MaxRunes
      PROVE  MergePiece(m, p) = [chunks |-> m.chunks, cur |-> d]
  <2>1. MergePiece(m, p) = [m EXCEPT !.cur = d]
    BY <1>4, Zenon DEF MergePiece
  <2> HIDE DEF d
  <2> QED BY <1>1, <2>1
<1>5. ASSUME ~p.protected, ~(Len(v) > MaxRunes), ~(Len(d) <= MaxRunes), f \in Merges
      PROVE  MergePiece(m, p) = [chunks |-> f.chunks, cur |-> e]
  <2>1. MergePiece(m, p) = [f EXCEPT !.cur = e]
    BY <1>5, Zenon DEF MergePiece
  <2>2. f = [chunks |-> f.chunks, cur |-> f.cur]
    <3> HIDE DEF f
    <3> QED BY <1>5, MergeTyped
  <2> HIDE DEF f, e
  <2> QED BY <2>1, <2>2
<1> QED BY <1>2, <1>3, <1>4, <1>5

\* Merging keeps to chunks and a text under way, whatever comes.
LEMMA MergeStays ==
    ASSUME NEW m \in Merges, NEW p \in Pieces
    PROVE  Flush(m) \in Merges /\ MergePiece(m, p) \in Merges
<1> DEFINE v == p.text
           f == Flush(m)
           d == Joined(m.cur, v)
           w == WindowSplit(d)
           e == IF Len(Joined(f.cur, v)) > MaxRunes THEN v ELSE Joined(f.cur, v)
<1>1. m.chunks \in TextSeqs /\ m.cur \in Seq(Nat) /\ v \in Seq(Nat) /\ p.protected \in BOOLEAN
  BY MergeTyped DEF Pieces
<1>2. f \in Merges
  <2>1. CASE m.cur = <<>>
    BY <2>1 DEF Flush
  <2>2. CASE m.cur # <<>>
    <3>1. f = [chunks |-> Append(m.chunks, m.cur), cur |-> OverlapTail(m.cur)]
      BY <2>2 DEF Flush
    <3>2. Append(m.chunks, m.cur) \in TextSeqs /\ OverlapTail(m.cur) \in Seq(Nat)
      BY <1>1, OneMore, TailIs
    <3> HIDE DEF f
    <3> QED BY <3>1, <3>2, MergeMade
  <2> QED BY <2>1, <2>2
<1>3. /\ p.protected => MergePiece(m, p) = [chunks |-> Append(f.chunks, Joined(f.cur, v)), cur |-> OverlapTail(v)]
      /\ ~p.protected /\ Len(v) > MaxRunes =>
            MergePiece(m, p) = [chunks |-> m.chunks \o w, cur |-> OverlapTail(w[Len(w)])]
      /\ ~p.protected /\ ~(Len(v) > MaxRunes) /\ Len(d) <= MaxRunes => MergePiece(m, p) = [chunks |-> m.chunks, cur |-> d]
      /\ ~p.protected /\ ~(Len(v) > MaxRunes) /\ ~(Len(d) <= MaxRunes) => MergePiece(m, p) = [chunks |-> f.chunks, cur |-> e]
  BY <1>2, MergeIs
<1> HIDE DEF f
<1>4. f.chunks \in TextSeqs /\ f.cur \in Seq(Nat)
  BY <1>2, MergeTyped
<1> HIDE DEF v
<1>5. d \in Seq(Nat) /\ Joined(f.cur, v) \in Seq(Nat) /\ e \in Seq(Nat) /\ (v # <<>> => d # <<>>)
  BY <1>1, <1>4, JoinedIs
<1> HIDE DEF d, e
<1>6. CASE p.protected
  <2>1. Append(f.chunks, Joined(f.cur, v)) \in TextSeqs /\ OverlapTail(v) \in Seq(Nat)
    BY <1>1, <1>4, <1>5, OneMore, TailIs
  <2> QED BY <1>2, <1>3, <1>6, <2>1, MergeMade DEF f
<1>7. CASE ~p.protected /\ Len(v) > MaxRunes
  <2>1. d # <<>>
    <3>1. v # <<>>
      <4>1. Len(<<>>) = 0 /\ MaxRunes \in Nat
        BY ChunkerAssumption
      <4> QED BY <1>7, <4>1
    <3> QED BY <1>5, <3>1
  <2>2. w \in TextSeqs /\ Len(w) \in 1..Len(w) /\ w[Len(w)] \in Seq(Nat)
    <3>1. w \in TextSeqs /\ Len(w) >= 1 /\ \A k \in 1..Len(w) : w[k] \in Seq(Nat)
      BY <1>5, <2>1, WindowsAre
    <3>2. Len(w) \in Nat
      BY <3>1 DEF TextSeqs
    <3> QED BY <3>1, <3>2
  <2> HIDE DEF w
  <2>3. m.chunks \o w \in TextSeqs /\ OverlapTail(w[Len(w)]) \in Seq(Nat)
    BY <1>1, <2>2, SomeMore, TailIs
  <2> QED BY <1>2, <1>3, <1>7, <2>3, MergeMade DEF f
<1>8. CASE ~p.protected /\ ~(Len(v) > MaxRunes) /\ Len(d) <= MaxRunes
  BY <1>1, <1>2, <1>3, <1>5, <1>8, MergeMade DEF f
<1>9. CASE ~p.protected /\ ~(Len(v) > MaxRunes) /\ ~(Len(d) <= MaxRunes)
  BY <1>2, <1>3, <1>4, <1>5, <1>9, MergeMade DEF f
<1> QED BY <1>6, <1>7, <1>8, <1>9

\* A chunk more and the overlap of what it ends with.
LEMMA ChunkAdded ==
    ASSUME NEW P, NEW k, NEW Q \in TextSeqs, NEW d \in Seq(Nat), NEW v \in Seq(Nat),
           FoundInOrder(Append(Q, d), LinesOf(P, k)), SizesFit(P, Q), Len(d) > MaxRunes => FencedIn(P, d),
           InOrder(v), Numbers(v) \subseteq LinesOf(P, k)
    PROVE  PackInv([chunks |-> Append(Q, d), cur |-> OverlapTail(v)], k, P)
<1> DEFINE t == Append(Q, d)
           c == OverlapTail(v)
<1>1. t \in TextSeqs /\ c \in Seq(Nat) /\ Len(c) <= MaxRunes /\ Numbers(c) \subseteq Numbers(v) /\ InOrder(c)
  BY OneMore, TailIs
<1>2. SizesFit(P, t)
  BY SizesStay
<1> HIDE DEF t, c
<1>3. FoundInOrder(Append(t, c), LinesOf(P, k))
  BY <1>1, FoundStays DEF t
<1>4. [chunks |-> t, cur |-> c] \in Merges
  BY <1>1, MergeMade
<1>5. PackInv([chunks |-> t, cur |-> c], k, P)
  BY <1>1, <1>2, <1>3, <1>4 DEF PackInv
<1> QED BY <1>5 DEF t, c

\* A text under way that is in order and fits.
LEMMA TextUnderWay ==
    ASSUME NEW P, NEW k, NEW Q \in TextSeqs, NEW d \in Seq(Nat), FoundInOrder(Append(Q, d), LinesOf(P, k)),
           SizesFit(P, Q), InOrder(d), Numbers(d) \subseteq LinesOf(P, k), Len(d) <= MaxRunes
    PROVE  PackInv([chunks |-> Q, cur |-> d], k, P)
<1>1. [chunks |-> Q, cur |-> d] \in Merges
  BY MergeMade
<1> QED BY <1>1 DEF PackInv

\* Merging the next piece.
LEMMA PieceMerged ==
    ASSUME NEW n, NEW P, PiecesFit(P, n), NEW i \in Nat, i + 1 \in 1..Len(P), NEW m, PackInv(m, i, P)
    PROVE  PackInv(MergePiece(m, P[i + 1]), i + 1, P)
<1> DEFINE p == P[i + 1]
           v == p.text
           f == Flush(m)
           d == Joined(m.cur, v)
           w == WindowSplit(d)
           g == Joined(f.cur, v)
           e == IF Len(g) > MaxRunes THEN v ELSE g
<1>1. m \in Merges /\ m.chunks \in TextSeqs /\ m.cur \in Seq(Nat) /\ SizesFit(P, m.chunks)
      /\ FoundInOrder(Append(m.chunks, m.cur), LinesOf(P, i))
  BY MergeTyped DEF PackInv
<1>2. p \in Pieces /\ p.protected \in BOOLEAN
  BY PieceTyped DEF PiecesFit
<1>3. PackInv(f, i, P) /\ FoundInOrder(f.chunks, LinesOf(P, i))
  BY FlushFits
<1>4. f \in Merges /\ f.chunks \in TextSeqs /\ f.cur \in Seq(Nat) /\ SizesFit(P, f.chunks)
      /\ FoundInOrder(Append(f.chunks, f.cur), LinesOf(P, i))
  BY <1>3, MergeTyped DEF PackInv
<1>5. /\ v \in Seq(Nat) /\ InOrder(v) /\ v # <<>> /\ Numbers(v) \subseteq LinesOf(P, i + 1)
      /\ d \in Seq(Nat) /\ InOrder(d) /\ d # <<>> /\ Numbers(d) = Numbers(m.cur) \cup Numbers(v)
      /\ Numbers(d) \subseteq LinesOf(P, i + 1)
  BY JoinedFits
<1>6. /\ g \in Seq(Nat) /\ InOrder(g) /\ Numbers(g) = Numbers(f.cur) \cup Numbers(v)
      /\ Numbers(g) \subseteq LinesOf(P, i + 1) /\ (p.protected => FencedIn(P, g))
  <2> HIDE DEF f
  <2> QED BY <1>3, JoinedFits
<1>7. /\ p.protected => MergePiece(m, p) = [chunks |-> Append(f.chunks, g), cur |-> OverlapTail(v)]
      /\ ~p.protected /\ Len(v) > MaxRunes =>
            MergePiece(m, p) = [chunks |-> m.chunks \o w, cur |-> OverlapTail(w[Len(w)])]
      /\ ~p.protected /\ ~(Len(v) > MaxRunes) /\ Len(d) <= MaxRunes => MergePiece(m, p) = [chunks |-> m.chunks, cur |-> d]
      /\ ~p.protected /\ ~(Len(v) > MaxRunes) /\ ~(Len(d) <= MaxRunes) => MergePiece(m, p) = [chunks |-> f.chunks, cur |-> e]
  BY <1>1, <1>2, <1>4, MergeIs
<1> DEFINE t == MergePiece(m, p)
<1> HIDE DEF f, d, g, t
<1>8. CASE p.protected
  <2>1. FoundInOrder(Append(f.chunks, g), LinesOf(P, i + 1))
    BY <1>4, <1>5, <1>6, TextAdded
  <2>2. PackInv([chunks |-> Append(f.chunks, g), cur |-> OverlapTail(v)], i + 1, P)
    <3> HIDE DEF v
    <3> QED BY <1>4, <1>5, <1>6, <1>8, <2>1, ChunkAdded
  <2> QED BY <1>7, <1>8, <2>2 DEF t
<1>9. CASE ~p.protected /\ Len(v) > MaxRunes
  <2>1. /\ w \in TextSeqs /\ Len(w) >= 1 /\ FoundInOrder(w, Numbers(d))
        /\ \A k \in 1..Len(w) : /\ w[k] \in Seq(Nat) /\ Len(w[k]) <= MaxRunes
                                /\ Numbers(w[k]) \subseteq Numbers(d) /\ InOrder(w[k])
    BY <1>5, WindowsAre
  <2> HIDE DEF w
  <2>2. Len(w) \in 1..Len(w)
    BY <2>1 DEF TextSeqs
  <2> DEFINE Q == m.chunks \o w
             c == OverlapTail(w[Len(w)])
  <2>3. FoundInOrder(Q, LinesOf(P, i + 1))
    BY <1>1, <1>5, <2>1, TextsAdded
  <2>4. Q \in TextSeqs /\ SizesFit(P, Q)
    BY <1>1, <2>1, SomeMore, SizesOfMore
  <2>5. /\ c \in Seq(Nat) /\ Len(c) <= MaxRunes /\ InOrder(c) /\ Numbers(c) \subseteq LinesOf(P, i + 1)
    BY <1>5, <2>1, <2>2, TailIs
  <2> HIDE DEF Q, c
  <2>6. FoundInOrder(Append(Q, c), LinesOf(P, i + 1))
    BY <2>3, <2>4, <2>5, FoundStays
  <2>7. PackInv([chunks |-> Q, cur |-> c], i + 1, P)
    BY <2>4, <2>5, <2>6, TextUnderWay
  <2> QED BY <1>7, <1>9, <2>7 DEF t, Q, c
<1>10. CASE ~p.protected /\ ~(Len(v) > MaxRunes) /\ Len(d) <= MaxRunes
  <2>1. FoundInOrder(Append(m.chunks, d), LinesOf(P, i + 1))
    BY <1>1, <1>5, TextAdded
  <2>2. PackInv([chunks |-> m.chunks, cur |-> d], i + 1, P)
    BY <1>1, <1>5, <1>10, <2>1, TextUnderWay
  <2> QED BY <1>7, <1>10, <2>2 DEF t
<1>11. CASE ~p.protected /\ ~(Len(v) > MaxRunes) /\ ~(Len(d) <= MaxRunes)
  <2>1. FoundInOrder(Append(f.chunks, <<>>), LinesOf(P, i)) /\ <<>> \in Seq(Nat)
    <3>1. <<>> \in Seq(Nat)
      OBVIOUS
    <3> QED BY <1>3, <1>4, <3>1, FoundStays
  <2>2. e \in Seq(Nat) /\ InOrder(e) /\ Numbers(v) \subseteq Numbers(e) /\ Numbers(e) \subseteq LinesOf(P, i + 1)
        /\ Len(e) <= MaxRunes
    <3>1. Len(g) \in Nat /\ Len(v) \in Nat /\ MaxRunes \in Nat
      BY <1>5, <1>6, ChunkerAssumption
    <3> HIDE DEF v
    <3>2. CASE Len(g) > MaxRunes
      <4>1. e = v
        BY <3>2
      <4> HIDE DEF e
      <4> QED BY <1>5, <1>11, <3>1, <4>1
    <3>3. CASE ~(Len(g) > MaxRunes)
      <4>1. e = g
        BY <3>3
      <4> HIDE DEF e
      <4> QED BY <1>6, <3>1, <3>3, <4>1
    <3> QED BY <3>2, <3>3
  <2> HIDE DEF e
  <2>3. Numbers(<<>>) = {}
    BY DEF Numbers, Range
  <2>4. FoundInOrder(Append(f.chunks, e), LinesOf(P, i + 1))
    BY <1>4, <2>1, <2>2, <2>3, TextAdded
  <2>5. PackInv([chunks |-> f.chunks, cur |-> e], i + 1, P)
    BY <1>4, <2>2, <2>4, TextUnderWay
  <2> QED BY <1>7, <1>11, <2>5 DEF t
<1> QED BY <1>2, <1>8, <1>9, <1>10, <1>11 DEF t

NoMerge == [chunks |-> <<>>, cur |-> <<>>]

\* The merge of the pieces, one after the other.
LEMMA MergeRuns ==
    ASSUME NEW n, NEW P, PiecesFit(P, n)
    PROVE  \E m : PackInv(m, Len(P), P) /\ FoldLeft(MergePiece, NoMerge, P) = m
<1> DEFINE q == Len(P)
           it[s \in SUBSET (DOMAIN P)] ==
              IF s = {} THEN NoMerge
              ELSE LET x == Max(s) IN MergePiece(it[s \ {x}], P[x])
           F == [x \in Merges \X (1..q) |-> MergePiece(x[1], P[x[2]])]
<1>1. FoldLeft(MergePiece, NoMerge, P) = it[DOMAIN P]
  BY Zenon DEF FoldLeft, MapThenFoldSet
<1>2. P \in Seq(Pieces) /\ q \in Nat /\ DOMAIN P = 1..q /\ \A k \in 1..q : P[k] \in Pieces
  <2>1. P \in Seq(Pieces)
    BY DEF PiecesFit
  <2> QED BY <2>1, PieceTyped
<1>3. NoMerge \in Merges
  <2>1. <<>> \in TextSeqs /\ <<>> \in Seq(Nat)
    BY DEF TextSeqs
  <2> QED BY <2>1, MergeMade DEF NoMerge
<1>4. F \in [Merges \X (1..q) -> Merges]
  <2>1. \A x \in Merges \X (1..q) : x[1] \in Merges /\ x[2] \in 1..q
    OBVIOUS
  <2>2. \A x \in Merges \X (1..q) : MergePiece(x[1], P[x[2]]) \in Merges
    <3> HIDE DEF q, F
    <3> QED BY <1>2, <2>1, MergeStays
  <2> QED BY <2>2
<1>5. \A t \in Merges, k \in 1..q : F[<<t, k>>] = MergePiece(t, P[k])
  OBVIOUS
<1>6. PICK g \in [SUBSET (1..q) -> Merges] : FoldsUp(g, NoMerge, F, q)
  <2> HIDE DEF F, q
  <2> QED BY <1>2, <1>3, <1>4, FoldExists
<1>7. ASSUME NEW s \in SUBSET (1..q)
      PROVE  g[s] = IF s = {} THEN NoMerge ELSE LET x == Max(s) IN MergePiece(g[s \ {x}], P[x])
  <2>1. g[s] = IF s = {} THEN NoMerge ELSE F[<<g[s \ {Max(s)}], Max(s)>>]
    BY <1>6 DEF FoldsUp
  <2>2. s # {} => Max(s) \in 1..q /\ g[s \ {Max(s)}] \in Merges
    <3> HIDE DEF q
    <3> QED BY <1>2, <1>6, MaxIsThere
  <2> HIDE DEF F, q
  <2> QED BY <1>5, <2>1, <2>2
<1>8. g = [s \in SUBSET (DOMAIN P) |->
              IF s = {} THEN NoMerge ELSE LET x == Max(s) IN MergePiece(g[s \ {x}], P[x])]
  <2> HIDE DEF F, q, it
  <2> QED BY <1>2, <1>6, <1>7
<1>9. it = [s \in SUBSET (DOMAIN P) |->
              IF s = {} THEN NoMerge ELSE LET x == Max(s) IN MergePiece(it[s \ {x}], P[x])]
  <2> HIDE DEF F, q
  <2> QED BY <1>8 DEF it
<1> HIDE DEF it
<1>10. it[{}] = NoMerge
  BY <1>9
<1>11. ASSUME NEW i \in 1..q PROVE it[1..i] = MergePiece(it[1..(i - 1)], P[i])
  <2>1. 1..i \in SUBSET (1..q) /\ 1..i # {} /\ i \in 1..i /\ 1..i \in SUBSET (1..i) /\ i \in Nat
    OBVIOUS
  <2>2. Max(1..i) = i
    BY <2>1, MaxIsLast
  <2>3. (1..i) \ {i} = 1..(i - 1)
    OBVIOUS
  <2> HIDE DEF F, q
  <2> QED BY <1>2, <1>9, <2>1, <2>2, <2>3
<1>12. PackInv(it[{}], 0, P)
  <2>1. LinesOf(P, 0) = {}
    <3>1. \A j \in 1..0 : FALSE
      OBVIOUS
    <3> QED BY <3>1 DEF LinesOf
  <2>2. Numbers(<<>>) = {} /\ InOrder(<<>>) /\ Len(<<>>) = 0 /\ MaxRunes \in Nat
    BY ChunkerAssumption DEF Numbers, Range, InOrder
  <2>3. SizesFit(P, <<>>)
    BY DEF SizesFit
  <2>4. FoundInOrder(Append(<<>>, <<>>), {})
    BY DEF FoundInOrder
  <2>5. NoMerge.chunks = <<>> /\ NoMerge.cur = <<>>
    BY DEF NoMerge
  <2>6. PackInv(NoMerge, 0, P)
    <3>1. Numbers(<<>>) \subseteq LinesOf(P, 0) /\ Len(<<>>) <= MaxRunes
      BY <2>2
    <3> HIDE DEF NoMerge
    <3> QED BY <1>3, <2>1, <2>2, <2>3, <2>4, <2>5, <3>1, Zenon DEF PackInv
  <2> QED BY <1>10, <2>6
<1>13. \A i \in 0..q : PackInv(it[1..i], i, P)
  <2> DEFINE T == {i \in 0..q : ~PackInv(it[1..i], i, P)}
  <2>1. SUFFICES ASSUME NEW i \in T PROVE FALSE
    OBVIOUS
  <2>2. \A k \in 0..q : k \in Nat
    BY <1>2
  <2>3. T \in SUBSET Nat /\ T # {}
    BY <2>1, <2>2, Zenon
  <2>4. PICK k \in T : \A j \in T : k <= j
    <3> HIDE DEF T
    <3> QED BY <2>3, LeastNumber
  <2>5. k \in 0..q /\ ~PackInv(it[1..k], k, P)
    OBVIOUS
  <2>6. k # 0
    <3>1. 1..0 = {}
      OBVIOUS
    <3> QED BY <1>12, <2>5, <3>1
  <2>7. k - 1 \in 0..q /\ ~(k <= k - 1) /\ k \in 1..q /\ k - 1 \in Nat /\ (k - 1) + 1 = k
    BY <1>2, <2>5, <2>6
  <2>8. PackInv(it[1..(k - 1)], k - 1, P)
    BY <2>4, <2>7
  <2>9. PackInv(MergePiece(it[1..(k - 1)], P[k]), k, P)
    <3>1. (k - 1) + 1 \in 1..Len(P)
      BY <2>7
    <3>2. PackInv(MergePiece(it[1..(k - 1)], P[(k - 1) + 1]), (k - 1) + 1, P)
      <4> HIDE DEF T, q
      <4> QED BY <2>7, <2>8, <3>1, PieceMerged
    <3> QED BY <2>7, <3>2
  <2> QED BY <1>11, <2>5, <2>7, <2>9
<1>14. PackInv(it[DOMAIN P], q, P)
  <2>1. q \in 0..q
    BY <1>2
  <2> HIDE DEF q
  <2> QED BY <1>2, <1>13, <2>1
<1> QED BY <1>1, <1>14

\* The chunks of a document have its lines in order and fit, but for blocks.
LEMMA ChunksAreWhole ==
    ASSUME NEW ls \in Seq(LineKinds)
    PROVE  /\ FoundInOrder(Chunk(ls), {k \in 1..Len(ls) : ls[k] # "blank"})
           /\ SizesFit(SplitIntoPieces(ls), Chunk(ls))
<1> DEFINE P == SplitIntoPieces(ls)
           q == Len(P)
<1>1. PiecesFit(P, Len(ls)) /\ \A k \in 1..Len(ls) : ls[k] # "blank" => InPieces(P, k)
  BY PiecesAreWhole
<1> HIDE DEF P
<1>2. PICK m : PackInv(m, q, P) /\ FoldLeft(MergePiece, NoMerge, P) = m
  BY <1>1, MergeRuns
<1>3. Chunk(ls) = Flush(m).chunks
  BY <1>2 DEF Chunk, NoMerge, P
<1>4. FoundInOrder(Chunk(ls), LinesOf(P, q)) /\ SizesFit(P, Chunk(ls))
  BY <1>2, <1>3, FlushFits DEF PackInv
<1>5. \A k \in 1..Len(ls) : ls[k] # "blank" => k \in LinesOf(P, q)
  BY <1>1 DEF InPieces, LinesOf
<1>6. FoundInOrder(Chunk(ls), {k \in 1..Len(ls) : ls[k] # "blank"})
  BY <1>4, <1>5 DEF FoundInOrder
<1> QED BY <1>4, <1>6 DEF P

-----------------------------------------------------------------------------
ChunkSafety == ChunkInit /\ [][ChunkFile]_chunkVars

\* Once a file is chunked the chunks are those of its lines.
ChunkInv ==
    /\ docLines \in Seq(LineKinds) /\ chunked \in BOOLEAN
    /\ chunked => chunkList = Chunk(docLines)

\* They are so in every reachable state.
LEMMA ChunkInvHolds == ChunkSafety => []ChunkInv
<1>1. ChunkInit => ChunkInv
  <2>1. \A n \in 0..MaxDocLines : n \in Nat
    BY ChunkerAssumption
  <2>2. ASSUME ChunkInit PROVE ChunkInv
    <3>1. PICK n \in 0..MaxDocLines : docLines \in [1..n -> LineKinds]
      BY <2>2 DEF ChunkInit
    <3>2. docLines \in Seq(LineKinds)
      BY <2>1, <3>1
    <3> QED BY <2>2, <3>2 DEF ChunkInit, ChunkInv
  <2> QED BY <2>2
<1>2. ChunkInv /\ [ChunkFile]_chunkVars => ChunkInv'
  <2> SUFFICES ASSUME ChunkInv, [ChunkFile]_chunkVars PROVE ChunkInv'
    OBVIOUS
  <2>1. CASE ChunkFile
    <3>1. docLines' = docLines /\ chunked' = TRUE /\ chunkList' = Chunk(docLines)
      BY <2>1 DEF ChunkFile
    <3> QED BY <3>1, Zenon DEF ChunkInv
  <2>2. CASE UNCHANGED chunkVars
    <3>1. docLines' = docLines /\ chunked' = chunked /\ chunkList' = chunkList
      BY <2>2 DEF chunkVars
    <3> QED BY <3>1, Zenon DEF ChunkInv
  <2> QED BY <2>1, <2>2
<1> QED BY <1>1, <1>2, PTL DEF ChunkSafety

\* Chunking a file of any length, with any limits, loses no line and passes
\* the embedder's limit only for a fenced block (chunkFile).
THEOREM ChunksLoseNothing == ChunkSafety => []ChunkingIsLossless
<1>1. ASSUME ChunkInv PROVE ChunkingIsLossless
  <2>1. CASE ~chunked
    BY <2>1 DEF ChunkingIsLossless, ChunksBounded, NothingLost
  <2>2. CASE chunked
    <3>1. docLines \in Seq(LineKinds) /\ chunkList = Chunk(docLines)
      BY <1>1, <2>2 DEF ChunkInv
    <3>2. FoundInOrder(chunkList, Spoken) /\ SizesFit(SplitIntoPieces(docLines), chunkList)
      BY <3>1, ChunksAreWhole DEF Spoken
    <3>3. ChunksBounded
      BY <3>2 DEF ChunksBounded, SizesFit, Fenced, FencedIn
    <3>4. ASSUME NEW x \in Spoken, NEW y \in Spoken, x <= y
          PROVE  \E a \in Holds(x), b \in Holds(y) : a <= b
      <4>1. PICK a \in 1..Len(chunkList), b \in 1..Len(chunkList) :
               a <= b /\ x \in Range(chunkList[a]) /\ y \in Range(chunkList[b])
        BY <3>2, <3>4 DEF FoundInOrder
      <4> QED BY <4>1 DEF Holds
    <3>5. \A x \in Spoken : x <= x /\ x \in Nat
      BY <3>1 DEF Spoken
    <3>6. \A x \in Spoken, y \in Spoken : x < y => x <= y
      BY <3>5
    <3>7. NothingLost
      BY <3>4, <3>5, <3>6 DEF NothingLost
    <3> QED BY <3>3, <3>7 DEF ChunkingIsLossless
  <2> QED BY <2>1, <2>2
<1> QED BY <1>1, ChunkInvHolds, PTL

-----------------------------------------------------------------------------
(* The line filter.  The walk through the table is a script from the one   *)
(* text to the other, whatever the table says.                             *)

EditOps == [kind : {"equal", "delete", "insert"}, text : ProposedTexts, line : Nat]
Grid(a, b) == (1..Len(a) + 1) \X (1..Len(b) + 1)

\* One step of the walk; t says which side of a difference goes first.
WalkFrom(f, i, j, a, b, t) ==
    IF i > Len(a) /\ j > Len(b) THEN <<>>
    ELSE IF i <= Len(a) /\ j <= Len(b) /\ a[i] = b[j]
         THEN <<Op("equal", a[i], i)>> \o f[<<i + 1, j + 1>>]
    ELSE IF j > Len(b) \/ (i <= Len(a) /\ t[i + 1, j] >= t[i, j + 1])
         THEN <<Op("delete", a[i], i)>> \o f[<<i + 1, j>>]
    ELSE <<Op("insert", b[j], 0)>> \o f[<<i, j + 1>>]

\* What is left of two texts before the i-th and the j-th line.
LeftOf(i, j, a, b) == (Len(a) + 1 - i) + (Len(b) + 1 - j)

\* The four ways a walk goes on, whatever comes after.
WalkEnds(i, j, a, b, t) ==
    i = Len(a) + 1 /\ j = Len(b) + 1 /\ \A f : WalkFrom(f, i, j, a, b, t) = <<>>
WalkKeeps(i, j, a, b, t) ==
    /\ i \in 1..Len(a) /\ j \in 1..Len(b) /\ a[i] = b[j]
    /\ \A f : WalkFrom(f, i, j, a, b, t) = <<Op("equal", a[i], i)>> \o f[<<i + 1, j + 1>>]
WalkDeletes(i, j, a, b, t) ==
    /\ i \in 1..Len(a) /\ (a = b => i # j)
    /\ \A f : WalkFrom(f, i, j, a, b, t) = <<Op("delete", a[i], i)>> \o f[<<i + 1, j>>]
WalkInserts(i, j, a, b, t) ==
    /\ j \in 1..Len(b) /\ (a = b => i # j)
    /\ \A f : WalkFrom(f, i, j, a, b, t) = <<Op("insert", b[j], 0)>> \o f[<<i, j + 1>>]

\* A walk ends, takes a line of both or one of a side; it never parts equal
\* lines.
LEMMA WalkCases ==
    ASSUME NEW a \in Seq(ProposedTexts), NEW b \in Seq(ProposedTexts), NEW t,
           NEW i \in 1..Len(a) + 1, NEW j \in 1..Len(b) + 1
    PROVE  \/ WalkEnds(i, j, a, b, t) \/ WalkKeeps(i, j, a, b, t)
           \/ WalkDeletes(i, j, a, b, t) \/ WalkInserts(i, j, a, b, t)
<1> DEFINE both == i <= Len(a) /\ j <= Len(b) /\ a[i] = b[j]
           first == t[i + 1, j] >= t[i, j + 1]
           del == j > Len(b) \/ (i <= Len(a) /\ first)
<1>0. Len(a) \in Nat /\ Len(b) \in Nat
  OBVIOUS
<1>1. CASE i > Len(a) /\ j > Len(b)
  <2>1. i = Len(a) + 1 /\ j = Len(b) + 1
    BY <1>0, <1>1
  <2> QED BY <1>1, <2>1, Zenon DEF WalkFrom, WalkEnds
<1>2. CASE ~(i > Len(a) /\ j > Len(b)) /\ both
  <2>1. \A f : WalkFrom(f, i, j, a, b, t) = <<Op("equal", a[i], i)>> \o f[<<i + 1, j + 1>>]
    BY <1>2, Zenon DEF WalkFrom
  <2>2. i <= Len(a) /\ j <= Len(b) /\ a[i] = b[j]
    BY <1>2, Zenon
  <2>3. i \in 1..Len(a) /\ j \in 1..Len(b)
    BY <1>0, <2>2
  <2> QED BY <2>1, <2>2, <2>3, Zenon DEF WalkKeeps
<1>3. CASE ~(i > Len(a) /\ j > Len(b)) /\ ~both /\ del
  <2>1. \A f : WalkFrom(f, i, j, a, b, t) = <<Op("delete", a[i], i)>> \o f[<<i + 1, j>>]
    BY <1>3, Zenon DEF WalkFrom
  <2>2. i \in 1..Len(a)
    <3>1. ~(i > Len(a) /\ j > Len(b)) /\ (j > Len(b) \/ i <= Len(a))
      BY <1>3, Zenon
    <3> QED BY <1>0, <3>1
  <2>3. a = b => i # j
    <3>1. ~(i <= Len(a) /\ j <= Len(b) /\ a[i] = b[j])
      BY <1>3, Zenon
    <3> QED BY <1>0, <2>2, <3>1
  <2> QED BY <2>1, <2>2, <2>3, Zenon DEF WalkDeletes
<1>4. CASE ~(i > Len(a) /\ j > Len(b)) /\ ~both /\ ~del
  <2>1. \A f : WalkFrom(f, i, j, a, b, t) = <<Op("insert", b[j], 0)>> \o f[<<i, j + 1>>]
    BY <1>4, Zenon DEF WalkFrom
  <2>2. j \in 1..Len(b)
    <3>1. ~(j > Len(b))
      BY <1>4, Zenon
    <3> QED BY <1>0, <3>1
  <2>3. a = b => i # j
    <3>1. ~(i <= Len(a) /\ j <= Len(b) /\ a[i] = b[j])
      BY <1>4, Zenon
    <3> QED BY <1>0, <2>2, <3>1
  <2> QED BY <2>1, <2>2, <2>3, Zenon DEF WalkInserts
<1> QED BY <1>1, <1>2, <1>3, <1>4, Zenon

\* The points a step goes on from have less left.
LEMMA LessLeft ==
    ASSUME NEW a \in Seq(ProposedTexts), NEW b \in Seq(ProposedTexts),
           NEW i \in 1..Len(a) + 1, NEW j \in 1..Len(b) + 1
    PROVE  /\ <<i, j>> \in Grid(a, b) /\ LeftOf(i, j, a, b) \in Nat
           /\ i \in 1..Len(a) /\ j \in 1..Len(b) =>
                 <<i + 1, j + 1>> \in Grid(a, b) /\ LeftOf(i + 1, j + 1, a, b) < LeftOf(i, j, a, b)
                 /\ i + 1 \in 1..Len(a) + 1 /\ j + 1 \in 1..Len(b) + 1
           /\ i \in 1..Len(a) => <<i + 1, j>> \in Grid(a, b) /\ LeftOf(i + 1, j, a, b) < LeftOf(i, j, a, b)
                                 /\ i + 1 \in 1..Len(a) + 1
           /\ j \in 1..Len(b) => <<i, j + 1>> \in Grid(a, b) /\ LeftOf(i, j + 1, a, b) < LeftOf(i, j, a, b)
                                 /\ j + 1 \in 1..Len(b) + 1
<1>1. Len(a) \in Nat /\ Len(b) \in Nat
  OBVIOUS
<1>2. i \in 1..Len(a) => i + 1 \in 1..Len(a) + 1
  BY <1>1
<1>3. j \in 1..Len(b) => j + 1 \in 1..Len(b) + 1
  BY <1>1
<1>4. /\ LeftOf(i, j, a, b) \in Nat
      /\ LeftOf(i + 1, j + 1, a, b) < LeftOf(i, j, a, b)
      /\ LeftOf(i + 1, j, a, b) < LeftOf(i, j, a, b)
      /\ LeftOf(i, j + 1, a, b) < LeftOf(i, j, a, b)
  BY <1>1 DEF LeftOf
<1> QED BY <1>2, <1>3, <1>4 DEF Grid

\* An operation before a script.
LEMMA OpBefore ==
    ASSUME NEW o \in EditOps, NEW w \in Seq(EditOps)
    PROVE  /\ <<o>> \o w \in Seq(EditOps) /\ Len(<<o>> \o w) = Len(w) + 1 /\ Len(w) \in Nat
           /\ (<<o>> \o w)[1] = o
           /\ \A k \in 2..Len(w) + 1 : k - 1 \in 1..Len(w) /\ (<<o>> \o w)[k] = w[k - 1]
<1>1. <<o>> \in Seq(EditOps) /\ Len(<<o>>) = 1 /\ <<o>>[1] = o
  OBVIOUS
<1> DEFINE u == <<o>>
<1> HIDE DEF u
<1>2. /\ u \o w \in Seq(EditOps) /\ Len(u \o w) = 1 + Len(w) /\ Len(w) \in Nat
      /\ \A k \in 1..(1 + Len(w)) : (u \o w)[k] = IF k <= 1 THEN u[k] ELSE w[k - 1]
  BY <1>1, ConcatProperties DEF u
<1>3. \A k \in 2..Len(w) + 1 : k \in 1..(1 + Len(w)) /\ ~(k <= 1) /\ k - 1 \in 1..Len(w)
  BY <1>2
<1>4. 1 \in 1..(1 + Len(w)) /\ 1 <= 1
  BY <1>2
<1> QED BY <1>1, <1>2, <1>3, <1>4 DEF u

\* What the operations are made of.
LEMMA OpsAre ==
    ASSUME NEW a \in Seq(ProposedTexts), NEW b \in Seq(ProposedTexts)
    PROVE  /\ \A i \in 1..Len(a) : /\ Op("equal", a[i], i) \in EditOps
                                   /\ Op("delete", a[i], i) \in EditOps
           /\ \A j \in 1..Len(b) : Op("insert", b[j], 0) \in EditOps
BY DEF Op, EditOps

\* A step of a walk over scripts is a script.
LEMMA WalkTyped ==
    ASSUME NEW a \in Seq(ProposedTexts), NEW b \in Seq(ProposedTexts), NEW t,
           NEW i \in 1..Len(a) + 1, NEW j \in 1..Len(b) + 1, NEW f \in [Grid(a, b) -> Seq(EditOps)]
    PROVE  WalkFrom(f, i, j, a, b, t) \in Seq(EditOps)
<1>1. \A p \in Grid(a, b) : f[p] \in Seq(EditOps)
  OBVIOUS
<1>2. CASE WalkEnds(i, j, a, b, t)
  <2>1. WalkFrom(f, i, j, a, b, t) = <<>>
    BY <1>2, Zenon DEF WalkEnds
  <2> QED BY <2>1
<1>3. CASE WalkKeeps(i, j, a, b, t)
  <2>1. /\ WalkFrom(f, i, j, a, b, t) = <<Op("equal", a[i], i)>> \o f[<<i + 1, j + 1>>]
        /\ i \in 1..Len(a) /\ j \in 1..Len(b)
    BY <1>3, Zenon DEF WalkKeeps
  <2>2. f[<<i + 1, j + 1>>] \in Seq(EditOps) /\ Op("equal", a[i], i) \in EditOps
    BY <1>1, <2>1, LessLeft, OpsAre
  <2> QED BY <2>1, <2>2, OpBefore
<1>4. CASE WalkDeletes(i, j, a, b, t)
  <2>1. /\ WalkFrom(f, i, j, a, b, t) = <<Op("delete", a[i], i)>> \o f[<<i + 1, j>>]
        /\ i \in 1..Len(a)
    BY <1>4, Zenon DEF WalkDeletes
  <2>2. f[<<i + 1, j>>] \in Seq(EditOps) /\ Op("delete", a[i], i) \in EditOps
    BY <1>1, <2>1, LessLeft, OpsAre
  <2> QED BY <2>1, <2>2, OpBefore
<1>5. CASE WalkInserts(i, j, a, b, t)
  <2>1. /\ WalkFrom(f, i, j, a, b, t) = <<Op("insert", b[j], 0)>> \o f[<<i, j + 1>>]
        /\ j \in 1..Len(b)
    BY <1>5, Zenon DEF WalkInserts
  <2>2. f[<<i, j + 1>>] \in Seq(EditOps) /\ Op("insert", b[j], 0) \in EditOps
    BY <1>1, <2>1, LessLeft, OpsAre
  <2> QED BY <2>1, <2>2, OpBefore
<1> QED BY <1>2, <1>3, <1>4, <1>5, WalkCases, Zenon

\* A step depends on the points with less left.
LEMMA WalkSame ==
    ASSUME NEW a \in Seq(ProposedTexts), NEW b \in Seq(ProposedTexts), NEW t,
           NEW i \in 1..Len(a) + 1, NEW j \in 1..Len(b) + 1, NEW f, NEW g,
           \A x \in 1..Len(a) + 1, y \in 1..Len(b) + 1 :
               LeftOf(x, y, a, b) < LeftOf(i, j, a, b) => f[<<x, y>>] = g[<<x, y>>]
    PROVE  WalkFrom(f, i, j, a, b, t) = WalkFrom(g, i, j, a, b, t)
<1>1. CASE WalkEnds(i, j, a, b, t)
  BY <1>1, Zenon DEF WalkEnds
<1>2. CASE WalkKeeps(i, j, a, b, t)
  <2>1. i \in 1..Len(a) /\ j \in 1..Len(b)
    BY <1>2, Zenon DEF WalkKeeps
  <2>2. f[<<i + 1, j + 1>>] = g[<<i + 1, j + 1>>]
    BY <2>1, LessLeft
  <2> QED BY <1>2, <2>2, Zenon DEF WalkKeeps
<1>3. CASE WalkDeletes(i, j, a, b, t)
  <2>1. i \in 1..Len(a)
    BY <1>3, Zenon DEF WalkDeletes
  <2>2. f[<<i + 1, j>>] = g[<<i + 1, j>>]
    BY <2>1, LessLeft
  <2> QED BY <1>3, <2>2, Zenon DEF WalkDeletes
<1>4. CASE WalkInserts(i, j, a, b, t)
  <2>1. j \in 1..Len(b)
    BY <1>4, Zenon DEF WalkInserts
  <2>2. f[<<i, j + 1>>] = g[<<i, j + 1>>]
    BY <2>1, LessLeft
  <2> QED BY <1>4, <2>2, Zenon DEF WalkInserts
<1> QED BY <1>1, <1>2, <1>3, <1>4, WalkCases, Zenon

WalksTo(g, n, a, b, t) ==
    \A i \in 1..Len(a) + 1, j \in 1..Len(b) + 1 :
        LeftOf(i, j, a, b) <= n => g[<<i, j>>] = WalkFrom(g, i, j, a, b, t)

\* A walk exists: from the end backwards.
LEMMA WalkExists ==
    ASSUME NEW a \in Seq(ProposedTexts), NEW b \in Seq(ProposedTexts), NEW t
    PROVE  \E g \in [Grid(a, b) -> Seq(EditOps)] :
              g = [p \in Grid(a, b) |-> WalkFrom(g, p[1], p[2], a, b, t)]
<1> DEFINE n == Len(a) + Len(b)
           T == {k \in 0..n : ~ \E g \in [Grid(a, b) -> Seq(EditOps)] : WalksTo(g, k, a, b, t)}
           W(f, p) == WalkFrom(f, p[1], p[2], a, b, t)
<1>0. n \in Nat /\ n \in 0..n /\ \A x \in 0..n : x \in Nat
  OBVIOUS
<1>p. \A p \in Grid(a, b) : p[1] \in 1..Len(a) + 1 /\ p[2] \in 1..Len(b) + 1 /\ p = <<p[1], p[2]>>
  BY DEF Grid
<1>q. \A i \in 1..Len(a) + 1, j \in 1..Len(b) + 1 : LeftOf(i, j, a, b) \in Nat
  BY DEF LeftOf
<1>1. n \notin T
  <2>1. SUFFICES ASSUME n \in T PROVE FALSE
    OBVIOUS
  <2>2. PICK k \in T : \A m \in T : k <= m
    <3>1. T \in SUBSET Nat /\ T # {}
      BY <1>0, <2>1, Zenon
    <3> HIDE DEF T
    <3> QED BY <3>1, LeastNumber
  <2>3. k \in 0..n /\ ~ \E g \in [Grid(a, b) -> Seq(EditOps)] : WalksTo(g, k, a, b, t)
    OBVIOUS
  <2>4. \E f \in [Grid(a, b) -> Seq(EditOps)] : k = 0 \/ WalksTo(f, k - 1, a, b, t)
    <3>1. CASE k = 0
      <4>1. [p \in Grid(a, b) |-> <<>>] \in [Grid(a, b) -> Seq(EditOps)]
        OBVIOUS
      <4> QED BY <3>1, <4>1
    <3>2. CASE k # 0
      <4>1. k - 1 \in 0..n /\ ~(k <= k - 1)
        BY <2>3, <3>2
      <4>2. k - 1 \notin T
        BY <2>2, <4>1
      <4> QED BY <4>1, <4>2
    <3> QED BY <3>1, <3>2
  <2>5. PICK f \in [Grid(a, b) -> Seq(EditOps)] : k = 0 \/ WalksTo(f, k - 1, a, b, t)
    BY <2>4
  <2> DEFINE h == [p \in Grid(a, b) |-> IF LeftOf(p[1], p[2], a, b) = k THEN W(f, p) ELSE f[p]]
  <2>6. h \in [Grid(a, b) -> Seq(EditOps)]
    <3>1. \A p \in Grid(a, b) : W(f, p) \in Seq(EditOps)
      BY <1>p, WalkTyped
    <3> HIDE DEF W
    <3> QED BY <3>1
  <2>7. ASSUME NEW x \in 1..Len(a) + 1, NEW y \in 1..Len(b) + 1
        PROVE  h[<<x, y>>] = IF LeftOf(x, y, a, b) = k THEN WalkFrom(f, x, y, a, b, t) ELSE f[<<x, y>>]
    <3>1. <<x, y>> \in Grid(a, b) /\ <<x, y>>[1] = x /\ <<x, y>>[2] = y
      BY LessLeft
    <3> QED BY <3>1
  <2>k. k \in Nat
    BY <1>0, <2>3
  <2> HIDE DEF h, T, n
  <2>8. ASSUME NEW i \in 1..Len(a) + 1, NEW j \in 1..Len(b) + 1, LeftOf(i, j, a, b) <= k
        PROVE  h[<<i, j>>] = WalkFrom(h, i, j, a, b, t)
    <3>1. \A x \in 1..Len(a) + 1, y \in 1..Len(b) + 1 :
             LeftOf(x, y, a, b) < LeftOf(i, j, a, b) => h[<<x, y>>] = f[<<x, y>>]
      BY <1>q, <2>k, <2>7, <2>8
    <3>2. WalkFrom(h, i, j, a, b, t) = WalkFrom(f, i, j, a, b, t)
      BY <3>1, WalkSame
    <3>3. CASE LeftOf(i, j, a, b) = k
      BY <2>7, <3>2, <3>3
    <3>4. CASE LeftOf(i, j, a, b) # k
      <4>1. LeftOf(i, j, a, b) \in Nat /\ k \in Nat
        BY <1>q, <2>k
      <4>2. k # 0 /\ LeftOf(i, j, a, b) <= k - 1
        BY <2>8, <3>4, <4>1
      <4>3. f[<<i, j>>] = WalkFrom(f, i, j, a, b, t)
        BY <2>5, <4>2 DEF WalksTo
      <4> QED BY <2>7, <3>2, <3>4, <4>3
    <3> QED BY <3>3, <3>4
  <2>9. WalksTo(h, k, a, b, t)
    BY <2>8 DEF WalksTo
  <2> QED BY <2>3, <2>6, <2>9
<1>2. PICK g \in [Grid(a, b) -> Seq(EditOps)] : WalksTo(g, n, a, b, t)
  BY <1>0, <1>1
<1>3. \A i \in 1..Len(a) + 1, j \in 1..Len(b) + 1 : LeftOf(i, j, a, b) <= n
  BY DEF LeftOf
<1>4. ASSUME NEW p \in Grid(a, b) PROVE g[p] = W(g, p)
  <2>1. p[1] \in 1..Len(a) + 1 /\ p[2] \in 1..Len(b) + 1 /\ p = <<p[1], p[2]>>
    BY <1>p
  <2> HIDE DEF n
  <2>2. g[<<p[1], p[2]>>] = WalkFrom(g, p[1], p[2], a, b, t)
    BY <1>2, <1>3, <2>1 DEF WalksTo
  <2> QED BY <2>1, <2>2
<1> HIDE DEF W
<1>5. g = [p \in Grid(a, b) |-> W(g, p)]
  BY <1>4
<1> QED BY <1>5 DEF W

\* Before its k-th operation a script stands at line l[k - 1] of the one text
\* and at line c[k - 1] of the other.
ScriptSteps(w, l, c, a, b) ==
    \A k \in 1..Len(w) :
       /\ l[k] = IF w[k].kind = "insert" THEN l[k - 1] ELSE l[k - 1] + 1
       /\ c[k] = IF w[k].kind = "delete" THEN c[k - 1] ELSE c[k - 1] + 1
       /\ w[k].kind # "insert" => l[k - 1] \in 1..Len(a) /\ w[k].line = l[k - 1] /\ w[k].text = a[l[k - 1]]
       /\ w[k].kind # "delete" => c[k - 1] \in 1..Len(b) /\ w[k].text = b[c[k - 1]]

\* A script that makes the one text from line i into the other from line j.
Script(w, i, j, a, b) ==
    /\ w \in Seq(EditOps)
    /\ \E l, c \in [0..Len(w) -> Nat] :
          /\ l[0] = i /\ c[0] = j /\ l[Len(w)] = Len(a) + 1 /\ c[Len(w)] = Len(b) + 1
          /\ ScriptSteps(w, l, c, a, b)
    /\ a = b /\ i = j => \A k \in 1..Len(w) : w[k].kind = "equal"

\* At the end of both nothing is to do.
LEMMA ScriptEnds ==
    ASSUME NEW a \in Seq(ProposedTexts), NEW b \in Seq(ProposedTexts)
    PROVE  Script(<<>>, Len(a) + 1, Len(b) + 1, a, b)
<1> DEFINE l == [k \in 0..0 |-> Len(a) + 1]
           c == [k \in 0..0 |-> Len(b) + 1]
<1>1. Len(a) \in Nat /\ Len(b) \in Nat /\ Len(<<>>) = 0 /\ <<>> \in Seq(EditOps)
  OBVIOUS
<1>2. l \in [0..0 -> Nat] /\ c \in [0..0 -> Nat] /\ l[0] = Len(a) + 1 /\ c[0] = Len(b) + 1
  BY <1>1
<1>3. \A k \in 1..0 : FALSE
  OBVIOUS
<1> HIDE DEF l, c
<1>4. ScriptSteps(<<>>, l, c, a, b)
  BY <1>1, <1>3 DEF ScriptSteps
<1> QED BY <1>1, <1>2, <1>3, <1>4 DEF Script

\* An operation before a script that goes on from where it leads.
LEMMA ScriptGrows ==
    ASSUME NEW a \in Seq(ProposedTexts), NEW b \in Seq(ProposedTexts), NEW i \in Nat, NEW j \in Nat,
           NEW o \in EditOps, NEW w,
           Script(w, IF o.kind = "insert" THEN i ELSE i + 1, IF o.kind = "delete" THEN j ELSE j + 1, a, b),
           o.kind # "insert" => i \in 1..Len(a) /\ o.line = i /\ o.text = a[i],
           o.kind # "delete" => j \in 1..Len(b) /\ o.text = b[j],
           a = b /\ i = j => o.kind = "equal"
    PROVE  Script(<<o>> \o w, i, j, a, b)
<1> DEFINE i1 == IF o.kind = "insert" THEN i ELSE i + 1
           j1 == IF o.kind = "delete" THEN j ELSE j + 1
           n == Len(w)
           v == <<o>> \o w
<1>1. w \in Seq(EditOps) /\ n \in Nat
  BY DEF Script
<1>2. PICK l \in [0..n -> Nat], c \in [0..n -> Nat] :
         /\ l[0] = i1 /\ c[0] = j1 /\ l[n] = Len(a) + 1 /\ c[n] = Len(b) + 1
         /\ ScriptSteps(w, l, c, a, b)
  BY Zenon DEF Script
<1>3. /\ v \in Seq(EditOps) /\ Len(v) = n + 1 /\ v[1] = o
      /\ \A k \in 2..n + 1 : k - 1 \in 1..n /\ v[k] = w[k - 1]
  BY <1>1, OpBefore
<1> DEFINE p == [k \in 0..n + 1 |-> IF k = 0 THEN i ELSE l[k - 1]]
           q == [k \in 0..n + 1 |-> IF k = 0 THEN j ELSE c[k - 1]]
<1>4. \A k \in 1..n + 1 : k - 1 \in 0..n /\ k # 0 /\ k \in 0..n + 1
  BY <1>1
<1>5. p \in [0..n + 1 -> Nat] /\ q \in [0..n + 1 -> Nat]
  <2>1. \A k \in 0..n + 1 : k = 0 \/ k \in 1..n + 1
    BY <1>1
  <2> HIDE DEF n
  <2> QED BY <1>4, <2>1
<1>6. p[0] = i /\ q[0] = j /\ \A k \in 1..n + 1 : p[k] = l[k - 1] /\ q[k] = c[k - 1]
  BY <1>1, <1>4
<1>7. p[n + 1] = Len(a) + 1 /\ q[n + 1] = Len(b) + 1
  BY <1>1, <1>2, <1>6
<1> HIDE DEF p, q, v, n
<1>8. ScriptSteps(v, p, q, a, b)
  <2>1. SUFFICES ASSUME NEW k \in 1..n + 1
                 PROVE  /\ p[k] = IF v[k].kind = "insert" THEN p[k - 1] ELSE p[k - 1] + 1
                        /\ q[k] = IF v[k].kind = "delete" THEN q[k - 1] ELSE q[k - 1] + 1
                        /\ v[k].kind # "insert" =>
                              p[k - 1] \in 1..Len(a) /\ v[k].line = p[k - 1] /\ v[k].text = a[p[k - 1]]
                        /\ v[k].kind # "delete" => q[k - 1] \in 1..Len(b) /\ v[k].text = b[q[k - 1]]
    BY <1>3 DEF ScriptSteps
  <2>2. CASE k = 1
    <3>1. v[1] = o /\ p[1] = i1 /\ q[1] = j1 /\ p[0] = i /\ q[0] = j /\ 1 - 1 = 0
      BY <1>1, <1>2, <1>3, <1>6
    <3> QED BY <2>2, <3>1
  <2>3. CASE k # 1
    <3>1. k \in 2..n + 1 /\ k - 1 \in 1..n + 1
      BY <1>1, <2>3
    <3>2. v[k] = w[k - 1] /\ p[k] = l[k - 1] /\ q[k] = c[k - 1]
          /\ p[k - 1] = l[(k - 1) - 1] /\ q[k - 1] = c[(k - 1) - 1] /\ k - 1 \in 1..n
      BY <1>3, <1>6, <3>1
    <3> QED BY <1>2, <3>2 DEF ScriptSteps, n
  <2> QED BY <2>2, <2>3
<1>9. ASSUME a = b, i = j, NEW k \in 1..n + 1 PROVE v[k].kind = "equal"
  <2>1. o.kind = "equal" /\ i1 = j1
    BY <1>9
  <2>2. \A m \in 1..n : w[m].kind = "equal"
    BY <1>9, <2>1 DEF Script, n
  <2>3. k = 1 \/ k \in 2..n + 1
    BY <1>1
  <2> QED BY <1>3, <2>1, <2>2, <2>3
<1>10. Script(v, i, j, a, b)
  BY <1>3, <1>5, <1>6, <1>7, <1>8, <1>9 DEF Script
<1> QED BY <1>10 DEF v

\* The walk is a script, from every point of the two texts.
LEMMA DiffIsScript ==
    ASSUME NEW a \in Seq(ProposedTexts), NEW b \in Seq(ProposedTexts)
    PROVE  Script(DiffLines(a, b), 1, 1, a, b)
<1> DEFINE t == LcsTable(a, b)
           way[at \in Grid(a, b)] == WalkFrom(way, at[1], at[2], a, b, t)
<1>1. DiffLines(a, b) = way[<<1, 1>>]
  BY DEF DiffLines, WalkFrom, Grid
<1> HIDE DEF t
<1>2. PICK g \in [Grid(a, b) -> Seq(EditOps)] : g = [p \in Grid(a, b) |-> WalkFrom(g, p[1], p[2], a, b, t)]
  BY WalkExists
<1>3. way = [p \in Grid(a, b) |-> WalkFrom(way, p[1], p[2], a, b, t)]
  BY <1>2 DEF way
<1> HIDE DEF way
<1>4. ASSUME NEW i \in 1..Len(a) + 1, NEW j \in 1..Len(b) + 1
      PROVE  way[<<i, j>>] = WalkFrom(way, i, j, a, b, t)
  <2>1. <<i, j>> \in Grid(a, b) /\ <<i, j>>[1] = i /\ <<i, j>>[2] = j
    BY LessLeft
  <2> QED BY <1>3, <2>1
<1> DEFINE Bad == {k \in Nat : \E i \in 1..Len(a) + 1, j \in 1..Len(b) + 1 :
                                  LeftOf(i, j, a, b) = k /\ ~Script(way[<<i, j>>], i, j, a, b)}
<1>5. Bad = {}
  <2>1. SUFFICES ASSUME Bad # {} PROVE FALSE
    OBVIOUS
  <2>2. PICK k \in Bad : \A m \in Bad : k <= m
    <3>1. Bad \in SUBSET Nat
      OBVIOUS
    <3> HIDE DEF Bad
    <3> QED BY <2>1, <3>1, LeastNumber
  <2>3. PICK i \in 1..Len(a) + 1, j \in 1..Len(b) + 1 :
           LeftOf(i, j, a, b) = k /\ ~Script(way[<<i, j>>], i, j, a, b)
    OBVIOUS
  <2>4. ASSUME NEW x \in 1..Len(a) + 1, NEW y \in 1..Len(b) + 1, LeftOf(x, y, a, b) < LeftOf(i, j, a, b)
        PROVE  Script(way[<<x, y>>], x, y, a, b)
    <3>1. LeftOf(x, y, a, b) \in Nat /\ LeftOf(i, j, a, b) \in Nat
      BY LessLeft
    <3>2. ~(k <= LeftOf(x, y, a, b))
      BY <2>3, <2>4, <3>1
    <3>3. LeftOf(x, y, a, b) \notin Bad
      BY <2>2, <3>2
    <3> QED BY <3>1, <3>3
  <2> HIDE DEF Bad
  <2>5. i \in Nat /\ j \in Nat /\ way[<<i, j>>] = WalkFrom(way, i, j, a, b, t)
    BY <1>4
  <2>6. CASE WalkEnds(i, j, a, b, t)
    <3>1. i = Len(a) + 1 /\ j = Len(b) + 1 /\ way[<<i, j>>] = <<>>
      BY <2>5, <2>6, Zenon DEF WalkEnds
    <3> QED BY <2>3, <3>1, ScriptEnds
  <2>7. CASE WalkKeeps(i, j, a, b, t)
    <3> DEFINE o == Op("equal", a[i], i)
    <3>1. /\ way[<<i, j>>] = <<o>> \o way[<<i + 1, j + 1>>]
          /\ i \in 1..Len(a) /\ j \in 1..Len(b) /\ a[i] = b[j]
      BY <2>5, <2>7, Zenon DEF WalkKeeps
    <3>2. Script(way[<<i + 1, j + 1>>], i + 1, j + 1, a, b)
      BY <2>4, <3>1, LessLeft
    <3>3. o \in EditOps /\ o.kind = "equal" /\ o.text = a[i] /\ o.line = i
      BY <3>1, OpsAre DEF Op
    <3> HIDE DEF o
    <3>4. Script(<<o>> \o way[<<i + 1, j + 1>>], i, j, a, b)
      BY <2>5, <3>1, <3>2, <3>3, ScriptGrows
    <3> QED BY <2>3, <3>1, <3>4
  <2>8. CASE WalkDeletes(i, j, a, b, t)
    <3> DEFINE o == Op("delete", a[i], i)
    <3>1. way[<<i, j>>] = <<o>> \o way[<<i + 1, j>>] /\ i \in 1..Len(a) /\ (a = b => i # j)
      BY <2>5, <2>8, Zenon DEF WalkDeletes
    <3>2. Script(way[<<i + 1, j>>], i + 1, j, a, b)
      BY <2>4, <3>1, LessLeft
    <3>3. o \in EditOps /\ o.kind = "delete" /\ o.text = a[i] /\ o.line = i
      BY <3>1, OpsAre DEF Op
    <3> HIDE DEF o
    <3>4. Script(<<o>> \o way[<<i + 1, j>>], i, j, a, b)
      BY <2>5, <3>1, <3>2, <3>3, ScriptGrows
    <3> QED BY <2>3, <3>1, <3>4
  <2>9. CASE WalkInserts(i, j, a, b, t)
    <3> DEFINE o == Op("insert", b[j], 0)
    <3>1. way[<<i, j>>] = <<o>> \o way[<<i, j + 1>>] /\ j \in 1..Len(b) /\ (a = b => i # j)
      BY <2>5, <2>9, Zenon DEF WalkInserts
    <3>2. Script(way[<<i, j + 1>>], i, j + 1, a, b)
      BY <2>4, <3>1, LessLeft
    <3>3. o \in EditOps /\ o.kind = "insert" /\ o.text = b[j]
      BY <3>1, OpsAre DEF Op
    <3> HIDE DEF o
    <3>4. Script(<<o>> \o way[<<i, j + 1>>], i, j, a, b)
      BY <2>5, <3>1, <3>2, <3>3, ScriptGrows
    <3> QED BY <2>3, <3>1, <3>4
  <2> QED BY <2>6, <2>7, <2>8, <2>9, WalkCases
<1>6. 1 \in 1..Len(a) + 1 /\ 1 \in 1..Len(b) + 1
  OBVIOUS
<1>7. LeftOf(1, 1, a, b) \in Nat
  BY <1>6, LessLeft
<1>8. Script(way[<<1, 1>>], 1, 1, a, b)
  <2>1. LeftOf(1, 1, a, b) \notin Bad
    BY <1>5
  <2> QED BY <1>6, <1>7, <2>1
<1> QED BY <1>1, <1>8

\* After k operations the output has the texts of those that stay, in order;
\* if exactly the deletes go it has the other text up to where the script is.
FilterInv(out, k, ops, stay, c, b) ==
    /\ out \in Seq(ProposedTexts)
    /\ \E at \in [stay \cap (1..k) -> 1..Len(out)] :
          /\ \A m \in stay \cap (1..k) : out[at[m]] = ops[m].text
          /\ \A m, n \in stay \cap (1..k) : m < n => at[m] < at[n]
    /\ \A n \in 1..Len(out) : \E m \in 1..Len(ops) : m \in stay /\ out[n] = ops[m].text
    /\ (\A m \in 1..Len(ops) : m \in stay <=> ops[m].kind # "delete") =>
          Len(out) + 1 = c[k] /\ \A n \in 1..Len(out) : out[n] = b[n]

\* One operation more.
LEMMA FilterStep ==
    ASSUME NEW a, NEW b, NEW ops \in Seq(EditOps), NEW stay \in SUBSET (1..Len(ops)),
           NEW l, NEW c \in [0..Len(ops) -> Nat], ScriptSteps(ops, l, c, a, b),
           NEW k \in 1..Len(ops), NEW out, FilterInv(out, k - 1, ops, stay, c, b)
    PROVE  FilterInv(IF k \in stay THEN Append(out, ops[k].text) ELSE out, k, ops, stay, c, b)
<1> DEFINE before == stay \cap (1..(k - 1))
           now == stay \cap (1..k)
<1>1. out \in Seq(ProposedTexts) /\ Len(out) \in Nat /\ k \in Nat /\ k - 1 \in 0..Len(ops)
      /\ ops[k] \in EditOps /\ ops[k].text \in ProposedTexts
  <2>1. ops[k] \in EditOps
    BY ElementOfSeq
  <2>2. ops[k].text \in ProposedTexts
    BY <2>1 DEF EditOps
  <2>3. out \in Seq(ProposedTexts)
    BY DEF FilterInv
  <2>4. Len(ops) \in Nat
    OBVIOUS
  <2> QED BY <2>1, <2>2, <2>3, <2>4
<1>2. PICK at \in [before -> 1..Len(out)] :
         /\ \A m \in before : out[at[m]] = ops[m].text
         /\ \A m, n \in before : m < n => at[m] < at[n]
  BY DEF FilterInv
<1>3. c[k] = IF ops[k].kind = "delete" THEN c[k - 1] ELSE c[k - 1] + 1
  BY DEF ScriptSteps
<1>4. ops[k].kind # "delete" => ops[k].text = b[c[k - 1]]
  BY DEF ScriptSteps
<1>5. CASE k \notin stay
  <2>1. now = before
    BY <1>1, <1>5
  <2>2. ASSUME \A m \in 1..Len(ops) : m \in stay <=> ops[m].kind # "delete"
        PROVE  Len(out) + 1 = c[k] /\ \A n \in 1..Len(out) : out[n] = b[n]
    <3>1. ops[k].kind = "delete"
      BY <1>5, <2>2
    <3> QED BY <1>3, <2>2, <3>1 DEF FilterInv
  <2>3. \A n \in 1..Len(out) : \E m \in 1..Len(ops) : m \in stay /\ out[n] = ops[m].text
    BY DEF FilterInv
  <2>4. \E f \in [now -> 1..Len(out)] :
           /\ \A m \in now : out[f[m]] = ops[m].text
           /\ \A m, n \in now : m < n => f[m] < f[n]
    BY <1>2, <2>1
  <2>5. FilterInv(out, k, ops, stay, c, b)
    BY <1>1, <2>2, <2>3, <2>4 DEF FilterInv
  <2> QED BY <1>5, <2>5
<1>6. CASE k \in stay
  <2> DEFINE x == ops[k].text
             new == Append(out, x)
             f == [m \in now |-> IF m = k THEN Len(out) + 1 ELSE at[m]]
  <2>1. /\ new \in Seq(ProposedTexts) /\ Len(new) = Len(out) + 1 /\ new[Len(out) + 1] = x
        /\ \A n \in 1..Len(out) : new[n] = out[n]
    BY <1>1, AppendProperties
  <2> HIDE DEF new
  <2>2. \A n \in 1..Len(new) : n \in 1..Len(out) \/ n = Len(out) + 1
    BY <1>1, <2>1
  <2>3. \A m \in now : m = k \/ (m \in before /\ m < k)
    BY <1>1
  <2>4. \A m \in before : at[m] \in 1..Len(out) /\ at[m] \in 1..Len(new) /\ at[m] < Len(out) + 1
    BY <1>1, <1>2, <2>1
  <2>5. f \in [now -> 1..Len(new)]
    <3>1. Len(out) + 1 \in 1..Len(new)
      BY <1>1, <2>1
    <3> QED BY <2>3, <2>4, <3>1
  <2>6. (\A m \in now : f[m] = IF m = k THEN Len(out) + 1 ELSE at[m]) /\ \A m \in now : m \in Nat
    OBVIOUS
  <2> HIDE DEF f
  <2>7. \A m \in now : new[f[m]] = ops[m].text
    BY <1>2, <2>1, <2>3, <2>4, <2>6
  <2>8. ASSUME NEW m \in now, NEW n \in now, m < n PROVE f[m] < f[n]
    <3>1. m \in before
      BY <1>1, <2>3, <2>6, <2>8
    <3>2. m # k
      BY <1>1, <2>3, <2>6, <2>8
    <3> QED BY <1>2, <2>3, <2>4, <2>6, <2>8, <3>1, <3>2
  <2>9. \A n \in 1..Len(new) : \E m \in 1..Len(ops) : m \in stay /\ new[n] = ops[m].text
    BY <1>6, <2>1, <2>2 DEF FilterInv
  <2>10. ASSUME \A m \in 1..Len(ops) : m \in stay <=> ops[m].kind # "delete"
         PROVE  Len(new) + 1 = c[k] /\ \A n \in 1..Len(new) : new[n] = b[n]
    <3>1. ops[k].kind # "delete"
      BY <1>6, <2>10
    <3>2. Len(out) + 1 = c[k - 1] /\ \A n \in 1..Len(out) : out[n] = b[n]
      BY <2>10 DEF FilterInv
    <3>3. c[k - 1] \in Nat
      BY <1>1
    <3> QED BY <1>3, <1>4, <2>1, <2>2, <3>1, <3>2, <3>3
  <2>11. FilterInv(new, k, ops, stay, c, b)
    BY <2>1, <2>5, <2>7, <2>8, <2>9, <2>10 DEF FilterInv
  <2> QED BY <1>6, <2>11 DEF new
<1> QED BY <1>5, <1>6

\* The operations that stay.
StaysOf(ops, a, lines) ==
    {k \in 1..Len(ops) : \/ ops[k].kind = "equal"
                         \/ ops[k].kind = "delete" /\ Reverted(ops, k, a, lines)
                         \/ ops[k].kind = "insert" /\ ~Reverted(ops, k, a, lines)}

\* What the filter returns: the texts of the operations that stay.
LEMMA FilterRuns ==
    ASSUME NEW a, NEW b, NEW lines, DiffLines(a, b) \in Seq(EditOps),
           NEW l, NEW c \in [0..Len(DiffLines(a, b)) -> Nat], ScriptSteps(DiffLines(a, b), l, c, a, b), c[0] = 1
    PROVE  LET ops == DiffLines(a, b)
           IN FilterInv(ApplyUserEditWins(a, b, lines), Len(ops), ops, StaysOf(ops, a, lines), c, b)
<1> DEFINE ops == DiffLines(a, b)
           n == Len(ops)
           stay == StaysOf(ops, a, lines)
           stays(k) == \/ ops[k].kind = "equal"
                       \/ ops[k].kind = "delete" /\ Reverted(ops, k, a, lines)
                       \/ ops[k].kind = "insert" /\ ~Reverted(ops, k, a, lines)
           idx == [k \in 1..Len(ops) |-> k]
           Outs == Seq(ProposedTexts)
           it[s \in SUBSET (DOMAIN idx)] ==
              IF s = {} THEN <<>>
              ELSE LET x == Max(s)
                   IN IF stays(idx[x]) THEN Append(it[s \ {x}], ops[idx[x]].text) ELSE it[s \ {x}]
           F == [x \in Outs \X (1..n) |-> IF x[2] \in stay THEN Append(x[1], ops[x[2]].text) ELSE x[1]]
<1>1. ApplyUserEditWins(a, b, lines) = it[DOMAIN idx]
  BY Zenon DEF ApplyUserEditWins, FoldLeft, MapThenFoldSet
<1>o. ops \in Seq(EditOps) /\ c \in [0..Len(ops) -> Nat] /\ ScriptSteps(ops, l, c, a, b)
  OBVIOUS
<1> HIDE DEF ops
<1>2. n \in Nat /\ DOMAIN idx = 1..n
      /\ \A k \in 1..n : idx[k] = k /\ ops[k].text \in ProposedTexts
  <2>1. \A k \in 1..n : ops[k] \in EditOps
    BY <1>o, ElementOfSeq
  <2>2. \A k \in 1..n : ops[k].text \in ProposedTexts
    BY <2>1 DEF EditOps
  <2> QED BY <1>o, <2>2
<1>3. \A k \in 1..n : stays(k) <=> k \in stay
  BY Zenon DEF StaysOf
<1> HIDE DEF stays, stay
<1>4. F \in [Outs \X (1..n) -> Outs]
  <2>1. \A x \in Outs \X (1..n) : x[1] \in Outs /\ x[2] \in 1..n
    OBVIOUS
  <2>2. \A o \in Outs, k \in 1..n : Append(o, ops[k].text) \in Outs
    BY <1>2, AppendProperties
  <2> HIDE DEF Outs
  <2> QED BY <2>1, <2>2
<1>5. \A o \in Outs, k \in 1..n : F[<<o, k>>] = IF k \in stay THEN Append(o, ops[k].text) ELSE o
  OBVIOUS
<1>6. PICK g \in [SUBSET (1..n) -> Outs] : FoldsUp(g, <<>>, F, n)
  <2>1. <<>> \in Outs
    OBVIOUS
  <2> HIDE DEF F, n, Outs
  <2> QED BY <1>2, <1>4, <2>1, FoldExists
<1>7. ASSUME NEW s \in SUBSET (1..n)
      PROVE  g[s] = IF s = {} THEN <<>>
                    ELSE LET x == Max(s)
                         IN IF stays(idx[x]) THEN Append(g[s \ {x}], ops[idx[x]].text) ELSE g[s \ {x}]
  <2>1. g[s] = IF s = {} THEN <<>> ELSE F[<<g[s \ {Max(s)}], Max(s)>>]
    BY <1>6 DEF FoldsUp
  <2>2. s # {} => Max(s) \in 1..n /\ g[s \ {Max(s)}] \in Outs
    <3> HIDE DEF n, Outs
    <3> QED BY <1>2, <1>6, MaxIsThere
  <2> HIDE DEF F, n, Outs, idx
  <2> QED BY <1>2, <1>3, <1>5, <2>1, <2>2
<1>8. g = [s \in SUBSET (DOMAIN idx) |->
              IF s = {} THEN <<>>
              ELSE LET x == Max(s)
                   IN IF stays(idx[x]) THEN Append(g[s \ {x}], ops[idx[x]].text) ELSE g[s \ {x}]]
  <2> HIDE DEF F, n, idx, it, Outs
  <2> QED BY <1>2, <1>6, <1>7
<1>9. it = [s \in SUBSET (DOMAIN idx) |->
              IF s = {} THEN <<>>
              ELSE LET x == Max(s)
                   IN IF stays(idx[x]) THEN Append(it[s \ {x}], ops[idx[x]].text) ELSE it[s \ {x}]]
  <2> HIDE DEF F, n, idx, Outs
  <2> QED BY <1>8 DEF it
<1> HIDE DEF it
<1>10. it[{}] = <<>>
  BY <1>9
<1>11. ASSUME NEW i \in 1..n
       PROVE  it[1..i] = IF i \in stay THEN Append(it[1..(i - 1)], ops[i].text) ELSE it[1..(i - 1)]
  <2>1. 1..i \in SUBSET (1..n) /\ 1..i # {} /\ i \in 1..i /\ 1..i \in SUBSET (1..i) /\ i \in Nat
    OBVIOUS
  <2>2. Max(1..i) = i
    BY <2>1, MaxIsLast
  <2>3. (1..i) \ {i} = 1..(i - 1)
    OBVIOUS
  <2>4. it[1..i] = IF stays(idx[i]) THEN Append(it[1..(i - 1)], ops[idx[i]].text) ELSE it[1..(i - 1)]
    <3> DEFINE V(s, x) == IF stays(idx[x]) THEN Append(it[s \ {x}], ops[idx[x]].text) ELSE it[s \ {x}]
    <3>1. 1..i \in SUBSET (DOMAIN idx)
      BY <1>2, <2>1
    <3>2. it = [s \in SUBSET (DOMAIN idx) |-> IF s = {} THEN <<>> ELSE V(s, Max(s))]
      BY <1>9, Zenon
    <3> HIDE DEF F, n, idx, Outs, V
    <3>3. it[1..i] = V(1..i, i)
      BY <2>1, <2>2, <3>1, <3>2
    <3> QED BY <2>3, <3>3 DEF V
  <2>5. idx[i] = i /\ (stays(i) <=> i \in stay)
    <3> HIDE DEF F, n, idx, Outs
    <3> QED BY <1>2, <1>3
  <2> HIDE DEF F, n, idx, Outs
  <2> QED BY <2>4, <2>5
<1>12. FilterInv(it[{}], 0, ops, stay, c, b)
  <2>1. stay \cap (1..0) = {} /\ Len(<<>>) = 0 /\ 1..0 = {} /\ <<>> \in Seq(ProposedTexts)
    OBVIOUS
  <2>2. \E at \in [{} -> 1..0] : TRUE
    <3>1. [m \in {} |-> m] \in [{} -> 1..0]
      OBVIOUS
    <3> QED BY <3>1
  <2>3. FilterInv(<<>>, 0, ops, stay, c, b)
    <3>1. \A m \in stay \cap (1..0) : FALSE
      BY <2>1
    <3>2. \A m \in 1..Len(<<>>) : FALSE
      BY <2>1
    <3>3. \E at \in [stay \cap (1..0) -> 1..Len(<<>>)] :
             /\ \A m \in stay \cap (1..0) : <<>>[at[m]] = ops[m].text
             /\ \A m, k \in stay \cap (1..0) : m < k => at[m] < at[k]
      BY <2>1, <2>2, <3>1
    <3>4. Len(<<>>) + 1 = c[0]
      BY <2>1
    <3> QED BY <2>1, <3>2, <3>3, <3>4 DEF FilterInv
  <2> QED BY <1>10, <2>3
<1>13. \A i \in 0..n : FilterInv(it[1..i], i, ops, stay, c, b)
  <2> DEFINE T == {i \in 0..n : ~FilterInv(it[1..i], i, ops, stay, c, b)}
  <2>1. SUFFICES ASSUME NEW i \in T PROVE FALSE
    OBVIOUS
  <2>2. \A k \in 0..n : k \in Nat
    BY <1>2
  <2>3. T \in SUBSET Nat /\ T # {}
    BY <2>1, <2>2, Zenon
  <2>4. PICK k \in T : \A m \in T : k <= m
    <3> HIDE DEF T
    <3> QED BY <2>3, LeastNumber
  <2>5. k \in 0..n /\ ~FilterInv(it[1..k], k, ops, stay, c, b)
    OBVIOUS
  <2>6. k # 0
    <3>1. 1..0 = {}
      OBVIOUS
    <3> QED BY <1>12, <2>5, <3>1
  <2>7. k - 1 \in 0..n /\ ~(k <= k - 1) /\ k \in 1..n
    BY <1>2, <2>5, <2>6
  <2>8. FilterInv(it[1..(k - 1)], k - 1, ops, stay, c, b)
    BY <2>4, <2>7
  <2>9. stay \in SUBSET (1..Len(ops))
    BY DEF stay, StaysOf
  <2>10. FilterInv(IF k \in stay THEN Append(it[1..(k - 1)], ops[k].text) ELSE it[1..(k - 1)], k, ops, stay, c, b)
    <3> HIDE DEF T
    <3> QED BY <1>o, <2>7, <2>8, <2>9, FilterStep
  <2> QED BY <1>11, <2>5, <2>7, <2>10
<1>14. FilterInv(it[DOMAIN idx], n, ops, stay, c, b)
  <2>1. n \in 0..n
    BY <1>2
  <2> HIDE DEF n, idx
  <2> QED BY <1>2, <1>13, <2>1
<1> QED BY <1>1, <1>14 DEF stay, ops

\* Operation m takes line p of the old text, and no earlier one gets past it.
TakesLine(w, l, m, p, a) ==
    /\ m \in 1..Len(w) /\ w[m].kind # "insert" /\ w[m].line = p /\ w[m].text = a[p]
    /\ l[m] >= p + 1 /\ \A x \in 0..Len(w) : l[x] >= p + 1 => m <= x

\* A script takes every line.
LEMMA EveryLineTaken ==
    ASSUME NEW a \in Seq(ProposedTexts), NEW b, NEW w \in Seq(EditOps), NEW l \in [0..Len(w) -> Nat], NEW c,
           ScriptSteps(w, l, c, a, b), l[0] = 1, l[Len(w)] = Len(a) + 1, NEW p \in 1..Len(a)
    PROVE  \E m : TakesLine(w, l, m, p, a)
<1> DEFINE T == {x \in 0..Len(w) : l[x] >= p + 1}
<1>0. Len(w) \in Nat /\ Len(w) \in 0..Len(w) /\ Len(a) \in Nat /\ p \in Nat
  OBVIOUS
<1>1. T \in SUBSET Nat /\ T # {}
  <2>1. Len(w) \in T
    BY <1>0
  <2> QED BY <1>0, <2>1
<1>2. PICK m \in T : \A x \in T : m <= x
  <2> HIDE DEF T
  <2> QED BY <1>1, LeastNumber
<1>3. m \in 0..Len(w) /\ l[m] >= p + 1 /\ \A x \in 0..Len(w) : l[x] >= p + 1 => m <= x
  BY <1>2
<1>4. m # 0
  BY <1>0, <1>3
<1>5. m \in 1..Len(w) /\ m - 1 \in 0..Len(w) /\ ~(m <= m - 1)
  BY <1>0, <1>3, <1>4
<1>6. ~(l[m - 1] >= p + 1) /\ l[m - 1] \in Nat /\ l[m] \in Nat
  BY <1>3, <1>5
<1>7. /\ l[m] = IF w[m].kind = "insert" THEN l[m - 1] ELSE l[m - 1] + 1
      /\ w[m].kind # "insert" => w[m].line = l[m - 1] /\ w[m].text = a[l[m - 1]]
  BY <1>5 DEF ScriptSteps
<1>8. w[m].kind # "insert" /\ l[m - 1] = p
  BY <1>0, <1>3, <1>6, <1>7
<1>9. TakesLine(w, l, m, p, a)
  BY <1>3, <1>5, <1>7, <1>8 DEF TakesLine
<1> QED BY <1>9

\* Two different places of a text make a line that is there more than once.
LEMMA MoreThanOnce ==
    ASSUME NEW a \in Seq(ProposedTexts), NEW m \in 1..Len(a), NEW n \in 1..Len(a), m # n, a[m] = a[n]
    PROVE  Cardinality({k \in 1..Len(a) : a[k] = a[n]}) > 1
<1> DEFINE S == {k \in 1..Len(a) : a[k] = a[n]}
<1>1. IsFiniteSet(S)
  <2>1. IsFiniteSet(1..Len(a))
    BY FS_Interval
  <2> QED BY <2>1, FS_Subset
<1>2. m \in S /\ n \in S
  OBVIOUS
<1> HIDE DEF S
<1>3. Cardinality(S) \in Nat /\ Cardinality(S) # 0
  BY <1>1, <1>2, FS_CardinalityType, FS_EmptySet
<1>4. Cardinality(S) # 1
  <2>1. SUFFICES ASSUME Cardinality(S) = 1 PROVE FALSE
    OBVIOUS
  <2>2. PICK x : S = {x}
    BY <1>1, <2>1, FS_Singleton
  <2> QED BY <1>2, <2>2
<1>5. Cardinality(S) > 1
  BY <1>3, <1>4
<1> QED BY <1>5 DEF S

\* An operation that deletes a touched line, or a copy of one, is reverted.
LEMMA TouchedStays ==
    ASSUME NEW a \in Seq(ProposedTexts), NEW lines \in SUBSET (1..Len(a)), NEW n \in lines,
           NEW ops \in Seq(EditOps), NEW m \in 1..Len(ops), NEW p \in 1..Len(a), a[p] = a[n],
           ops[m].kind # "insert", ops[m].line = p, ops[m].text = a[p]
    PROVE  m \in StaysOf(ops, a, lines)
<1>1. ops[m] \in EditOps
  BY ElementOfSeq
<1>2. ops[m].kind \in {"equal", "delete"}
  BY <1>1 DEF EditOps
<1>3. CASE ops[m].kind = "equal"
  BY <1>3 DEF StaysOf
<1>4. CASE ops[m].kind = "delete"
  <2>1. m \in HunkOf(ops, m)
    <3>1. ASSUME NEW x \in 1..Len(ops), (m <= x /\ x <= m) \/ (m <= x /\ x <= m)
          PROVE  ops[x].kind # "equal"
      <4>1. x = m
        BY <3>1
      <4> QED BY <1>4, <4>1
    <3> QED BY <3>1 DEF HunkOf
  <2>2. ops[m].line \in lines \/ ops[m].text \in AmbiguousUserContents(a, lines)
    <3>1. CASE p = n
      BY <3>1
    <3>2. CASE p # n
      <4>1. n \in lines \cap 1..Len(a) /\ n \in 1..Len(a)
        OBVIOUS
      <4>2. Cardinality({k \in 1..Len(a) : a[k] = a[n]}) > 1
        BY <3>2, <4>1, MoreThanOnce
      <4>3. a[n] \in AmbiguousUserContents(a, lines)
        BY <4>1, <4>2 DEF AmbiguousUserContents
      <4> QED BY <4>3
    <3> QED BY <3>1, <3>2
  <2>3. Reverted(ops, m, a, lines)
    BY <1>4, <2>1, <2>2 DEF Reverted
  <2> QED BY <1>4, <2>3 DEF StaysOf
<1> QED BY <1>2, <1>3, <1>4

\* What is in a filtered text: all lines that are touched or copies of such.
LEMMA TouchedFound ==
    ASSUME NEW a \in Seq(ProposedTexts), NEW b \in Seq(ProposedTexts), NEW lines \in SUBSET (1..Len(a)),
           NEW places \in SUBSET (1..Len(a)), \A p \in places : \E n \in lines : a[p] = a[n]
    PROVE  FoundIn(a, places, ApplyUserEditWins(a, b, lines))
<1> DEFINE ops == DiffLines(a, b)
           r == ApplyUserEditWins(a, b, lines)
           stay == StaysOf(ops, a, lines)
<1>1. Script(ops, 1, 1, a, b)
  BY DiffIsScript
<1>2. ops \in Seq(EditOps) /\ Len(ops) \in Nat
  BY <1>1 DEF Script
<1>3. PICK l \in [0..Len(ops) -> Nat], c \in [0..Len(ops) -> Nat] :
         /\ l[0] = 1 /\ c[0] = 1 /\ l[Len(ops)] = Len(a) + 1
         /\ ScriptSteps(ops, l, c, a, b)
  BY <1>1, Zenon DEF Script
<1>4. FilterInv(r, Len(ops), ops, stay, c, b)
  BY <1>2, <1>3, FilterRuns
<1> HIDE DEF ops, r
<1>5. stay \cap (1..Len(ops)) = stay
  BY DEF StaysOf
<1>6. PICK at \in [stay -> 1..Len(r)] :
         /\ \A m \in stay : r[at[m]] = ops[m].text
         /\ \A m, n \in stay : m < n => at[m] < at[n]
  BY <1>4, <1>5 DEF FilterInv
<1> DEFINE op(p) == CHOOSE m : TakesLine(ops, l, m, p, a)
           f == [p \in places |-> at[op(p)]]
<1>7. ASSUME NEW p \in places PROVE TakesLine(ops, l, op(p), p, a)
  <2>1. \E m : TakesLine(ops, l, m, p, a)
    BY <1>2, <1>3, EveryLineTaken
  <2> QED BY <2>1, Zenon
<1> HIDE DEF op
<1>8. ASSUME NEW p \in places PROVE op(p) \in stay
  <2>1. PICK n \in lines : a[p] = a[n]
    OBVIOUS
  <2>2. op(p) \in 1..Len(ops) /\ ops[op(p)].kind # "insert" /\ ops[op(p)].line = p /\ ops[op(p)].text = a[p]
    BY <1>7 DEF TakesLine
  <2> HIDE DEF stay
  <2> QED BY <1>2, <2>1, <2>2, TouchedStays DEF stay
<1> HIDE DEF stay
<1>9. f \in [places -> 1..Len(r)] /\ \A p \in places : f[p] = at[op(p)]
  BY <1>8
<1> HIDE DEF f
<1>10. \A p \in places : r[f[p]] = a[p]
  BY <1>6, <1>7, <1>8, <1>9 DEF TakesLine
<1>11. ASSUME NEW p \in places, NEW q \in places, p < q PROVE f[p] < f[q]
  <2>1. /\ op(p) \in 1..Len(ops) /\ op(q) \in 1..Len(ops) /\ ops[op(p)].line = p /\ ops[op(q)].line = q
        /\ l[op(q)] >= q + 1 /\ \A x \in 0..Len(ops) : l[x] >= p + 1 => op(p) <= x
    BY <1>7 DEF TakesLine
  <2>2. op(q) \in 0..Len(ops) /\ l[op(q)] \in Nat
    BY <1>2, <2>1
  <2>3. l[op(q)] >= p + 1
    BY <1>11, <2>1, <2>2
  <2>4. op(p) <= op(q) /\ op(p) # op(q)
    BY <1>11, <2>1, <2>2, <2>3
  <2>5. op(p) < op(q)
    BY <2>1, <2>4
  <2> QED BY <1>6, <1>8, <1>9, <2>5
<1>12. FoundIn(a, places, r)
  BY <1>9, <1>10, <1>11 DEF FoundIn
<1> QED BY <1>12 DEF r

\* Places that are found in another text are not fewer there.
LEMMA CopiesFound ==
    ASSUME NEW a \in Seq(ProposedTexts), NEW r \in Seq(ProposedTexts), NEW x,
           FoundIn(a, {k \in 1..Len(a) : a[k] = x}, r)
    PROVE  Copies(x, r) >= Copies(x, a)
<1> DEFINE S == {k \in 1..Len(a) : a[k] = x}
           T == {k \in 1..Len(r) : r[k] = x}
<1>1. PICK f \in [S -> 1..Len(r)] : (\A n \in S : r[f[n]] = a[n]) /\ \A m, n \in S : m < n => f[m] < f[n]
  BY DEF FoundIn
<1>2. IsFiniteSet(T) /\ \A n \in S : a[n] = x /\ n \in Int /\ f[n] \in Int
  <2>1. IsFiniteSet(1..Len(r))
    BY FS_Interval
  <2> QED BY <2>1, FS_Subset
<1>3. f \in [S -> T]
  BY <1>1, <1>2
<1> HIDE DEF S, T
<1>4. \A m, n \in S : f[m] = f[n] => m = n
  <2>1. SUFFICES ASSUME NEW m \in S, NEW n \in S, f[m] = f[n], m # n PROVE FALSE
    OBVIOUS
  <2>2. m < n \/ n < m
    BY <1>2, <2>1
  <2>3. f[m] < f[n] \/ f[n] < f[m]
    BY <1>1, <2>2
  <2> QED BY <1>2, <2>1, <2>3
<1>5. f \in Injection(S, T)
  BY <1>3, <1>4 DEF Injection, IsInjective
<1>6. IsFiniteSet(S) /\ Cardinality(S) <= Cardinality(T)
  BY <1>2, <1>5, FS_Injection
<1>7. Cardinality(S) \in Nat /\ Cardinality(T) \in Nat
  BY <1>2, <1>6, FS_CardinalityType
<1>8. Cardinality(T) >= Cardinality(S)
  BY <1>6, <1>7
<1> QED BY <1>8, Zenon DEF Copies, S, T

\* What stays if nothing is reverted, and what can be in the output.
LEMMA FilterKeeps ==
    ASSUME NEW a \in Seq(ProposedTexts), NEW b \in Seq(ProposedTexts), NEW lines \in SUBSET (1..Len(a))
    PROVE  LET r == ApplyUserEditWins(a, b, lines)
           IN /\ r \in Seq(ProposedTexts)
              /\ lines = {} => r = b
              /\ b = a => r = a
              /\ Range(r) \subseteq Range(a) \cup Range(b)
<1> DEFINE ops == DiffLines(a, b)
           r == ApplyUserEditWins(a, b, lines)
           stay == StaysOf(ops, a, lines)
<1>1. Script(ops, 1, 1, a, b)
  BY DiffIsScript
<1>2. ops \in Seq(EditOps) /\ Len(ops) \in Nat
  BY <1>1 DEF Script
<1>3. PICK l \in [0..Len(ops) -> Nat], c \in [0..Len(ops) -> Nat] :
         /\ l[0] = 1 /\ c[0] = 1 /\ c[Len(ops)] = Len(b) + 1
         /\ ScriptSteps(ops, l, c, a, b)
  BY <1>1, Zenon DEF Script
<1>4. FilterInv(r, Len(ops), ops, stay, c, b)
  BY <1>2, <1>3, FilterRuns
<1>5. b = a => \A k \in 1..Len(ops) : ops[k].kind = "equal"
  BY <1>1 DEF Script
<1> HIDE DEF ops, r
<1>6. \A k \in 1..Len(ops) : ops[k].kind \in {"equal", "delete", "insert"}
  <2>1. \A k \in 1..Len(ops) : ops[k] \in EditOps
    BY <1>2, ElementOfSeq
  <2> QED BY <2>1 DEF EditOps
<1>7. r \in Seq(ProposedTexts) /\ Len(r) \in Nat /\ Len(b) \in Nat
  BY <1>4 DEF FilterInv
<1>8. ASSUME \A m \in 1..Len(ops) : m \in stay <=> ops[m].kind # "delete"
      PROVE  r = b
  <2>1. Len(r) + 1 = Len(b) + 1 /\ \A n \in 1..Len(r) : r[n] = b[n]
    BY <1>3, <1>4, <1>8 DEF FilterInv
  <2>2. Len(r) = Len(b)
    BY <1>7, <2>1
  <2> QED BY <1>7, <2>1, <2>2, SeqEqual
<1>9. ASSUME lines = {} PROVE r = b
  <2>1. AmbiguousUserContents(a, lines) = {}
    BY <1>9 DEF AmbiguousUserContents
  <2>2. \A m : ~Reverted(ops, m, a, lines)
    BY <1>9, <2>1 DEF Reverted
  <2>3. \A m \in 1..Len(ops) : m \in stay <=> ops[m].kind # "delete"
    BY <1>6, <2>2 DEF StaysOf
  <2> QED BY <1>8, <2>3
<1>10. ASSUME b = a PROVE r = a
  <2>1. \A m \in 1..Len(ops) : m \in stay <=> ops[m].kind # "delete"
    BY <1>5, <1>10 DEF StaysOf
  <2> QED BY <1>8, <1>10, <2>1
<1>11. ASSUME NEW m \in 1..Len(ops) PROVE ops[m].text \in Range(a) \cup Range(b)
  <2>1. /\ ops[m].kind # "insert" => l[m - 1] \in 1..Len(a) /\ ops[m].text = a[l[m - 1]]
        /\ ops[m].kind # "delete" => c[m - 1] \in 1..Len(b) /\ ops[m].text = b[c[m - 1]]
    BY <1>3 DEF ScriptSteps
  <2>2. DOMAIN a = 1..Len(a) /\ DOMAIN b = 1..Len(b)
    OBVIOUS
  <2>3. CASE ops[m].kind # "insert"
    BY <2>1, <2>2, <2>3 DEF Range
  <2>4. CASE ops[m].kind # "delete"
    BY <2>1, <2>2, <2>4 DEF Range
  <2> QED BY <2>3, <2>4
<1>12. Range(r) \subseteq Range(a) \cup Range(b)
  <2>1. \A n \in 1..Len(r) : r[n] \in Range(a) \cup Range(b)
    BY <1>4, <1>11 DEF FilterInv
  <2>2. DOMAIN r = 1..Len(r)
    BY <1>7
  <2>3. \A x \in Range(r) : \E n \in 1..Len(r) : x = r[n]
    BY <2>2 DEF Range
  <2> QED BY <2>1, <2>3
<1> QED BY <1>7, <1>9, <1>10, <1>12 DEF r

-----------------------------------------------------------------------------
DiffSafety == DiffInit /\ [][Filter]_diffVars

\* Once filtered, the result is that of the two texts and the touched lines.
DiffInv ==
    /\ orig \in Seq(ProposedTexts) /\ proposed \in Seq(ProposedTexts)
    /\ touched \in SUBSET (1..Len(orig)) /\ filtered \in BOOLEAN
    /\ filtered => result = ApplyUserEditWins(orig, proposed, touched)

\* It is so in every reachable state.
LEMMA DiffInvHolds == DiffSafety => []DiffInv
<1>1. DiffInit => DiffInv
  <2> SUFFICES ASSUME DiffInit PROVE DiffInv
    OBVIOUS
  <2>1. LineTexts \subseteq ProposedTexts /\ \A n \in 0..MaxLines : n \in Nat
    BY UserEditWinsAssumption
  <2>2. PICK n \in 0..MaxLines : orig \in [1..n -> LineTexts]
    BY DEF DiffInit
  <2>3. PICK m \in 0..MaxLines : proposed \in [1..m -> ProposedTexts]
    BY DEF DiffInit
  <2>4. orig \in [1..n -> ProposedTexts]
    BY <2>1, <2>2
  <2>5. orig \in Seq(ProposedTexts) /\ proposed \in Seq(ProposedTexts)
    BY <2>1, <2>3, <2>4
  <2> QED BY <2>5 DEF DiffInit, DiffInv
<1>2. DiffInv /\ [Filter]_diffVars => DiffInv'
  <2> SUFFICES ASSUME DiffInv, [Filter]_diffVars PROVE DiffInv'
    OBVIOUS
  <2>1. CASE Filter
    <3>1. /\ orig' = orig /\ proposed' = proposed /\ touched' = touched /\ filtered' = TRUE
          /\ result' = ApplyUserEditWins(orig, proposed, touched)
      BY <2>1 DEF Filter
    <3> QED BY <3>1, Zenon DEF DiffInv
  <2>2. CASE UNCHANGED diffVars
    <3>1. /\ orig' = orig /\ proposed' = proposed /\ touched' = touched /\ filtered' = filtered
          /\ result' = result
      BY <2>2 DEF diffVars
    <3> QED BY <3>1, Zenon DEF DiffInv
  <2> QED BY <2>1, <2>2
<1> QED BY <1>1, <1>2, PTL DEF DiffSafety

\* Whatever a session proposes for a file of any length: the filter keeps
\* every line the user touched, in order, and every copy of one, and without
\* such lines takes nothing away (ApplyUserEditWins).
THEOREM UserLinesAreKept == DiffSafety => []UserLinesWin
<1>1. ASSUME DiffInv PROVE UserLinesWin
  <2>1. CASE ~filtered
    BY <2>1 DEF UserLinesWin, TouchedLinesSurvive, FilterIsMinimal
  <2>2. CASE filtered
    <3>1. /\ orig \in Seq(ProposedTexts) /\ proposed \in Seq(ProposedTexts)
          /\ touched \in SUBSET (1..Len(orig)) /\ result = ApplyUserEditWins(orig, proposed, touched)
      BY <1>1, <2>2 DEF DiffInv
    <3>2. FilterIsMinimal /\ result \in Seq(ProposedTexts)
      BY <3>1, FilterKeeps DEF FilterIsMinimal
    <3>3. FoundIn(orig, touched, result)
      BY <3>1, TouchedFound
    <3>4. ASSUME NEW n \in touched PROVE Copies(orig[n], result) >= Copies(orig[n], orig)
      <4> DEFINE P == {k \in 1..Len(orig) : orig[k] = orig[n]}
      <4>1. P \in SUBSET (1..Len(orig)) /\ \A p \in P : \E m \in touched : orig[p] = orig[m]
        OBVIOUS
      <4>2. FoundIn(orig, P, result)
        <5> HIDE DEF P
        <5> QED BY <3>1, <4>1, TouchedFound
      <4> QED BY <3>1, <3>2, <4>2, CopiesFound
    <3> QED BY <3>2, <3>3, <3>4 DEF UserLinesWin, TouchedLinesSurvive
  <2> QED BY <2>1, <2>2
<1> QED BY <1>1, DiffInvHolds, PTL
=============================================================================
