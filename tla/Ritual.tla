------------------------------- MODULE Ritual -------------------------------
(***************************************************************************)
(* The weekly truth ritual (kahyad/internal/ritual): a sample of facts is  *)
(* asked about in the chat, one eval_labels row and one message each, and  *)
(* a tap on a button becomes evidence on the fact and then the row's       *)
(* label.  Taps are handled concurrently, may repeat, may contradict each  *)
(* other, and may come after the 72 hours have passed.  The fact engine's  *)
(* own steps are the subject of Facts; here a vote and a confirmation are  *)
(* one step each.                                                          *)
(***************************************************************************)
EXTENDS Integers, FiniteSets, Sequences, Functions

CONSTANTS
    RitualFacts,    \* ids of active facts
    Provenance,     \* per fact: for each evidence row where it came from
    Distance,       \* per fact: distance of its confidence from the threshold
    Quarantined,    \* facts derived by an agent and not confirmed
    MaxQuestions,   \* MaxQuestionsPerRun
    Window,         \* ExpiryWindow, in clock ticks
    Taps,           \* button taps of a behaviour
    MaxRitualTime,  \* bound: clock ticks
    MaxRitualRuns   \* bound: runs of the job

ASSUME RitualAssumption ==
    /\ RitualFacts \subseteq Nat /\ IsFiniteSet(RitualFacts)
    /\ Provenance \in [RitualFacts -> Seq({"plain", "secret", "unknown"})]
    /\ Distance \in [RitualFacts -> Nat]
    /\ Quarantined \subseteq RitualFacts
    /\ MaxQuestions \in Nat /\ Window \in Nat

VARIABLES
    ritualNow,
    ritualRuns,     \* runs begun: the last is the running one's session
    toAsk,          \* facts the run has still to ask about
    askedAt,        \* the run's one asked_at
    labels,         \* eval_labels: [fact, session, asked, label]
    asked,          \* questions that reached the chat, ids of labels
    votes,          \* evidence: [fact, session, polarity]
    confirmed,      \* facts with confirmed_at
    tap             \* per tap: [at, row, answer, seen]

ritualVars == <<ritualNow, ritualRuns, toAsk, askedAt, labels, asked, votes, confirmed, tap>>

NoTap == [at |-> "new", row |-> 0, answer |-> "unsure", seen |-> 0]

RitualInit ==
    /\ ritualNow = 1
    /\ ritualRuns = 0
    /\ toAsk = <<>>
    /\ askedAt = 0
    /\ labels = <<>>
    /\ asked = {}
    /\ votes = {}
    /\ confirmed = {}
    /\ tap = [t \in Taps |-> NoTap]

RitualTick ==
    /\ ritualNow < MaxRitualTime
    /\ ritualNow' = ritualNow + 1
    /\ UNCHANGED <<ritualRuns, toAsk, askedAt, labels, asked, votes, confirmed, tap>>

----------------------------------------------------------------------------
(* Sampling.                                                               *)

\* Defect: the first classified source decides.
BugClassify(f) ==
    LET known == SelectSeq(Provenance[f], LAMBDA p : p # "unknown")
    IN known # <<>> /\ Head(known) = "plain"

\* classify: some source is known and none of them is in the secret lane.
Classify(f) ==
    /\ \E i \in DOMAIN Provenance[f] : Provenance[f][i] # "unknown"
    /\ \A i \in DOMAIN Provenance[f] : Provenance[f][i] # "secret"

\* lastAskedByFact: 0 for never.
LastAsked(f) ==
    LET times == {labels[i].asked : i \in {k \in DOMAIN labels : labels[k].fact = f}}
    IN IF times = {} THEN 0 ELSE CHOOSE t \in times : \A u \in times : u <= t

\* The comparator: quarantined ones, then the least certain, then the
\* longest unasked.
Before(f, g) ==
    LET q(x) == IF x \in Quarantined \ confirmed THEN 0 ELSE 1
    IN \/ q(f) < q(g)
       \/ q(f) = q(g) /\ Distance[f] < Distance[g]
       \/ q(f) = q(g) /\ Distance[f] = Distance[g] /\ LastAsked(f) < LastAsked(g)
       \/ /\ q(f) = q(g) /\ Distance[f] = Distance[g]
          /\ LastAsked(f) = LastAsked(g) /\ f < g

\* The samples the sort and the cut at MaxQuestionsPerRun leave: there is one.
Select ==
    LET known == {f \in RitualFacts : Classify(f)}
        n == IF Cardinality(known) < MaxQuestions THEN Cardinality(known) ELSE MaxQuestions
    IN {s \in [1..n -> known] :
          /\ \A i, j \in 1..n : i < j => Before(s[i], s[j])
          /\ \A f \in known \ Range(s) : \A i \in 1..n : Before(s[i], f)}

\* Run: the run's own session is registered clean before anything is asked.
StartRitual ==
    /\ toAsk = <<>> /\ ritualRuns < MaxRitualRuns
    /\ \E s \in Select : s # <<>> /\ toAsk' = s
    /\ ritualRuns' = ritualRuns + 1
    /\ askedAt' = ritualNow
    /\ UNCHANGED <<ritualNow, labels, asked, votes, confirmed, tap>>

\* One turn of the loop: the row, then the message, which may not get
\* through.
Ask ==
    /\ toAsk # <<>>
    /\ labels' = Append(labels, [fact |-> Head(toAsk), session |-> ritualRuns,
                                 asked |-> askedAt, label |-> "none"])
    /\ asked' \in {asked, asked \cup {Len(labels) + 1}}
    /\ toAsk' = Tail(toAsk)
    /\ UNCHANGED <<ritualNow, ritualRuns, askedAt, votes, confirmed, tap>>

\* InsertEvalLabel fails, or the daemon dies: the rest is not asked.
AskCut ==
    /\ toAsk # <<>>
    /\ toAsk' = <<>>
    /\ UNCHANGED <<ritualNow, ritualRuns, askedAt, labels, asked, votes, confirmed, tap>>

----------------------------------------------------------------------------
(* Answering.                                                              *)

\* Defect: the window is not looked at once the row has a label.
BugExpired(row, now) == row.label = "none" /\ now - row.asked > Window

Expired(row, now) == now - row.asked > Window

\* Answer: reads the row; an expired question is only ledgered.
Answer(t) ==
    /\ tap[t].at = "new"
    /\ \E i \in asked, answer \in {"true", "false", "unsure"} :
         tap' = [tap EXCEPT ![t] =
                   [at |-> IF Expired(labels[i], ritualNow) THEN "expired"
                           ELSE IF answer = "unsure" THEN "label" ELSE "vote",
                    row |-> i, answer |-> answer, seen |-> ritualNow]]
    /\ UNCHANGED <<ritualNow, ritualRuns, toAsk, askedAt, labels, asked, votes, confirmed>>

VoteOf(t) ==
    LET row == labels[tap[t].row]
    IN [fact |-> row.fact, session |-> row.session,
        polarity |-> IF tap[t].answer = "true" THEN 1 ELSE -1]

\* WriteFact of recordTrue, or DenyFact: one vote of a session and polarity
\* at most.
Vote(t) ==
    /\ tap[t].at = "vote"
    /\ votes' = votes \cup {VoteOf(t)}
    /\ tap' = [tap EXCEPT ![t].at = IF tap[t].answer = "true" THEN "confirm" ELSE "label"]
    /\ UNCHANGED <<ritualNow, ritualRuns, toAsk, askedAt, labels, asked, confirmed>>

Confirm(t) ==
    /\ tap[t].at = "confirm"
    /\ confirmed' = confirmed \cup {labels[tap[t].row].fact}
    /\ tap' = [tap EXCEPT ![t].at = "label"]
    /\ UNCHANGED <<ritualNow, ritualRuns, toAsk, askedAt, labels, asked, votes>>

\* UpdateEvalLabelAnswer, in place.
UpdateLabel(t) ==
    /\ tap[t].at = "label"
    /\ labels' = [labels EXCEPT ![tap[t].row].label = tap[t].answer]
    /\ tap' = [tap EXCEPT ![t].at = "done"]
    /\ UNCHANGED <<ritualNow, ritualRuns, toAsk, askedAt, asked, votes, confirmed>>

\* Any of the three statements fails, or the daemon dies under the tap.
\* Defect: a tap that failed to vote still labels its row.
BugAfterFailure == "label"

AfterFailure == "failed"

TapFails(t) ==
    /\ tap[t].at \in {"vote", "confirm", "label"}
    /\ tap' = [tap EXCEPT ![t].at = AfterFailure]
    /\ UNCHANGED <<ritualNow, ritualRuns, toAsk, askedAt, labels, asked, votes, confirmed>>

RitualNext ==
    \/ RitualTick \/ StartRitual \/ Ask \/ AskCut
    \/ \E t \in Taps : Answer(t) \/ Vote(t) \/ Confirm(t) \/ UpdateLabel(t) \/ TapFails(t)

----------------------------------------------------------------------------

(* No fact is ever put in the chat whose evidence touches the secret lane, *)
(* or of which nothing is classified.                                      *)
NothingSecretAsked ==
    \A i \in DOMAIN labels :
        LET from == {Provenance[labels[i].fact][k] : k \in DOMAIN Provenance[labels[i].fact]}
        IN "secret" \notin from /\ "plain" \in from

(* A row labelled true or false has the vote of that polarity, of the      *)
(* row's own run, behind it, however the taps on it interleaved, failed    *)
(* or contradicted each other: the exported labels are never ahead of the  *)
(* facts they label.                                                       *)
LabelsHaveVotes ==
    \A i \in DOMAIN labels :
        labels[i].label \in {"true", "false"} =>
            [fact |-> labels[i].fact, session |-> labels[i].session,
             polarity |-> IF labels[i].label = "true" THEN 1 ELSE -1] \in votes

(* A tap that came after the window changes neither votes nor labels, also *)
(* when an earlier tap on the question was in time.                        *)
ExpiredTapsAreIdle ==
    \A t \in Taps :
        tap[t].at \in {"vote", "confirm", "label", "done", "failed"} =>
            tap[t].seen - labels[tap[t].row].asked <= Window

\* The ritual's promise: no secret is asked about, a label has its vote behind
\* it, and a tap that comes too late counts for nothing.
TapsCountRightly == NothingSecretAsked /\ LabelsHaveVotes /\ ExpiredTapsAreIdle
=============================================================================
