----------------------------- MODULE CloudProof -----------------------------
(***************************************************************************)
(* For any number of tasks, escalations and reads: what the secret lane    *)
(* promises; for any number of hosts, connections and days: what the       *)
(* egress gate does; for any number of calls, restarts and days: what the  *)
(* cost governor's books say; for any number of answers: how they take     *)
(* turns to be spoken.  The components share no state.                     *)
(***************************************************************************)
EXTENDS SecretLane, EgressGate, CostGovernor, Speech, SumsProof, FiniteSetTheorems, TLAPS

LaneSpec == LaneInit /\ [][LaneNext \/ ReaderNext]_laneVars

LaneRows == [lane : {"none", "normal", "secret"}, category : {"none", "known", "unknown"}]
ReadRecs == [pc : {"new"}] \cup
            [pc : {"local", "cloud", "wellformed", "malformed", "failed", "over"},
             cleared : BOOLEAN]

LaneTypes ==
    /\ prompt \in [LaneTasks \cup Reads -> Texts]
    /\ lanePc \in [LaneTasks -> {"new", "local", "cloud", "over"}]
    /\ laneRow \in [LaneTasks -> LaneRows]
    /\ reached \in [LaneTasks \cup Reads -> SUBSET {"local", "cloud"}]
    /\ reads \in [Reads -> ReadRecs]
    /\ seeds \in [Reads -> SUBSET {"task", "clean"}]

\* An Escalate that has read works on a task that has its row, and has seen
\* a row of it or none.
EscalationsRead ==
    /\ DOMAIN esc = Escalations
    /\ \A e \in Escalations : esc[e].pc = "read" =>
         /\ esc[e].task \in LaneTasks /\ lanePc[esc[e].task] # "new"
         /\ esc[e].saw \in LaneRows
         /\ esc[e].verdict \in [secret : BOOLEAN, category : {"none", "known", "unknown"}]

\* How far a task got and who saw its prompt.
TaskReach ==
    \A t \in LaneTasks :
        /\ lanePc[t] = "new" => laneRow[t] = NoRow
        /\ lanePc[t] \in {"new", "local"} => reached[t] = {}
        /\ lanePc[t] = "cloud" => prompt[t] # "rule" /\ "local" \notin reached[t]

\* How far a read got and who saw its content.
ReadReach ==
    \A r \in Reads :
        /\ reads[r].pc \in {"new", "local", "cloud"} => reached[r] = {}
        /\ reads[r].pc = "cloud" => reads[r].cleared /\ prompt[r] # "rule"

Lane ==
    /\ LaneTypes /\ EscalationsRead /\ TaskReach /\ ReadReach
    /\ LaneTypeOK /\ SecretsStayLocal /\ NoCloudFallback /\ SeedsAreWhole

\* No text has been given to anybody at the start.
LEMMA InitLane == LaneInit => Lane
<1> SUFFICES ASSUME LaneInit PROVE Lane
  OBVIOUS
<1>1. LaneTypes
  BY DEF LaneInit, LaneTypes, LaneRows, ReadRecs, NoRow
<1>2. EscalationsRead
  BY DEF LaneInit, EscalationsRead
<1>3. TaskReach /\ ReadReach
  BY DEF LaneInit, TaskReach, ReadReach
<1>4. LaneTypeOK /\ SecretsStayLocal /\ NoCloudFallback /\ SeedsAreWhole
  BY DEF LaneInit, LaneTypeOK, SecretsStayLocal, NoCloudFallback, SeedsAreWhole, NoRow
<1> QED BY <1>1, <1>2, <1>3, <1>4 DEF Lane

\* A match of the rules, or anything but a clear answer, is a secret.
LEMMA ClassifyIsCautious ==
    ASSUME NEW text, NEW said
    PROVE  /\ ClassifyText(text, said) \in
                [secret : BOOLEAN, category : {"none", "known", "unknown"}]
           /\ ~ClassifyText(text, said).secret => text # "rule" /\ said = "clean"
BY DEF ClassifyText, RuleMatches

\* A widened row is a row, and secret whenever what it saw was.
LEMMA WidenedKeeps ==
    ASSUME NEW saw \in LaneRows,
           NEW seen \in [secret : BOOLEAN, category : {"none", "known", "unknown"}]
    PROVE  LET row == Widened(saw, seen)
           IN /\ row \in LaneRows
              /\ saw.lane = "secret" => row.lane = "secret"
              /\ row.lane # "secret" => row.category = "none"
BY DEF Widened, LaneRows

\* A prompt the rules match is answered locally.
LEMMA RuleGoesLocal ==
    ASSUME NEW lane, NEW deep, NEW downgraded, ~GoesLocal(lane, deep, downgraded)
    PROVE  lane # "secret"
BY DEF GoesLocal

\* handleTask, the local answer and the calls of a worker.
LEMMA TaskStep ==
    ASSUME Lane, NEW t \in LaneTasks, HandleTask(t) \/ AnswerLocally(t) \/ ModelCall(t)
    PROVE  Lane'
<1> USE LaneAssumption
<1>0. LaneTypes /\ EscalationsRead /\ TaskReach /\ ReadReach /\ t \notin Reads
  BY DEF Lane
<1>1. UNCHANGED <<prompt, esc, reads, seeds>>
  BY DEF HandleTask, AnswerLocally, ModelCall
<1>2. /\ \A u \in LaneTasks \ {t} : lanePc'[u] = lanePc[u] /\ laneRow'[u] = laneRow[u]
      /\ \A x \in (LaneTasks \cup Reads) \ {t} : reached'[x] = reached[x]
  BY <1>0 DEF HandleTask, AnswerLocally, ModelCall, LaneTypes
<1>3. /\ lanePc'[t] \in {"local", "cloud", "over"}
      /\ laneRow'[t] \in LaneRows /\ (laneRow'[t].lane # "secret" => laneRow'[t].category = "none")
      /\ lanePc'[t] = "local" => reached'[t] = {}
      /\ lanePc'[t] = "cloud" => prompt[t] # "rule" /\ "local" \notin reached'[t]
      /\ reached'[t] \in {{}, {"local"}, {"cloud"}}
      /\ "cloud" \in reached'[t] => prompt[t] # "rule"
  <2>0. /\ laneRow[t].lane # "secret" => laneRow[t].category = "none"
        /\ reached[t] \in {{}, {"local"}, {"cloud"}}
        /\ "cloud" \in reached[t] => prompt[t] # "rule"
    BY <1>0 DEF Lane, LaneTypeOK, NoCloudFallback, SecretsStayLocal, LaneTypes
  <2>1. CASE HandleTask(t)
    <3>1. reached' = reached /\ lanePc[t] = "new"
      BY <2>1 DEF HandleTask
    <3>2. PICK deep \in BOOLEAN, downgraded \in BOOLEAN, stored \in BOOLEAN :
            LET lane == IF RuleMatches(prompt[t]) THEN "secret" ELSE "normal"
            IN IF stored
               THEN /\ laneRow' = [laneRow EXCEPT ![t] = NewRow(lane)]
                    /\ lanePc' = [lanePc EXCEPT ![t] =
                         IF GoesLocal(lane, deep, downgraded) THEN "local" ELSE "cloud"]
               ELSE lanePc' = [lanePc EXCEPT ![t] = "over"] /\ UNCHANGED laneRow
      BY <2>1 DEF HandleTask
    <3>3. \A lane \in {"secret", "normal"} :
            /\ NewRow(lane) \in LaneRows
            /\ NewRow(lane).lane # "secret" => NewRow(lane).category = "none"
      BY DEF NewRow, LaneRows
    <3>4. lanePc'[t] = "cloud" => prompt[t] # "rule"
      BY <1>0, <3>2, RuleGoesLocal DEF LaneTypes, RuleMatches
    <3>5. laneRow'[t] \in LaneRows /\ (laneRow'[t].lane # "secret" => laneRow'[t].category = "none")
      BY <1>0, <2>0, <3>2, <3>3 DEF LaneTypes
    <3>6. lanePc'[t] \in {"local", "cloud", "over"}
      BY <1>0, <3>2 DEF LaneTypes
    <3> QED BY <1>0, <2>0, <3>1, <3>4, <3>5, <3>6 DEF TaskReach
  <2>2. CASE AnswerLocally(t)
    BY <1>0, <2>0, <2>2 DEF AnswerLocally, AfterLocal, LaneTypes, TaskReach
  <2>3. CASE ModelCall(t)
    BY <1>0, <2>0, <2>3 DEF ModelCall, LaneTypes, TaskReach
  <2> QED BY <2>1, <2>2, <2>3
<1>4. LaneTypes'
  <2>1. lanePc' \in [LaneTasks -> {"new", "local", "cloud", "over"}]
    BY <1>0, <1>2, <1>3 DEF LaneTypes, HandleTask, AnswerLocally, ModelCall
  <2>2. laneRow' \in [LaneTasks -> LaneRows]
    BY <1>0, <1>2, <1>3 DEF LaneTypes, HandleTask, AnswerLocally, ModelCall
  <2>3. reached' \in [LaneTasks \cup Reads -> SUBSET {"local", "cloud"}]
    BY <1>0, <1>2, <1>3 DEF LaneTypes, HandleTask, AnswerLocally, ModelCall
  <2> QED BY <1>0, <1>1, <2>1, <2>2, <2>3 DEF LaneTypes
<1>5. EscalationsRead' /\ TaskReach' /\ ReadReach'
  BY <1>0, <1>1, <1>2, <1>3 DEF EscalationsRead, TaskReach, ReadReach
<1>6. SecretsStayLocal' /\ NoCloudFallback'
  BY <1>0, <1>1, <1>2, <1>3 DEF Lane, SecretsStayLocal, NoCloudFallback
<1>7. SeedsAreWhole'
  BY <1>1 DEF Lane, SeedsAreWhole
<1>8. LaneTypeOK'
  BY <1>0, <1>2, <1>3, <1>4 DEF Lane, LaneTypeOK, LaneTypes, LaneRows
<1> QED BY <1>4, <1>5, <1>6, <1>7, <1>8 DEF Lane

\* The two statements of an Escalate.
LEMMA EscalateStep ==
    ASSUME Lane, NEW e \in Escalations, EscalateReads(e) \/ EscalateWrites(e)
    PROVE  Lane'
<1>0. LaneTypes /\ EscalationsRead /\ TaskReach /\ ReadReach /\ LaneTypeOK
  BY DEF Lane
<1>1. UNCHANGED <<prompt, lanePc, reached, reads, seeds>>
  BY DEF EscalateReads, EscalateWrites
<1>2. CASE EscalateReads(e)
  <2>1. PICK t \in LaneTasks, text \in Texts, said \in ModelAnswers, found \in BOOLEAN :
          /\ laneRow[t] # NoRow
          /\ esc' = [esc EXCEPT ![e] =
               [pc |-> "read", task |-> t, verdict |-> ClassifyText(text, said),
                saw |-> IF found THEN laneRow[t] ELSE NoRow]]
    BY <1>2 DEF EscalateReads
  <2>2. /\ esc'[e].task = t /\ esc'[e].verdict = ClassifyText(text, said)
        /\ esc'[e].saw \in {laneRow[t], NoRow} /\ DOMAIN esc' = Escalations
        /\ \A d \in Escalations \ {e} : esc'[d] = esc[d]
    BY <1>0, <2>1 DEF EscalationsRead
  <2>3. laneRow[t] \in LaneRows /\ NoRow \in LaneRows /\ lanePc[t] # "new"
    BY <1>0, <2>1 DEF LaneTypes, TaskReach, NoRow, LaneRows
  <2>4. EscalationsRead'
    BY <1>0, <1>1, <2>2, <2>3, ClassifyIsCautious DEF EscalationsRead
  <2>5. UNCHANGED laneRow
    BY <1>2 DEF EscalateReads
  <2>6. LaneTypes' /\ TaskReach' /\ ReadReach' /\ LaneTypeOK'
    BY <1>0, <1>1, <2>5 DEF LaneTypes, TaskReach, ReadReach, LaneTypeOK
  <2> QED
    BY <1>1, <2>4, <2>6 DEF Lane, SecretsStayLocal, NoCloudFallback, SeedsAreWhole
<1>3. CASE EscalateWrites(e)
  <2>1. /\ esc[e].pc = "read" /\ esc' = [esc EXCEPT ![e] = [pc |-> "done"]]
        /\ laneRow' = [laneRow EXCEPT ![esc[e].task] = Widened(esc[e].saw, esc[e].verdict)]
    BY <1>3 DEF EscalateWrites
  <2>2. /\ DOMAIN esc' = Escalations /\ esc'[e].pc = "done"
        /\ \A d \in Escalations \ {e} : esc'[d] = esc[d]
    BY <1>0, <2>1 DEF EscalationsRead
  <2>3. EscalationsRead'
    BY <1>0, <1>1, <2>2 DEF EscalationsRead
  <2>4. /\ Widened(esc[e].saw, esc[e].verdict) \in LaneRows
        /\ Widened(esc[e].saw, esc[e].verdict).lane # "secret" =>
              Widened(esc[e].saw, esc[e].verdict).category = "none"
        /\ esc[e].task \in LaneTasks /\ lanePc[esc[e].task] # "new"
    BY <1>0, <2>1, WidenedKeeps DEF EscalationsRead
  <2>5. /\ laneRow'[esc[e].task] = Widened(esc[e].saw, esc[e].verdict)
        /\ \A t \in LaneTasks \ {esc[e].task} : laneRow'[t] = laneRow[t]
        /\ laneRow' \in [LaneTasks -> LaneRows]
    BY <1>0, <2>1, <2>4 DEF LaneTypes
  <2>6. LaneTypes' /\ TaskReach' /\ ReadReach'
    BY <1>0, <1>1, <2>4, <2>5 DEF LaneTypes, TaskReach, ReadReach
  <2>7. LaneTypeOK'
    BY <1>0, <1>1, <2>4, <2>5 DEF LaneTypeOK, LaneRows
  <2> QED
    BY <1>1, <2>3, <2>6, <2>7 DEF Lane, SecretsStayLocal, NoCloudFallback, SeedsAreWhole
<1> QED BY <1>2, <1>3

\* The reader, and the actor it seeds.
LEMMA ReaderStep ==
    ASSUME Lane, NEW r \in Reads, ReaderClassify(r) \/ ReaderRun(r) \/ SpawnActor(r)
    PROVE  Lane'
<1> USE LaneAssumption
<1>0. /\ LaneTypes /\ EscalationsRead /\ TaskReach /\ ReadReach /\ LaneTypeOK
      /\ SecretsStayLocal /\ NoCloudFallback /\ SeedsAreWhole /\ r \notin LaneTasks
  BY DEF Lane
<1>1. UNCHANGED <<prompt, lanePc, laneRow, esc>>
  BY DEF ReaderClassify, ReaderRun, SpawnActor
<1>2. /\ \A q \in Reads \ {r} : reads'[q] = reads[q] /\ seeds'[q] = seeds[q]
      /\ \A x \in (LaneTasks \cup Reads) \ {r} : reached'[x] = reached[x]
  BY <1>0 DEF ReaderClassify, ReaderRun, SpawnActor, LaneTypes
<1>3. /\ reads'[r] \in ReadRecs
      /\ reads'[r].pc \in {"new", "local", "cloud"} => reached'[r] = {}
      /\ reads'[r].pc = "cloud" => reads'[r].cleared /\ prompt[r] # "rule"
      /\ reached'[r] \in {{}, {"local"}, {"cloud"}}
      /\ "cloud" \in reached'[r] => reads'[r].cleared /\ prompt[r] # "rule"
      /\ seeds'[r] \in {{}, {"task", "clean"}}
  <2>0. /\ reads[r] \in ReadRecs /\ seeds[r] \in {{}, {"task", "clean"}}
        /\ reached[r] \in {{}, {"local"}, {"cloud"}}
        /\ "cloud" \in reached[r] => reads[r].cleared /\ prompt[r] # "rule"
    BY <1>0 DEF LaneTypes, NoCloudFallback, SecretsStayLocal, SeedsAreWhole
  <2>1. CASE ReaderClassify(r)
    <3>1. PICK said \in ModelAnswers : reads' = [reads EXCEPT ![r] =
            [pc |-> IF ClassifyText(prompt[r], said).secret THEN "local" ELSE "cloud",
             cleared |-> said = "clean"]]
      BY <2>1 DEF ReaderClassify
    <3>2. /\ reads'[r].pc = IF ClassifyText(prompt[r], said).secret THEN "local" ELSE "cloud"
          /\ reads'[r].cleared = (said = "clean") /\ reads'[r] \in ReadRecs
      BY <1>0, <3>1 DEF LaneTypes, ReadRecs
    <3>3. reads'[r].pc = "cloud" => reads'[r].cleared /\ prompt[r] # "rule"
      BY <3>2, ClassifyIsCautious
    <3>4. UNCHANGED <<reached, seeds>> /\ reads[r].pc = "new"
      BY <2>1 DEF ReaderClassify
    <3>5. reached'[r] = {}
      BY <1>0, <3>4 DEF ReadReach
    <3> QED BY <2>0, <3>2, <3>3, <3>4, <3>5
  <2>2. CASE ReaderRun(r)
    <3>1. PICK out \in {"wellformed", "malformed", "failed"} : reads' = [reads EXCEPT ![r].pc = out]
      BY <2>2 DEF ReaderRun
    <3>2. /\ reads[r].pc \in {"local", "cloud"} /\ UNCHANGED seeds
          /\ reached' = [reached EXCEPT ![r] = @ \cup {reads[r].pc}]
      BY <2>2 DEF ReaderRun
    <3>3. reads[r] \in [pc : {"local", "cloud"}, cleared : BOOLEAN]
      BY <2>0, <3>2 DEF ReadRecs
    <3>4. reads'[r] \in ReadRecs /\ reads'[r].pc = out /\ reads'[r].cleared = reads[r].cleared
      BY <1>0, <3>1, <3>3 DEF LaneTypes, ReadRecs
    <3>5. reached'[r] = {reads[r].pc}
      BY <1>0, <3>2 DEF LaneTypes, ReadReach
    <3> QED BY <1>0, <2>0, <3>2, <3>4, <3>5 DEF ReadReach
  <2>3. CASE SpawnActor(r)
    <3>1. /\ reads[r].pc = "wellformed" /\ reads' = [reads EXCEPT ![r].pc = "over"]
          /\ UNCHANGED reached
      BY <2>3 DEF SpawnActor, Validated
    <3>2. reads[r] \in [pc : {"wellformed"}, cleared : BOOLEAN]
      BY <2>0, <3>1 DEF ReadRecs
    <3>3. reads'[r] \in ReadRecs /\ reads'[r].pc = "over" /\ reads'[r].cleared = reads[r].cleared
      BY <1>0, <3>1, <3>2 DEF LaneTypes, ReadRecs
    <3>4. seeds'[r] \in {{}, {"task", "clean"}}
      BY <1>0, <2>3 DEF SpawnActor, Committed, LaneTypes
    <3> QED BY <2>0, <3>1, <3>3, <3>4
  <2> QED BY <2>1, <2>2, <2>3
<1>4. LaneTypes'
  <2>1. reads' \in [Reads -> ReadRecs]
    BY <1>0, <1>2, <1>3 DEF LaneTypes, ReaderClassify, ReaderRun, SpawnActor
  <2>2. seeds' \in [Reads -> SUBSET {"task", "clean"}]
    BY <1>0, <1>2, <1>3 DEF LaneTypes, ReaderClassify, ReaderRun, SpawnActor
  <2>3. reached' \in [LaneTasks \cup Reads -> SUBSET {"local", "cloud"}]
    BY <1>0, <1>2, <1>3 DEF LaneTypes, ReaderClassify, ReaderRun, SpawnActor
  <2> QED BY <1>0, <1>1, <2>1, <2>2, <2>3 DEF LaneTypes
<1>5. EscalationsRead' /\ TaskReach' /\ ReadReach'
  BY <1>0, <1>1, <1>2, <1>3 DEF EscalationsRead, TaskReach, ReadReach
<1>6. SecretsStayLocal' /\ NoCloudFallback' /\ SeedsAreWhole'
  BY <1>0, <1>1, <1>2, <1>3 DEF SecretsStayLocal, NoCloudFallback, SeedsAreWhole
<1>7. LaneTypeOK'
  BY <1>0, <1>1 DEF LaneTypeOK
<1> QED BY <1>4, <1>5, <1>6, <1>7 DEF Lane

\* The lane of a task is narrowed by no step but the write of an Escalate
\* that had not seen it secret.
LEMMA OnlyStaleNarrows ==
    ASSUME Lane, [LaneNext \/ ReaderNext]_laneVars, NEW t \in LaneTasks,
           laneRow[t].lane = "secret", laneRow'[t].lane # "secret"
    PROVE  \E e \in Escalations :
             esc[e].pc = "read" /\ esc[e].task = t /\ esc[e].saw.lane # "secret"
<1>0. LaneTypes /\ EscalationsRead /\ TaskReach
  BY DEF Lane
<1>1. ASSUME NEW u \in LaneTasks, HandleTask(u) PROVE laneRow'[t] = laneRow[t]
  <2>1. lanePc[u] = "new"
    BY <1>1 DEF HandleTask
  <2>2. u # t
    BY <1>0, <2>1 DEF TaskReach, NoRow
  <2> QED BY <1>0, <1>1, <2>2 DEF HandleTask, LaneTypes
<1>2. ASSUME NEW e \in Escalations, EscalateWrites(e)
      PROVE  esc[e].pc = "read" /\ esc[e].task = t /\ esc[e].saw.lane # "secret"
  <2>1. /\ esc[e].pc = "read"
        /\ laneRow' = [laneRow EXCEPT ![esc[e].task] = Widened(esc[e].saw, esc[e].verdict)]
    BY <1>2 DEF EscalateWrites
  <2>2. esc[e].task = t
    BY <1>0, <2>1 DEF LaneTypes
  <2>3. laneRow'[t] = Widened(esc[e].saw, esc[e].verdict)
    BY <1>0, <2>1, <2>2 DEF LaneTypes
  <2> QED BY <1>0, <2>1, <2>2, <2>3, WidenedKeeps DEF EscalationsRead
<1> QED
  BY <1>1, <1>2 DEF LaneNext, ReaderNext, laneVars, AnswerLocally, ModelCall, EscalateReads,
     ReaderClassify, ReaderRun, SpawnActor

\* While the lane is secret the proxy lets no call of the task out.
LEMMA SecretBlocks ==
    ASSUME Lane, [LaneNext \/ ReaderNext]_laneVars, NEW t \in LaneTasks,
           laneRow[t].lane = "secret", "cloud" \in reached'[t]
    PROVE  "cloud" \in reached[t]
<1>0. LaneTypes
  BY DEF Lane
<1>1. ASSUME NEW u \in LaneTasks, AnswerLocally(u) \/ ModelCall(u)
      PROVE  "cloud" \in reached[t]
  BY <1>0, <1>1 DEF AnswerLocally, ModelCall, BackstopBlocks, LaneTypes
<1>2. ASSUME NEW r \in Reads, ReaderRun(r) PROVE reached'[t] = reached[t]
  BY <1>0, <1>2, LaneAssumption DEF ReaderRun, LaneTypes
<1> QED
  BY <1>1, <1>2 DEF LaneNext, ReaderNext, laneVars, HandleTask, EscalateReads, EscalateWrites,
     ReaderClassify, SpawnActor

\* With failing local models, rows half made and widenings that race: a text
\* the rules match reaches no cloud model, one given to the local model is not
\* sent out later, a lane only narrows by a stale Escalate, and a secret lane
\* lets no further call out.
THEOREM LaneIsKept == LaneSpec => SecretsKeepTheirLane
<1>1. Lane /\ [LaneNext \/ ReaderNext]_laneVars => Lane'
  <2>1. Lane /\ UNCHANGED laneVars => Lane'
    BY DEF laneVars, Lane, LaneTypes, EscalationsRead, TaskReach, ReadReach, LaneTypeOK,
       SecretsStayLocal, NoCloudFallback, SeedsAreWhole
  <2> QED BY <2>1, TaskStep, EscalateStep, ReaderStep DEF LaneNext, ReaderNext
<1>2. LaneSpec => []Lane
  BY <1>1, InitLane, PTL DEF LaneSpec
<1>3. Lane => LaneTypeOK /\ SecretsStayLocal /\ NoCloudFallback /\ SeedsAreWhole
  BY DEF Lane
<1>4. Lane /\ [LaneNext \/ ReaderNext]_laneVars =>
      \A t \in LaneTasks :
         laneRow[t].lane = "secret" /\ laneRow'[t].lane # "secret" =>
           \E e \in Escalations :
             esc[e].pc = "read" /\ esc[e].task = t /\ esc[e].saw.lane # "secret"
  BY OnlyStaleNarrows
<1>5. Lane /\ [LaneNext \/ ReaderNext]_laneVars =>
      \A t \in LaneTasks :
         laneRow[t].lane = "secret" /\ "cloud" \in reached'[t] => "cloud" \in reached[t]
  BY SecretBlocks
<1> QED
  BY <1>2, <1>3, <1>4, <1>5, PTL
     DEF LaneSpec, SecretsKeepTheirLane, LaneOnlyWidens, BlockedOnceSecret

-----------------------------------------------------------------------------
(* The egress gate.                                                        *)

EgressSpec == EgressInit /\ [][EgressNext]_egVars

ConnRows ==
    [pc : {"new", "refused", "forwarded", "resolve", "dial", "open", "failed", "ended"},
     host : Hosts \cup {NoHost}, checked : 0..MaxBytes,
     addr : {"none", "public", "private"}, up : 0..MaxBytes, down : 0..MaxBytes,
     sides : SUBSET {"up", "down"}, metered : BOOLEAN]

Verdicts == {"none", "allowed", "allowlist", "sensitive", "budget", "error", "dns_rebind"}

\* How far a connection got, given what was ledgered about it.
ConnOK(k, v) ==
    /\ k.pc = "new" => k = NewConn
    /\ k.metered => k.pc \in {"ended", "failed"}
    /\ k.pc \in {"resolve", "dial", "open", "ended"} => v = "allowed" /\ k.host \in Allowed
    /\ k.pc \in {"dial", "open", "ended"} => k.addr = "public" \/ k.host \in Literal

\* What a connection is known to have carried to h.
Value(h, k, v) ==
    IF k.host # h THEN 0
    ELSE IF k.metered THEN k.up + k.down
    ELSE IF v = "allowed" THEN k.checked ELSE 0

EgressInv ==
    /\ EgressTypeOK
    /\ \A c \in Conns : ConnOK(conn[c], verdict[c])
    /\ NothingUncounted
    /\ AdmittedWithinBudget

\* What the assumptions say of the numbers.
LEMMA EgressNumbers ==
    /\ ByteBudget \in Nat /\ MaxBytes \in Nat /\ LastDay \in Nat /\ MaxDaemons \in Nat
    /\ IsFiniteSet(Conns) /\ IsFiniteSet(0..LastDay)
<1>1. ByteBudget \in Nat /\ MaxBytes \in Nat /\ LastDay \in Nat /\ MaxDaemons \in Nat
  BY EgressAssumption
<1>2. IsFiniteSet(0..LastDay)
  BY <1>1, FS_Interval
<1> QED BY <1>1, <1>2, EgressAssumption

\* A connection carries a number of bytes.
LEMMA ValueIsNumber ==
    ASSUME NEW h, NEW k \in ConnRows, NEW v PROVE Value(h, k, v) \in Nat
<1>1. k.up \in Nat /\ k.down \in Nat /\ k.checked \in Nat
  BY EgressNumbers DEF ConnRows
<1> QED BY <1>1 DEF Value

\* What a connection carried to its host is what its meter counted.
LEMMA CarriedIsValue ==
    ASSUME NEW h, conn \in [Conns -> ConnRows]
    PROVE  /\ CarriedTo(h) = [c \in Conns |-> Value(h, conn[c], verdict[c])]
           /\ CarriedTo(h) \in [Conns -> Int]
<1>1. CarriedTo(h) = [c \in Conns |-> Value(h, conn[c], verdict[c])]
  BY DEF CarriedTo, Value, HostOf
<1>2. \A c \in Conns : Value(h, conn[c], verdict[c]) \in Int
  BY ValueIsNumber
<1> QED BY <1>1, <1>2

\* SumChange, to be used for sets of numbers.
LEMMA SumChanged ==
    \A S, f, g : \A y \in S :
        IsFiniteSet(S) /\ f \in [S -> Int] /\ g \in [S -> Int] /\ (\A x \in S \ {y} : g[x] = f[x])
            => SumOn(g, S) = SumOn(f, S) + g[y] - f[y]
BY SumChange

\* The bytes of a host change by what is booked on one day.
LEMMA BookedOnADay ==
    ASSUME NEW p \in [0..LastDay -> Int], NEW q \in [0..LastDay -> Int], NEW d \in 0..LastDay,
           \A x \in (0..LastDay) \ {d} : q[x] = p[x]
    PROVE  SumOn(q, 0..LastDay) = SumOn(p, 0..LastDay) + q[d] - p[d]
<1>1. IsFiniteSet(0..LastDay)
  BY EgressNumbers
<1>2. \A f, g : \A y \in 0..LastDay :
         IsFiniteSet(0..LastDay) /\ f \in [0..LastDay -> Int] /\ g \in [0..LastDay -> Int]
           /\ (\A x \in (0..LastDay) \ {y} : g[x] = f[x])
            => SumOn(g, 0..LastDay) = SumOn(f, 0..LastDay) + g[y] - f[y]
  BY SumChanged, Zenon
<1>3. \A y \in 0..LastDay :
         IsFiniteSet(0..LastDay) /\ p \in [0..LastDay -> Int] /\ q \in [0..LastDay -> Int]
           /\ (\A x \in (0..LastDay) \ {y} : q[x] = p[x])
            => SumOn(q, 0..LastDay) = SumOn(p, 0..LastDay) + q[y] - p[y]
  BY <1>2, Zenon
<1> QED BY <1>1, <1>3, Zenon

\* A step of one connection, with or without an entry in the budget that
\* covers what it adds.
LEMMA OneConnCounted ==
    ASSUME EgressTypeOK, EgressTypeOK', NothingUncounted, NEW h \in Hosts, NEW c \in Conns,
           NEW r \in ConnRows, NEW v \in Verdicts, NEW d \in 0..LastDay, NEW n \in Nat,
           conn' = [conn EXCEPT ![c] = r], verdict' = [verdict EXCEPT ![c] = v],
           budget'[h] = [budget[h] EXCEPT ![d] = @ + n],
           Value(h, r, v) <= Value(h, conn[c], verdict[c]) + n
    PROVE  TotalBytes(h)' >= SumOn(CarriedTo(h), Conns)'
<1>0. conn \in [Conns -> ConnRows] /\ conn' \in [Conns -> ConnRows] /\ verdict \in [Conns -> Verdicts]
      /\ budget[h] \in [0..LastDay -> Int] /\ budget'[h] \in [0..LastDay -> Int]
  <2>1. conn \in [Conns -> ConnRows] /\ conn' \in [Conns -> ConnRows] /\ verdict \in [Conns -> Verdicts]
    BY DEF EgressTypeOK, ConnRows, Verdicts
  <2>2. budget[h] \in [0..LastDay -> Nat] /\ budget'[h] \in [0..LastDay -> Nat]
    BY DEF EgressTypeOK
  <2> QED BY <2>1, <2>2
<1>1. PICK f : f = CarriedTo(h)
  OBVIOUS
<1>2. PICK g : g = [x \in Conns |-> Value(h, conn'[x], verdict'[x])]
  OBVIOUS
<1>3. PICK p : p = budget[h]
  OBVIOUS
<1>4. PICK q : q = budget'[h]
  OBVIOUS
<1>5. f = [x \in Conns |-> Value(h, conn[x], verdict[x])] /\ f \in [Conns -> Int]
  BY <1>0, <1>1, CarriedIsValue
<1>6. g \in [Conns -> Int] /\ CarriedTo(h)' = g
  <2>1. \A x \in Conns : Value(h, conn'[x], verdict'[x]) \in Int
    BY <1>0, ValueIsNumber
  <2>2. CarriedTo(h)' = g
    BY <1>2 DEF CarriedTo, Value, HostOf
  <2> QED BY <1>2, <2>1, <2>2
<1>7. g[c] = Value(h, r, v) /\ \A x \in Conns \ {c} : g[x] = f[x]
  BY <1>0, <1>2, <1>5
<1>8. f[c] = Value(h, conn[c], verdict[c])
  BY <1>5
<1>9. /\ p \in [0..LastDay -> Int] /\ q \in [0..LastDay -> Int] /\ q[d] = p[d] + n
      /\ \A x \in (0..LastDay) \ {d} : q[x] = p[x]
  BY <1>0, <1>3, <1>4
<1>10. g[c] - f[c] <= q[d] - p[d]
  <2>1. g[c] \in Int /\ f[c] \in Int /\ p[d] \in Int
    BY <1>5, <1>6, <1>9
  <2>2. g[c] <= f[c] + n
    BY <1>7, <1>8
  <2> QED BY <1>9, <2>1, <2>2
<1>11. SumOn(p, 0..LastDay) >= SumOn(f, Conns)
  BY <1>1, <1>3 DEF NothingUncounted, TotalBytes
<1>12. IsFiniteSet(Conns) /\ IsFiniteSet(0..LastDay)
  BY EgressNumbers
<1>13. SumOn(q, 0..LastDay) >= SumOn(g, Conns)
  <2>1. PICK days : days = 0..LastDay
    OBVIOUS
  <2>2. f \in [Conns -> Int] /\ g \in [Conns -> Int] /\ p \in [days -> Int] /\ q \in [days -> Int]
    BY <1>5, <1>6, <1>9, <2>1
  <2>3. \A x \in Conns \ {c} : g[x] = f[x]
    BY <1>7
  <2>4. \A x \in days \ {d} : q[x] = p[x]
    BY <1>9, <2>1
  <2>5. SumOn(p, days) >= SumOn(f, Conns) /\ IsFiniteSet(days) /\ d \in days /\ IsFiniteSet(Conns)
    BY <1>11, <1>12, <2>1
  <2>6. SumOn(q, days) >= SumOn(g, Conns)
    <3>1. SumOn(g, Conns) = SumOn(f, Conns) + g[c] - f[c]
      BY <2>2, <2>3, <2>5, SumChange
    <3>2. SumOn(q, days) = SumOn(p, days) + q[d] - p[d]
      BY <1>9, <2>1, BookedOnADay
    <3>3. SumOn(f, Conns) \in Int /\ SumOn(p, days) \in Int
      BY <2>2, <2>5, SumIsInteger
    <3>4. g[c] \in Int /\ f[c] \in Int /\ q[d] \in Int /\ p[d] \in Int
      BY <2>2, <2>5
    <3> QED BY <1>10, <2>5, <3>1, <3>2, <3>3, <3>4
  <2> QED BY <2>1, <2>6
<1> QED BY <1>4, <1>6, <1>13 DEF TotalBytes

\* What a step that only moves a connection does to the invariant.
LEMMA ConnMoves ==
    ASSUME EgressInv, NEW c \in Conns, NEW r \in ConnRows, NEW v \in Verdicts,
           UNCHANGED <<budget, sensitive, proxyTokens, egressDay, daemons>>,
           conn' = [conn EXCEPT ![c] = r], verdict' = [verdict EXCEPT ![c] = v],
           ConnOK(r, v),
           r.host = conn[c].host, r.metered = conn[c].metered, r.checked = conn[c].checked,
           r.metered => r.up = conn[c].up /\ r.down = conn[c].down,
           v = "allowed" => verdict[c] = "allowed"
    PROVE  EgressInv'
<1>0. EgressTypeOK /\ conn \in [Conns -> ConnRows] /\ verdict \in [Conns -> Verdicts] /\ conn[c] \in ConnRows
  BY DEF EgressInv, EgressTypeOK, ConnRows, Verdicts
<1>1. conn' \in [Conns -> ConnRows] /\ verdict' \in [Conns -> Verdicts]
  BY <1>0
<1>2. EgressTypeOK'
  BY <1>0, <1>1 DEF EgressTypeOK, ConnRows, Verdicts
<1>3. \A x \in Conns : ConnOK(conn'[x], verdict'[x])
  BY <1>0 DEF EgressInv
<1>4. ASSUME NEW h \in Hosts PROVE TotalBytes(h)' >= SumOn(CarriedTo(h), Conns)'
  <2>1. budget'[h] = [budget[h] EXCEPT ![0] = @ + 0] /\ 0 \in 0..LastDay
    <3>1. budget[h] \in [0..LastDay -> Nat] /\ 0 \in 0..LastDay /\ budget'[h] = budget[h]
      BY <1>0, EgressNumbers DEF EgressTypeOK
    <3>2. [budget[h] EXCEPT ![0] = @ + 0] = budget[h]
      <4>1. PICK p \in [0..LastDay -> Nat] : p = budget[h]
        BY <3>1
      <4>2. [p EXCEPT ![0] = @ + 0] = p
        OBVIOUS
      <4> QED BY <4>1, <4>2
    <3> QED BY <3>1, <3>2
  <2>2. Value(h, r, v) <= Value(h, conn[c], verdict[c]) + 0
    <3>1. Value(h, r, v) \in Nat /\ Value(h, conn[c], verdict[c]) \in Nat
      BY <1>0, ValueIsNumber
    <3>2. Value(h, r, v) = Value(h, conn[c], verdict[c]) \/ Value(h, r, v) = 0
      BY <1>0 DEF Value, ConnRows
    <3> QED BY <3>1, <3>2
  <2> QED BY <1>0, <1>2, <2>1, <2>2, OneConnCounted DEF EgressInv
<1>5. AdmittedWithinBudget'
  <2> SUFFICES ASSUME NEW h \in Hosts, NEW d \in 0..LastDay,
                      \A x \in Conns : conn'[x].host = h => ~conn'[x].metered
               PROVE  budget[h][d] <= ByteBudget
    BY DEF AdmittedWithinBudget, HostOf
  <2>1. \A x \in Conns : conn[x].host = h => ~conn[x].metered
    BY <1>0
  <2> QED BY <2>1 DEF EgressInv, AdmittedWithinBudget, HostOf
<1> QED BY <1>2, <1>3, <1>4, <1>5 DEF EgressInv, NothingUncounted

\* A step that moves a connection and books n bytes on its host.
LEMMA ConnBooks ==
    ASSUME EgressInv, NEW c \in Conns, NEW r \in ConnRows, NEW v \in Verdicts, NEW n \in Nat,
           NEW h \in Hosts,
           UNCHANGED <<sensitive, proxyTokens, egressDay, daemons>>,
           conn' = [conn EXCEPT ![c] = r], verdict' = [verdict EXCEPT ![c] = v],
           BudgetAdd(h, n), ConnOK(r, v), r.host = h, ~conn[c].metered,
           conn[c].host \in {h, NoHost},
           Value(h, r, v) <= Value(h, conn[c], verdict[c]) + n,
           r.metered \/ budget[h][egressDay] + n <= ByteBudget
    PROVE  EgressInv'
<1>0. /\ EgressTypeOK /\ conn \in [Conns -> ConnRows] /\ verdict \in [Conns -> Verdicts]
      /\ conn[c] \in ConnRows /\ budget \in [Hosts -> [0..LastDay -> Nat]] /\ egressDay \in 0..LastDay
  BY DEF EgressInv, EgressTypeOK, ConnRows, Verdicts
<1>1. conn' \in [Conns -> ConnRows] /\ verdict' \in [Conns -> Verdicts]
  BY <1>0
<1>2. /\ budget' \in [Hosts -> [0..LastDay -> Nat]]
      /\ budget'[h] = [budget[h] EXCEPT ![egressDay] = @ + n]
      /\ \A x \in Hosts \ {h} : budget'[x] = budget[x]
  <2>1. PICK d \in 0..LastDay : d = egressDay
    BY <1>0
  <2>2. PICK p \in [0..LastDay -> Nat] : p = [budget[h] EXCEPT ![d] = @ + n]
    <3>1. PICK b \in [0..LastDay -> Nat] : b = budget[h]
      BY <1>0
    <3>2. b[d] + n \in Nat
      OBVIOUS
    <3>3. [b EXCEPT ![d] = @ + n] \in [0..LastDay -> Nat]
      BY <3>2
    <3> QED BY <3>1, <3>3
  <2>3. budget' = [budget EXCEPT ![h] = p]
    BY <1>0, <2>1, <2>2 DEF BudgetAdd
  <2> QED BY <1>0, <2>1, <2>2, <2>3
<1>3. EgressTypeOK'
  BY <1>0, <1>1, <1>2 DEF EgressTypeOK, ConnRows, Verdicts
<1>4. \A x \in Conns : ConnOK(conn'[x], verdict'[x])
  BY <1>0 DEF EgressInv
<1>5. ASSUME NEW g \in Hosts PROVE TotalBytes(g)' >= SumOn(CarriedTo(g), Conns)'
  <2>1. CASE g = h
    <3>1. PICK d \in 0..LastDay : d = egressDay
      BY <1>0
    <3>2. budget'[h] = [budget[h] EXCEPT ![d] = @ + n]
      BY <1>2, <3>1
    <3>3. TotalBytes(h)' >= SumOn(CarriedTo(h), Conns)'
      BY <1>0, <1>3, <3>2, OneConnCounted DEF EgressInv
    <3> QED BY <2>1, <3>3
  <2>2. CASE g # h
    <3>1. budget'[g] = [budget[g] EXCEPT ![0] = @ + 0] /\ 0 \in 0..LastDay
      <4>1. budget[g] \in [0..LastDay -> Nat] /\ 0 \in 0..LastDay /\ budget'[g] = budget[g]
        BY <1>0, <1>2, <2>2, EgressNumbers
      <4>2. [budget[g] EXCEPT ![0] = @ + 0] = budget[g]
        <5>1. PICK p \in [0..LastDay -> Nat] : p = budget[g]
          BY <4>1
        <5>2. [p EXCEPT ![0] = @ + 0] = p
          OBVIOUS
        <5> QED BY <5>1, <5>2
      <4> QED BY <4>1, <4>2
    <3>2. Value(g, r, v) <= Value(g, conn[c], verdict[c]) + 0
      <4>1. Value(g, conn[c], verdict[c]) \in Nat
        BY <1>0, ValueIsNumber
      <4>2. Value(g, r, v) = 0
        BY <2>2 DEF Value
      <4> QED BY <4>1, <4>2
    <3> QED BY <1>0, <1>3, <3>1, <3>2, OneConnCounted DEF EgressInv
  <2> QED BY <2>1, <2>2
<1>6. AdmittedWithinBudget'
  <2> SUFFICES ASSUME NEW g \in Hosts, NEW d \in 0..LastDay,
                      \A x \in Conns : conn'[x].host = g => ~conn'[x].metered
               PROVE  budget'[g][d] <= ByteBudget
    BY DEF AdmittedWithinBudget, HostOf
  <2>1. \A x \in Conns : conn[x].host = g => ~conn[x].metered
    BY <1>0
  <2>2. budget[g][d] <= ByteBudget
    BY <2>1 DEF EgressInv, AdmittedWithinBudget, HostOf
  <2>3. CASE g = h /\ d = egressDay
    <3>1. ~r.metered
      BY <1>0, <2>3
    <3> QED BY <1>0, <1>2, <2>3, <3>1
  <2>4. CASE ~(g = h /\ d = egressDay)
    BY <1>0, <1>2, <2>2, <2>4
  <2> QED BY <2>3, <2>4
<1> QED BY <1>3, <1>4, <1>5, <1>6 DEF EgressInv, NothingUncounted

\* What a connection and its ledgered verdict are typed as.
LEMMA ConnTypes ==
    ASSUME EgressInv, NEW c \in Conns
    PROVE  /\ conn \in [Conns -> ConnRows] /\ conn[c] \in ConnRows
           /\ verdict \in [Conns -> Verdicts] /\ verdict[c] \in Verdicts
           /\ ConnOK(conn[c], verdict[c])
  BY DEF EgressInv, EgressTypeOK, ConnRows, Verdicts

\* What Check answers: the announced length of what it lets pass is booked on
\* the canonical host, within the day's budget.
LEMMA CheckStep == ASSUME EgressInv, NEW c \in Conns, Check(c) PROVE EgressInv'
<1>0. /\ conn \in [Conns -> ConnRows] /\ conn[c] \in ConnRows
      /\ verdict \in [Conns -> Verdicts] /\ verdict[c] \in Verdicts
      /\ conn[c].pc = "new" /\ conn[c] = NewConn
  BY ConnTypes DEF Check, ConnAt, ConnOK
<1>1. /\ conn[c].host = NoHost /\ conn[c].metered = FALSE /\ conn[c].checked = 0
  BY <1>0 DEF NewConn
<1>2. PICK rule \in Verdicts, h \in Hosts \cup {NoHost}, kind \in Kinds, n \in -1..MaxBytes :
        /\ verdict' = [verdict EXCEPT ![c] = rule]
        /\ IF rule = "allowed" THEN BudgetAdd(h, Announced(kind, n)) ELSE UNCHANGED budget
        /\ conn' = [conn EXCEPT ![c] =
                  IF rule # "allowed" THEN [@ EXCEPT !.pc = "refused"]
                  ELSE [@ EXCEPT !.host = h, !.checked = Announced(kind, n),
                                 !.pc = IF kind = "model" THEN "forwarded" ELSE "resolve"]]
        /\ rule = "allowed" => h # NoHost /\ MatchAllowlist(h) /\ ~OverBudget(h, Announced(kind, n))
  <2>1. PICK name \in Spellings, kind \in Kinds, n \in -1..MaxBytes, dbError \in BOOLEAN :
          LET h == CanonicalizeHost(name)
              s == SessionForRequest(c, kind)
              a == Announced(kind, n)
              rule == CASE h = NoHost -> "allowlist"
                        [] h # NoHost /\ ~MatchAllowlist(h) ->
                              IF s \in sensitive THEN "sensitive" ELSE "allowlist"
                        [] h # NoHost /\ MatchAllowlist(h) /\ dbError -> "error"
                        [] h # NoHost /\ MatchAllowlist(h) /\ ~dbError ->
                              IF OverBudget(h, a) THEN "budget" ELSE "allowed"
          IN /\ verdict' = [verdict EXCEPT ![c] = rule]
             /\ IF rule = "allowed" THEN BudgetAdd(h, a) ELSE UNCHANGED budget
             /\ conn' = [conn EXCEPT ![c] =
                  IF rule # "allowed" THEN [@ EXCEPT !.pc = "refused"]
                  ELSE [@ EXCEPT !.host = h, !.checked = a,
                                 !.pc = IF kind = "model" THEN "forwarded" ELSE "resolve"]]
    BY DEF Check
  <2> DEFINE h == CanonicalizeHost(name)
             s == SessionForRequest(c, kind)
             a == Announced(kind, n)
             rule == CASE h = NoHost -> "allowlist"
                        [] h # NoHost /\ ~MatchAllowlist(h) ->
                              IF s \in sensitive THEN "sensitive" ELSE "allowlist"
                        [] h # NoHost /\ MatchAllowlist(h) /\ dbError -> "error"
                        [] h # NoHost /\ MatchAllowlist(h) /\ ~dbError ->
                              IF OverBudget(h, a) THEN "budget" ELSE "allowed"
  <2>2. h \in Hosts \cup {NoHost}
    BY EgressAssumption DEF CanonicalizeHost
  <2>3. /\ verdict' = [verdict EXCEPT ![c] = rule]
        /\ IF rule = "allowed" THEN BudgetAdd(h, a) ELSE UNCHANGED budget
        /\ conn' = [conn EXCEPT ![c] =
                  IF rule # "allowed" THEN [@ EXCEPT !.pc = "refused"]
                  ELSE [@ EXCEPT !.host = h, !.checked = a,
                                 !.pc = IF kind = "model" THEN "forwarded" ELSE "resolve"]]
    BY <2>1
  <2>4. /\ rule \in Verdicts
        /\ rule = "allowed" => h # NoHost /\ MatchAllowlist(h) /\ ~OverBudget(h, a)
    <3> HIDE DEF h, s, a
    <3>1. dbError \in BOOLEAN
      BY <2>1
    <3>2. CASE h = NoHost
      BY <3>2 DEF Verdicts
    <3>3. CASE h # NoHost /\ ~MatchAllowlist(h)
      BY <3>3 DEF Verdicts
    <3>4. CASE h # NoHost /\ MatchAllowlist(h)
      BY <3>1, <3>4 DEF Verdicts
    <3> QED BY <3>2, <3>3, <3>4
  <2> HIDE DEF rule, h
  <2> QED BY <2>2, <2>3, <2>4
<1>3. UNCHANGED <<sensitive, proxyTokens, egressDay, daemons>>
  BY DEF Check
<1>4. CASE rule # "allowed"
  <2>1. PICK r : r = [conn[c] EXCEPT !.pc = "refused"]
    OBVIOUS
  <2>2. /\ r \in ConnRows /\ r.pc = "refused" /\ r.host = conn[c].host /\ r.metered = conn[c].metered
        /\ r.checked = conn[c].checked
    BY <1>0, <2>1 DEF ConnRows
  <2>3. conn' = [conn EXCEPT ![c] = r] /\ UNCHANGED budget
    BY <1>0, <1>2, <1>4, <2>1
  <2>4. ConnOK(r, rule)
    BY <1>1, <2>2 DEF ConnOK
  <2>5. ~r.metered
    BY <1>1, <2>2
  <2> QED BY <1>2, <1>3, <1>4, <2>2, <2>3, <2>4, <2>5, ConnMoves
<1>5. CASE rule = "allowed"
  <2>0. h \in Hosts /\ h \in Allowed
    BY <1>2, <1>5 DEF MatchAllowlist
  <2>1. PICK a \in Nat : a = Announced(kind, n) /\ a \in 0..MaxBytes
    BY EgressNumbers DEF Announced
  <2>2. PICK r : r = [conn[c] EXCEPT !.host = h, !.checked = a,
                                     !.pc = IF kind = "model" THEN "forwarded" ELSE "resolve"]
    OBVIOUS
  <2>3. /\ r \in ConnRows /\ r.pc \in {"forwarded", "resolve"} /\ r.host = h
        /\ r.metered = FALSE /\ r.checked = a
    BY <1>0, <1>1, <2>0, <2>1, <2>2 DEF ConnRows
  <2>4. conn' = [conn EXCEPT ![c] = r] /\ BudgetAdd(h, a)
    BY <1>0, <1>2, <1>5, <2>1, <2>2
  <2>5. ConnOK(r, rule)
    BY <1>5, <2>0, <2>3 DEF ConnOK
  <2>6. Value(h, r, rule) <= Value(h, conn[c], verdict[c]) + a
    <3>1. Value(h, r, rule) = a
      BY <1>5, <2>3 DEF Value
    <3>2. Value(h, conn[c], verdict[c]) \in Nat
      BY <1>0, ValueIsNumber
    <3> QED BY <3>1, <3>2
  <2>7. budget[h][egressDay] + a <= ByteBudget
    <3>1. ~(budget[h][egressDay] + a > ByteBudget)
      BY <1>2, <1>5, <2>1 DEF OverBudget
    <3>2. budget[h][egressDay] \in Nat
      <4>1. budget \in [Hosts -> [0..LastDay -> Nat]] /\ egressDay \in 0..LastDay
        BY DEF EgressInv, EgressTypeOK
      <4>2. budget[h] \in [0..LastDay -> Nat]
        BY <2>0, <4>1
      <4> QED BY <4>1, <4>2
    <3> QED BY <3>1, <3>2, EgressNumbers
  <2> QED BY <1>1, <1>2, <1>3, <2>0, <2>3, <2>4, <2>5, <2>6, <2>7, ConnBooks
<1> QED BY <1>4, <1>5

\* A name that resolves to a private address refuses the connection; any other
\* pins the address that will be dialled.
LEMMA PinStep == ASSUME EgressInv, NEW c \in Conns, ResolveAndPin(c) PROVE EgressInv'
<1>0. /\ conn \in [Conns -> ConnRows] /\ conn[c] \in ConnRows
      /\ verdict \in [Conns -> Verdicts] /\ verdict[c] \in Verdicts
      /\ conn[c].pc = "resolve" /\ ConnOK(conn[c], verdict[c])
  BY ConnTypes DEF ResolveAndPin, ConnAt
<1>1. UNCHANGED <<budget, sensitive, proxyTokens, egressDay, daemons>>
  BY DEF ResolveAndPin
<1>2. verdict[c] = "allowed" /\ conn[c].host \in Allowed /\ ~conn[c].metered
  BY <1>0 DEF ConnOK
<1>3. PICK addrs \in SUBSET {"public", "private"} :
          IF PinOK(c, addrs)
          THEN /\ \E a \in IF HostOf(c) \in Literal THEN {"private"} ELSE addrs :
                     conn' = [conn EXCEPT ![c].pc = "dial", ![c].addr = a]
               /\ UNCHANGED verdict
          ELSE /\ conn' = [conn EXCEPT ![c].pc = "refused"]
               /\ verdict' = [verdict EXCEPT ![c] = "dns_rebind"]
  BY DEF ResolveAndPin
<1>4. CASE PinOK(c, addrs)
  <2>1. PICK a \in {"public", "private"} :
          /\ conn' = [conn EXCEPT ![c].pc = "dial", ![c].addr = a]
          /\ conn[c].host \in Literal \/ a \in addrs
    BY <1>3, <1>4 DEF HostOf
  <2>2. a = "public" \/ conn[c].host \in Literal
    BY <1>4, <2>1 DEF PinOK, HostOf
  <2>3. PICK r : r = [conn[c] EXCEPT !.pc = "dial", !.addr = a]
    OBVIOUS
  <2>4. /\ r \in ConnRows /\ r.pc = "dial" /\ r.addr = a /\ r.host = conn[c].host
        /\ r.metered = conn[c].metered /\ r.checked = conn[c].checked
    BY <1>0, <2>3 DEF ConnRows
  <2>5. conn' = [conn EXCEPT ![c] = r]
    BY <1>0, <2>1, <2>3
  <2>6. PICK v \in Verdicts : v = verdict[c] /\ verdict' = [verdict EXCEPT ![c] = v]
    BY <1>0, <1>3, <1>4
  <2>7. ConnOK(r, v)
    BY <1>2, <2>2, <2>4, <2>6 DEF ConnOK
  <2>8. ~r.metered
    BY <1>2, <2>4
  <2> QED BY <1>1, <2>4, <2>5, <2>6, <2>7, <2>8, ConnMoves
<1>5. CASE ~PinOK(c, addrs)
  <2>1. PICK r : r = [conn[c] EXCEPT !.pc = "refused"]
    OBVIOUS
  <2>2. /\ r \in ConnRows /\ r.pc = "refused" /\ r.host = conn[c].host
        /\ r.metered = conn[c].metered /\ r.checked = conn[c].checked
    BY <1>0, <2>1 DEF ConnRows
  <2>3. conn' = [conn EXCEPT ![c] = r]
    BY <1>0, <1>3, <1>5, <2>1
  <2>4. PICK v \in Verdicts : v = "dns_rebind" /\ verdict' = [verdict EXCEPT ![c] = v]
    BY <1>3, <1>5 DEF Verdicts
  <2>5. ConnOK(r, v)
    BY <1>2, <2>2 DEF ConnOK
  <2>6. ~r.metered
    BY <1>2, <2>2
  <2> QED BY <1>1, <2>2, <2>3, <2>4, <2>5, <2>6, ConnMoves
<1> QED BY <1>4, <1>5

\* The dial and the copying of a side.
LEMMA CarryStep ==
    ASSUME EgressInv, NEW c \in Conns,
           Dial(c) \/ \E side \in {"up", "down"} : CopySide(c, side)
    PROVE  EgressInv'
<1>0. /\ conn \in [Conns -> ConnRows] /\ conn[c] \in ConnRows
      /\ verdict \in [Conns -> Verdicts] /\ verdict[c] \in Verdicts
      /\ conn[c].pc \in {"dial", "open"} /\ ConnOK(conn[c], verdict[c])
  BY ConnTypes DEF Dial, CopySide, ConnAt
<1>1. UNCHANGED <<budget, sensitive, proxyTokens, egressDay, daemons, verdict>>
  BY DEF Dial, CopySide
<1>2. PICK r \in ConnRows :
        /\ conn' = [conn EXCEPT ![c] = r]
        /\ r.pc \in {"open", "failed"} /\ r.addr = conn[c].addr /\ r.host = conn[c].host
        /\ r.metered = conn[c].metered /\ r.checked = conn[c].checked
  <2>1. CASE Dial(c)
    <3>1. PICK pc \in {"open", "failed"} : conn' = [conn EXCEPT ![c].pc = pc]
      BY <2>1 DEF Dial
    <3>2. PICK r : r = [conn[c] EXCEPT !.pc = pc]
      OBVIOUS
    <3>3. /\ r \in ConnRows /\ r.pc = pc /\ r.addr = conn[c].addr /\ r.host = conn[c].host
          /\ r.metered = conn[c].metered /\ r.checked = conn[c].checked
      BY <1>0, <3>2 DEF ConnRows
    <3>4. conn' = [conn EXCEPT ![c] = r]
      BY <1>0, <3>1, <3>2
    <3> QED BY <3>3, <3>4
  <2>2. ASSUME NEW side \in {"up", "down"}, CopySide(c, side)
        PROVE  \E r \in ConnRows :
                 /\ conn' = [conn EXCEPT ![c] = r]
                 /\ r.pc \in {"open", "failed"} /\ r.addr = conn[c].addr /\ r.host = conn[c].host
                 /\ r.metered = conn[c].metered /\ r.checked = conn[c].checked
    <3>1. PICK n \in 0..MaxBytes :
            conn' = [conn EXCEPT ![c] =
             IF side = "up" THEN [@ EXCEPT !.up = n, !.sides = conn[c].sides \ {"up"}]
                            ELSE [@ EXCEPT !.down = n, !.sides = conn[c].sides \ {"down"}]]
      BY <2>2 DEF CopySide
    <3>2. PICK r : r = conn'[c]
      OBVIOUS
    <3>0. r = IF side = "up"
              THEN [conn[c] EXCEPT !.up = n, !.sides = conn[c].sides \ {"up"}]
              ELSE [conn[c] EXCEPT !.down = n, !.sides = conn[c].sides \ {"down"}]
      <4>1. CASE side = "up"
        BY <1>0, <3>1, <3>2, <4>1
      <4>2. CASE side = "down"
        BY <1>0, <3>1, <3>2, <4>2
      <4> QED BY <4>1, <4>2
    <3>3. conn[c].pc = "open" /\ conn[c].sides \in SUBSET {"up", "down"}
      BY <1>0, <2>2 DEF CopySide, ConnAt, ConnRows
    <3>4. /\ r \in ConnRows /\ r.pc = "open" /\ r.addr = conn[c].addr /\ r.host = conn[c].host
          /\ r.metered = conn[c].metered /\ r.checked = conn[c].checked
      <4>1. CASE side = "up"
        <5>1. r = [conn[c] EXCEPT !.up = n, !.sides = conn[c].sides \ {"up"}]
          BY <3>0, <4>1
        <5> QED BY <1>0, <3>1, <3>3, <5>1 DEF ConnRows
      <4>2. CASE side # "up"
        <5>1. r = [conn[c] EXCEPT !.down = n, !.sides = conn[c].sides \ {"down"}]
          BY <3>0, <4>2
        <5> QED BY <1>0, <3>1, <3>3, <5>1 DEF ConnRows
      <4> QED BY <4>1, <4>2
    <3>5. conn' = [conn EXCEPT ![c] = r]
      BY <1>0, <3>1, <3>2
    <3> QED BY <3>4, <3>5
  <2> QED BY <2>1, <2>2
<1>3. ~conn[c].metered /\ verdict[c] = "allowed" /\ conn[c].host \in Allowed
        /\ (conn[c].addr = "public" \/ conn[c].host \in Literal)
  BY <1>0 DEF ConnOK
<1>4. PICK v \in Verdicts : v = verdict[c] /\ verdict' = [verdict EXCEPT ![c] = v]
  BY <1>0, <1>1
<1>5. ConnOK(r, v)
  BY <1>2, <1>3, <1>4 DEF ConnOK
<1>6. ~r.metered
  BY <1>2, <1>3
<1> QED BY <1>1, <1>2, <1>4, <1>5, <1>6, ConnMoves

\* MeterUsage books what was carried, or loses it and says so.
LEMMA MeterStep == ASSUME EgressInv, NEW c \in Conns, MeterUsage(c) PROVE EgressInv'
<1>0. /\ conn \in [Conns -> ConnRows] /\ conn[c] \in ConnRows
      /\ verdict \in [Conns -> Verdicts] /\ verdict[c] \in Verdicts
      /\ conn[c].pc = "open" /\ ConnOK(conn[c], verdict[c])
  BY ConnTypes DEF MeterUsage, ConnAt
<1>1. UNCHANGED <<sensitive, proxyTokens, egressDay, daemons, verdict>>
  BY DEF MeterUsage
<1>2. ~conn[c].metered /\ verdict[c] = "allowed" /\ conn[c].host \in Allowed
        /\ (conn[c].addr = "public" \/ conn[c].host \in Literal)
  BY <1>0 DEF ConnOK
<1>3. PICK v \in Verdicts : v = verdict[c] /\ verdict' = [verdict EXCEPT ![c] = v]
  BY <1>0, <1>1
<1>4. CASE UNCHANGED budget /\ conn' = [conn EXCEPT ![c].pc = "ended"]
  <2>1. PICK r : r = [conn[c] EXCEPT !.pc = "ended"]
    OBVIOUS
  <2>2. /\ r \in ConnRows /\ r.pc = "ended" /\ r.addr = conn[c].addr /\ r.host = conn[c].host
        /\ r.metered = conn[c].metered /\ r.checked = conn[c].checked
    BY <1>0, <2>1 DEF ConnRows
  <2>3. conn' = [conn EXCEPT ![c] = r]
    BY <1>0, <1>4, <2>1
  <2>4. ConnOK(r, v)
    BY <1>2, <1>3, <2>2 DEF ConnOK
  <2>5. ~r.metered
    BY <1>2, <2>2
  <2> QED BY <1>1, <1>3, <1>4, <2>2, <2>3, <2>4, <2>5, ConnMoves
<1>5. CASE /\ BudgetAdd(HostOf(c), Carried(c))
           /\ conn' = [conn EXCEPT ![c].pc = "ended", ![c].metered = TRUE]
  <2>1. PICK r : r = [conn[c] EXCEPT !.pc = "ended", !.metered = TRUE]
    OBVIOUS
  <2>2. /\ r \in ConnRows /\ r.pc = "ended" /\ r.addr = conn[c].addr /\ r.host = conn[c].host
        /\ r.metered = TRUE /\ r.up = conn[c].up /\ r.down = conn[c].down
    BY <1>0, <2>1 DEF ConnRows
  <2>3. conn' = [conn EXCEPT ![c] = r]
    BY <1>0, <1>5, <2>1
  <2>4. ConnOK(r, v)
    BY <1>2, <1>3, <2>2 DEF ConnOK
  <2>5. PICK h \in Hosts : h = conn[c].host
    BY <1>2, EgressAssumption
  <2>6. PICK n \in Nat : n = conn[c].up + conn[c].down
    <3>1. conn[c].up \in Nat /\ conn[c].down \in Nat
      BY <1>0, EgressNumbers DEF ConnRows
    <3> QED BY <3>1
  <2>7. BudgetAdd(h, n)
    BY <1>5, <2>5, <2>6 DEF HostOf, Carried
  <2>8. Value(h, r, v) <= Value(h, conn[c], verdict[c]) + n
    <3>1. Value(h, r, v) = n
      BY <2>2, <2>5, <2>6 DEF Value
    <3>2. Value(h, conn[c], verdict[c]) \in Nat
      BY <1>0, ValueIsNumber
    <3> QED BY <3>1, <3>2
  <2>9. r.host = h /\ conn[c].host \in {h, NoHost} /\ ~conn[c].metered /\ r.metered
    BY <1>2, <2>2, <2>5
  <2> QED BY <1>1, <1>3, <2>2, <2>3, <2>4, <2>5, <2>7, <2>8, <2>9, ConnBooks
<1> QED BY <1>4, <1>5 DEF MeterUsage

\* Tokens, marks and days leave connections and budget alone.
LEMMA AsideStep ==
    ASSUME EgressInv,
           \/ \E s \in Sessions : Register(s) \/ Release(s) \/ MarkSensitiveRead(s)
           \/ NextEgressDay
           \/ UNCHANGED egVars
    PROVE  EgressInv'
<1>1. UNCHANGED <<budget, conn, verdict>>
  BY DEF Register, Release, MarkSensitiveRead, NextEgressDay, egVars
<1>2. EgressTypeOK'
  <2>1. /\ sensitive' \subseteq Sessions /\ proxyTokens' \subseteq Sessions
        /\ daemons' \in 0..MaxDaemons
    BY DEF EgressInv, EgressTypeOK, Register, Release, MarkSensitiveRead, NextEgressDay, egVars
  <2>2. egressDay' \in 0..LastDay
    BY EgressNumbers DEF EgressInv, EgressTypeOK, Register, Release, MarkSensitiveRead, NextEgressDay, egVars
  <2> QED BY <1>1, <2>1, <2>2 DEF EgressInv, EgressTypeOK
<1>3. ASSUME NEW h \in Hosts PROVE TotalBytes(h)' >= SumOn(CarriedTo(h), Conns)'
  <2>1. TotalBytes(h)' = TotalBytes(h) /\ CarriedTo(h)' = CarriedTo(h)
    BY <1>1 DEF TotalBytes, CarriedTo, HostOf
  <2> QED BY <2>1 DEF EgressInv, NothingUncounted
<1>4. NothingUncounted' /\ AdmittedWithinBudget'
  BY <1>1, <1>3 DEF EgressInv, NothingUncounted, AdmittedWithinBudget, HostOf
<1> QED BY <1>1, <1>2, <1>4 DEF EgressInv

\* A restart drops the connections and keeps what was booked.
LEMMA RestartStep == ASSUME EgressInv, EgressRestart PROVE EgressInv'
<1>0. conn \in [Conns -> ConnRows] /\ verdict \in [Conns -> Verdicts]
  BY DEF EgressInv, EgressTypeOK, ConnRows, Verdicts
<1>1. UNCHANGED <<budget, egressDay, verdict>> /\ sensitive' = {} /\ proxyTokens' = {}
        /\ daemons' \in 0..MaxDaemons
  BY EgressNumbers DEF EgressInv, EgressTypeOK, EgressRestart
<1>2. conn' = [c \in Conns |-> IF conn[c].pc = "new" THEN conn[c] ELSE [conn[c] EXCEPT !.pc = "failed"]]
  BY DEF EgressRestart, ConnAt
<1>3. ASSUME NEW c \in Conns
      PROVE  /\ conn'[c] \in ConnRows /\ ConnOK(conn'[c], verdict[c])
             /\ conn'[c].host = conn[c].host /\ conn'[c].metered = conn[c].metered
             /\ conn'[c].up = conn[c].up /\ conn'[c].down = conn[c].down
             /\ conn'[c].checked = conn[c].checked
  <2>1. conn[c] \in ConnRows /\ ConnOK(conn[c], verdict[c])
    BY <1>0 DEF EgressInv
  <2>2. CASE conn[c].pc = "new"
    BY <1>2, <2>1, <2>2
  <2>3. CASE conn[c].pc # "new"
    <3>1. PICK r : r = [conn[c] EXCEPT !.pc = "failed"]
      OBVIOUS
    <3>2. /\ r \in ConnRows /\ r.pc = "failed" /\ r.host = conn[c].host
          /\ r.metered = conn[c].metered /\ r.checked = conn[c].checked
          /\ r.up = conn[c].up /\ r.down = conn[c].down
      BY <2>1, <3>1 DEF ConnRows
    <3>3. conn'[c] = r
      BY <1>2, <2>3, <3>1
    <3>4. ConnOK(r, verdict[c])
      BY <3>2 DEF ConnOK
    <3> QED BY <3>2, <3>3, <3>4
  <2> QED BY <2>2, <2>3
<1>4. conn' \in [Conns -> ConnRows]
  BY <1>2, <1>3
<1>5. EgressTypeOK'
  BY <1>1, <1>4 DEF EgressInv, EgressTypeOK, ConnRows
<1>6. \A c \in Conns : ConnOK(conn'[c], verdict'[c])
  BY <1>1, <1>3
<1>7. ASSUME NEW h \in Hosts PROVE TotalBytes(h)' >= SumOn(CarriedTo(h), Conns)'
  <2>1. TotalBytes(h)' = TotalBytes(h)
    BY <1>1 DEF TotalBytes
  <2>2. CarriedTo(h)' = CarriedTo(h)
    <3>1. \A c \in Conns : Value(h, conn'[c], verdict[c]) = Value(h, conn[c], verdict[c])
      BY <1>3 DEF Value
    <3>2. CarriedTo(h)' = [c \in Conns |-> Value(h, conn'[c], verdict[c])]
      BY <1>1 DEF CarriedTo, Value, HostOf
    <3> QED BY <1>0, <3>1, <3>2, CarriedIsValue
  <2> QED BY <2>1, <2>2 DEF EgressInv, NothingUncounted
<1>8. AdmittedWithinBudget'
  BY <1>1, <1>3 DEF EgressInv, AdmittedWithinBudget, HostOf
<1> QED BY <1>5, <1>6, <1>7, <1>8 DEF EgressInv, NothingUncounted

\* Nothing has been asked for at the start.
LEMMA InitEgress == EgressInit => EgressInv
<1> SUFFICES ASSUME EgressInit PROVE EgressInv
  OBVIOUS
<1>1. NewConn \in ConnRows /\ NewConn.host = NoHost /\ NewConn.pc = "new" /\ ~NewConn.metered
  BY EgressNumbers DEF NewConn, ConnRows
<1>2. /\ conn \in [Conns -> ConnRows] /\ \A c \in Conns : conn[c] = NewConn /\ verdict[c] = "none"
  BY <1>1 DEF EgressInit
<1>3. EgressTypeOK
  <2>1. /\ sensitive \subseteq Sessions /\ proxyTokens \subseteq Sessions
        /\ egressDay \in 0..LastDay /\ daemons \in 0..MaxDaemons
    BY EgressNumbers DEF EgressInit
  <2>2. budget \in [Hosts -> [0..LastDay -> Nat]]
    BY DEF EgressInit
  <2>3. verdict \in [Conns -> {"none", "allowed", "allowlist", "sensitive", "budget", "error", "dns_rebind"}]
    BY DEF EgressInit
  <2> QED BY <1>2, <2>1, <2>2, <2>3 DEF EgressTypeOK, ConnRows
<1>4. \A c \in Conns : ConnOK(conn[c], verdict[c])
  BY <1>1, <1>2 DEF ConnOK
<1>5. ASSUME NEW h \in Hosts PROVE TotalBytes(h) >= SumOn(CarriedTo(h), Conns)
  <2>1. PICK f : f = CarriedTo(h)
    OBVIOUS
  <2>2. f \in [Conns -> Int] /\ \A c \in Conns : f[c] <= 0
    <3>1. f \in [Conns -> Int] /\ f = [c \in Conns |-> Value(h, conn[c], verdict[c])]
      BY <1>2, <2>1, CarriedIsValue
    <3>2. h # NoHost
      BY EgressAssumption
    <3>3. \A c \in Conns : Value(h, conn[c], verdict[c]) = 0
      BY <1>1, <1>2, <3>2 DEF Value
    <3> QED BY <3>1, <3>3
  <2>3. SumOn(f, Conns) <= 0 /\ SumOn(f, Conns) \in Int
    BY <2>2, EgressNumbers, SumSign, SumIsInteger
  <2>4. PICK b : b = budget[h]
    OBVIOUS
  <2>5. b = [d \in 0..LastDay |-> 0]
    BY <2>4 DEF EgressInit
  <2>6. SumOn(b, 0..LastDay) >= 0 /\ SumOn(b, 0..LastDay) \in Int
    <3>1. b \in [0..LastDay -> Int] /\ \A d \in 0..LastDay : b[d] >= 0
      BY <2>5
    <3> QED BY <3>1, EgressNumbers, SumSign, SumIsInteger
  <2> QED BY <2>1, <2>3, <2>4, <2>6 DEF TotalBytes
<1>6. AdmittedWithinBudget
  BY EgressNumbers DEF EgressInit, AdmittedWithinBudget
<1> QED BY <1>3, <1>4, <1>5, <1>6 DEF EgressInv, NothingUncounted

\* For any number of connections, hosts, days and restarts: a connection is
\* open only to an allowlisted host at a checked address, requests that say how
\* long they are stay within their host's day, and the budget counts at least
\* what went through.
THEOREM EgressIsKept == EgressSpec => []EgressIsAccounted
<1>1. EgressInv /\ [EgressNext]_egVars => EgressInv'
  <2> SUFFICES ASSUME EgressInv, [EgressNext]_egVars PROVE EgressInv'
    OBVIOUS
  <2> QED BY CheckStep, PinStep, CarryStep, MeterStep, AsideStep, RestartStep DEF EgressNext
<1>2. EgressInv => EgressIsAccounted
  BY DEF EgressInv, EgressIsAccounted, DialsOnlyChecked, ConnOK, HostOf
<1> QED BY <1>1, <1>2, InitEgress, PTL DEF EgressSpec

-----------------------------------------------------------------------------
(* The cost governor. *)

GovSafety == GovInit /\ [][GovNext]_govVars

Events == [call : Calls, day : Days, usage : Nat]

\* What a call is reserved at, what it used, and what an event says it used.
Estimated == [c \in Calls |-> EstUsd(c)]
UsedTokens(cl) == [c \in Calls |-> cl[c].usage]
UsedUsd(cl) == [c \in Calls |-> Usd(c, cl[c].usage)]
EventTokens == [e \in Events |-> e.usage]
EventUsd == [e \in Events |-> Usd(e.call, e.usage)]

\* Outstanding reservations: of a task, on a day, in a month.
HeldTokens(res, t) == SumOn(Estimate, {c \in Calls : res[c] # -1 /\ CallTask[c] = t})
HeldUsd(res, d) == SumOn(Estimated, {c \in Calls : res[c] = d})
HeldMonth(res, m) == SumOn(Estimated, {c \in Calls : res[c] # -1 /\ MonthOf(res[c]) = m})

\* Usage that is recorded and not ledgered yet: of a task, of calls admitted on
\* a day, in all.
WayTokens(cl, t) == SumOn(UsedTokens(cl), {c \in Calls : cl[c].pc = "ledger" /\ CallTask[c] = t})
WayFrom(cl, adm, d) == SumOn(UsedUsd(cl), {c \in Calls : cl[c].pc = "ledger" /\ adm[c] = d})
WayUsd(cl) == SumOn(UsedUsd(cl), {c \in Calls : cl[c].pc = "ledger"})

\* Usage in the ledger: of a task, on a day, of calls admitted on a day.
LogTokens(ms, t) == SumOn(EventTokens, {e \in ms : CallTask[e.call] = t})
LogOn(ms, d) == SumOn(EventUsd, {e \in ms : e.day = d})
LogFrom(ms, adm, d) == SumOn(EventUsd, {e \in ms : adm[e.call] = d})
LogUsd(ms) == SumOn([d \in Days |-> LogOn(ms, d)], Days)
DailyUsd(dl) == SumOn([d \in Days |-> dl[d].usd], Days)

\* Where a call is fixes what it holds: admitted before it is sent, reserved
\* for until its usage is recorded, and no callback before its last step.
CallOK(c, r, res, adm, hk, day) ==
    /\ res # -1 => res = adm /\ r.pc \in {"credential", "send", "stream", "release"}
    /\ adm <= day
    /\ r.pc = "new" => adm = -1 /\ r.attempt = 0
    /\ r.pc \in {"credential", "send", "stream"} => res # -1
    /\ r.pc = "ledger" => adm # -1
    /\ r.pc \in {"credential", "send"} => r.attempt < MaxInline
    /\ r.usage <= Estimate[c]
    /\ r.pc \in {"new", "credential", "send", "stream", "ledger"} => hk = {}
    /\ hk = {} \/ \E h \in hk : hk = {h}
    /\ "unreachable" \in hk => r.attempt = MaxInline

\* An event is of a call that was admitted before it and is about to return;
\* it has not been parked.
EventOK(e) ==
    /\ call[e.call].pc \in {"release", "done"}
    /\ reserved[e.call] = -1
    /\ admitted[e.call] # -1 /\ admitted[e.call] <= e.day /\ e.day <= today
    /\ "unreachable" \notin hooks[e.call]

PoolsAddUp ==
    /\ \A t \in CloudTasks : resTask[t] = HeldTokens(reserved, t)
    /\ \A d \in Days : resDay[d] = HeldUsd(reserved, d)
    /\ \A m \in Months : resMonth[m] = HeldMonth(reserved, m)

\* What the calls admitted on a day hold, have recorded and have ledgered is
\* within the budget; of today's, what is not held is part of the day's total,
\* which is why checking that total is enough.
DayAddsUp ==
    /\ \A d \in Days :
          HeldUsd(reserved, d) + WayFrom(call, admitted, d) + LogFrom(modelCalls, admitted, d)
             <= DailyBudget
    /\ WayFrom(call, admitted, today) + LogFrom(modelCalls, admitted, today) <= daily[today].usd

LedgerAddsUp ==
    /\ \A t \in CloudTasks : perTask[t] = LogTokens(modelCalls, t) + WayTokens(call, t)
    /\ DailyUsd(daily) = LogUsd(modelCalls) + WayUsd(call)

\* A warning that was raised is marked.
AlarmsMarked ==
    \A d \in Days, k \in AlarmKinds :
       alarms[d][k] <= 1 /\ (alarms[d][k] = 1 => k \in daily[d].logged)

GovInv ==
    /\ GovTypeOK /\ IsFiniteSet(modelCalls)
    /\ \A c \in Calls : CallOK(c, call[c], reserved[c], admitted[c], hooks[c], today)
    /\ \A e \in modelCalls : EventOK(e)
    /\ PoolsAddUp /\ TaskCeilingHolds /\ DayAddsUp /\ LedgerAddsUp /\ AlarmsMarked


\* Everything the sums run over is finite, and every value a number.
LEMMA GovNumbers ==
    /\ MaxDay \in Nat /\ IsFiniteSet(Days) /\ 0 \in Days /\ Days \subseteq Nat
    /\ \A d \in Days : MonthOf(d) \in Months
    /\ \A c \in Calls : Estimate[c] \in Nat /\ EstUsd(c) \in Nat /\ CallTask[c] \in CloudTasks
    /\ Estimated \in [Calls -> Nat] /\ Estimate \in [Calls -> Nat]
    /\ {TaskTokenCeiling, DailyBudget, MonthlyBudget} \subseteq Nat
    /\ MaxBoots \in Nat /\ MaxInline \in Nat /\ MaxInline >= 1
    /\ \A S \in SUBSET Calls : IsFiniteSet(S)
<1>1. MaxDay \in Nat /\ Days = 0..MaxDay /\ IsFiniteSet(0..MaxDay)
  <2>1. MaxDay \in Nat
    BY GovernorAssumption
  <2> QED BY <2>1, FS_Interval DEF Days
<1>2. \A c \in Calls : Estimate[c] \in Nat /\ EstUsd(c) \in Nat /\ CallTask[c] \in CloudTasks
  BY GovernorAssumption DEF EstUsd, Usd
<1>3. Estimated \in [Calls -> Nat]
  BY <1>2 DEF Estimated
<1>4. \A S \in SUBSET Calls : IsFiniteSet(S)
  BY GovernorAssumption, FS_Subset
<1>5. \A d \in Days : MonthOf(d) \in Months
  BY DEF Months
<1> QED BY <1>1, <1>2, <1>3, <1>4, <1>5, GovernorAssumption

\* A call more adds its value, and no sum of naturals is negative.
LEMMA CallMore ==
    ASSUME NEW v \in [Calls -> Nat], NEW S \in SUBSET Calls, NEW c \in Calls, c \notin S
    PROVE  SumOn(v, S \cup {c}) = SumOn(v, S) + v[c] /\ SumOn(v, S) \in Nat
<1>1. IsFiniteSet(S) /\ \A x \in S : v[x] \in Nat /\ v[x] \in Int
  BY GovNumbers
<1>2. SumOn(v, S) \in Nat
  BY <1>1, SumGrows
<1>3. v[c] \in Int
  OBVIOUS
<1>4. \A x \in S : v[x] \in Int
  BY <1>1
<1>5. SumOn(v, S \cup {c}) = SumOn(v, S) + v[c]
  BY <1>1, <1>3, <1>4, SumInsert
<1> QED BY <1>2, <1>5

\* A sum over calls of naturals is one.
LEMMA CallSums ==
    ASSUME NEW v \in [Calls -> Nat], NEW S \in SUBSET Calls
    PROVE  SumOn(v, S) \in Nat
<1>1. IsFiniteSet(S) /\ \A x \in S : v[x] \in Nat
  BY GovNumbers
<1> QED BY <1>1, SumGrows

\* One reservation: from without to with, res to more.
LEMMA HoldOne ==
    ASSUME NEW res \in [Calls -> Days \cup {-1}], NEW more \in [Calls -> Days \cup {-1}],
           NEW c \in Calls, NEW d \in Days, res[c] = -1, more[c] = d,
           \A x \in Calls : x # c => more[x] = res[x]
    PROVE  /\ \A t \in CloudTasks :
                 /\ HeldTokens(res, t) \in Nat
                 /\ HeldTokens(more, t) =
                      IF CallTask[c] = t THEN HeldTokens(res, t) + Estimate[c] ELSE HeldTokens(res, t)
           /\ \A y \in Days :
                 /\ HeldUsd(res, y) \in Nat
                 /\ HeldUsd(more, y) = IF y = d THEN HeldUsd(res, y) + EstUsd(c) ELSE HeldUsd(res, y)
           /\ \A m \in Months :
                 /\ HeldMonth(res, m) \in Nat
                 /\ HeldMonth(more, m) =
                      IF MonthOf(d) = m THEN HeldMonth(res, m) + EstUsd(c) ELSE HeldMonth(res, m)
<1>0. -1 \notin Days /\ Estimated[c] = EstUsd(c)
  BY GovNumbers DEF Estimated
<1>1. ASSUME NEW t \in CloudTasks
      PROVE  /\ HeldTokens(res, t) \in Nat
             /\ HeldTokens(more, t) =
                  IF CallTask[c] = t THEN HeldTokens(res, t) + Estimate[c] ELSE HeldTokens(res, t)
  <2> DEFINE A == {x \in Calls : res[x] # -1 /\ CallTask[x] = t}
             B == {x \in Calls : more[x] # -1 /\ CallTask[x] = t}
  <2>1. c \notin A /\ A \in SUBSET Calls
    OBVIOUS
  <2>2. CallTask[c] = t => B = A \cup {c}
    BY <1>0
  <2>3. CallTask[c] # t => B = A
    OBVIOUS
  <2> HIDE DEF A, B
  <2>4. SumOn(Estimate, A \cup {c}) = SumOn(Estimate, A) + Estimate[c] /\ SumOn(Estimate, A) \in Nat
    BY <2>1, GovNumbers, CallMore
  <2>5. HeldTokens(res, t) = SumOn(Estimate, A) /\ HeldTokens(more, t) = SumOn(Estimate, B)
    BY DEF HeldTokens, A, B
  <2> QED BY <2>2, <2>3, <2>4, <2>5
<1>2. ASSUME NEW y \in Days
      PROVE  /\ HeldUsd(res, y) \in Nat
             /\ HeldUsd(more, y) = IF y = d THEN HeldUsd(res, y) + EstUsd(c) ELSE HeldUsd(res, y)
  <2> DEFINE A == {x \in Calls : res[x] = y}
             B == {x \in Calls : more[x] = y}
  <2>1. c \notin A /\ A \in SUBSET Calls
    BY <1>0
  <2>2. y = d => B = A \cup {c}
    OBVIOUS
  <2>3. y # d => B = A
    BY <1>0
  <2> HIDE DEF A, B
  <2>4. SumOn(Estimated, A \cup {c}) = SumOn(Estimated, A) + EstUsd(c) /\ SumOn(Estimated, A) \in Nat
    BY <1>0, <2>1, GovNumbers, CallMore
  <2>5. HeldUsd(res, y) = SumOn(Estimated, A) /\ HeldUsd(more, y) = SumOn(Estimated, B)
    BY DEF HeldUsd, A, B
  <2> QED BY <2>2, <2>3, <2>4, <2>5
<1>3. ASSUME NEW m \in Months
      PROVE  /\ HeldMonth(res, m) \in Nat
             /\ HeldMonth(more, m) =
                  IF MonthOf(d) = m THEN HeldMonth(res, m) + EstUsd(c) ELSE HeldMonth(res, m)
  <2> DEFINE A == {x \in Calls : res[x] # -1 /\ MonthOf(res[x]) = m}
             B == {x \in Calls : more[x] # -1 /\ MonthOf(more[x]) = m}
  <2>1. c \notin A /\ A \in SUBSET Calls
    OBVIOUS
  <2>2. MonthOf(d) = m => B = A \cup {c}
    BY <1>0
  <2>3. MonthOf(d) # m => B = A
    BY <1>0
  <2> HIDE DEF A, B
  <2>4. SumOn(Estimated, A \cup {c}) = SumOn(Estimated, A) + EstUsd(c) /\ SumOn(Estimated, A) \in Nat
    BY <1>0, <2>1, GovNumbers, CallMore
  <2>5. HeldMonth(res, m) = SumOn(Estimated, A) /\ HeldMonth(more, m) = SumOn(Estimated, B)
    BY DEF HeldMonth, A, B
  <2> QED BY <2>2, <2>3, <2>4, <2>5
<1> QED BY <1>1, <1>2, <1>3

\* Calls that agree on what is recorded and not ledgered have the same sums.
AgreeOnWay(cl, cm, adm, an) ==
    \A x \in Calls :
       /\ cm[x].pc = "ledger" <=> cl[x].pc = "ledger"
       /\ cl[x].pc = "ledger" =>
             cl[x].usage \in Nat /\ cm[x].usage = cl[x].usage /\ an[x] = adm[x]

\* Their sums are the same, whatever moved elsewhere.
LEMMA SameWay ==
    ASSUME NEW cl, NEW cm, NEW adm, NEW an, AgreeOnWay(cl, cm, adm, an)
    PROVE  /\ \A t \in CloudTasks : WayTokens(cm, t) = WayTokens(cl, t)
           /\ \A d \in Days : WayFrom(cm, an, d) = WayFrom(cl, adm, d)
           /\ WayUsd(cm) = WayUsd(cl)
<1>1. ASSUME NEW S \in SUBSET Calls, \A x \in S : cl[x].pc = "ledger"
      PROVE  /\ SumOn(UsedTokens(cm), S) = SumOn(UsedTokens(cl), S)
             /\ SumOn(UsedUsd(cm), S) = SumOn(UsedUsd(cl), S)
  <2>0. IsFiniteSet(S)
    BY GovNumbers
  <2>1. \A x \in S : UsedTokens(cl)[x] \in Int /\ UsedTokens(cm)[x] = UsedTokens(cl)[x]
    BY <1>1 DEF UsedTokens, AgreeOnWay
  <2>2. \A x \in S : UsedUsd(cl)[x] \in Int /\ UsedUsd(cm)[x] = UsedUsd(cl)[x]
    BY <1>1 DEF UsedUsd, Usd, AgreeOnWay
  <2> QED BY <2>0, <2>1, <2>2, SumSame
<1>2. ASSUME NEW t \in CloudTasks PROVE WayTokens(cm, t) = WayTokens(cl, t)
  <2>1. {c \in Calls : cm[c].pc = "ledger" /\ CallTask[c] = t}
          = {c \in Calls : cl[c].pc = "ledger" /\ CallTask[c] = t}
    BY DEF AgreeOnWay
  <2> QED BY <1>1, <2>1 DEF WayTokens
<1>3. ASSUME NEW d \in Days PROVE WayFrom(cm, an, d) = WayFrom(cl, adm, d)
  <2>1. {c \in Calls : cm[c].pc = "ledger" /\ an[c] = d}
          = {c \in Calls : cl[c].pc = "ledger" /\ adm[c] = d}
    BY DEF AgreeOnWay
  <2> QED BY <1>1, <2>1 DEF WayFrom
<1>4. WayUsd(cm) = WayUsd(cl)
  <2>1. {c \in Calls : cm[c].pc = "ledger"} = {c \in Calls : cl[c].pc = "ledger"}
    BY DEF AgreeOnWay
  <2> QED BY <1>1, <2>1 DEF WayUsd
<1> QED BY <1>2, <1>3, <1>4

\* One call between recording and ledger: cl is without it, cm with it.
OneOnWay(cl, cm, c) ==
    /\ cl[c].pc # "ledger" /\ cm[c].pc = "ledger"
    /\ \A x \in Calls : cl[x].usage \in Nat /\ cm[x].usage \in Nat
    /\ \A x \in Calls : x # c => cm[x].pc = cl[x].pc /\ cm[x].usage = cl[x].usage

\* What it adds to the sums.
WayGains(cl, cm, adm, c) ==
    /\ \A t \in CloudTasks :
          /\ WayTokens(cl, t) \in Nat
          /\ WayTokens(cm, t) =
               IF CallTask[c] = t THEN WayTokens(cl, t) + cm[c].usage ELSE WayTokens(cl, t)
    /\ \A d \in Days :
          /\ WayFrom(cl, adm, d) \in Nat
          /\ WayFrom(cm, adm, d) =
               IF adm[c] = d THEN WayFrom(cl, adm, d) + Usd(c, cm[c].usage) ELSE WayFrom(cl, adm, d)
    /\ WayUsd(cl) \in Nat /\ WayUsd(cm) = WayUsd(cl) + Usd(c, cm[c].usage)

\* A call that begins to wait for the ledger adds what it used.
LEMMA OnTheWay ==
    ASSUME NEW cl, NEW cm, NEW adm, NEW c \in Calls, OneOnWay(cl, cm, c)
    PROVE  WayGains(cl, cm, adm, c)
<1> USE DEF OneOnWay
<1>0. UsedTokens(cm) \in [Calls -> Nat] /\ UsedUsd(cm) \in [Calls -> Nat]
        /\ UsedTokens(cm)[c] = cm[c].usage /\ UsedUsd(cm)[c] = Usd(c, cm[c].usage)
  BY DEF UsedTokens, UsedUsd, Usd
<1>1. ASSUME NEW S \in SUBSET Calls, c \notin S
      PROVE  /\ SumOn(UsedTokens(cm), S) = SumOn(UsedTokens(cl), S)
             /\ SumOn(UsedUsd(cm), S) = SumOn(UsedUsd(cl), S)
  <2>0. IsFiniteSet(S) /\ \A x \in S : x \in Calls /\ x # c
    BY <1>1, GovNumbers
  <2>1. \A x \in S : UsedTokens(cl)[x] \in Int /\ UsedTokens(cm)[x] = UsedTokens(cl)[x]
    BY <2>0 DEF UsedTokens
  <2>2. \A x \in S : UsedUsd(cl)[x] \in Int /\ UsedUsd(cm)[x] = UsedUsd(cl)[x]
    BY <2>0 DEF UsedUsd, Usd
  <2> QED BY <2>0, <2>1, <2>2, SumSame
<1>2. ASSUME NEW S \in SUBSET Calls, c \notin S
      PROVE  /\ SumOn(UsedTokens(cl), S) \in Nat /\ SumOn(UsedUsd(cl), S) \in Nat
             /\ SumOn(UsedTokens(cm), S \cup {c}) = SumOn(UsedTokens(cl), S) + cm[c].usage
             /\ SumOn(UsedUsd(cm), S \cup {c}) = SumOn(UsedUsd(cl), S) + Usd(c, cm[c].usage)
  <2>1. /\ SumOn(UsedTokens(cm), S \cup {c}) = SumOn(UsedTokens(cm), S) + cm[c].usage
        /\ SumOn(UsedTokens(cm), S) \in Nat
    BY <1>0, <1>2, CallMore
  <2>2. /\ SumOn(UsedUsd(cm), S \cup {c}) = SumOn(UsedUsd(cm), S) + Usd(c, cm[c].usage)
        /\ SumOn(UsedUsd(cm), S) \in Nat
    BY <1>0, <1>2, CallMore
  <2> QED BY <1>1, <1>2, <2>1, <2>2
<1>3. ASSUME NEW t \in CloudTasks
      PROVE  /\ WayTokens(cl, t) \in Nat
             /\ WayTokens(cm, t) =
                  IF CallTask[c] = t THEN WayTokens(cl, t) + cm[c].usage ELSE WayTokens(cl, t)
  <2> DEFINE A == {x \in Calls : cl[x].pc = "ledger" /\ CallTask[x] = t}
             B == {x \in Calls : cm[x].pc = "ledger" /\ CallTask[x] = t}
  <2>1. c \notin A /\ A \in SUBSET Calls
    OBVIOUS
  <2>2. /\ CallTask[c] = t => B = A \cup {c}
        /\ CallTask[c] # t => B = A
    OBVIOUS
  <2>3. WayTokens(cl, t) = SumOn(UsedTokens(cl), A) /\ WayTokens(cm, t) = SumOn(UsedTokens(cm), B)
    BY DEF WayTokens
  <2> HIDE DEF A, B
  <2> QED BY <1>1, <1>2, <2>1, <2>2, <2>3
<1>4. ASSUME NEW d \in Days
      PROVE  /\ WayFrom(cl, adm, d) \in Nat
             /\ WayFrom(cm, adm, d) =
                  IF adm[c] = d THEN WayFrom(cl, adm, d) + Usd(c, cm[c].usage)
                                ELSE WayFrom(cl, adm, d)
  <2> DEFINE A == {x \in Calls : cl[x].pc = "ledger" /\ adm[x] = d}
             B == {x \in Calls : cm[x].pc = "ledger" /\ adm[x] = d}
  <2>1. c \notin A /\ A \in SUBSET Calls
    OBVIOUS
  <2>2. /\ adm[c] = d => B = A \cup {c}
        /\ adm[c] # d => B = A
    OBVIOUS
  <2>3. WayFrom(cl, adm, d) = SumOn(UsedUsd(cl), A) /\ WayFrom(cm, adm, d) = SumOn(UsedUsd(cm), B)
    BY DEF WayFrom
  <2> HIDE DEF A, B
  <2> QED BY <1>1, <1>2, <2>1, <2>2, <2>3
<1>5. WayUsd(cl) \in Nat /\ WayUsd(cm) = WayUsd(cl) + Usd(c, cm[c].usage)
  <2> DEFINE A == {x \in Calls : cl[x].pc = "ledger"}
             B == {x \in Calls : cm[x].pc = "ledger"}
  <2>1. c \notin A /\ A \in SUBSET Calls /\ B = A \cup {c}
    OBVIOUS
  <2>3. WayUsd(cl) = SumOn(UsedUsd(cl), A) /\ WayUsd(cm) = SumOn(UsedUsd(cm), B)
    BY DEF WayUsd
  <2> HIDE DEF A, B
  <2> QED BY <1>2, <2>1, <2>3
<1> QED BY <1>3, <1>4, <1>5 DEF WayGains

\* Sums over the ledger are naturals.
LEMMA LogNumbers ==
    ASSUME NEW ms \in SUBSET Events, IsFiniteSet(ms)
    PROVE  /\ EventTokens \in [Events -> Nat] /\ EventUsd \in [Events -> Nat]
           /\ \A S \in SUBSET ms :
                 /\ IsFiniteSet(S)
                 /\ SumOn(EventTokens, S) \in Nat /\ SumOn(EventUsd, S) \in Nat
                 /\ \A T \in SUBSET S : SumOn(EventUsd, T) <= SumOn(EventUsd, S)
<1>1. EventTokens \in [Events -> Nat] /\ EventUsd \in [Events -> Nat]
  BY DEF EventTokens, EventUsd, Events, Usd
<1>2. ASSUME NEW S \in SUBSET ms
      PROVE  /\ IsFiniteSet(S)
             /\ SumOn(EventTokens, S) \in Nat /\ SumOn(EventUsd, S) \in Nat
             /\ \A T \in SUBSET S : SumOn(EventUsd, T) <= SumOn(EventUsd, S)
  <2>1. IsFiniteSet(S)
    BY FS_Subset
  <2>2. \A x \in S : EventTokens[x] \in Nat
    BY <1>1
  <2>3. \A x \in S : EventUsd[x] \in Nat
    BY <1>1
  <2>4. S \in SUBSET S
    OBVIOUS
  <2>5. SumOn(EventTokens, S) \in Nat
    BY <2>1, <2>2, <2>4, SumGrows
  <2>6. ASSUME NEW T \in SUBSET S
        PROVE  SumOn(EventUsd, T) <= SumOn(EventUsd, S) /\ SumOn(EventUsd, T) \in Nat
    BY <2>1, <2>3, SumGrows
  <2> QED BY <2>1, <2>4, <2>5, <2>6
<1> QED BY <1>1, <1>2

\* What one event more adds to the sums.
LogGains(ms, adm, e) ==
    /\ \A t \in CloudTasks :
          /\ LogTokens(ms, t) \in Nat
          /\ LogTokens(ms \cup {e}, t) =
               IF CallTask[e.call] = t THEN LogTokens(ms, t) + e.usage ELSE LogTokens(ms, t)
    /\ \A d \in Days :
          /\ LogFrom(ms, adm, d) \in Nat
          /\ LogFrom(ms \cup {e}, adm, d) =
               IF adm[e.call] = d THEN LogFrom(ms, adm, d) + Usd(e.call, e.usage)
                                  ELSE LogFrom(ms, adm, d)
    /\ LogUsd(ms) \in Int /\ LogUsd(ms \cup {e}) = LogUsd(ms) + Usd(e.call, e.usage)

\* An event more adds its usage to its task, its day and its call's day.
LEMMA LogMore ==
    ASSUME NEW ms \in SUBSET Events, IsFiniteSet(ms), NEW e \in Events, e \notin ms, NEW adm
    PROVE  LogGains(ms, adm, e)
<1>0. /\ EventTokens[e] = e.usage /\ EventUsd[e] = Usd(e.call, e.usage)
      /\ e.usage \in Nat /\ Usd(e.call, e.usage) \in Nat /\ e.day \in Days
  BY DEF EventTokens, EventUsd, Events, Usd
<1>1. ASSUME NEW S \in SUBSET ms
      PROVE  /\ SumOn(EventTokens, S) \in Nat /\ SumOn(EventUsd, S) \in Nat
             /\ SumOn(EventTokens, S \cup {e}) = SumOn(EventTokens, S) + e.usage
             /\ SumOn(EventUsd, S \cup {e}) = SumOn(EventUsd, S) + Usd(e.call, e.usage)
  <2>1. IsFiniteSet(S) /\ SumOn(EventTokens, S) \in Nat /\ SumOn(EventUsd, S) \in Nat
    BY LogNumbers
  <2>2. \A x \in S : EventTokens[x] \in Int /\ EventUsd[x] \in Int
    BY LogNumbers
  <2>3. e \notin S /\ EventTokens[e] \in Int /\ EventUsd[e] \in Int
    BY <1>0
  <2>4. SumOn(EventTokens, S \cup {e}) = SumOn(EventTokens, S) + EventTokens[e]
    BY <2>1, <2>2, <2>3, SumInsert
  <2>5. SumOn(EventUsd, S \cup {e}) = SumOn(EventUsd, S) + EventUsd[e]
    BY <2>1, <2>2, <2>3, SumInsert
  <2> QED BY <1>0, <2>1, <2>4, <2>5
<1>2. ASSUME NEW t \in CloudTasks
      PROVE  /\ LogTokens(ms, t) \in Nat
             /\ LogTokens(ms \cup {e}, t) =
                  IF CallTask[e.call] = t THEN LogTokens(ms, t) + e.usage ELSE LogTokens(ms, t)
  <2> DEFINE A == {x \in ms : CallTask[x.call] = t}
             B == {x \in ms \cup {e} : CallTask[x.call] = t}
  <2>1. A \in SUBSET ms
    OBVIOUS
  <2>2. /\ CallTask[e.call] = t => B = A \cup {e}
        /\ CallTask[e.call] # t => B = A
    OBVIOUS
  <2>3. LogTokens(ms, t) = SumOn(EventTokens, A) /\ LogTokens(ms \cup {e}, t) = SumOn(EventTokens, B)
    BY DEF LogTokens
  <2> HIDE DEF A, B
  <2> QED BY <1>1, <2>1, <2>2, <2>3
<1>3. ASSUME NEW d \in Days
      PROVE  /\ LogFrom(ms, adm, d) \in Nat
             /\ LogFrom(ms \cup {e}, adm, d) =
                  IF adm[e.call] = d THEN LogFrom(ms, adm, d) + Usd(e.call, e.usage)
                                     ELSE LogFrom(ms, adm, d)
  <2> DEFINE A == {x \in ms : adm[x.call] = d}
             B == {x \in ms \cup {e} : adm[x.call] = d}
  <2>1. A \in SUBSET ms
    OBVIOUS
  <2>2. /\ adm[e.call] = d => B = A \cup {e}
        /\ adm[e.call] # d => B = A
    OBVIOUS
  <2>3. LogFrom(ms, adm, d) = SumOn(EventUsd, A) /\ LogFrom(ms \cup {e}, adm, d) = SumOn(EventUsd, B)
    BY DEF LogFrom
  <2> HIDE DEF A, B
  <2> QED BY <1>1, <2>1, <2>2, <2>3
<1>4. ASSUME NEW d \in Days
      PROVE  /\ LogOn(ms, d) \in Nat
             /\ LogOn(ms \cup {e}, d) =
                  IF e.day = d THEN LogOn(ms, d) + Usd(e.call, e.usage) ELSE LogOn(ms, d)
  <2> DEFINE A == {x \in ms : x.day = d}
             B == {x \in ms \cup {e} : x.day = d}
  <2>1. A \in SUBSET ms
    OBVIOUS
  <2>2. /\ e.day = d => B = A \cup {e}
        /\ e.day # d => B = A
    OBVIOUS
  <2>3. LogOn(ms, d) = SumOn(EventUsd, A) /\ LogOn(ms \cup {e}, d) = SumOn(EventUsd, B)
    BY DEF LogOn
  <2> HIDE DEF A, B
  <2> QED BY <1>1, <2>1, <2>2, <2>3
<1>5. LogUsd(ms) \in Int /\ LogUsd(ms \cup {e}) = LogUsd(ms) + Usd(e.call, e.usage)
  <2>1. PICK p : p = [d \in Days |-> LogOn(ms, d)]
    OBVIOUS
  <2>2. PICK q : q = [d \in Days |-> LogOn(ms \cup {e}, d)]
    OBVIOUS
  <2>3. p \in [Days -> Int]
    BY <1>4, <2>1
  <2>4. q \in [Days -> Int] /\ \A d \in Days \ {e.day} : q[d] = p[d]
    BY <1>0, <1>4, <2>1, <2>2
  <2>5. q[e.day] = p[e.day] + Usd(e.call, e.usage) /\ p[e.day] \in Int
    <3>1. p[e.day] = LogOn(ms, e.day) /\ q[e.day] = LogOn(ms \cup {e}, e.day)
      BY <1>0, <2>1, <2>2
    <3>2. LogOn(ms, e.day) \in Nat
            /\ LogOn(ms \cup {e}, e.day) = LogOn(ms, e.day) + Usd(e.call, e.usage)
      BY <1>0, <1>4
    <3> QED BY <3>1, <3>2
  <2>6. SumOn(q, Days) = SumOn(p, Days) + q[e.day] - p[e.day] /\ SumOn(p, Days) \in Int
    <3>1. IsFiniteSet(Days) /\ e.day \in Days
      BY <1>0, GovNumbers
    <3>2. SumOn(p, Days) \in Int
      BY <2>3, <3>1, SumIsInteger
    <3>3. SumOn(q, Days) = SumOn(p, Days) + q[e.day] - p[e.day]
      BY <2>3, <2>4, <3>1, SumChange
    <3> QED BY <3>2, <3>3
  <2>7. LogUsd(ms) = SumOn(p, Days) /\ LogUsd(ms \cup {e}) = SumOn(q, Days)
    BY <2>1, <2>2 DEF LogUsd
  <2> QED BY <1>0, <2>5, <2>6, <2>7
<1> QED BY <1>2, <1>3, <1>5 DEF LogGains

\* The sums of the invariant are naturals.
LEMMA BookNumbers ==
    ASSUME NEW cl, \A x \in Calls : cl[x].usage \in Nat, NEW adm,
           NEW ms \in SUBSET Events, IsFiniteSet(ms), NEW d
    PROVE  WayFrom(cl, adm, d) \in Nat /\ LogFrom(ms, adm, d) \in Nat
<1>1. UsedUsd(cl) \in [Calls -> Nat]
  BY DEF UsedUsd, Usd
<1>2. WayFrom(cl, adm, d) \in Nat
  BY <1>1, CallSums DEF WayFrom
<1>3. {e \in ms : adm[e.call] = d} \in SUBSET ms
  OBVIOUS
<1>4. LogFrom(ms, adm, d) \in Nat
  BY <1>3, LogNumbers DEF LogFrom
<1> QED BY <1>2, <1>4

\* What the days of the ledger sum to is an integer.
LEMMA LogUsdNumber ==
    ASSUME NEW ms \in SUBSET Events, IsFiniteSet(ms)
    PROVE  LogUsd(ms) \in Int
<1>1. PICK p : p = [d \in Days |-> LogOn(ms, d)]
  OBVIOUS
<1>2. ASSUME NEW d \in Days PROVE LogOn(ms, d) \in Int
  <2>1. {e \in ms : e.day = d} \in SUBSET ms
    OBVIOUS
  <2> QED BY <2>1, LogNumbers DEF LogOn
<1>3. p \in [Days -> Int]
  BY <1>1, <1>2
<1>4. SumOn(p, Days) \in Int
  BY <1>3, GovNumbers, SumIsInteger
<1> QED BY <1>1, <1>4 DEF LogUsd


GovPcs == {"new", "credential", "send", "stream", "ledger", "release", "done"}
GovHooks == {"paused", "keychain", "unreachable", "failed"}
CallRows == [pc : GovPcs, attempt : 0..MaxInline, usage : Nat, failed : BOOLEAN]

\* The types, by parts.
TotalTypes ==
    /\ perTask \in [CloudTasks -> Nat]
    /\ daily \in [Days -> [usd : Nat, calls : Nat, logged : SUBSET AlarmKinds]]
    /\ monthly \in [Months -> Nat]
PoolTypes ==
    /\ reserved \in [Calls -> Days \cup {-1}] /\ resTask \in [CloudTasks -> Nat]
    /\ resDay \in [Days -> Nat] /\ resMonth \in [Months -> Nat]
CallTypes ==
    /\ call \in [Calls -> CallRows] /\ hooks \in [Calls -> SUBSET GovHooks]
    /\ admitted \in [Calls -> Days \cup {-1}]
RestTypes ==
    /\ today \in Days /\ modelCalls \in SUBSET Events
    /\ warned \subseteq CloudTasks /\ boots \in 0..MaxBoots
    /\ alarms \in [Days -> [AlarmKinds -> Nat]]

\* The type invariant by the parts the steps need, before and after a step.
LEMMA GovTypes ==
    /\ GovTypeOK <=> TotalTypes /\ PoolTypes /\ CallTypes /\ RestTypes
    /\ GovTypeOK' <=> TotalTypes' /\ PoolTypes' /\ CallTypes' /\ RestTypes'
BY DEF GovTypeOK, TotalTypes, PoolTypes, CallTypes, RestTypes, CallRows, GovPcs, GovHooks, Events

\* What is said of one call when another moves.
LEMMA OthersStay ==
    ASSUME GovInv, NEW c \in Calls, today' = today,
           CallOK(c, call'[c], reserved'[c], admitted'[c], hooks'[c], today),
           \A x \in Calls : x # c =>
              /\ call'[x] = call[x] /\ hooks'[x] = hooks[x]
              /\ reserved'[x] = reserved[x] /\ admitted'[x] = admitted[x]
    PROVE  \A x \in Calls : CallOK(x, call'[x], reserved'[x], admitted'[x], hooks'[x], today')
<1>1. ASSUME NEW x \in Calls
      PROVE  CallOK(x, call'[x], reserved'[x], admitted'[x], hooks'[x], today')
  <2>1. CASE x = c
    BY <2>1
  <2>2. CASE x # c
    <3>1. CallOK(x, call[x], reserved[x], admitted[x], hooks[x], today)
      BY DEF GovInv
    <3> QED BY <2>2, <3>1
  <2> QED BY <2>1, <2>2
<1> QED BY <1>1

\* A step that moves one call and touches no total, pool or event.
LEMMA CallMoves ==
    ASSUME GovInv, NEW c \in Calls, NEW r \in CallRows, NEW hk \in SUBSET GovHooks,
           call' = [call EXCEPT ![c] = r], hooks' = [hooks EXCEPT ![c] = hk],
           call[c].pc \notin {"ledger", "release", "done"}, r.pc # "ledger",
           CallOK(c, r, reserved[c], admitted[c], hk, today),
           warned' \subseteq CloudTasks,
           UNCHANGED <<govTotals, govPools, today, modelCalls, boots, admitted, alarms>>
    PROVE  GovInv'
<1>0. TotalTypes /\ PoolTypes /\ CallTypes /\ RestTypes
  BY GovTypes DEF GovInv
<1>1. /\ UNCHANGED <<perTask, daily, monthly, reserved, resTask, resDay, resMonth, today>>
      /\ UNCHANGED <<modelCalls, boots, admitted, alarms>>
  BY DEF govTotals, govPools
<1>2. GovTypeOK'
  <2>1. TotalTypes' /\ PoolTypes'
    BY <1>0, <1>1 DEF TotalTypes, PoolTypes
  <2>2. CallTypes'
    BY <1>0, <1>1 DEF CallTypes
  <2>3. RestTypes'
    BY <1>0, <1>1 DEF RestTypes
  <2> QED BY <2>1, <2>2, <2>3, GovTypes
<1>3. \A x \in Calls : CallOK(x, call'[x], reserved'[x], admitted'[x], hooks'[x], today')
  <2>1. CallOK(c, call'[c], reserved'[c], admitted'[c], hooks'[c], today)
    BY <1>0, <1>1 DEF CallTypes
  <2>2. \A x \in Calls : x # c =>
           /\ call'[x] = call[x] /\ hooks'[x] = hooks[x]
           /\ reserved'[x] = reserved[x] /\ admitted'[x] = admitted[x]
    BY <1>0, <1>1 DEF CallTypes
  <2> QED BY <1>1, <2>1, <2>2, OthersStay
<1>4. ASSUME NEW x \in Calls
      PROVE  /\ call'[x].pc = "ledger" <=> call[x].pc = "ledger"
             /\ call[x].pc = "ledger" =>
                  call[x].usage \in Nat /\ call'[x].usage = call[x].usage /\ admitted'[x] = admitted[x]
             /\ x # c => call'[x] = call[x] /\ hooks'[x] = hooks[x]
  BY <1>0, <1>1 DEF CallTypes, CallRows
<1>5. /\ \A t \in CloudTasks : WayTokens(call', t) = WayTokens(call, t)
      /\ \A d \in Days : WayFrom(call', admitted', d) = WayFrom(call, admitted, d)
      /\ WayUsd(call') = WayUsd(call)
  <2>1. AgreeOnWay(call, call', admitted, admitted')
    BY <1>4 DEF AgreeOnWay
  <2>2. \A t \in CloudTasks : WayTokens(call', t) = WayTokens(call, t)
    BY <2>1, SameWay
  <2>3. \A d \in Days : WayFrom(call', admitted', d) = WayFrom(call, admitted, d)
    BY <2>1, SameWay
  <2>4. WayUsd(call') = WayUsd(call)
    BY <2>1, SameWay
  <2> QED BY <2>2, <2>3, <2>4
<1>6. ASSUME NEW e \in modelCalls' PROVE EventOK(e)'
  <2>1. EventOK(e) /\ e \in Events
    BY <1>0, <1>1 DEF GovInv, RestTypes
  <2>2. e.call \in Calls /\ e.call # c
    BY <2>1 DEF EventOK, Events
  <2> QED BY <1>1, <1>4, <2>1, <2>2 DEF EventOK
<1>7. PoolsAddUp' /\ TaskCeilingHolds' /\ AlarmsMarked'
  BY <1>1 DEF GovInv, PoolsAddUp, TaskCeilingHolds, AlarmsMarked
<1>8. DayAddsUp'
  <2>1. today \in Days
    BY <1>0 DEF RestTypes
  <2> QED BY <1>1, <1>5, <2>1 DEF GovInv, DayAddsUp
<1>9. LedgerAddsUp'
  BY <1>1, <1>5 DEF GovInv, LedgerAddsUp
<1> QED BY <1>1, <1>2, <1>3, <1>6, <1>7, <1>8, <1>9 DEF GovInv

\* Ways through a call that hold no books.
LEMMA PlainStep ==
    ASSUME GovInv, NEW c \in Calls,
           ServeRefused(c) \/ BudgetBlocked(c) \/ UpstreamAuth(c) \/ RoundTrip(c) \/ StreamAborted(c)
    PROVE  GovInv'
<1>0. TotalTypes /\ PoolTypes /\ CallTypes /\ RestTypes
  BY GovTypes DEF GovInv
<1>1. call[c] \in CallRows /\ hooks[c] \in SUBSET GovHooks
        /\ CallOK(c, call[c], reserved[c], admitted[c], hooks[c], today)
  BY <1>0 DEF GovInv, CallTypes
<1>2. hooks = [hooks EXCEPT ![c] = hooks[c]]
  BY <1>0 DEF CallTypes
<1>3. CASE ServeRefused(c)
  <2>1. PICK r : r = [call[c] EXCEPT !.pc = "done"]
    OBVIOUS
  <2>2. call' = [call EXCEPT ![c] = r] /\ hooks' = [hooks EXCEPT ![c] = hooks[c]]
    BY <1>2, <1>3, <2>1 DEF ServeRefused, CallGoto
  <2>3. call[c].pc = "new"
    BY <1>3 DEF ServeRefused, CallAt
  <2>4. r \in CallRows /\ r.pc = "done" /\ r.usage = call[c].usage /\ r.attempt = call[c].attempt
    BY <1>1, <2>1 DEF CallRows, GovPcs
  <2>5. CallOK(c, r, reserved[c], admitted[c], hooks[c], today)
    BY <1>1, <2>3, <2>4 DEF CallOK
  <2>6. /\ UNCHANGED <<govTotals, govPools, today, modelCalls, boots, admitted, alarms>>
        /\ warned' \subseteq CloudTasks
    BY <1>0, <1>3 DEF ServeRefused, RestTypes
  <2> QED BY <1>1, <2>2, <2>3, <2>4, <2>5, <2>6, CallMoves
<1>4. CASE BudgetBlocked(c)
  <2>1. PICK r : r = [call[c] EXCEPT !.pc = "done"]
    OBVIOUS
  <2>2. call[c].pc = "new"
    BY <1>4 DEF BudgetBlocked, CallAt
  <2>3. hooks[c] = {}
    BY <1>1, <2>2 DEF CallOK
  <2>4. call' = [call EXCEPT ![c] = r] /\ hooks' = [hooks EXCEPT ![c] = {"paused"}]
    BY <1>4, <2>1, <2>3 DEF BudgetBlocked, CallGoto
  <2>5. r \in CallRows /\ r.pc = "done" /\ r.usage = call[c].usage /\ r.attempt = call[c].attempt
    BY <1>1, <2>1 DEF CallRows, GovPcs
  <2>6. CallOK(c, r, reserved[c], admitted[c], {"paused"}, today)
    BY <1>1, <2>2, <2>5 DEF CallOK
  <2>7. /\ UNCHANGED <<govTotals, govPools, today, modelCalls, boots, admitted, alarms>>
        /\ warned' \subseteq CloudTasks /\ {"paused"} \in SUBSET GovHooks
    BY <1>0, <1>4 DEF BudgetBlocked, RestTypes, GovHooks
  <2> QED BY <2>2, <2>4, <2>5, <2>6, <2>7, CallMoves
<1>5. CASE UpstreamAuth(c)
  <2>1. call[c].pc = "credential"
    BY <1>5 DEF UpstreamAuth, CallAt
  <2>2. hooks[c] = {}
    BY <1>1, <2>1 DEF CallOK
  <2>3. UNCHANGED <<govTotals, govPools, today, modelCalls, boots, admitted, alarms>>
    BY <1>5 DEF UpstreamAuth
  <2>4. CASE CallGoto(c, "send") /\ UNCHANGED <<warned, hooks>>
    <3>1. PICK r : r = [call[c] EXCEPT !.pc = "send"]
      OBVIOUS
    <3>2. call' = [call EXCEPT ![c] = r] /\ hooks' = [hooks EXCEPT ![c] = hooks[c]]
      BY <1>2, <2>4, <3>1 DEF CallGoto
    <3>3. r \in CallRows /\ r.pc = "send" /\ r.usage = call[c].usage /\ r.attempt = call[c].attempt
      BY <1>1, <3>1 DEF CallRows, GovPcs
    <3>4. CallOK(c, r, reserved[c], admitted[c], hooks[c], today)
      BY <1>1, <2>1, <3>3 DEF CallOK
    <3>5. warned' \subseteq CloudTasks
      BY <1>0, <2>4 DEF RestTypes
    <3> QED BY <1>1, <2>1, <2>3, <3>2, <3>3, <3>4, <3>5, CallMoves
  <2>5. CASE /\ CallGoto(c, "release")
             /\ warned' = warned \cup {CallTask[c]}
             /\ hooks' = IF CallTask[c] \in warned THEN hooks
                         ELSE [hooks EXCEPT ![c] = @ \cup {"keychain"}]
    <3>1. PICK r : r = [call[c] EXCEPT !.pc = "release"]
      OBVIOUS
    <3>2. PICK hk : hk = IF CallTask[c] \in warned THEN {} ELSE {"keychain"}
      OBVIOUS
    <3>3. call' = [call EXCEPT ![c] = r]
      BY <2>5, <3>1 DEF CallGoto
    <3>4. hooks' = [hooks EXCEPT ![c] = hk]
      BY <1>2, <2>2, <2>5, <3>2
    <3>5. r \in CallRows /\ r.pc = "release" /\ r.usage = call[c].usage /\ r.attempt = call[c].attempt
      BY <1>1, <3>1 DEF CallRows, GovPcs
    <3>6. hk \in SUBSET GovHooks /\ hk \in {{}, {"keychain"}}
      BY <3>2 DEF GovHooks
    <3>7. CallOK(c, r, reserved[c], admitted[c], hk, today)
      BY <1>1, <2>1, <3>5, <3>6 DEF CallOK
    <3>8. warned' \subseteq CloudTasks
      BY <1>0, <2>5, GovNumbers DEF RestTypes
    <3> QED BY <2>1, <2>3, <3>3, <3>4, <3>5, <3>6, <3>7, <3>8, CallMoves
  <2> QED BY <1>5, <2>4, <2>5 DEF UpstreamAuth
<1>6. CASE RoundTrip(c)
  <2>1. call[c].pc = "send"
    BY <1>6 DEF RoundTrip, CallAt
  <2>2. hooks[c] = {} /\ call[c].attempt < MaxInline
    BY <1>1, <2>1 DEF CallOK
  <2>3. PICK outcome \in Outcomes :
          LET n == call[c].attempt + 1 IN
          /\ call' = [call EXCEPT ![c] =
                        [@ EXCEPT !.attempt = n,
                                  !.failed = outcome = "status",
                                  !.pc = CASE outcome \in {"ok", "status"} -> "stream"
                                           [] outcome = "retryable" /\ ~RetriesExhausted(n) -> "send"
                                           [] OTHER -> "release"]]
          /\ hooks' = [hooks EXCEPT ![c] = @ \cup UpstreamErrorHook(outcome, n)]
    BY <1>6 DEF RoundTrip
  <2>4. PICK n : n = call[c].attempt + 1
    OBVIOUS
  <2>5. n \in 0..MaxInline /\ (~RetriesExhausted(n) => n < MaxInline)
          /\ (RetriesExhausted(n) => n = MaxInline)
    BY <1>1, <2>2, <2>4, GovNumbers DEF CallRows, RetriesExhausted
  <2>6. PICK pc : pc = CASE outcome \in {"ok", "status"} -> "stream"
                         [] outcome = "retryable" /\ ~RetriesExhausted(n) -> "send"
                         [] OTHER -> "release"
    OBVIOUS
  <2>7. PICK r : r = [call[c] EXCEPT !.attempt = n, !.failed = outcome = "status", !.pc = pc]
    OBVIOUS
  <2>8. PICK hk : hk = UpstreamErrorHook(outcome, n)
    OBVIOUS
  <2>9. outcome \in {"ok", "retryable", "status", "transport"}
    BY DEF Outcomes
  <2>10. /\ pc \in {"stream", "send", "release"}
         /\ pc = "send" => n < MaxInline
         /\ pc # "release" => hk = {}
         /\ hk \in {{}, {"unreachable"}, {"failed"}}
         /\ "unreachable" \in hk => n = MaxInline
    <3>1. CASE outcome \in {"ok", "status"}
      BY <2>6, <2>8, <3>1 DEF UpstreamErrorHook
    <3>2. CASE outcome = "transport"
      BY <2>6, <2>8, <3>2 DEF UpstreamErrorHook
    <3>3. CASE outcome = "retryable" /\ RetriesExhausted(n)
      BY <2>5, <2>6, <2>8, <3>3 DEF UpstreamErrorHook
    <3>4. CASE outcome = "retryable" /\ ~RetriesExhausted(n)
      BY <2>5, <2>6, <2>8, <3>4 DEF UpstreamErrorHook
    <3> QED BY <2>9, <3>1, <3>2, <3>3, <3>4
  <2>11. call' = [call EXCEPT ![c] = r]
    BY <1>0, <2>3, <2>4, <2>6, <2>7 DEF CallTypes
  <2>12. hooks' = [hooks EXCEPT ![c] = hk]
    BY <2>2, <2>3, <2>4, <2>8
  <2>13. r \in CallRows /\ r.pc = pc /\ r.usage = call[c].usage /\ r.attempt = n
    BY <1>1, <2>5, <2>7, <2>10 DEF CallRows, GovPcs
  <2>14. hk \in SUBSET GovHooks
    BY <2>10 DEF GovHooks
  <2>15. CallOK(c, r, reserved[c], admitted[c], hk, today)
    BY <1>1, <2>1, <2>10, <2>13 DEF CallOK
  <2>16. /\ UNCHANGED <<govTotals, govPools, today, modelCalls, boots, admitted, alarms>>
         /\ warned' \subseteq CloudTasks
    BY <1>0, <1>6 DEF RoundTrip, RestTypes
  <2> QED BY <2>1, <2>10, <2>11, <2>12, <2>13, <2>14, <2>15, <2>16, CallMoves
<1>7. CASE StreamAborted(c)
  <2>1. PICK r : r = [call[c] EXCEPT !.pc = "release"]
    OBVIOUS
  <2>2. call' = [call EXCEPT ![c] = r] /\ hooks' = [hooks EXCEPT ![c] = hooks[c]]
    BY <1>2, <1>7, <2>1 DEF StreamAborted, CallGoto
  <2>3. call[c].pc = "stream"
    BY <1>7 DEF StreamAborted, CallAt
  <2>4. r \in CallRows /\ r.pc = "release" /\ r.usage = call[c].usage /\ r.attempt = call[c].attempt
    BY <1>1, <2>1 DEF CallRows, GovPcs
  <2>5. CallOK(c, r, reserved[c], admitted[c], hooks[c], today)
    BY <1>1, <2>3, <2>4 DEF CallOK
  <2>6. /\ UNCHANGED <<govTotals, govPools, today, modelCalls, boots, admitted, alarms>>
        /\ warned' \subseteq CloudTasks
    BY <1>0, <1>7 DEF StreamAborted, RestTypes
  <2> QED BY <1>1, <2>2, <2>3, <2>4, <2>5, <2>6, CallMoves
<1> QED BY <1>3, <1>4, <1>5, <1>6, <1>7


\* An admission: the call is reserved for on the day it is admitted, and the
\* check counted what the others hold and have cost.
LEMMA AdmitStep == ASSUME GovInv, NEW c \in Calls, CheckBeforeForward(c) PROVE GovInv'
<1>0. TotalTypes /\ PoolTypes /\ CallTypes /\ RestTypes
  BY GovTypes DEF GovInv
<1>1. /\ UNCHANGED <<perTask, daily, monthly, today, modelCalls, warned, boots, alarms, hooks>>
      /\ call[c].pc = "new" /\ WithinLimits(c) /\ ReserveLocked(c)
      /\ admitted' = [admitted EXCEPT ![c] = today]
  BY DEF CheckBeforeForward, govTotals, CallAt
<1>2. PICK r : r = [call[c] EXCEPT !.pc = IF Keychain THEN "credential" ELSE "send"]
  OBVIOUS
<1>3. call' = [call EXCEPT ![c] = r]
  BY <1>2 DEF CheckBeforeForward, CallGoto
<1>4. call[c] \in CallRows /\ CallOK(c, call[c], reserved[c], admitted[c], hooks[c], today)
  BY <1>0 DEF GovInv, CallTypes
<1>5. /\ r \in CallRows /\ r.pc \in {"credential", "send"}
      /\ r.usage = call[c].usage /\ r.attempt = call[c].attempt
  BY <1>2, <1>4 DEF CallRows, GovPcs
<1>6. /\ today \in Days /\ today \in Nat /\ today # -1 /\ MonthOf(today) \in Months
      /\ reserved[c] = -1 /\ admitted[c] = -1 /\ hooks[c] = {} /\ r.attempt = 0
  BY <1>0, <1>1, <1>4, <1>5, GovNumbers DEF RestTypes, CallOK
<1>7. /\ reserved' = [reserved EXCEPT ![c] = today]
      /\ resTask' = [resTask EXCEPT ![CallTask[c]] = resTask[CallTask[c]] + Estimate[c]]
      /\ resDay' = [resDay EXCEPT ![today] = resDay[today] + EstUsd(c)]
      /\ resMonth' = [resMonth EXCEPT ![MonthOf(today)] = resMonth[MonthOf(today)] + EstUsd(c)]
  BY <1>1 DEF ReserveLocked
<1>8. /\ call'[c] = r /\ reserved'[c] = today /\ admitted'[c] = today /\ hooks'[c] = {}
      /\ \A x \in Calls : x # c =>
           /\ call'[x] = call[x] /\ hooks'[x] = hooks[x]
           /\ reserved'[x] = reserved[x] /\ admitted'[x] = admitted[x]
  BY <1>0, <1>1, <1>3, <1>6, <1>7 DEF CallTypes, PoolTypes
<1>9. PoolTypes' /\ CallTypes'
  <2>1. reserved' \in [Calls -> Days \cup {-1}] /\ admitted' \in [Calls -> Days \cup {-1}]
    BY <1>0, <1>1, <1>6, <1>7 DEF PoolTypes, CallTypes
  <2>2. resTask[CallTask[c]] + Estimate[c] \in Nat /\ resDay[today] + EstUsd(c) \in Nat
          /\ resMonth[MonthOf(today)] + EstUsd(c) \in Nat
    BY <1>0, <1>6, GovNumbers DEF PoolTypes
  <2>3. resTask' \in [CloudTasks -> Nat] /\ resDay' \in [Days -> Nat] /\ resMonth' \in [Months -> Nat]
    BY <1>0, <1>7, <2>2 DEF PoolTypes
  <2>4. call' \in [Calls -> CallRows] /\ hooks' \in [Calls -> SUBSET GovHooks]
    BY <1>0, <1>1, <1>3, <1>5 DEF CallTypes
  <2> QED BY <2>1, <2>3, <2>4 DEF PoolTypes, CallTypes
<1>10. GovTypeOK'
  <2>1. TotalTypes' /\ RestTypes'
    BY <1>0, <1>1 DEF TotalTypes, RestTypes
  <2> QED BY <1>9, <2>1, GovTypes
<1>11. \A x \in Calls : CallOK(x, call'[x], reserved'[x], admitted'[x], hooks'[x], today')
  <2>1. CallOK(c, r, today, today, {}, today)
    BY <1>4, <1>5, <1>6, GovNumbers DEF CallOK
  <2> QED BY <1>1, <1>8, <2>1, OthersStay
<1>12. ASSUME NEW e \in modelCalls' PROVE EventOK(e)'
  <2>1. EventOK(e) /\ e \in Events
    BY <1>0, <1>1 DEF GovInv, RestTypes
  <2>2. e.call \in Calls /\ e.call # c
    BY <1>1, <2>1 DEF EventOK, Events
  <2> QED BY <1>1, <1>8, <2>1, <2>2 DEF EventOK
<1>13. PICK more : more = reserved'
  OBVIOUS
<1>14. PICK res : res = reserved
  OBVIOUS
<1>15. PICK day : day = today
  OBVIOUS
<1>16. /\ res \in [Calls -> Days \cup {-1}] /\ more \in [Calls -> Days \cup {-1}] /\ day \in Days
       /\ res[c] = -1 /\ more[c] = day /\ \A x \in Calls : x # c => more[x] = res[x]
  BY <1>0, <1>6, <1>8, <1>9, <1>13, <1>14, <1>15 DEF PoolTypes
<1>17. /\ \A t \in CloudTasks :
            HeldTokens(more, t) =
              IF CallTask[c] = t THEN HeldTokens(res, t) + Estimate[c] ELSE HeldTokens(res, t)
       /\ \A y \in Days :
            HeldUsd(more, y) = IF y = day THEN HeldUsd(res, y) + EstUsd(c) ELSE HeldUsd(res, y)
       /\ \A m \in Months :
            HeldMonth(more, m) =
              IF MonthOf(day) = m THEN HeldMonth(res, m) + EstUsd(c) ELSE HeldMonth(res, m)
  BY <1>16, HoldOne
<1>18. PoolsAddUp'
  <2>1. ASSUME NEW t \in CloudTasks PROVE resTask'[t] = HeldTokens(reserved', t)
    <3>1. resTask[t] = HeldTokens(res, t)
      BY <1>14 DEF GovInv, PoolsAddUp
    <3>2. resTask'[t] = IF CallTask[c] = t THEN resTask[t] + Estimate[c] ELSE resTask[t]
      BY <1>0, <1>7 DEF PoolTypes
    <3> QED BY <1>13, <1>17, <3>1, <3>2
  <2>2. ASSUME NEW y \in Days PROVE resDay'[y] = HeldUsd(reserved', y)
    <3>1. resDay[y] = HeldUsd(res, y)
      BY <1>14 DEF GovInv, PoolsAddUp
    <3>2. resDay'[y] = IF y = day THEN resDay[y] + EstUsd(c) ELSE resDay[y]
      BY <1>0, <1>7, <1>15 DEF PoolTypes
    <3> QED BY <1>13, <1>17, <3>1, <3>2
  <2>3. ASSUME NEW m \in Months PROVE resMonth'[m] = HeldMonth(reserved', m)
    <3>1. resMonth[m] = HeldMonth(res, m)
      BY <1>14 DEF GovInv, PoolsAddUp
    <3>2. resMonth'[m] = IF MonthOf(day) = m THEN resMonth[m] + EstUsd(c) ELSE resMonth[m]
      BY <1>0, <1>7, <1>15 DEF PoolTypes
    <3> QED BY <1>13, <1>17, <3>1, <3>2
  <2> QED BY <2>1, <2>2, <2>3 DEF PoolsAddUp
<1>19. TaskCeilingHolds'
  <2>1. ASSUME NEW t \in CloudTasks PROVE perTask[t] + resTask'[t] <= TaskTokenCeiling
    <3>1. perTask[t] + resTask[t] <= TaskTokenCeiling
      BY DEF GovInv, TaskCeilingHolds
    <3>2. perTask[CallTask[c]] + resTask[CallTask[c]] + Estimate[c] <= TaskTokenCeiling
      BY <1>1 DEF WithinLimits
    <3>3. resTask'[t] = IF CallTask[c] = t THEN resTask[t] + Estimate[c] ELSE resTask[t]
      BY <1>0, <1>7 DEF PoolTypes
    <3>4. perTask[t] \in Nat /\ resTask[t] \in Nat /\ Estimate[c] \in Nat
      BY <1>0, GovNumbers DEF TotalTypes, PoolTypes
    <3> QED BY <3>1, <3>2, <3>3, <3>4
  <2> QED BY <1>1, <2>1 DEF TaskCeilingHolds
<1>20. /\ \A t \in CloudTasks : WayTokens(call', t) = WayTokens(call, t)
       /\ \A d \in Days : WayFrom(call', admitted', d) = WayFrom(call, admitted, d)
       /\ WayUsd(call') = WayUsd(call)
  <2>1. AgreeOnWay(call, call', admitted, admitted')
    BY <1>0, <1>1, <1>5, <1>8 DEF AgreeOnWay, CallTypes, CallRows
  <2>2. \A t \in CloudTasks : WayTokens(call', t) = WayTokens(call, t)
    BY <2>1, SameWay
  <2>3. \A d \in Days : WayFrom(call', admitted', d) = WayFrom(call, admitted, d)
    BY <2>1, SameWay
  <2>4. WayUsd(call') = WayUsd(call)
    BY <2>1, SameWay
  <2> QED BY <2>2, <2>3, <2>4
<1>21. \A d \in Days : LogFrom(modelCalls, admitted', d) = LogFrom(modelCalls, admitted, d)
  <2>1. ASSUME NEW e \in modelCalls PROVE admitted'[e.call] = admitted[e.call]
    <3>1. EventOK(e) /\ e \in Events
      BY <1>0 DEF GovInv, RestTypes
    <3>2. e.call \in Calls /\ e.call # c
      BY <1>1, <3>1 DEF EventOK, Events
    <3> QED BY <1>8, <3>2
  <2>2. ASSUME NEW d \in Days
        PROVE  {e \in modelCalls : admitted'[e.call] = d} = {e \in modelCalls : admitted[e.call] = d}
    BY <2>1
  <2> QED BY <2>2 DEF LogFrom
<1>22. LedgerAddsUp'
  BY <1>1, <1>20 DEF GovInv, LedgerAddsUp
<1>23. DayAddsUp'
  <2>1. ASSUME NEW d \in Days
        PROVE  /\ HeldUsd(reserved, d) \in Nat
               /\ HeldUsd(reserved', d) = IF d = today THEN HeldUsd(reserved, d) + EstUsd(c)
                                                       ELSE HeldUsd(reserved, d)
               /\ WayFrom(call, admitted, d) \in Nat /\ LogFrom(modelCalls, admitted, d) \in Nat
    <3>1. HeldUsd(reserved, d) \in Nat
      BY GovNumbers, CallSums DEF HeldUsd
    <3>2. HeldUsd(reserved', d) = IF d = today THEN HeldUsd(reserved, d) + EstUsd(c)
                                               ELSE HeldUsd(reserved, d)
      BY <1>13, <1>14, <1>15, <1>17
    <3>3. WayFrom(call, admitted, d) \in Nat /\ LogFrom(modelCalls, admitted, d) \in Nat
      <4>1. \A x \in Calls : call[x].usage \in Nat
        BY <1>0 DEF CallTypes, CallRows
      <4>2. modelCalls \in SUBSET Events /\ IsFiniteSet(modelCalls)
        BY <1>0 DEF GovInv, RestTypes
      <4> QED BY <4>1, <4>2, BookNumbers
    <3> QED BY <3>1, <3>2, <3>3
  <2>2. daily[today].usd \in Nat /\ EstUsd(c) \in Nat /\ DailyBudget \in Nat
    BY <1>0, <1>6, GovNumbers DEF TotalTypes
  <2>3. daily[today].usd + HeldUsd(reserved, today) + EstUsd(c) <= DailyBudget
    <3>1. resDay[today] = HeldUsd(reserved, today)
      BY <1>6 DEF GovInv, PoolsAddUp
    <3> QED BY <1>1, <3>1 DEF WithinLimits
  <2>4. WayFrom(call, admitted, today) + LogFrom(modelCalls, admitted, today) <= daily[today].usd
    BY DEF GovInv, DayAddsUp
  <2>5. ASSUME NEW d \in Days
        PROVE  HeldUsd(reserved', d) + WayFrom(call, admitted, d) + LogFrom(modelCalls, admitted, d)
                 <= DailyBudget
    <3>1. CASE d = today
      BY <2>1, <2>2, <2>3, <2>4, <3>1
    <3>2. CASE d # today
      <4>1. HeldUsd(reserved, d) + WayFrom(call, admitted, d) + LogFrom(modelCalls, admitted, d)
              <= DailyBudget
        BY DEF GovInv, DayAddsUp
      <4> QED BY <2>1, <3>2, <4>1
    <3> QED BY <3>1, <3>2
  <2>6. WayFrom(call', admitted', today) + LogFrom(modelCalls, admitted', today) <= daily[today].usd
    BY <1>6, <1>20, <1>21, <2>4
  <2>7. ASSUME NEW d \in Days
        PROVE  HeldUsd(reserved', d) + WayFrom(call', admitted', d) + LogFrom(modelCalls', admitted', d)
                 <= DailyBudget
    <3>1. LogFrom(modelCalls', admitted', d) = LogFrom(modelCalls, admitted, d)
      BY <1>1, <1>21
    <3>2. WayFrom(call', admitted', d) = WayFrom(call, admitted, d)
      BY <1>20
    <3> QED BY <2>5, <3>1, <3>2
  <2>8. WayFrom(call', admitted', today') + LogFrom(modelCalls', admitted', today') <= daily'[today'].usd
    BY <1>1, <2>6
  <2> QED BY <2>7, <2>8 DEF DayAddsUp
<1>24. AlarmsMarked' /\ IsFiniteSet(modelCalls')
  BY <1>1 DEF GovInv, AlarmsMarked
<1> QED BY <1>10, <1>11, <1>12, <1>18, <1>19, <1>22, <1>23, <1>24 DEF GovInv


\* A release gives back exactly what was held, and nothing the second time.
LEMMA ReleasePools ==
    ASSUME GovInv, NEW c \in Calls, ReleaseLocked(c)
    PROVE  /\ reserved' = [reserved EXCEPT ![c] = -1]
           /\ PoolTypes' /\ PoolsAddUp'
           /\ \A t \in CloudTasks :
                 resTask'[t] = IF reserved[c] # -1 /\ CallTask[c] = t
                                 THEN resTask[t] - Estimate[c] ELSE resTask[t]
           /\ \A d \in Days :
                 HeldUsd(reserved', d) = IF reserved[c] = d THEN HeldUsd(reserved, d) - EstUsd(c)
                                                            ELSE HeldUsd(reserved, d)
<1>0. PoolTypes /\ PoolsAddUp
  BY GovTypes DEF GovInv
<1>1. CASE reserved[c] = -1
  <2>1. UNCHANGED <<reserved, resTask, resDay, resMonth>>
    BY <1>1 DEF ReleaseLocked, govPools
  <2>2. -1 \notin Days
    BY GovNumbers
  <2>3. reserved' = [reserved EXCEPT ![c] = -1]
    BY <1>0, <1>1, <2>1 DEF PoolTypes
  <2>4. PoolTypes' /\ PoolsAddUp'
    BY <1>0, <2>1 DEF PoolTypes, PoolsAddUp
  <2> QED BY <1>1, <2>1, <2>2, <2>3, <2>4
<1>2. CASE reserved[c] # -1
  <2>1. PICK day : day = reserved[c]
    OBVIOUS
  <2>2. day \in Days /\ MonthOf(day) \in Months
    BY <1>0, <1>2, <2>1, GovNumbers DEF PoolTypes
  <2>3. /\ reserved' = [reserved EXCEPT ![c] = -1]
        /\ resTask' = [resTask EXCEPT ![CallTask[c]] = resTask[CallTask[c]] - Estimate[c]]
        /\ resDay' = [resDay EXCEPT ![day] = resDay[day] - EstUsd(c)]
        /\ resMonth' = [resMonth EXCEPT ![MonthOf(day)] = resMonth[MonthOf(day)] - EstUsd(c)]
    BY <1>2, <2>1 DEF ReleaseLocked
  <2>4. PICK more : more = reserved
    OBVIOUS
  <2>5. PICK res : res = reserved'
    OBVIOUS
  <2>6. /\ res \in [Calls -> Days \cup {-1}] /\ more \in [Calls -> Days \cup {-1}]
        /\ res[c] = -1 /\ more[c] = day /\ \A x \in Calls : x # c => more[x] = res[x]
    BY <1>0, <2>1, <2>3, <2>4, <2>5 DEF PoolTypes
  <2>7. /\ \A t \in CloudTasks :
             /\ HeldTokens(res, t) \in Nat
             /\ HeldTokens(more, t) =
                  IF CallTask[c] = t THEN HeldTokens(res, t) + Estimate[c] ELSE HeldTokens(res, t)
        /\ \A y \in Days :
             /\ HeldUsd(res, y) \in Nat
             /\ HeldUsd(more, y) = IF y = day THEN HeldUsd(res, y) + EstUsd(c) ELSE HeldUsd(res, y)
        /\ \A m \in Months :
             /\ HeldMonth(res, m) \in Nat
             /\ HeldMonth(more, m) =
                  IF MonthOf(day) = m THEN HeldMonth(res, m) + EstUsd(c) ELSE HeldMonth(res, m)
    BY <2>2, <2>6, HoldOne
  <2>8. ASSUME NEW t \in CloudTasks
        PROVE  /\ resTask'[t] = HeldTokens(reserved', t) /\ resTask'[t] \in Nat
               /\ resTask'[t] = IF reserved[c] # -1 /\ CallTask[c] = t
                                  THEN resTask[t] - Estimate[c] ELSE resTask[t]
    <3>1. resTask[t] = HeldTokens(more, t)
      BY <1>0, <2>4 DEF PoolsAddUp
    <3>2. resTask'[t] = IF CallTask[c] = t THEN resTask[t] - Estimate[c] ELSE resTask[t]
      BY <1>0, <2>3 DEF PoolTypes
    <3>3. Estimate[c] \in Nat
      BY GovNumbers
    <3>4. resTask'[t] = HeldTokens(res, t)
      BY <2>7, <3>1, <3>2, <3>3
    <3> QED BY <1>2, <2>5, <2>7, <3>2, <3>4
  <2>9. ASSUME NEW y \in Days
        PROVE  /\ resDay'[y] = HeldUsd(reserved', y) /\ resDay'[y] \in Nat
               /\ HeldUsd(reserved', y) = IF reserved[c] = y THEN HeldUsd(reserved, y) - EstUsd(c)
                                                             ELSE HeldUsd(reserved, y)
    <3>1. resDay[y] = HeldUsd(more, y)
      BY <1>0, <2>4 DEF PoolsAddUp
    <3>2. resDay'[y] = IF y = day THEN resDay[y] - EstUsd(c) ELSE resDay[y]
      BY <1>0, <2>3 DEF PoolTypes
    <3>3. EstUsd(c) \in Nat
      BY GovNumbers
    <3>4. resDay'[y] = HeldUsd(res, y)
      BY <2>7, <3>1, <3>2, <3>3
    <3>5. HeldUsd(res, y) = IF y = day THEN HeldUsd(more, y) - EstUsd(c) ELSE HeldUsd(more, y)
      BY <2>7, <3>3
    <3> QED BY <2>1, <2>4, <2>5, <2>7, <3>4, <3>5
  <2>10. ASSUME NEW m \in Months PROVE resMonth'[m] = HeldMonth(reserved', m) /\ resMonth'[m] \in Nat
    <3>1. resMonth[m] = HeldMonth(more, m)
      BY <1>0, <2>4 DEF PoolsAddUp
    <3>2. resMonth'[m] = IF MonthOf(day) = m THEN resMonth[m] - EstUsd(c) ELSE resMonth[m]
      BY <1>0, <2>3 DEF PoolTypes
    <3>3. EstUsd(c) \in Nat
      BY GovNumbers
    <3>4. resMonth'[m] = HeldMonth(res, m)
      BY <2>7, <3>1, <3>2, <3>3
    <3> QED BY <2>5, <2>7, <3>4
  <2>11. PoolsAddUp'
    BY <2>8, <2>9, <2>10 DEF PoolsAddUp
  <2>12. PoolTypes'
    <3>1. reserved' \in [Calls -> Days \cup {-1}]
      BY <2>5, <2>6
    <3>2. resTask' \in [CloudTasks -> Nat]
      BY <1>0, <2>3, <2>8 DEF PoolTypes
    <3>3. resDay' \in [Days -> Nat]
      BY <1>0, <2>3, <2>9 DEF PoolTypes
    <3>4. resMonth' \in [Months -> Nat]
      BY <1>0, <2>3, <2>10 DEF PoolTypes
    <3> QED BY <3>1, <3>2, <3>3, <3>4 DEF PoolTypes
  <2> QED BY <2>3, <2>8, <2>9, <2>11, <2>12
<1> QED BY <1>1, <1>2

\* The deferred release.
LEMMA ReleaseStep == ASSUME GovInv, NEW c \in Calls, ReleaseReservation(c) PROVE GovInv'
<1>0. TotalTypes /\ PoolTypes /\ CallTypes /\ RestTypes
  BY GovTypes DEF GovInv
<1>1. /\ UNCHANGED <<perTask, daily, monthly, today, modelCalls, warned, boots, alarms, hooks, admitted>>
      /\ call[c].pc = "release" /\ ReleaseLocked(c)
  BY DEF ReleaseReservation, govTotals, CallAt
<1>2. PICK r : r = [call[c] EXCEPT !.pc = "done"]
  OBVIOUS
<1>3. call' = [call EXCEPT ![c] = r]
  BY <1>2 DEF ReleaseReservation, CallGoto
<1>4. call[c] \in CallRows /\ CallOK(c, call[c], reserved[c], admitted[c], hooks[c], today)
  BY <1>0 DEF GovInv, CallTypes
<1>5. r \in CallRows /\ r.pc = "done" /\ r.usage = call[c].usage /\ r.attempt = call[c].attempt
  BY <1>2, <1>4 DEF CallRows, GovPcs
<1>6. /\ reserved' = [reserved EXCEPT ![c] = -1] /\ PoolTypes' /\ PoolsAddUp'
      /\ \A t \in CloudTasks :
            resTask'[t] = IF reserved[c] # -1 /\ CallTask[c] = t
                            THEN resTask[t] - Estimate[c] ELSE resTask[t]
      /\ \A d \in Days :
            HeldUsd(reserved', d) = IF reserved[c] = d THEN HeldUsd(reserved, d) - EstUsd(c)
                                                       ELSE HeldUsd(reserved, d)
  BY <1>1, ReleasePools
<1>7. /\ call'[c] = r /\ reserved'[c] = -1
      /\ \A x \in Calls : x # c =>
           /\ call'[x] = call[x] /\ hooks'[x] = hooks[x]
           /\ reserved'[x] = reserved[x] /\ admitted'[x] = admitted[x]
  BY <1>0, <1>1, <1>3, <1>6 DEF CallTypes, PoolTypes
<1>8. GovTypeOK'
  <2>1. TotalTypes' /\ RestTypes'
    BY <1>0, <1>1 DEF TotalTypes, RestTypes
  <2>2. CallTypes'
    BY <1>0, <1>1, <1>3, <1>5 DEF CallTypes
  <2> QED BY <1>6, <2>1, <2>2, GovTypes
<1>9. \A x \in Calls : CallOK(x, call'[x], reserved'[x], admitted'[x], hooks'[x], today')
  <2>1. CallOK(c, r, -1, admitted[c], hooks[c], today)
    BY <1>1, <1>4, <1>5 DEF CallOK
  <2> QED BY <1>1, <1>7, <2>1, OthersStay
<1>10. ASSUME NEW e \in modelCalls' PROVE EventOK(e)'
  <2>1. EventOK(e) /\ e \in Events
    BY <1>0, <1>1 DEF GovInv, RestTypes
  <2>2. e.call \in Calls
    BY <2>1 DEF Events
  <2>3. CASE e.call = c
    BY <1>1, <1>5, <1>7, <2>1, <2>3 DEF EventOK
  <2>4. CASE e.call # c
    BY <1>1, <1>7, <2>1, <2>2, <2>4 DEF EventOK
  <2> QED BY <2>3, <2>4
<1>11. TaskCeilingHolds'
  <2>1. ASSUME NEW t \in CloudTasks PROVE perTask[t] + resTask'[t] <= TaskTokenCeiling
    <3>1. perTask[t] + resTask[t] <= TaskTokenCeiling
      BY DEF GovInv, TaskCeilingHolds
    <3>2. perTask[t] \in Nat /\ resTask[t] \in Nat /\ Estimate[c] \in Nat /\ TaskTokenCeiling \in Nat
      BY <1>0, GovNumbers DEF TotalTypes, PoolTypes
    <3> QED BY <1>6, <3>1, <3>2
  <2> QED BY <1>1, <2>1 DEF TaskCeilingHolds
<1>12. /\ \A t \in CloudTasks : WayTokens(call', t) = WayTokens(call, t)
       /\ \A d \in Days : WayFrom(call', admitted', d) = WayFrom(call, admitted, d)
       /\ WayUsd(call') = WayUsd(call)
  <2>1. AgreeOnWay(call, call', admitted, admitted')
    BY <1>0, <1>1, <1>5, <1>7 DEF AgreeOnWay, CallTypes, CallRows
  <2>2. \A t \in CloudTasks : WayTokens(call', t) = WayTokens(call, t)
    BY <2>1, SameWay
  <2>3. \A d \in Days : WayFrom(call', admitted', d) = WayFrom(call, admitted, d)
    BY <2>1, SameWay
  <2>4. WayUsd(call') = WayUsd(call)
    BY <2>1, SameWay
  <2> QED BY <2>2, <2>3, <2>4
<1>13. LedgerAddsUp'
  BY <1>1, <1>12 DEF GovInv, LedgerAddsUp
<1>14. DayAddsUp'
  <2>1. ASSUME NEW d \in Days
        PROVE  HeldUsd(reserved', d) + WayFrom(call', admitted', d) + LogFrom(modelCalls', admitted', d)
                 <= DailyBudget
    <3>1. HeldUsd(reserved, d) + WayFrom(call, admitted, d) + LogFrom(modelCalls, admitted, d)
            <= DailyBudget
      BY DEF GovInv, DayAddsUp
    <3>2. HeldUsd(reserved, d) \in Nat /\ EstUsd(c) \in Nat /\ DailyBudget \in Nat
      BY GovNumbers, CallSums DEF HeldUsd
    <3>3. WayFrom(call, admitted, d) \in Nat /\ LogFrom(modelCalls, admitted, d) \in Nat
      <4>1. \A x \in Calls : call[x].usage \in Nat
        BY <1>0 DEF CallTypes, CallRows
      <4>2. modelCalls \in SUBSET Events /\ IsFiniteSet(modelCalls)
        BY <1>0 DEF GovInv, RestTypes
      <4> QED BY <4>1, <4>2, BookNumbers
    <3>4. HeldUsd(reserved', d) + WayFrom(call, admitted, d) + LogFrom(modelCalls, admitted, d)
            <= DailyBudget
      <4>1. HeldUsd(reserved', d) \in Int /\ HeldUsd(reserved', d) <= HeldUsd(reserved, d)
        <5>1. HeldUsd(reserved', d) = IF reserved[c] = d THEN HeldUsd(reserved, d) - EstUsd(c)
                                                         ELSE HeldUsd(reserved, d)
          BY <1>6
        <5> QED BY <3>2, <5>1
      <4> QED BY <3>1, <3>2, <3>3, <4>1
    <3>5. WayFrom(call', admitted', d) = WayFrom(call, admitted, d)
            /\ LogFrom(modelCalls', admitted', d) = LogFrom(modelCalls, admitted, d)
      BY <1>1, <1>12
    <3> QED BY <3>4, <3>5
  <2>2. WayFrom(call', admitted', today') + LogFrom(modelCalls', admitted', today') <= daily'[today'].usd
    <3>1. today \in Days
      BY <1>0 DEF RestTypes
    <3>2. WayFrom(call', admitted', today) = WayFrom(call, admitted, today)
      BY <1>12, <3>1
    <3> QED BY <1>1, <3>2 DEF GovInv, DayAddsUp
  <2> QED BY <2>1, <2>2 DEF DayAddsUp
<1>15. AlarmsMarked' /\ IsFiniteSet(modelCalls')
  BY <1>1 DEF GovInv, AlarmsMarked
<1> QED BY <1>6, <1>8, <1>9, <1>10, <1>11, <1>13, <1>14, <1>15 DEF GovInv

\* The event of a recorded call: what was on its way is in the ledger.
LEMMA LedgerStep == ASSUME GovInv, NEW c \in Calls, LedgerModelCall(c) PROVE GovInv'
<1>0. TotalTypes /\ PoolTypes /\ CallTypes /\ RestTypes
  BY GovTypes DEF GovInv
<1>1. /\ UNCHANGED <<perTask, daily, monthly, reserved, resTask, resDay, resMonth>>
      /\ UNCHANGED <<today, warned, boots, alarms, admitted>>
      /\ call[c].pc = "ledger"
  BY DEF LedgerModelCall, govTotals, govPools, CallAt
<1>2. PICK r : r = [call[c] EXCEPT !.pc = "release"]
  OBVIOUS
<1>3. PICK e : e = [call |-> c, day |-> today, usage |-> call[c].usage]
  OBVIOUS
<1>4. call' = [call EXCEPT ![c] = r] /\ modelCalls' = modelCalls \cup {e}
  BY <1>2, <1>3 DEF LedgerModelCall, CallGoto
<1>5. call[c] \in CallRows /\ CallOK(c, call[c], reserved[c], admitted[c], hooks[c], today)
  BY <1>0 DEF GovInv, CallTypes
<1>6. r \in CallRows /\ r.pc = "release" /\ r.usage = call[c].usage /\ r.attempt = call[c].attempt
  BY <1>2, <1>5 DEF CallRows, GovPcs
<1>7. /\ today \in Days /\ e \in Events /\ e.call = c /\ e.usage = call[c].usage /\ e.day = today
      /\ e \notin modelCalls
  <2>1. today \in Days /\ call[c].usage \in Nat
    BY <1>0, <1>5 DEF RestTypes, CallRows
  <2>2. e \in Events /\ e.call = c /\ e.usage = call[c].usage /\ e.day = today
    BY <1>3, <2>1 DEF Events
  <2>3. e \in modelCalls => call[c].pc \in {"release", "done"}
    BY <2>2 DEF GovInv, EventOK
  <2> QED BY <1>1, <2>1, <2>2, <2>3
<1>8. PICK hk : hk = NonRetryableHook(c)
  OBVIOUS
<1>9. hk \in {{}, {"failed"}} /\ hooks' = [hooks EXCEPT ![c] = hk]
  <2>1. hooks[c] = {}
    BY <1>1, <1>5 DEF CallOK
  <2> QED BY <1>8, <2>1 DEF LedgerModelCall, NonRetryableHook
<1>10. /\ call'[c] = r /\ hooks'[c] = hk
       /\ \A x \in Calls : x # c =>
            /\ call'[x] = call[x] /\ hooks'[x] = hooks[x]
            /\ reserved'[x] = reserved[x] /\ admitted'[x] = admitted[x]
  BY <1>0, <1>1, <1>4, <1>9 DEF CallTypes
<1>11. GovTypeOK'
  <2>1. TotalTypes' /\ PoolTypes'
    BY <1>0, <1>1 DEF TotalTypes, PoolTypes
  <2>2. CallTypes'
    <3>1. hk \in SUBSET GovHooks
      BY <1>9 DEF GovHooks
    <3> QED BY <1>0, <1>1, <1>4, <1>6, <1>9, <3>1 DEF CallTypes
  <2>3. RestTypes'
    BY <1>0, <1>1, <1>4, <1>7 DEF RestTypes
  <2> QED BY <2>1, <2>2, <2>3, GovTypes
<1>12. IsFiniteSet(modelCalls')
  BY <1>4, FS_AddElement DEF GovInv
<1>13. \A x \in Calls : CallOK(x, call'[x], reserved'[x], admitted'[x], hooks'[x], today')
  <2>1. CallOK(c, r, reserved[c], admitted[c], hk, today)
    BY <1>1, <1>5, <1>6, <1>9 DEF CallOK
  <2> QED BY <1>1, <1>10, <2>1, OthersStay
<1>14. ASSUME NEW m \in modelCalls' PROVE EventOK(m)'
  <2>1. CASE m = e
    <3>1. reserved[c] = -1 /\ admitted[c] # -1 /\ admitted[c] <= today
      BY <1>1, <1>5 DEF CallOK
    <3>2. today <= today
      BY <1>7, GovNumbers
    <3> QED BY <1>1, <1>6, <1>7, <1>9, <1>10, <2>1, <3>1, <3>2 DEF EventOK
  <2>2. CASE m # e
    <3>1. EventOK(m) /\ m \in Events
      BY <1>0, <1>4, <2>2 DEF GovInv, RestTypes
    <3>2. m.call \in Calls /\ m.call # c
      BY <1>1, <3>1 DEF EventOK, Events
    <3> QED BY <1>1, <1>10, <3>1, <3>2 DEF EventOK
  <2> QED BY <2>1, <2>2
<1>15. PICK cl : cl = call'
  OBVIOUS
<1>16. PICK cm : cm = call
  OBVIOUS
<1>17. PICK adm : adm = admitted
  OBVIOUS
<1>18. PICK ms : ms = modelCalls
  OBVIOUS
<1>19. /\ cl[c].pc # "ledger" /\ cm[c].pc = "ledger" /\ cm[c].usage = e.usage
       /\ \A x \in Calls : cl[x].usage \in Nat /\ cm[x].usage \in Nat
       /\ \A x \in Calls : x # c => cm[x].pc = cl[x].pc /\ cm[x].usage = cl[x].usage
  <2>1. \A x \in Calls : call[x].usage \in Nat /\ call'[x].usage \in Nat
    BY <1>0, <1>6, <1>10 DEF CallTypes, CallRows
  <2> QED BY <1>1, <1>6, <1>7, <1>10, <1>15, <1>16, <2>1
<1>20. WayGains(cl, cm, adm, c)
  <2>1. OneOnWay(cl, cm, c)
    BY <1>19 DEF OneOnWay
  <2> QED BY <2>1, OnTheWay
<1>21. ms \in SUBSET Events /\ IsFiniteSet(ms) /\ e \notin ms /\ modelCalls' = ms \cup {e}
  BY <1>0, <1>4, <1>7, <1>18 DEF GovInv, RestTypes
<1>22. LogGains(ms, adm, e)
  BY <1>7, <1>21, LogMore
<1>23. PICK used \in Nat : used = e.usage
  BY <1>7 DEF Events
<1>24. PICK usd \in Nat : usd = Usd(c, used)
  BY DEF Usd
<1>25. /\ cm[c].usage = used /\ e.usage = used /\ e.call = c
       /\ Usd(c, cm[c].usage) = usd /\ Usd(e.call, e.usage) = usd
  BY <1>7, <1>19, <1>23, <1>24
<1>26. LedgerAddsUp'
  <2>1. ASSUME NEW t \in CloudTasks PROVE perTask[t] = LogTokens(ms \cup {e}, t) + WayTokens(cl, t)
    <3>1. perTask[t] = LogTokens(ms, t) + WayTokens(cm, t)
      BY <1>16, <1>18 DEF GovInv, LedgerAddsUp
    <3>2. /\ LogTokens(ms, t) \in Nat /\ WayTokens(cl, t) \in Nat
          /\ LogTokens(ms \cup {e}, t) = IF CallTask[c] = t THEN LogTokens(ms, t) + used ELSE LogTokens(ms, t)
          /\ WayTokens(cm, t) = IF CallTask[c] = t THEN WayTokens(cl, t) + used ELSE WayTokens(cl, t)
      BY <1>20, <1>22, <1>25 DEF WayGains, LogGains
    <3> QED BY <3>1, <3>2
  <2>2. DailyUsd(daily) = LogUsd(ms) + WayUsd(cm)
    BY <1>16, <1>18 DEF GovInv, LedgerAddsUp
  <2>3. /\ LogUsd(ms) \in Int /\ WayUsd(cl) \in Nat
        /\ LogUsd(ms \cup {e}) = LogUsd(ms) + usd /\ WayUsd(cm) = WayUsd(cl) + usd
    BY <1>20, <1>22, <1>25 DEF WayGains, LogGains
  <2>4. DailyUsd(daily) = LogUsd(ms \cup {e}) + WayUsd(cl)
    BY <2>2, <2>3
  <2> QED BY <1>1, <1>15, <1>21, <2>1, <2>4 DEF LedgerAddsUp
<1>27. ASSUME NEW d \in Days
       PROVE  /\ WayFrom(cl, adm, d) + LogFrom(ms \cup {e}, adm, d) = WayFrom(cm, adm, d) + LogFrom(ms, adm, d)
              /\ WayFrom(cl, adm, d) \in Nat /\ LogFrom(ms, adm, d) \in Nat
              /\ WayFrom(cm, adm, d) \in Nat /\ LogFrom(ms \cup {e}, adm, d) \in Nat
  <2>1. /\ LogFrom(ms, adm, d) \in Nat /\ WayFrom(cl, adm, d) \in Nat
        /\ LogFrom(ms \cup {e}, adm, d) = IF adm[c] = d THEN LogFrom(ms, adm, d) + usd ELSE LogFrom(ms, adm, d)
        /\ WayFrom(cm, adm, d) = IF adm[c] = d THEN WayFrom(cl, adm, d) + usd ELSE WayFrom(cl, adm, d)
    BY <1>20, <1>22, <1>25 DEF WayGains, LogGains
  <2> QED BY <2>1
<1>28. DayAddsUp'
  <2>1. ASSUME NEW d \in Days
        PROVE  HeldUsd(reserved', d) + WayFrom(call', admitted', d) + LogFrom(modelCalls', admitted', d)
                 <= DailyBudget
    <3>1. HeldUsd(reserved, d) + WayFrom(cm, adm, d) + LogFrom(ms, adm, d) <= DailyBudget
      BY <1>16, <1>17, <1>18 DEF GovInv, DayAddsUp
    <3>2. HeldUsd(reserved, d) \in Nat
      BY GovNumbers, CallSums DEF HeldUsd
    <3>4. HeldUsd(reserved, d) + WayFrom(cl, adm, d) + LogFrom(ms \cup {e}, adm, d) <= DailyBudget
      <4>1. /\ WayFrom(cl, adm, d) + LogFrom(ms \cup {e}, adm, d)
                 = WayFrom(cm, adm, d) + LogFrom(ms, adm, d)
            /\ WayFrom(cl, adm, d) \in Nat /\ LogFrom(ms, adm, d) \in Nat
            /\ WayFrom(cm, adm, d) \in Nat /\ LogFrom(ms \cup {e}, adm, d) \in Nat
        BY <1>27
      <4>2. DailyBudget \in Nat
        BY GovNumbers
      <4> QED BY <3>1, <3>2, <4>1, <4>2
    <3> QED BY <1>1, <1>15, <1>17, <1>21, <3>4
  <2>2. WayFrom(call', admitted', today') + LogFrom(modelCalls', admitted', today') <= daily'[today'].usd
    <3>1. WayFrom(cm, adm, today) + LogFrom(ms, adm, today) <= daily[today].usd
      BY <1>16, <1>17, <1>18 DEF GovInv, DayAddsUp
    <3>2. WayFrom(cl, adm, today) + LogFrom(ms \cup {e}, adm, today) <= daily[today].usd
      BY <1>7, <1>27, <3>1
    <3> QED BY <1>1, <1>15, <1>17, <1>21, <3>2
  <2> QED BY <2>1, <2>2 DEF DayAddsUp
<1>29. PoolsAddUp' /\ TaskCeilingHolds' /\ AlarmsMarked'
  BY <1>1 DEF GovInv, PoolsAddUp, TaskCeilingHolds, AlarmsMarked
<1> QED BY <1>11, <1>12, <1>13, <1>14, <1>26, <1>28, <1>29 DEF GovInv


\* Usage is recorded: it takes the place of the reservation, and the warnings
\* that fire are marked.
LEMMA RecordStep == ASSUME GovInv, NEW c \in Calls, RecordUsage(c) PROVE GovInv'
<1>0. TotalTypes /\ PoolTypes /\ CallTypes /\ RestTypes
  BY GovTypes DEF GovInv
<1>1. UNCHANGED <<today, modelCalls, warned, boots, admitted, hooks>> /\ call[c].pc = "stream"
  BY DEF RecordUsage, CallAt
<1>2. PICK used \in 0..Estimate[c], cacheLow \in BOOLEAN :
        LET fire == Due(daily[today].usd + Usd(c, used), daily[today].calls + 1, cacheLow)
                      \ daily[today].logged
        IN /\ ReleaseLocked(c)
           /\ RecordLocked(c, used, fire)
           /\ alarms' = [alarms EXCEPT ![today] =
                           [k \in AlarmKinds |-> @[k] + IF k \in fire THEN 1 ELSE 0]]
           /\ call' = [call EXCEPT ![c] = [@ EXCEPT !.pc = "ledger", !.usage = used]]
  BY DEF RecordUsage
<1>3. PICK fire : fire = Due(daily[today].usd + Usd(c, used), daily[today].calls + 1, cacheLow)
                           \ daily[today].logged
  OBVIOUS
<1>4. PICK agg : agg = daily[today]
  OBVIOUS
<1>5. PICK usd \in Nat : usd = Usd(c, used)
  BY GovNumbers DEF Usd
<1>6. PICK r : r = [call[c] EXCEPT !.pc = "ledger", !.usage = used]
  OBVIOUS
<1>7. PICK b : b = [usd |-> agg.usd + usd, calls |-> agg.calls + 1, logged |-> agg.logged \cup fire]
  OBVIOUS
<1>8. PICK al : al = [k \in AlarmKinds |-> alarms[today][k] + IF k \in fire THEN 1 ELSE 0]
  OBVIOUS
<1>9. /\ today \in Days /\ MonthOf(today) \in Months /\ used \in Nat /\ used <= Estimate[c]
      /\ usd <= EstUsd(c) /\ Estimate[c] \in Nat /\ EstUsd(c) \in Nat /\ CallTask[c] \in CloudTasks
  BY <1>0, <1>5, GovNumbers DEF RestTypes, EstUsd, Usd
<1>10. /\ ReleaseLocked(c)
       /\ perTask' = [perTask EXCEPT ![CallTask[c]] = perTask[CallTask[c]] + used]
       /\ daily' = [daily EXCEPT ![today] = b]
       /\ monthly' = [monthly EXCEPT ![MonthOf(today)] = monthly[MonthOf(today)] + usd]
       /\ alarms' = [alarms EXCEPT ![today] = al]
       /\ call' = [call EXCEPT ![c] = r]
  <2>1. RecordLocked(c, used, fire) /\ ReleaseLocked(c)
    BY <1>2, <1>3
  <2>2. daily' = [daily EXCEPT ![today] = b]
    BY <1>0, <1>4, <1>5, <1>7, <1>9, <2>1 DEF RecordLocked, MarkLogged, TotalTypes
  <2>3. alarms' = [alarms EXCEPT ![today] = al]
    BY <1>0, <1>2, <1>3, <1>8, <1>9 DEF RestTypes
  <2>4. call' = [call EXCEPT ![c] = r]
    BY <1>0, <1>2, <1>6 DEF CallTypes
  <2> QED BY <1>5, <2>1, <2>2, <2>3, <2>4 DEF RecordLocked
<1>11. call[c] \in CallRows /\ CallOK(c, call[c], reserved[c], admitted[c], hooks[c], today)
  BY <1>0 DEF GovInv, CallTypes
<1>12. r \in CallRows /\ r.pc = "ledger" /\ r.usage = used /\ r.attempt = call[c].attempt
  BY <1>6, <1>9, <1>11 DEF CallRows, GovPcs
<1>13. reserved[c] # -1 /\ reserved[c] = admitted[c] /\ hooks[c] = {}
  BY <1>1, <1>11 DEF CallOK
<1>14. /\ reserved' = [reserved EXCEPT ![c] = -1] /\ PoolTypes' /\ PoolsAddUp'
       /\ \A t \in CloudTasks :
             resTask'[t] = IF reserved[c] # -1 /\ CallTask[c] = t
                             THEN resTask[t] - Estimate[c] ELSE resTask[t]
       /\ \A d \in Days :
             HeldUsd(reserved', d) = IF reserved[c] = d THEN HeldUsd(reserved, d) - EstUsd(c)
                                                        ELSE HeldUsd(reserved, d)
  BY <1>10, ReleasePools
<1>15. /\ call'[c] = r /\ reserved'[c] = -1
       /\ \A x \in Calls : x # c =>
            /\ call'[x] = call[x] /\ hooks'[x] = hooks[x]
            /\ reserved'[x] = reserved[x] /\ admitted'[x] = admitted[x]
  BY <1>0, <1>1, <1>10, <1>14 DEF CallTypes, PoolTypes
<1>16. /\ agg.usd \in Nat /\ agg.calls \in Nat /\ agg.logged \in SUBSET AlarmKinds
       /\ fire \in SUBSET AlarmKinds
       /\ b \in [usd : Nat, calls : Nat, logged : SUBSET AlarmKinds]
       /\ b.usd = agg.usd + usd /\ b.logged = agg.logged \cup fire
  <2>1. agg \in [usd : Nat, calls : Nat, logged : SUBSET AlarmKinds]
    BY <1>0, <1>4, <1>9 DEF TotalTypes
  <2>2. fire \in SUBSET AlarmKinds
    BY <1>3 DEF Due, AlarmKinds
  <2> QED BY <1>7, <2>1, <2>2
<1>17. TotalTypes'
  <2>1. perTask[CallTask[c]] + used \in Nat /\ monthly[MonthOf(today)] + usd \in Nat
    BY <1>0, <1>9 DEF TotalTypes
  <2>2. perTask' \in [CloudTasks -> Nat]
    BY <1>0, <1>10, <2>1 DEF TotalTypes
  <2>3. monthly' \in [Months -> Nat]
    BY <1>0, <1>10, <2>1 DEF TotalTypes
  <2>4. daily' \in [Days -> [usd : Nat, calls : Nat, logged : SUBSET AlarmKinds]]
    BY <1>0, <1>10, <1>16 DEF TotalTypes
  <2> QED BY <2>2, <2>3, <2>4 DEF TotalTypes
<1>18. al \in [AlarmKinds -> Nat] /\ alarms' \in [Days -> [AlarmKinds -> Nat]]
  BY <1>0, <1>8, <1>9, <1>10 DEF RestTypes
<1>19. GovTypeOK'
  <2>1. RestTypes'
    BY <1>0, <1>1, <1>18 DEF RestTypes
  <2>2. CallTypes'
    BY <1>0, <1>1, <1>10, <1>12 DEF CallTypes
  <2> QED BY <1>14, <1>17, <2>1, <2>2, GovTypes
<1>20. \A x \in Calls : CallOK(x, call'[x], reserved'[x], admitted'[x], hooks'[x], today')
  <2>1. CallOK(c, r, -1, admitted[c], hooks[c], today)
    BY <1>9, <1>11, <1>12, <1>13 DEF CallOK
  <2> QED BY <1>1, <1>15, <2>1, OthersStay
<1>21. ASSUME NEW e \in modelCalls' PROVE EventOK(e)'
  <2>1. EventOK(e) /\ e \in Events
    BY <1>0, <1>1 DEF GovInv, RestTypes
  <2>2. e.call \in Calls /\ e.call # c
    BY <1>1, <2>1 DEF EventOK, Events
  <2> QED BY <1>1, <1>15, <2>1, <2>2 DEF EventOK
<1>22. TaskCeilingHolds'
  <2>1. ASSUME NEW t \in CloudTasks PROVE perTask'[t] + resTask'[t] <= TaskTokenCeiling
    <3>1. perTask[t] + resTask[t] <= TaskTokenCeiling
      BY DEF GovInv, TaskCeilingHolds
    <3>2. perTask[t] \in Nat /\ resTask[t] \in Nat /\ TaskTokenCeiling \in Nat
      BY <1>0, GovNumbers DEF TotalTypes, PoolTypes
    <3>3. perTask'[t] = IF CallTask[c] = t THEN perTask[t] + used ELSE perTask[t]
      BY <1>0, <1>10 DEF TotalTypes
    <3>4. resTask'[t] = IF CallTask[c] = t THEN resTask[t] - Estimate[c] ELSE resTask[t]
      BY <1>13, <1>14
    <3> QED BY <1>9, <3>1, <3>2, <3>3, <3>4
  <2> QED BY <2>1 DEF TaskCeilingHolds
<1>23. PICK cl : cl = call
  OBVIOUS
<1>24. PICK cm : cm = call'
  OBVIOUS
<1>25. PICK adm : adm = admitted
  OBVIOUS
<1>26. WayGains(cl, cm, adm, c) /\ cm[c].usage = used /\ Usd(c, cm[c].usage) = usd
  <2>1. \A x \in Calls : call[x].usage \in Nat /\ call'[x].usage \in Nat
    BY <1>0, <1>9, <1>12, <1>15 DEF CallTypes, CallRows
  <2>2. OneOnWay(cl, cm, c)
    BY <1>1, <1>12, <1>15, <1>23, <1>24, <2>1 DEF OneOnWay
  <2> QED BY <1>5, <1>12, <1>15, <1>24, <2>2, OnTheWay
<1>27. DailyUsd(daily') = DailyUsd(daily) + usd /\ DailyUsd(daily) \in Int
  <2>1. PICK p : p = [d \in Days |-> daily[d].usd]
    OBVIOUS
  <2>2. PICK q : q = [d \in Days |-> daily'[d].usd]
    OBVIOUS
  <2>3. p \in [Days -> Int] /\ q \in [Days -> Int]
    BY <1>0, <1>17, <2>1, <2>2 DEF TotalTypes
  <2>4. \A d \in Days \ {today} : q[d] = p[d]
    BY <1>0, <1>10, <2>1, <2>2 DEF TotalTypes
  <2>5. q[today] = p[today] + usd /\ p[today] \in Int
    BY <1>0, <1>4, <1>9, <1>10, <1>16, <2>1, <2>2, <2>3 DEF TotalTypes
  <2>6. SumOn(p, Days) \in Int
    BY <2>3, GovNumbers, SumIsInteger
  <2>7. SumOn(q, Days) = SumOn(p, Days) + q[today] - p[today]
    <3>1. IsFiniteSet(Days)
      BY GovNumbers
    <3>2. PICK day : day = today
      OBVIOUS
    <3>3. day \in Days /\ \A d \in Days \ {day} : q[d] = p[d]
      BY <1>9, <2>4, <3>2
    <3>4. SumOn(q, Days) = SumOn(p, Days) + q[day] - p[day]
      BY <2>3, <3>1, <3>3, SumChange
    <3> QED BY <3>2, <3>4
  <2>8. DailyUsd(daily) = SumOn(p, Days) /\ DailyUsd(daily') = SumOn(q, Days)
    BY <2>1, <2>2 DEF DailyUsd
  <2> QED BY <2>5, <2>6, <2>7, <2>8
<1>28. LedgerAddsUp'
  <2>1. ASSUME NEW t \in CloudTasks PROVE perTask'[t] = LogTokens(modelCalls, t) + WayTokens(cm, t)
    <3>1. perTask[t] = LogTokens(modelCalls, t) + WayTokens(cl, t)
      BY <1>23 DEF GovInv, LedgerAddsUp
    <3>2. perTask'[t] = IF CallTask[c] = t THEN perTask[t] + used ELSE perTask[t]
      BY <1>0, <1>10 DEF TotalTypes
    <3>3. /\ WayTokens(cl, t) \in Nat
          /\ WayTokens(cm, t) = IF CallTask[c] = t THEN WayTokens(cl, t) + used ELSE WayTokens(cl, t)
      BY <1>26 DEF WayGains
    <3>4. LogTokens(modelCalls, t) \in Nat
      <4>1. modelCalls \in SUBSET Events /\ IsFiniteSet(modelCalls)
        BY <1>0 DEF GovInv, RestTypes
      <4>2. {e \in modelCalls : CallTask[e.call] = t} \in SUBSET modelCalls
        OBVIOUS
      <4> QED BY <4>1, <4>2, LogNumbers DEF LogTokens
    <3> QED BY <1>9, <3>1, <3>2, <3>3, <3>4
  <2>2. DailyUsd(daily') = LogUsd(modelCalls) + WayUsd(cm)
    <3>1. DailyUsd(daily) = LogUsd(modelCalls) + WayUsd(cl)
      BY <1>23 DEF GovInv, LedgerAddsUp
    <3>2. WayUsd(cl) \in Nat /\ WayUsd(cm) = WayUsd(cl) + usd
      BY <1>26 DEF WayGains
    <3>3. LogUsd(modelCalls) \in Int
      <4>1. modelCalls \in SUBSET Events /\ IsFiniteSet(modelCalls)
        BY <1>0 DEF GovInv, RestTypes
      <4> QED BY <4>1, LogUsdNumber
    <3> QED BY <1>27, <3>1, <3>2, <3>3
  <2> QED BY <1>1, <1>24, <2>1, <2>2 DEF LedgerAddsUp
<1>29. ASSUME NEW d \in Days
       PROVE  /\ WayFrom(cl, adm, d) \in Nat /\ LogFrom(modelCalls, adm, d) \in Nat
              /\ WayFrom(cm, adm, d) = IF adm[c] = d THEN WayFrom(cl, adm, d) + usd
                                                     ELSE WayFrom(cl, adm, d)
  <2>1. \A x \in Calls : cl[x].usage \in Nat
    BY <1>0, <1>23 DEF CallTypes, CallRows
  <2>2. modelCalls \in SUBSET Events /\ IsFiniteSet(modelCalls)
    BY <1>0 DEF GovInv, RestTypes
  <2>3. WayFrom(cl, adm, d) \in Nat /\ LogFrom(modelCalls, adm, d) \in Nat
    BY <2>1, <2>2, BookNumbers
  <2>4. WayFrom(cm, adm, d) = IF adm[c] = d THEN WayFrom(cl, adm, d) + usd ELSE WayFrom(cl, adm, d)
    BY <1>26 DEF WayGains
  <2> QED BY <2>3, <2>4
<1>30. DayAddsUp'
  <2>1. ASSUME NEW d \in Days
        PROVE  HeldUsd(reserved', d) + WayFrom(cm, adm, d) + LogFrom(modelCalls, adm, d) <= DailyBudget
    <3>1. HeldUsd(reserved, d) + WayFrom(cl, adm, d) + LogFrom(modelCalls, adm, d) <= DailyBudget
      BY <1>23, <1>25 DEF GovInv, DayAddsUp
    <3>2. HeldUsd(reserved, d) \in Nat /\ DailyBudget \in Nat
      BY GovNumbers, CallSums DEF HeldUsd
    <3>3. HeldUsd(reserved', d) = IF adm[c] = d THEN HeldUsd(reserved, d) - EstUsd(c)
                                                ELSE HeldUsd(reserved, d)
      BY <1>13, <1>14, <1>25
    <3> QED BY <1>9, <1>29, <3>1, <3>2, <3>3
  <2>2. WayFrom(cm, adm, today) + LogFrom(modelCalls, adm, today) <= daily'[today].usd
    <3>1. WayFrom(cl, adm, today) + LogFrom(modelCalls, adm, today) <= agg.usd
      BY <1>4, <1>23, <1>25 DEF GovInv, DayAddsUp
    <3>2. daily'[today].usd = agg.usd + usd
      BY <1>0, <1>9, <1>10, <1>16 DEF TotalTypes
    <3> QED BY <1>9, <1>16, <1>29, <3>1, <3>2
  <2> QED BY <1>1, <1>24, <1>25, <2>1, <2>2 DEF DayAddsUp
<1>31. AlarmsMarked'
  <2>1. ASSUME NEW d \in Days, NEW k \in AlarmKinds
        PROVE  alarms'[d][k] <= 1 /\ (alarms'[d][k] = 1 => k \in daily'[d].logged)
    <3>1. alarms[d][k] <= 1 /\ (alarms[d][k] = 1 => k \in daily[d].logged) /\ alarms[d][k] \in Nat
      BY <1>0 DEF GovInv, AlarmsMarked, RestTypes
    <3>2. CASE d # today
      BY <1>0, <1>10, <3>1, <3>2 DEF TotalTypes, RestTypes
    <3>3. CASE d = today
      <4>1. alarms'[d][k] = alarms[d][k] + IF k \in fire THEN 1 ELSE 0
        BY <1>0, <1>8, <1>10, <3>3 DEF RestTypes
      <4>2. daily'[d].logged = agg.logged \cup fire
        BY <1>0, <1>10, <1>16, <3>3 DEF TotalTypes
      <4>3. k \in fire => k \notin agg.logged
        BY <1>3, <1>4
      <4> QED BY <1>4, <3>1, <3>3, <4>1, <4>2, <4>3
    <3> QED BY <3>2, <3>3
  <2> QED BY <2>1 DEF AlarmsMarked
<1>32. IsFiniteSet(modelCalls')
  BY <1>1 DEF GovInv
<1> QED BY <1>14, <1>19, <1>20, <1>21, <1>22, <1>28, <1>30, <1>31, <1>32 DEF GovInv

\* A new day begins with nothing admitted on it.
LEMMA DayStep == ASSUME GovInv, NextDay PROVE GovInv'
<1>0. TotalTypes /\ PoolTypes /\ CallTypes /\ RestTypes
  BY GovTypes DEF GovInv
<1>1. /\ UNCHANGED <<perTask, daily, monthly, reserved, resTask, resDay, resMonth>>
      /\ UNCHANGED <<call, modelCalls, warned, boots, admitted, alarms, hooks>>
      /\ today' = today + 1 /\ today < MaxDay
  BY DEF NextDay, govTotals, govPools
<1>2. today \in Nat /\ today' \in Days /\ today <= today'
  BY <1>0, <1>1, GovNumbers DEF RestTypes, Days
<1>3. GovTypeOK'
  <2>1. TotalTypes' /\ PoolTypes' /\ CallTypes'
    BY <1>0, <1>1 DEF TotalTypes, PoolTypes, CallTypes
  <2>2. RestTypes'
    BY <1>0, <1>1, <1>2 DEF RestTypes
  <2> QED BY <2>1, <2>2, GovTypes
<1>4. ASSUME NEW x \in Calls
      PROVE  /\ CallOK(x, call'[x], reserved'[x], admitted'[x], hooks'[x], today')
             /\ admitted[x] # today'
  <2>1. CallOK(x, call[x], reserved[x], admitted[x], hooks[x], today)
    BY DEF GovInv
  <2>2. admitted[x] \in Int /\ admitted[x] <= today
    <3>1. admitted[x] \in Days \cup {-1}
      BY <1>0 DEF CallTypes
    <3>2. \A d \in Days : d \in Int
      BY GovNumbers
    <3>3. admitted[x] \in Int
      BY <3>1, <3>2
    <3> QED BY <2>1, <3>3 DEF CallOK
  <2>3. admitted[x] <= today' /\ admitted[x] # today'
    BY <1>1, <1>2, <2>2
  <2> QED BY <1>1, <2>1, <2>3 DEF CallOK
<1>5. ASSUME NEW e \in modelCalls
      PROVE  EventOK(e)' /\ admitted[e.call] # today'
  <2>1. EventOK(e) /\ e \in Events
    BY <1>0 DEF GovInv, RestTypes
  <2>2. e.call \in Calls /\ e.day \in Nat
    BY <2>1, GovNumbers DEF Events
  <2>3. e.day <= today'
    BY <1>1, <1>2, <2>1, <2>2 DEF EventOK
  <2> QED BY <1>1, <1>4, <2>1, <2>2, <2>3 DEF EventOK
<1>6. DayAddsUp'
  <2>1. \A d \in Days :
           HeldUsd(reserved, d) + WayFrom(call, admitted, d) + LogFrom(modelCalls, admitted, d)
              <= DailyBudget
    BY DEF GovInv, DayAddsUp
  <2>2. WayFrom(call, admitted, today') = 0
    <3>1. {c \in Calls : call[c].pc = "ledger" /\ admitted[c] = today'} = {}
      BY <1>4
    <3> QED BY <3>1, SumOfNone DEF WayFrom
  <2>3. LogFrom(modelCalls, admitted, today') = 0
    <3>1. {e \in modelCalls : admitted[e.call] = today'} = {}
      BY <1>5
    <3> QED BY <3>1, SumOfNone DEF LogFrom
  <2>4. daily[today'].usd \in Nat
    BY <1>0, <1>2 DEF TotalTypes
  <2>5. WayFrom(call, admitted, today') + LogFrom(modelCalls, admitted, today') <= daily[today'].usd
    BY <2>2, <2>3, <2>4
  <2> QED BY <1>1, <2>1, <2>5 DEF DayAddsUp
<1>7. PoolsAddUp' /\ TaskCeilingHolds' /\ LedgerAddsUp' /\ AlarmsMarked' /\ IsFiniteSet(modelCalls')
  BY <1>1 DEF GovInv, PoolsAddUp, TaskCeilingHolds, LedgerAddsUp, AlarmsMarked
<1>8. \A e \in modelCalls' : EventOK(e)'
  BY <1>1, <1>5
<1> QED BY <1>3, <1>4, <1>6, <1>7, <1>8 DEF GovInv

\* What Boot reads is what the ledger sums to.
LEMMA BootedReads ==
    ASSUME NEW ms \in SUBSET Events, IsFiniteSet(ms)
    PROVE  /\ \A t \in CloudTasks :
                 Booted(ms).perTask[t] = LogTokens(ms, t) /\ LogTokens(ms, t) \in Nat
           /\ \A d \in Days :
                 /\ Booted(ms).daily[d].usd = LogOn(ms, d) /\ LogOn(ms, d) \in Nat
                 /\ Booted(ms).daily[d].logged = {}
           /\ Booted(ms).perTask \in [CloudTasks -> Nat]
           /\ Booted(ms).daily \in [Days -> [usd : Nat, calls : Nat, logged : SUBSET AlarmKinds]]
           /\ Booted(ms).monthly \in [Months -> Nat]
<1>1. ASSUME NEW S \in SUBSET ms
      PROVE  /\ SumOf(S, LAMBDA m : m.usage) = SumOn(EventTokens, S)
             /\ SumOf(S, LAMBDA m : Usd(m.call, m.usage)) = SumOn(EventUsd, S)
             /\ SumOn(EventTokens, S) \in Nat /\ SumOn(EventUsd, S) \in Nat
             /\ Cardinality(S) \in Nat
  <2>1. IsFiniteSet(S) /\ SumOn(EventTokens, S) \in Nat /\ SumOn(EventUsd, S) \in Nat
    BY LogNumbers
  <2>2. PICK f : f = [x \in S |-> x.usage]
    OBVIOUS
  <2>3. PICK h : h = [x \in S |-> Usd(x.call, x.usage)]
    OBVIOUS
  <2>4. \A x \in S : EventTokens[x] \in Int /\ f[x] = EventTokens[x]
    BY <2>2, LogNumbers DEF EventTokens
  <2>5. \A x \in S : EventUsd[x] \in Int /\ h[x] = EventUsd[x]
    BY <2>3, LogNumbers DEF EventUsd
  <2>6. SumOn(f, S) = SumOn(EventTokens, S)
    BY <2>1, <2>4, SumSame
  <2>7. SumOn(h, S) = SumOn(EventUsd, S)
    BY <2>1, <2>5, SumSame
  <2>8. Cardinality(S) \in Nat
    BY <2>1, FS_CardinalityType
  <2> QED BY <2>1, <2>2, <2>3, <2>6, <2>7, <2>8 DEF SumOf
<1>2. ASSUME NEW t \in CloudTasks
      PROVE  Booted(ms).perTask[t] = LogTokens(ms, t) /\ LogTokens(ms, t) \in Nat
  <2>1. {m \in ms : CallTask[m.call] = t} \in SUBSET ms
    OBVIOUS
  <2> QED BY <1>1, <2>1 DEF Booted, LogTokens
<1>3. ASSUME NEW d \in Days
      PROVE  /\ Booted(ms).daily[d].usd = LogOn(ms, d) /\ LogOn(ms, d) \in Nat
             /\ Booted(ms).daily[d].logged = {}
             /\ Booted(ms).daily[d] \in [usd : Nat, calls : Nat, logged : SUBSET AlarmKinds]
  <2>1. PICK S : S = {m \in ms : m.day = d}
    OBVIOUS
  <2>2. /\ SumOf(S, LAMBDA m : Usd(m.call, m.usage)) = SumOn(EventUsd, S)
        /\ SumOn(EventUsd, S) \in Nat /\ Cardinality(S) \in Nat
    BY <1>1, <2>1
  <2>3. Booted(ms).daily[d] = [usd |-> SumOf(S, LAMBDA m : Usd(m.call, m.usage)),
                               calls |-> Cardinality(S), logged |-> {}]
    BY <2>1 DEF Booted
  <2> QED BY <2>1, <2>2, <2>3 DEF LogOn
<1>4. Booted(ms).perTask \in [CloudTasks -> Nat]
  BY <1>2 DEF Booted
<1>5. Booted(ms).daily \in [Days -> [usd : Nat, calls : Nat, logged : SUBSET AlarmKinds]]
  BY <1>3 DEF Booted
<1>6. Booted(ms).monthly \in [Months -> Nat]
  <2>1. ASSUME NEW x \in Months
        PROVE  SumOf({m \in ms : MonthOf(m.day) = x}, LAMBDA m : Usd(m.call, m.usage)) \in Nat
    <3>1. {m \in ms : MonthOf(m.day) = x} \in SUBSET ms
      OBVIOUS
    <3> QED BY <1>1, <3>1
  <2> QED BY <2>1 DEF Booted
<1> QED BY <1>2, <1>3, <1>4, <1>5, <1>6


\* Nothing is held when no call is, and nothing on its way when no call is.
LEMMA NothingHeld ==
    ASSUME NEW res, \A x \in Calls : res[x] = -1
    PROVE  /\ \A t \in CloudTasks : HeldTokens(res, t) = 0
           /\ \A d \in Days : HeldUsd(res, d) = 0
           /\ \A m \in Months : HeldMonth(res, m) = 0
<1>1. ASSUME NEW t \in CloudTasks PROVE HeldTokens(res, t) = 0
  <2>1. {c \in Calls : res[c] # -1 /\ CallTask[c] = t} = {}
    OBVIOUS
  <2> QED BY <2>1, SumOfNone DEF HeldTokens
<1>2. ASSUME NEW d \in Days PROVE HeldUsd(res, d) = 0
  <2>1. {c \in Calls : res[c] = d} = {}
    BY GovNumbers
  <2> QED BY <2>1, SumOfNone DEF HeldUsd
<1>3. ASSUME NEW m \in Months PROVE HeldMonth(res, m) = 0
  <2>1. {c \in Calls : res[c] # -1 /\ MonthOf(res[c]) = m} = {}
    OBVIOUS
  <2> QED BY <2>1, SumOfNone DEF HeldMonth
<1> QED BY <1>1, <1>2, <1>3

\* Nothing is on its way when no call waits for the ledger.
LEMMA NothingOnWay ==
    ASSUME NEW cl, NEW adm, \A x \in Calls : cl[x].pc # "ledger"
    PROVE  /\ \A t \in CloudTasks : WayTokens(cl, t) = 0
           /\ \A d \in Days : WayFrom(cl, adm, d) = 0
           /\ WayUsd(cl) = 0
<1>1. ASSUME NEW t \in CloudTasks PROVE WayTokens(cl, t) = 0
  <2>1. {c \in Calls : cl[c].pc = "ledger" /\ CallTask[c] = t} = {}
    OBVIOUS
  <2> QED BY <2>1, SumOfNone DEF WayTokens
<1>2. ASSUME NEW d \in Days PROVE WayFrom(cl, adm, d) = 0
  <2>1. {c \in Calls : cl[c].pc = "ledger" /\ adm[c] = d} = {}
    OBVIOUS
  <2> QED BY <2>1, SumOfNone DEF WayFrom
<1>3. WayUsd(cl) = 0
  <2>1. {c \in Calls : cl[c].pc = "ledger"} = {}
    OBVIOUS
  <2> QED BY <2>1, SumOfNone DEF WayUsd
<1> QED BY <1>1, <1>2, <1>3

\* A restart: reservations are gone and the totals are the ledger's, which is
\* no more than they were.
LEMMA BootStep == ASSUME GovInv, GovBoot PROVE GovInv'
<1>0. TotalTypes /\ PoolTypes /\ CallTypes /\ RestTypes
  BY GovTypes DEF GovInv
<1>1. /\ UNCHANGED <<today, modelCalls, admitted, hooks>>
      /\ boots' = boots + 1 /\ boots < MaxBoots /\ warned' = {}
      /\ reserved' = [c \in Calls |-> -1]
      /\ resTask' = [t \in CloudTasks |-> 0] /\ resDay' = [d \in Days |-> 0]
      /\ resMonth' = [m \in Months |-> 0]
      /\ call' = [c \in Calls |-> IF CallAt(c, "new") THEN call[c] ELSE [call[c] EXCEPT !.pc = "done"]]
      /\ alarms' = [d \in Days |-> [k \in AlarmKinds |-> 0]]
  BY DEF GovBoot
<1>2. PICK ms : ms = modelCalls
  OBVIOUS
<1>3. ms \in SUBSET Events /\ IsFiniteSet(ms) /\ today \in Days
  BY <1>0, <1>2 DEF GovInv, RestTypes
<1>4. perTask' = Booted(ms).perTask /\ daily' = Booted(ms).daily /\ monthly' = Booted(ms).monthly
  BY <1>2 DEF GovBoot
<1>5. /\ \A t \in CloudTasks : perTask'[t] = LogTokens(ms, t) /\ LogTokens(ms, t) \in Nat
      /\ \A d \in Days :
            daily'[d].usd = LogOn(ms, d) /\ LogOn(ms, d) \in Nat /\ daily'[d].logged = {}
      /\ TotalTypes'
  <2>1. \A t \in CloudTasks : perTask'[t] = LogTokens(ms, t) /\ LogTokens(ms, t) \in Nat
    BY <1>3, <1>4, BootedReads
  <2>2. \A d \in Days :
            daily'[d].usd = LogOn(ms, d) /\ LogOn(ms, d) \in Nat /\ daily'[d].logged = {}
    BY <1>3, <1>4, BootedReads
  <2>3. TotalTypes'
    BY <1>3, <1>4, BootedReads DEF TotalTypes
  <2> QED BY <2>1, <2>2, <2>3
<1>6. ASSUME NEW x \in Calls
      PROVE  /\ call'[x] \in CallRows /\ call'[x].pc \in {"new", "done"}
             /\ call'[x].usage = call[x].usage /\ call'[x].attempt = call[x].attempt
             /\ call'[x].pc = "new" <=> call[x].pc = "new"
             /\ reserved'[x] = -1
  <2>1. call[x] \in CallRows
    BY <1>0 DEF CallTypes
  <2>2. CASE call[x].pc = "new"
    BY <1>1, <2>1, <2>2 DEF CallAt
  <2>3. CASE call[x].pc # "new"
    <3>1. PICK r : r = [call[x] EXCEPT !.pc = "done"]
      OBVIOUS
    <3>2. r \in CallRows /\ r.pc = "done" /\ r.usage = call[x].usage /\ r.attempt = call[x].attempt
      BY <2>1, <3>1 DEF CallRows, GovPcs
    <3>3. call'[x] = r
      BY <1>1, <2>3, <3>1 DEF CallAt
    <3> QED BY <1>1, <2>3, <3>2, <3>3
  <2> QED BY <2>2, <2>3
<1>7. GovTypeOK'
  <2>1. PoolTypes'
    BY <1>1, GovNumbers DEF PoolTypes
  <2>2. CallTypes'
    BY <1>0, <1>1, <1>6 DEF CallTypes
  <2>3. RestTypes'
    <3>1. boots' \in 0..MaxBoots
      BY <1>0, <1>1, GovNumbers DEF RestTypes
    <3>2. alarms' \in [Days -> [AlarmKinds -> Nat]]
      BY <1>1
    <3> QED BY <1>0, <1>1, <3>1, <3>2 DEF RestTypes
  <2> QED BY <1>5, <2>1, <2>2, <2>3, GovTypes
<1>8. ASSUME NEW x \in Calls
      PROVE  CallOK(x, call'[x], reserved'[x], admitted'[x], hooks'[x], today')
  <2>1. CallOK(x, call[x], reserved[x], admitted[x], hooks[x], today)
    BY DEF GovInv
  <2> QED BY <1>1, <1>6, <2>1 DEF CallOK
<1>9. ASSUME NEW e \in modelCalls PROVE EventOK(e)'
  <2>1. EventOK(e) /\ e.call \in Calls
    BY <1>0 DEF GovInv, RestTypes, Events
  <2>2. call'[e.call].pc = "done" /\ reserved'[e.call] = -1
    BY <1>6, <2>1 DEF EventOK
  <2> QED BY <1>1, <2>1, <2>2 DEF EventOK
<1>10. PICK res : res = reserved'
  OBVIOUS
<1>11. PICK cl : cl = call'
  OBVIOUS
<1>12. PICK adm : adm = admitted
  OBVIOUS
<1>13. /\ \A t \in CloudTasks : HeldTokens(res, t) = 0
       /\ \A d \in Days : HeldUsd(res, d) = 0
       /\ \A m \in Months : HeldMonth(res, m) = 0
  <2>1. \A x \in Calls : res[x] = -1
    BY <1>6, <1>10
  <2> QED BY <2>1, NothingHeld
<1>14. /\ \A t \in CloudTasks : WayTokens(cl, t) = 0
       /\ \A d \in Days : WayFrom(cl, adm, d) = 0
       /\ WayUsd(cl) = 0
  <2>1. \A x \in Calls : cl[x].pc # "ledger"
    BY <1>6, <1>11
  <2> QED BY <2>1, NothingOnWay
<1>15. PoolsAddUp'
  BY <1>1, <1>10, <1>13 DEF PoolsAddUp
<1>16. TaskCeilingHolds'
  <2>1. ASSUME NEW t \in CloudTasks PROVE perTask'[t] + resTask'[t] <= TaskTokenCeiling
    <3>1. perTask[t] + resTask[t] <= TaskTokenCeiling /\ perTask[t] = LogTokens(ms, t) + WayTokens(call, t)
      BY <1>2 DEF GovInv, TaskCeilingHolds, LedgerAddsUp
    <3>2. perTask[t] \in Nat /\ resTask[t] \in Nat /\ TaskTokenCeiling \in Nat
      BY <1>0, GovNumbers DEF TotalTypes, PoolTypes
    <3>3. WayTokens(call, t) \in Nat
      <4>1. UsedTokens(call) \in [Calls -> Nat]
        BY <1>0 DEF UsedTokens, CallTypes, CallRows
      <4> QED BY <4>1, CallSums DEF WayTokens
    <3>4. perTask'[t] = LogTokens(ms, t) /\ LogTokens(ms, t) \in Nat /\ resTask'[t] = 0
      BY <1>1, <1>5
    <3> QED BY <3>1, <3>2, <3>3, <3>4
  <2> QED BY <2>1 DEF TaskCeilingHolds
<1>17. LedgerAddsUp'
  <2>1. ASSUME NEW t \in CloudTasks PROVE perTask'[t] = LogTokens(ms, t) + WayTokens(cl, t)
    <3>1. perTask'[t] = LogTokens(ms, t) /\ LogTokens(ms, t) \in Nat /\ WayTokens(cl, t) = 0
      BY <1>5, <1>14
    <3> QED BY <3>1
  <2>2. DailyUsd(daily') = LogUsd(ms) + WayUsd(cl)
    <3>1. [d \in Days |-> daily'[d].usd] = [d \in Days |-> LogOn(ms, d)]
      BY <1>5
    <3>2. DailyUsd(daily') = LogUsd(ms)
      BY <3>1 DEF DailyUsd, LogUsd
    <3>3. LogUsd(ms) \in Int
      BY <1>3, LogUsdNumber
    <3> QED BY <1>14, <3>2, <3>3
  <2> QED BY <1>1, <1>2, <1>11, <2>1, <2>2 DEF LedgerAddsUp
<1>18. DayAddsUp'
  <2>1. ASSUME NEW d \in Days
        PROVE  HeldUsd(res, d) + WayFrom(cl, adm, d) + LogFrom(ms, adm, d) <= DailyBudget
    <3>1. HeldUsd(reserved, d) + WayFrom(call, adm, d) + LogFrom(ms, adm, d) <= DailyBudget
      BY <1>2, <1>12 DEF GovInv, DayAddsUp
    <3>2. HeldUsd(reserved, d) \in Nat /\ DailyBudget \in Nat
      BY GovNumbers, CallSums DEF HeldUsd
    <3>3. WayFrom(call, adm, d) \in Nat /\ LogFrom(ms, adm, d) \in Nat
      <4>1. \A x \in Calls : call[x].usage \in Nat
        BY <1>0 DEF CallTypes, CallRows
      <4> QED BY <1>3, <4>1, BookNumbers
    <3>4. HeldUsd(res, d) = 0 /\ WayFrom(cl, adm, d) = 0
      BY <1>13, <1>14
    <3> QED BY <3>1, <3>2, <3>3, <3>4
  <2>2. WayFrom(cl, adm, today) + LogFrom(ms, adm, today) <= daily'[today].usd
    <3>1. {e \in ms : adm[e.call] = today} \in SUBSET {e \in ms : e.day = today}
      <4>1. ASSUME NEW e \in ms, adm[e.call] = today PROVE e.day = today
        <5>1. EventOK(e) /\ e \in Events
          BY <1>2, <1>3 DEF GovInv
        <5>2. e.day \in Nat /\ today \in Nat
          BY <1>3, <5>1, GovNumbers DEF Events
        <5> QED BY <1>12, <4>1, <5>1, <5>2 DEF EventOK
      <4> QED BY <4>1
    <3>2. {e \in ms : e.day = today} \in SUBSET ms
      OBVIOUS
    <3>3. LogFrom(ms, adm, today) <= LogOn(ms, today)
      BY <1>3, <3>1, <3>2, LogNumbers DEF LogFrom, LogOn
    <3>4. LogFrom(ms, adm, today) \in Nat
      <4>1. {e \in ms : adm[e.call] = today} \in SUBSET ms
        OBVIOUS
      <4> QED BY <1>3, <4>1, LogNumbers DEF LogFrom
    <3>5. WayFrom(cl, adm, today) = 0 /\ daily'[today].usd = LogOn(ms, today)
      BY <1>3, <1>5, <1>14
    <3> QED BY <3>3, <3>4, <3>5
  <2> QED BY <1>1, <1>2, <1>10, <1>11, <1>12, <2>1, <2>2 DEF DayAddsUp
<1>19. AlarmsMarked' /\ IsFiniteSet(modelCalls')
  BY <1>1, <1>2, <1>3 DEF AlarmsMarked
<1>20. \A e \in modelCalls' : EventOK(e)'
  BY <1>1, <1>9
<1> QED BY <1>7, <1>8, <1>15, <1>16, <1>17, <1>18, <1>19, <1>20 DEF GovInv

\* No call and no cost at the start.
LEMMA InitGov == GovInit => GovInv
<1> SUFFICES ASSUME GovInit PROVE GovInv
  OBVIOUS
<1>1. PICK r : r = [pc |-> "new", attempt |-> 0, usage |-> 0, failed |-> FALSE]
  OBVIOUS
<1>2. r \in CallRows /\ r.pc = "new" /\ r.attempt = 0 /\ r.usage = 0
  BY <1>1, GovNumbers DEF CallRows, GovPcs
<1>3. call = [c \in Calls |-> r] /\ modelCalls = {} /\ today = 0
  BY <1>1 DEF GovInit
<1>4. GovTypeOK
  <2>1. TotalTypes
    BY DEF GovInit, TotalTypes, NoAgg
  <2>2. PoolTypes
    BY DEF GovInit, PoolTypes
  <2>3. CallTypes
    BY <1>2, <1>3 DEF GovInit, CallTypes
  <2>4. RestTypes
    BY GovNumbers DEF GovInit, RestTypes
  <2> QED BY <2>1, <2>2, <2>3, <2>4, GovTypes
<1>5. ASSUME NEW x \in Calls PROVE CallOK(x, call[x], reserved[x], admitted[x], hooks[x], today)
  <2>1. call[x] = r /\ reserved[x] = -1 /\ admitted[x] = -1 /\ hooks[x] = {}
    BY <1>3 DEF GovInit
  <2> QED BY <1>2, <1>3, <2>1, GovNumbers DEF CallOK
<1>6. IsFiniteSet(modelCalls)
  BY <1>3, FS_EmptySet
<1>7. /\ \A t \in CloudTasks : HeldTokens(reserved, t) = 0
      /\ \A d \in Days : HeldUsd(reserved, d) = 0
      /\ \A m \in Months : HeldMonth(reserved, m) = 0
  <2>1. \A x \in Calls : reserved[x] = -1
    BY DEF GovInit
  <2> QED BY <2>1, NothingHeld
<1>8. /\ \A t \in CloudTasks : WayTokens(call, t) = 0
      /\ \A d \in Days : WayFrom(call, admitted, d) = 0
      /\ WayUsd(call) = 0
  <2>1. PICK cl : cl = call
    OBVIOUS
  <2>2. PICK adm : adm = admitted
    OBVIOUS
  <2>3. \A x \in Calls : cl[x].pc # "ledger"
    BY <1>2, <1>3, <2>1
  <2>4. /\ \A t \in CloudTasks : WayTokens(cl, t) = 0
        /\ \A d \in Days : WayFrom(cl, adm, d) = 0
        /\ WayUsd(cl) = 0
    BY <2>3, NothingOnWay
  <2> QED BY <2>1, <2>2, <2>4
<1>9. /\ \A t \in CloudTasks : LogTokens({}, t) = 0
      /\ \A d \in Days : LogOn({}, d) = 0 /\ LogFrom({}, admitted, d) = 0
  <2>1. /\ \A t \in CloudTasks : {e \in {} : CallTask[e.call] = t} = {}
        /\ \A d \in Days : {e \in {} : e.day = d} = {} /\ {e \in {} : admitted[e.call] = d} = {}
    OBVIOUS
  <2> QED BY <2>1, SumOfNone DEF LogTokens, LogOn, LogFrom
<1>10. PoolsAddUp
  BY <1>7 DEF GovInit, PoolsAddUp
<1>11. TaskCeilingHolds
  BY GovNumbers DEF GovInit, TaskCeilingHolds
<1>12. DayAddsUp
  <2>1. \A d \in Days :
          HeldUsd(reserved, d) = 0 /\ WayFrom(call, admitted, d) = 0
            /\ LogFrom(modelCalls, admitted, d) = 0 /\ daily[d].usd = 0
    BY <1>3, <1>7, <1>8, <1>9 DEF GovInit, NoAgg
  <2>2. DailyBudget >= 0 /\ today \in Days
    BY <1>3, GovNumbers
  <2>3. \A d \in Days :
          HeldUsd(reserved, d) + WayFrom(call, admitted, d) + LogFrom(modelCalls, admitted, d) = 0
    BY <2>1
  <2>4. WayFrom(call, admitted, today) + LogFrom(modelCalls, admitted, today) = daily[today].usd
    BY <2>1, <2>2
  <2>5. daily[today].usd = 0
    BY <2>1, <2>2
  <2>6. WayFrom(call, admitted, today) + LogFrom(modelCalls, admitted, today) <= daily[today].usd
    BY <2>4, <2>5
  <2>7. \A d \in Days :
          HeldUsd(reserved, d) + WayFrom(call, admitted, d) + LogFrom(modelCalls, admitted, d)
            <= DailyBudget
    BY <2>2, <2>3, GovNumbers
  <2> QED BY <2>6, <2>7 DEF DayAddsUp
<1>13. LedgerAddsUp
  <2>1. ASSUME NEW t \in CloudTasks
        PROVE  perTask[t] = LogTokens(modelCalls, t) + WayTokens(call, t)
    <3>1. perTask[t] = 0
      BY DEF GovInit
    <3>2. LogTokens(modelCalls, t) = 0
      BY <1>3, <1>9
    <3>3. WayTokens(call, t) = 0
      BY <1>8
    <3> QED BY <3>1, <3>2, <3>3
  <2>2. [d \in Days |-> daily[d].usd] = [d \in Days |-> LogOn(modelCalls, d)]
    BY <1>3, <1>9 DEF GovInit, NoAgg
  <2>3. DailyUsd(daily) = LogUsd(modelCalls)
    BY <2>2 DEF DailyUsd, LogUsd
  <2>4. LogUsd(modelCalls) \in Int
    BY <1>3, <1>6, LogUsdNumber
  <2> QED BY <1>8, <2>1, <2>3, <2>4 DEF LedgerAddsUp
<1>14. AlarmsMarked
  BY DEF GovInit, AlarmsMarked
<1> QED BY <1>3, <1>4, <1>5, <1>6, <1>10, <1>11, <1>12, <1>13, <1>14 DEF GovInv

\* What the invariant says in the words of the governor's promise.
LEMMA GovAddsUp == GovInv => GovTypeOK /\ SpendAddsUp
<1> SUFFICES ASSUME GovInv PROVE GovTypeOK /\ SpendAddsUp
  OBVIOUS
<1>0. TotalTypes /\ PoolTypes /\ CallTypes /\ RestTypes
  BY GovTypes DEF GovInv
<1>1. modelCalls \in SUBSET Events /\ IsFiniteSet(modelCalls)
  BY <1>0 DEF GovInv, RestTypes
<1>2. ASSUME NEW S \in SUBSET Calls
      PROVE  /\ SumOf(S, LAMBDA c : Estimate[c]) = SumOn(Estimate, S)
             /\ SumOf(S, EstUsd) = SumOn(Estimated, S)
             /\ SumOf(S, LAMBDA c : call[c].usage) = SumOn(UsedTokens(call), S)
             /\ SumOf(S, LAMBDA c : Usd(c, call[c].usage)) = SumOn(UsedUsd(call), S)
  <2>1. IsFiniteSet(S)
    BY GovNumbers
  <2>2. ASSUME NEW f \in [Calls -> Nat] PROVE SumOn([x \in S |-> f[x]], S) = SumOn(f, S)
    <3>1. PICK h : h = [x \in S |-> f[x]]
      OBVIOUS
    <3>2. \A x \in S : f[x] \in Int /\ h[x] = f[x]
      BY <3>1
    <3>3. SumOn(h, S) = SumOn(f, S)
      BY <2>1, <3>2, SumSame
    <3> QED BY <3>1, <3>3
  <2>3. SumOf(S, LAMBDA c : Estimate[c]) = SumOn(Estimate, S)
    <3>1. Estimate \in [Calls -> Nat]
      BY GovNumbers
    <3> QED BY <2>2, <3>1 DEF SumOf
  <2>4. SumOf(S, EstUsd) = SumOn(Estimated, S)
    <3>1. Estimated \in [Calls -> Nat] /\ [x \in S |-> EstUsd(x)] = [x \in S |-> Estimated[x]]
      BY GovNumbers DEF Estimated
    <3>2. SumOn([x \in S |-> Estimated[x]], S) = SumOn(Estimated, S)
      BY <2>2, <3>1
    <3> QED BY <3>1, <3>2 DEF SumOf
  <2>5. PICK f : f = UsedTokens(call)
    OBVIOUS
  <2>6. PICK h : h = UsedUsd(call)
    OBVIOUS
  <2>7. f \in [Calls -> Nat] /\ h \in [Calls -> Nat]
    BY <1>0, <2>5, <2>6 DEF UsedTokens, UsedUsd, Usd, CallTypes, CallRows
  <2>8. SumOf(S, LAMBDA c : call[c].usage) = SumOn(UsedTokens(call), S)
    <3>1. [x \in S |-> call[x].usage] = [x \in S |-> f[x]]
      BY <2>5 DEF UsedTokens
    <3>2. SumOn([x \in S |-> f[x]], S) = SumOn(f, S)
      BY <2>2, <2>7
    <3> QED BY <2>5, <3>1, <3>2 DEF SumOf
  <2>9. SumOf(S, LAMBDA c : Usd(c, call[c].usage)) = SumOn(UsedUsd(call), S)
    <3>1. [x \in S |-> Usd(x, call[x].usage)] = [x \in S |-> h[x]]
      BY <2>6 DEF UsedUsd
    <3>2. SumOn([x \in S |-> h[x]], S) = SumOn(h, S)
      BY <2>2, <2>7
    <3> QED BY <2>6, <3>1, <3>2 DEF SumOf
  <2> QED BY <2>3, <2>4, <2>8, <2>9
<1>3. PoolsMatchReservations
  <2> DEFINE Held == {c \in Calls : reserved[c] # -1}
  <2>1. ASSUME NEW t \in CloudTasks
        PROVE  resTask[t] = SumOf({c \in Held : CallTask[c] = t}, LAMBDA c : Estimate[c])
    <3>1. {c \in Held : CallTask[c] = t} = {c \in Calls : reserved[c] # -1 /\ CallTask[c] = t}
      OBVIOUS
    <3>2. resTask[t] = HeldTokens(reserved, t)
      BY DEF GovInv, PoolsAddUp
    <3> QED BY <1>2, <3>1, <3>2 DEF HeldTokens
  <2>2. ASSUME NEW d \in Days
        PROVE  resDay[d] = SumOf({c \in Held : reserved[c] = d}, EstUsd)
    <3>1. {c \in Held : reserved[c] = d} = {c \in Calls : reserved[c] = d}
      BY GovNumbers
    <3>2. resDay[d] = HeldUsd(reserved, d)
      BY DEF GovInv, PoolsAddUp
    <3> QED BY <1>2, <3>1, <3>2 DEF HeldUsd
  <2>3. ASSUME NEW m \in Months
        PROVE  resMonth[m] = SumOf({c \in Held : MonthOf(reserved[c]) = m}, EstUsd)
    <3>1. {c \in Held : MonthOf(reserved[c]) = m}
            = {c \in Calls : reserved[c] # -1 /\ MonthOf(reserved[c]) = m}
      OBVIOUS
    <3>2. resMonth[m] = HeldMonth(reserved, m)
      BY DEF GovInv, PoolsAddUp
    <3> QED BY <1>2, <3>1, <3>2 DEF HeldMonth
  <2> QED BY <2>1, <2>2, <2>3 DEF PoolsMatchReservations
<1>4. DayBudgetHolds
  <2>1. ASSUME NEW d \in Days
        PROVE  SumOf({c \in Calls : admitted[c] = d /\ reserved[c] # -1}, EstUsd)
                 + SumOf({m \in modelCalls : admitted[m.call] = d /\ reserved[m.call] = -1},
                         LAMBDA m : Usd(m.call, m.usage)) <= DailyBudget
    <3>1. {c \in Calls : admitted[c] = d /\ reserved[c] # -1} = {c \in Calls : reserved[c] = d}
      <4>1. ASSUME NEW c \in Calls PROVE reserved[c] # -1 => reserved[c] = admitted[c]
        BY DEF GovInv, CallOK
      <4>2. d # -1
        BY GovNumbers
      <4> QED BY <4>1, <4>2
    <3>2. {m \in modelCalls : admitted[m.call] = d /\ reserved[m.call] = -1}
            = {e \in modelCalls : admitted[e.call] = d}
      BY DEF GovInv, EventOK
    <3>3. SumOf({c \in Calls : admitted[c] = d /\ reserved[c] # -1}, EstUsd) = HeldUsd(reserved, d)
      BY <1>2, <3>1 DEF HeldUsd
    <3>4. PICK S : S = {e \in modelCalls : admitted[e.call] = d}
      OBVIOUS
    <3>5. SumOf(S, LAMBDA m : Usd(m.call, m.usage)) = SumOn(EventUsd, S)
      <4>1. PICK h : h = [x \in S |-> Usd(x.call, x.usage)]
        OBVIOUS
      <4>2. \A x \in S : EventUsd[x] \in Int /\ h[x] = EventUsd[x]
        BY <1>1, <3>4, <4>1, LogNumbers DEF EventUsd
      <4>3. IsFiniteSet(S)
        BY <1>1, <3>4, FS_Subset
      <4>4. SumOn(h, S) = SumOn(EventUsd, S)
        BY <4>2, <4>3, SumSame
      <4> QED BY <4>1, <4>4 DEF SumOf
    <3>6. SumOf(S, LAMBDA m : Usd(m.call, m.usage)) = LogFrom(modelCalls, admitted, d)
      BY <3>4, <3>5 DEF LogFrom
    <3>7. HeldUsd(reserved, d) + WayFrom(call, admitted, d) + LogFrom(modelCalls, admitted, d)
            <= DailyBudget
      BY DEF GovInv, DayAddsUp
    <3>8. HeldUsd(reserved, d) \in Nat /\ DailyBudget \in Nat
      BY GovNumbers, CallSums DEF HeldUsd
    <3>9. WayFrom(call, admitted, d) \in Nat /\ LogFrom(modelCalls, admitted, d) \in Nat
      <4>1. \A x \in Calls : call[x].usage \in Nat
        BY <1>0 DEF CallTypes, CallRows
      <4> QED BY <1>1, <4>1, BookNumbers
    <3>10. HeldUsd(reserved, d) + LogFrom(modelCalls, admitted, d) <= DailyBudget
      BY <3>7, <3>8, <3>9
    <3> QED BY <3>2, <3>3, <3>4, <3>6, <3>10
  <2> QED BY <2>1 DEF DayBudgetHolds
<1>5. MemoryAgreesWithLedger
  <2>1. PICK ms : ms = modelCalls
    OBVIOUS
  <2>2. /\ \A t \in CloudTasks : Booted(ms).perTask[t] = LogTokens(ms, t)
        /\ \A d \in Days : Booted(ms).daily[d].usd = LogOn(ms, d)
    BY <1>1, <2>1, BootedReads
  <2>3. ASSUME NEW t \in CloudTasks
        PROVE  perTask[t] = Booted(ms).perTask[t]
                  + SumOf({c \in Calls : CallAt(c, "ledger") /\ CallTask[c] = t},
                          LAMBDA c : call[c].usage)
    <3>1. SumOf({c \in Calls : CallAt(c, "ledger") /\ CallTask[c] = t}, LAMBDA c : call[c].usage)
            = WayTokens(call, t)
      BY <1>2 DEF WayTokens, CallAt
    <3>2. perTask[t] = LogTokens(ms, t) + WayTokens(call, t)
      BY <2>1 DEF GovInv, LedgerAddsUp
    <3> QED BY <2>2, <3>1, <3>2
  <2>4. SumOf(Days, LAMBDA d : daily[d].usd)
          = SumOf(Days, LAMBDA d : Booted(ms).daily[d].usd)
              + SumOf({c \in Calls : CallAt(c, "ledger")}, LAMBDA c : Usd(c, call[c].usage))
    <3>1. SumOf({c \in Calls : CallAt(c, "ledger")}, LAMBDA c : Usd(c, call[c].usage)) = WayUsd(call)
      BY <1>2 DEF WayUsd, CallAt
    <3>2. SumOf(Days, LAMBDA d : daily[d].usd) = DailyUsd(daily)
      BY DEF SumOf, DailyUsd
    <3>3. SumOf(Days, LAMBDA d : Booted(ms).daily[d].usd) = LogUsd(ms)
      <4>1. [d \in Days |-> Booted(ms).daily[d].usd] = [d \in Days |-> LogOn(ms, d)]
        BY <2>2
      <4> QED BY <4>1 DEF SumOf, LogUsd
    <3>4. DailyUsd(daily) = LogUsd(ms) + WayUsd(call)
      BY <2>1 DEF GovInv, LedgerAddsUp
    <3> QED BY <3>1, <3>2, <3>3, <3>4
  <2>5. \A t \in CloudTasks :
          perTask[t] = Booted(modelCalls).perTask[t]
             + SumOf({c \in Calls : CallAt(c, "ledger") /\ CallTask[c] = t},
                     LAMBDA c : call[c].usage)
    BY <2>1, <2>3
  <2>6. SumOf(Days, LAMBDA d : daily[d].usd)
          = SumOf(Days, LAMBDA d : Booted(modelCalls).daily[d].usd)
              + SumOf({c \in Calls : CallAt(c, "ledger")}, LAMBDA c : Usd(c, call[c].usage))
    BY <2>1, <2>4
  <2> QED BY <2>5, <2>6 DEF MemoryAgreesWithLedger
<1>6. WarnedOncePerDay
  BY DEF GovInv, AlarmsMarked, WarnedOncePerDay
<1>7. OneVerdictPerCall
  <2>1. ASSUME NEW c \in Calls
        PROVE  /\ Cardinality(hooks[c]) <= 1
               /\ "unreachable" \in hooks[c] =>
                     call[c].attempt = MaxInline /\ \A m \in modelCalls : m.call # c
    <3>1. CallOK(c, call[c], reserved[c], admitted[c], hooks[c], today)
      BY DEF GovInv
    <3>2. Cardinality(hooks[c]) <= 1
      <4>1. CASE hooks[c] = {}
        BY <4>1, FS_EmptySet
      <4>2. CASE hooks[c] # {}
        <5>1. PICK h : hooks[c] = {h}
          BY <3>1, <4>2 DEF CallOK
        <5>2. Cardinality({h}) = 1
          BY FS_Singleton
        <5> QED BY <5>1, <5>2
      <4> QED BY <4>1, <4>2
    <3>3. "unreachable" \in hooks[c] => call[c].attempt = MaxInline
      BY <3>1 DEF CallOK
    <3>4. "unreachable" \in hooks[c] => \A m \in modelCalls : m.call # c
      BY DEF GovInv, EventOK
    <3> QED BY <3>2, <3>3, <3>4
  <2> QED BY <2>1 DEF OneVerdictPerCall
<1> QED BY <1>3, <1>4, <1>5, <1>6, <1>7 DEF GovInv, SpendAddsUp

\* For any number of calls, tasks, days and restarts, whatever their order:
\* pools are the reservations outstanding, a task's ceiling and a day's budget
\* hold with what is in flight counted, totals are the ledger's, a warning is
\* raised once a day and a call has one verdict.
THEOREM SpendIsKept == GovSpec => [](GovTypeOK /\ SpendAddsUp)
<1>1. GovInv /\ [GovNext]_govVars => GovInv'
  <2> SUFFICES ASSUME GovInv, [GovNext]_govVars PROVE GovInv'
    OBVIOUS
  <2>1. CASE GovNext
    <3>1. ASSUME NEW c \in Calls, CallStep(c) PROVE GovInv'
      BY <3>1, PlainStep, AdmitStep, RecordStep, LedgerStep, ReleaseStep DEF CallStep
    <3> QED BY <2>1, <3>1, DayStep, BootStep DEF GovNext
  <2>2. CASE UNCHANGED govVars
    <3>1. /\ UNCHANGED <<perTask, daily, monthly, reserved, resTask, resDay, resMonth>>
          /\ UNCHANGED <<today, call, modelCalls, warned, boots, admitted, alarms, hooks>>
      BY <2>2 DEF govVars, govTotals, govPools
    <3>2. GovTypeOK' /\ IsFiniteSet(modelCalls')
      BY <3>1 DEF GovInv, GovTypeOK
    <3>3. /\ \A x \in Calls : CallOK(x, call'[x], reserved'[x], admitted'[x], hooks'[x], today')
          /\ \A e \in modelCalls' : EventOK(e)'
      BY <3>1 DEF GovInv, EventOK
    <3>4. PoolsAddUp' /\ TaskCeilingHolds' /\ DayAddsUp' /\ LedgerAddsUp' /\ AlarmsMarked'
      BY <3>1 DEF GovInv, PoolsAddUp, TaskCeilingHolds, DayAddsUp, LedgerAddsUp, AlarmsMarked
    <3> QED BY <3>2, <3>3, <3>4 DEF GovInv
  <2> QED BY <2>1, <2>2
<1> QED BY <1>1, InitGov, GovAddsUp, PTL DEF GovSpec

-----------------------------------------------------------------------------
(* Speech.                                                                 *)

SpeechSafety == SpeechInit /\ [][SpeechNext]_spVars

Speaking == {"locked", "started", "wait", "cleared"}

VoiceTypes ==
    /\ answer \in [Speakers -> [lane : {"normal", "secret"}, force : BOOLEAN]]
    /\ speakPc \in [Speakers -> {"idle", "voice", "queue", "over"} \cup Speaking]
    /\ SpeechTypeOK
    /\ voice = "unchecked" => notices = 0
    /\ DOMAIN cutFor = Speakers

\* A speaker past its lock holds it, its process lives no longer than its turn,
\* and what is under way is wanted.
TurnOK(t) ==
    /\ speakPc[t] \in Speaking => lock = t
    /\ t \in talking => speakPc[t] \in {"started", "wait"}
    /\ speakPc[t] \notin {"idle", "over"} => Wanted(answer[t])

\* The halt key is about to kill its own task's process, or everyone's.
HalterOK ==
    halter.pc = "kill" /\ halter.target \in Speakers => halter.for \in {halter.target, Everyone}

VoiceInv == VoiceTypes /\ (\A t \in Speakers : TurnOK(t)) /\ HalterOK /\ HaltCutsItsOwn

\* Every step of a speaker keeps the turns.
LEMMA TurnStep == ASSUME VoiceInv, NEW t \in Speakers, SpeakStep(t) PROVE VoiceInv'
<1> USE SpeechAssumption
    DEF VoiceInv, VoiceTypes, SpeechTypeOK, TurnOK, HalterOK, HaltCutsItsOwn, Speaking
<1>1. CASE Speak(t)
  BY <1>1 DEF Speak, At, Go, Wanted
<1>2. CASE VoiceAvailable(t)
  BY <1>2 DEF VoiceAvailable, Checked, At, Go, Wanted
<1>3. CASE Lock(t)
  BY <1>3 DEF Lock, At, Go, Wanted
<1>4. CASE StartSay(t)
  BY <1>4 DEF StartSay, LockAfterStart, LockAfterFailure, At, Go, Wanted
<1>5. CASE SetActive(t)
  BY <1>5 DEF SetActive, At, Go, Wanted
<1>6. CASE SayEnds(t)
  BY <1>6 DEF SayEnds, Wanted
<1>7. CASE ClearActive(t)
  BY <1>7 DEF ClearActive, At, Go, Wanted
<1>8. CASE Unlock(t)
  BY <1>8 DEF Unlock, At, Go, Wanted
<1> QED BY <1>1, <1>2, <1>3, <1>4, <1>5, <1>6, <1>7, <1>8 DEF SpeakStep

\* The halt key looks up and kills.
LEMMA HaltStep == ASSUME VoiceInv, KillSpeech \/ KillSpeechPID PROVE VoiceInv'
<1> USE SpeechAssumption
    DEF VoiceInv, VoiceTypes, SpeechTypeOK, TurnOK, HalterOK, HaltCutsItsOwn, Speaking
<1>1. CASE KillSpeech
  BY <1>1 DEF KillSpeech, Target, Wanted, Everyone
<1>2. CASE KillSpeechPID
  BY <1>2 DEF KillSpeechPID, Wanted, Everyone
<1> QED BY <1>1, <1>2

\* Nobody speaks at the start.
LEMMA InitVoice == SpeechInit => VoiceInv
BY SpeechAssumption DEF SpeechInit, VoiceInv, VoiceTypes, SpeechTypeOK, TurnOK, HalterOK,
   HaltCutsItsOwn, Speaking, Wanted

\* One lock, one voice.
LEMMA OneTurn == VoiceInv => SpeechTypeOK /\ TurnsAreKept
<1> SUFFICES ASSUME VoiceInv PROVE SpeechTypeOK /\ TurnsAreKept
  OBVIOUS
<1>1. talking \subseteq {lock}
  BY DEF VoiceInv, VoiceTypes, SpeechTypeOK, TurnOK, Speaking
<1>2. OneVoice
  <2>1. IsFiniteSet({lock}) /\ Cardinality({lock}) = 1
    BY FS_Singleton
  <2>2. Cardinality(talking) <= Cardinality({lock})
    BY <1>1, <2>1, FS_Subset
  <2> QED BY <2>1, <2>2 DEF OneVoice
<1>3. QuietOnSecret
  BY DEF VoiceInv, VoiceTypes, SpeechTypeOK, TurnOK, QuietOnSecret, Wanted
<1> QED BY <1>2, <1>3 DEF VoiceInv, VoiceTypes, TurnsAreKept

\* For any number of answers and halts, wherever they cut in: one voice at a
\* time, a halt silences its own task only, and a secret answer is not spoken.
THEOREM OneSpeaksAtATime == SpeechSafety => [](SpeechTypeOK /\ TurnsAreKept)
<1>1. VoiceInv /\ [SpeechNext]_spVars => VoiceInv'
  <2>1. ASSUME VoiceInv, UNCHANGED spVars PROVE VoiceInv'
    BY <2>1 DEF spVars, VoiceInv, VoiceTypes, SpeechTypeOK, TurnOK, HalterOK, HaltCutsItsOwn, Wanted
  <2> QED BY <2>1, TurnStep, HaltStep DEF SpeechNext
<1> QED BY <1>1, InitVoice, OneTurn, PTL DEF SpeechSafety
=============================================================================
