------------------------ MODULE TaskDurabilityProof ------------------------
(***************************************************************************)
(* For any number of tasks and outbox rows and any number of crashes,      *)
(* parks and resolves: the handler, the scan, the dispatcher, the cloud    *)
(* callbacks, `kahya task resolve` and the halt key together implement     *)
(* TaskLifecycle, keep every registered worker and claimed row accounted   *)
(* for, and do not dispatch a halted task.  And for any number of calls:   *)
(* what the file tools that a task's worker uses change, and what their    *)
(* undo gives back.  The two components share no state.                    *)
(***************************************************************************)
EXTENDS TaskDurability, FsTools, SumsProof, FiniteSetTheorems, TLAPS

StatusType == status \in [Tasks -> Statuses]
HaltRec == [pc : {"idle", "kill", "read", "cas", "cancel", "done"},
            seen : {"none"} \cup Worker \cup Statuses]

\* What the halt key read lets it halt; only the compare-and-set is left.
HaltDecided ==
    /\ halter \in [Tasks -> HaltRec]
    /\ pgid \in [Tasks -> {"none"} \cup Worker]
    /\ \A t \in Tasks : halter[t].pc = "cas" => IsLegalTransition(halter[t].seen, "user_halted")

LifeInv == StatusType /\ HaltDecided

\* A status set by Transition, for a task or for the scan's and the
\* dispatcher's "no task", is a step of the life cycle or none.
LEMMA TransitionRefines ==
    ASSUME StatusType, NEW t, NEW to \in Statuses, CanTransition(t, to), Transition(t, to)
    PROVE  StatusType' /\ [Lifecycle!Next]_status
<1>1. StatusType'
  BY DEF StatusType, Transition
<1>2. CASE t \notin Tasks \/ status[t] = to
  <2>1. status' = status
    BY <1>2 DEF StatusType, Transition
  <2> QED BY <1>1, <2>1
<1>3. CASE t \in Tasks /\ status[t] # to
  <2>1. IsLegalTransition(status[t], to)
    BY <1>3 DEF CanTransition
  <2>2. Lifecycle!Move(t, to)
    BY <2>1 DEF Transition, Lifecycle!Move, Lifecycle!IsLegalTransition,
                Lifecycle!Terminal, IsLegalTransition
  <2> QED
    BY <1>1, <1>3, <2>2 DEF Lifecycle!Next, Lifecycle!Statuses, Lifecycle!Terminal,
       Statuses, Terminal
<1> QED BY <1>2, <1>3

\* The same for a Transition whose error is only logged.
LEMMA TryRefines ==
    ASSUME StatusType, NEW t, NEW to \in Statuses, TryTransition(t, to)
    PROVE  StatusType' /\ [Lifecycle!Next]_status
<1>1. CASE CanTransition(t, to)
  BY <1>1, TransitionRefines DEF TryTransition, Transition
<1>2. CASE ~CanTransition(t, to)
  BY <1>2 DEF TryTransition, StatusType
<1> QED BY <1>1, <1>2

\* Each step, seen through tasks.status alone.
LEMMA StatusStep == LifeInv /\ [Next]_vars => StatusType' /\ [Lifecycle!Next]_status
<1> SUFFICES ASSUME LifeInv, [Next]_vars PROVE StatusType' /\ [Lifecycle!Next]_status
  OBVIOUS
<1>0. StatusType /\ HaltDecided /\ {"executing", "done", "failed", "retry_wait",
         "blocked_user", "user_halted"} \subseteq Statuses
  BY DEF LifeInv, Statuses, Terminal
<1>1. CASE UNCHANGED status
  BY <1>0, <1>1 DEF StatusType
<1>2. ASSUME NEW t \in Tasks, Submit(t) PROVE StatusType' /\ [Lifecycle!Next]_status
  BY <1>0, <1>2 DEF Submit, StatusType, Statuses, Lifecycle!Next, Lifecycle!Create
<1>3. ASSUME NEW t \in Tasks, HandlerStart(t) PROVE StatusType' /\ [Lifecycle!Next]_status
  BY <1>0, <1>3, TryRefines DEF HandlerStart
<1>4. ASSUME NEW t \in Tasks, NEW ok \in BOOLEAN, HandlerReturns(t, ok)
      PROVE StatusType' /\ [Lifecycle!Next]_status
  <2>1. CASE ok /\ status[t] = "executing"
    <3>1. CanTransition(t, "done") /\ Transition(t, "done")
      BY <1>4, <2>1 DEF HandlerReturns, CanTransition, Transition, IsLegalTransition
    <3> QED BY <1>0, <3>1, TransitionRefines
  <2>2. CASE ~(ok /\ status[t] = "executing")
    <3>1. UNCHANGED status
      BY <1>4, <2>2 DEF HandlerReturns
    <3> QED BY <1>1, <3>1
  <2> QED BY <2>1, <2>2
<1>5. CASE ScanBlock
  BY <1>0, <1>5, TryRefines DEF ScanBlock
<1>6. CASE DispSwitch
  <2>1. CASE CanTransition(DispTask, "executing")
    BY <1>0, <1>6, <2>1, TransitionRefines DEF DispSwitch
  <2>2. CASE ~CanTransition(DispTask, "executing")
    BY <1>1, <1>6, <2>2 DEF DispSwitch
  <2> QED BY <2>1, <2>2
<1>7. ASSUME NEW ok \in BOOLEAN, DispReturns(ok) PROVE StatusType' /\ [Lifecycle!Next]_status
  <2>1. CASE ok
    <3>1. TryTransition(DispTask, "done")
      BY <1>7, <2>1 DEF DispReturns
    <3> QED BY <1>0, <3>1, TryRefines
  <2>2. CASE ~ok
    BY <1>1, <1>7, <2>2 DEF DispReturns
  <2> QED BY <2>1, <2>2
<1>8. ASSUME NEW t \in Tasks, Park(t) \/ CloudGivesUp(t)
      PROVE StatusType' /\ [Lifecycle!Next]_status
  BY <1>0, <1>8, TryRefines DEF Park, CloudGivesUp
<1>9. ASSUME NEW t \in Tasks, UserRetry(t) \/ UserAbort(t)
      PROVE StatusType' /\ [Lifecycle!Next]_status
  BY <1>0, <1>9, TransitionRefines DEF UserRetry, UserAbort
<1>10. ASSUME NEW t \in Tasks, HaltCAS(t) PROVE StatusType' /\ [Lifecycle!Next]_status
  <2>1. CASE status[t] = halter[t].seen
    <3>1. CanTransition(t, "user_halted") /\ Transition(t, "user_halted")
      BY <1>0, <1>10, <2>1 DEF HaltCAS, HaltDecided, CanTransition
    <3> QED BY <1>0, <3>1, TransitionRefines
  <2>2. CASE status[t] # halter[t].seen
    BY <1>1, <1>10, <2>2 DEF HaltCAS
  <2> QED BY <2>1, <2>2
<1>11. ASSUME NEW t \in Tasks,
              \/ AnswerLocally(t) \/ HandlerSpawn(t) \/ HandlerSpawnFails(t)
              \/ CallStart(t) \/ CallFinish(t) \/ ParkEnqueue(t) \/ OrphanExits(t)
              \/ HaltLoad(t) \/ HaltKill(t) \/ HaltRead(t) \/ HaltCancel(t) \/ ScanProcess(t)
       PROVE UNCHANGED status
  BY <1>11 DEF AnswerLocally, HandlerSpawn, HandlerSpawnFails, CallStart, CallFinish,
     ParkEnqueue, OrphanExits, HaltLoad, HaltKill, HaltRead, HaltCancel, ScanProcess, taskVars
<1>12. ASSUME \/ ScanList \/ ScanEnqueue \/ DispList \/ DispClaim \/ DispLoad
              \/ DispSpawn \/ DispSpawnFails \/ Crash \/ UNCHANGED vars
              \/ \E r \in RowId : LeaseExpires(r) \/ BackoffElapses(r)
       PROVE UNCHANGED status
  BY <1>12 DEF ScanList, ScanEnqueue, DispList, DispClaim, DispLoad, DispSpawn,
     DispSpawnFails, Crash, LeaseExpires, BackoffElapses, vars, taskVars
<1> QED
  BY <1>1, <1>2, <1>3, <1>4, <1>5, <1>6, <1>7, <1>8, <1>9, <1>10, <1>11, <1>12
     DEF Next, HandlerStep, ScanStep, DispStep, HaltStep

\* Writing one entry of the halt table keeps HaltDecided, if the entry may.
LEMMA HaltSet ==
    ASSUME HaltDecided, NEW t \in Tasks, NEW rec \in HaltRec, UNCHANGED pgid,
           halter' = [halter EXCEPT ![t] = rec],
           rec.pc = "cas" => IsLegalTransition(rec.seen, "user_halted")
    PROVE  HaltDecided'
<1>1. halter' \in [Tasks -> HaltRec]
  BY DEF HaltDecided, HaltRec
<1>2. \A u \in Tasks : halter'[u] = IF u = t THEN rec ELSE halter[u]
  BY DEF HaltDecided
<1> QED
  BY <1>1, <1>2 DEF HaltDecided, HaltRec

\* Only HaltTask's own steps change what it read, and only its read decides.
LEMMA HaltStepKeeps == LifeInv /\ [Next]_vars => HaltDecided'
<1> SUFFICES ASSUME LifeInv, [Next]_vars PROVE HaltDecided'
  OBVIOUS
<1> USE DEF LifeInv, StatusType, HaltDecided, Worker
<1>1. CASE UNCHANGED <<halter, pgid>>
  BY <1>1
<1>2. ASSUME NEW t \in Tasks, HaltLoad(t) PROVE HaltDecided'
  <2>1. halter' = [halter EXCEPT ![t] = [pc |-> "kill", seen |-> pgid[t]]] /\ UNCHANGED pgid
    BY <1>2 DEF HaltLoad, HaltTo, taskVars
  <2>2. [pc |-> "kill", seen |-> pgid[t]] \in HaltRec
    BY <1>2 DEF HaltRec
  <2> QED BY <1>2, <2>1, <2>2, HaltSet
<1>3. ASSUME NEW t \in Tasks, HaltKill(t) \/ HaltCAS(t) \/ HaltCancel(t) PROVE HaltDecided'
  <2>1. PICK to \in {"read", "cancel", "done"} :
           halter' = [halter EXCEPT ![t] = [pc |-> to, seen |-> "none"]]
    BY <1>3 DEF HaltKill, HaltCAS, HaltCancel, HaltTo
  <2>2. UNCHANGED pgid
    BY <1>3 DEF HaltKill, HaltCAS, HaltCancel, taskVars
  <2>3. [pc |-> to, seen |-> "none"] \in HaltRec
    BY DEF HaltRec
  <2> QED BY <1>3, <2>1, <2>2, <2>3, HaltSet
<1>4. ASSUME NEW t \in Tasks, HaltRead(t) PROVE HaltDecided'
  <2>1. UNCHANGED pgid
    BY <1>4 DEF HaltRead, taskVars
  <2>2. CASE IsLegalTransition(status[t], "user_halted")
    <3>1. halter' = [halter EXCEPT ![t] = [pc |-> "cas", seen |-> status[t]]]
      BY <1>4, <2>2 DEF HaltRead, HaltTo
    <3>2. [pc |-> "cas", seen |-> status[t]] \in HaltRec
      BY <1>4 DEF HaltRec
    <3> QED BY <1>4, <2>1, <2>2, <3>1, <3>2, HaltSet
  <2>3. CASE ~IsLegalTransition(status[t], "user_halted")
    <3>1. halter' = [halter EXCEPT ![t] = [pc |-> "cancel", seen |-> "none"]]
      BY <1>4, <2>3 DEF HaltRead, HaltTo
    <3>2. [pc |-> "cancel", seen |-> "none"] \in HaltRec
      BY DEF HaltRec
    <3> QED BY <1>4, <2>1, <3>1, <3>2, HaltSet
  <2> QED BY <2>2, <2>3
<1>5. ASSUME NEW t \in Tasks, HandlerSpawn(t) PROVE HaltDecided'
  BY <1>5 DEF HandlerSpawn, StartWorker
<1>6. CASE DispSpawn
  BY <1>6 DEF DispSpawn, StartWorker
<1>7. CASE Crash
  <2>1. /\ pgid' = [t \in Tasks |-> IF pgid[t] = "none" THEN "none" ELSE "orphan"]
        /\ halter' = [t \in Tasks |-> [pc |-> IF halter[t].pc = "done" THEN "done" ELSE "idle",
                                       seen |-> "none"]]
    BY <1>7 DEF Crash
  <2>2. halter' \in [Tasks -> HaltRec] /\ \A t \in Tasks : halter'[t].pc # "cas"
    BY <2>1 DEF HaltRec
  <2>3. pgid' \in [Tasks -> {"none"} \cup Worker]
    BY <2>1
  <2> QED BY <2>2, <2>3
<1>8. ASSUME NEW t \in Tasks,
             \/ Submit(t) \/ AnswerLocally(t) \/ HandlerStart(t) \/ HandlerSpawnFails(t)
             \/ (\E ok \in BOOLEAN : HandlerReturns(t, ok)) \/ CallStart(t) \/ CallFinish(t)
             \/ Park(t) \/ ParkEnqueue(t) \/ CloudGivesUp(t) \/ UserRetry(t) \/ UserAbort(t)
             \/ OrphanExits(t) \/ ScanProcess(t)
      PROVE UNCHANGED <<halter, pgid>>
  BY <1>8 DEF Submit, AnswerLocally, HandlerStart, HandlerSpawnFails, HandlerReturns,
     CallStart, CallFinish, Park, ParkEnqueue, CloudGivesUp, UserRetry, UserAbort,
     OrphanExits, ScanProcess, taskVars
<1>9. ASSUME \/ ScanList \/ ScanBlock \/ ScanEnqueue \/ DispList \/ DispClaim \/ DispLoad
              \/ DispSwitch \/ DispSpawnFails \/ (\E ok \in BOOLEAN : DispReturns(ok))
              \/ UNCHANGED vars
              \/ \E r \in RowId : LeaseExpires(r) \/ BackoffElapses(r)
       PROVE UNCHANGED <<halter, pgid>>
  BY <1>9 DEF ScanList, ScanBlock, ScanEnqueue, DispList, DispClaim, DispLoad, DispSwitch,
     DispSpawnFails, DispReturns, LeaseExpires, BackoffElapses, vars, taskVars
<1> QED
  BY <1>1, <1>2, <1>3, <1>4, <1>5, <1>6, <1>7, <1>8, <1>9
     DEF Next, HandlerStep, ScanStep, DispStep, HaltStep

\* Before anything runs no task exists, in either specification.
LEMMA InitLife == Init => LifeInv /\ Lifecycle!Init
BY DEF Init, LifeInv, StatusType, HaltDecided, HaltRec, Statuses, Lifecycle!Init

\* The invariant holds in every reachable state.
LEMMA LifeInvariant == Spec => []LifeInv
<1>1. LifeInv /\ [Next]_vars => LifeInv'
  BY StatusStep, HaltStepKeeps DEF LifeInv
<1> QED
  BY <1>1, InitLife, PTL DEF Spec

\* The whole of task durability implements TaskLifecycle: no race of the halt
\* key, the dispatcher, the scan, a late worker result, a cloud callback and a
\* crash takes a task off the legal edges or out of a terminal status.
THEOREM DurabilityImplementsLifecycle == Spec => ImplementsLifecycle
BY InitLife, LifeInvariant, StatusStep, PTL DEF Spec, ImplementsLifecycle, Lifecycle!Spec
-----------------------------------------------------------------------------
\* While the dispatcher works on a row it is a row of the outbox, and a task
\* without a row of its own has no handler.
DispatchInv ==
    /\ disp.pc \in {"load", "switch", "spawn", "run"} => disp.row \in RowId
    /\ \A t \in Tasks : status[t] = "absent" => handler[t] = "none"

DurabilityInv == WorkersAreAccounted /\ DispatchInv

\* A new row fills a free slot or changes nothing.
LEMMA InsertKeeps ==
    ASSUME TypeOK, NEW t \in Tasks \cup {NoTask}, NEW now \in BOOLEAN, Insert(NewRow(t, now))
    PROVE  /\ outbox' \in [RowId -> [task : Tasks \cup {NoTask}, due : BOOLEAN,
                                     leased : BOOLEAN, canceled : BOOLEAN]]
           /\ \A r \in RowId : outbox[r].leased => outbox'[r] = outbox[r]
<1>1. NewRow(t, now) \in [task : Tasks \cup {NoTask}, due : BOOLEAN,
                          leased : BOOLEAN, canceled : BOOLEAN]
  BY DEF NewRow
<1>2. CASE UNCHANGED outbox
  BY <1>2 DEF TypeOK
<1>3. CASE \E r \in RowId : outbox[r] = NoRow /\ outbox' = [outbox EXCEPT ![r] = NewRow(t, now)]
  <2>1. PICK r \in RowId : outbox[r] = NoRow /\ outbox' = [outbox EXCEPT ![r] = NewRow(t, now)]
    BY <1>3
  <2>2. ~outbox[r].leased
    BY <2>1 DEF NoRow
  <2> QED BY <1>1, <2>1, <2>2 DEF TypeOK
<1> QED BY <1>2, <1>3 DEF Insert

\* Which steps write which part of the state.
LEMMA Writers ==
    ASSUME [Next]_vars
    PROVE  /\ \/ UNCHANGED handler \/ Crash
              \/ \E t \in Tasks : Submit(t) \/ HandlerStep(t)
           /\ \/ UNCHANGED <<worker, live>> \/ Crash \/ DispSpawn \/ DispSpawnFails
              \/ \E ok \in BOOLEAN : DispReturns(ok)
              \/ \E t \in Tasks : \/ HandlerSpawn(t) \/ HaltKill(t) \/ OrphanExits(t)
                                  \/ \E ok \in BOOLEAN : HandlerReturns(t, ok)
           /\ \/ UNCHANGED outbox \/ Crash \/ DispStep \/ ScanEnqueue
              \/ \E t \in Tasks : ParkEnqueue(t) \/ UserRetry(t) \/ HaltCancel(t)
              \/ \E r \in RowId : LeaseExpires(r) \/ BackoffElapses(r)
           /\ UNCHANGED disp \/ Crash \/ DispList \/ DispStep
           /\ UNCHANGED scan \/ Crash \/ ScanList \/ ScanStep
           /\ \/ UNCHANGED <<parking, parks>> \/ Crash
              \/ \E t \in Tasks : Park(t) \/ ParkEnqueue(t) \/ CloudGivesUp(t)
           /\ \/ UNCHANGED <<callVars>> \/ Crash
              \/ \E t \in Tasks : \/ CallStart(t) \/ CallFinish(t) \/ ScanProcess(t)
                                  \/ UserRetry(t)
           /\ \/ UNCHANGED <<resolves, crashes>> \/ Crash
              \/ \E t \in Tasks : UserRetry(t) \/ UserAbort(t)
<1>1. CASE Crash \/ UNCHANGED vars
  BY <1>1 DEF vars, taskVars, counters
<1>2. ASSUME NEW t \in Tasks, Submit(t) \/ HandlerStep(t)
      PROVE  /\ UNCHANGED <<outbox, disp, scan, parking, parks, callVars, resolves, crashes>>
             /\ \/ UNCHANGED <<worker, live>> \/ HandlerSpawn(t)
                \/ \E ok \in BOOLEAN : HandlerReturns(t, ok)
  BY <1>2 DEF Submit, HandlerStep, AnswerLocally, HandlerStart, HandlerSpawnFails,
     HandlerSpawn, HandlerReturns, counters
<1>3. ASSUME NEW t \in Tasks,
             \/ HaltLoad(t) \/ HaltStep(t) \/ OrphanExits(t)
      PROVE  /\ UNCHANGED <<handler, disp, scan, parking, parks, callVars, resolves, crashes>>
             /\ UNCHANGED <<worker, live>> \/ HaltKill(t) \/ OrphanExits(t)
             /\ UNCHANGED outbox \/ HaltCancel(t)
  BY <1>3 DEF HaltStep, HaltLoad, HaltKill, HaltRead, HaltCAS, HaltCancel, OrphanExits,
     taskVars, counters
<1>4. ASSUME NEW t \in Tasks, CallStart(t) \/ CallFinish(t)
      PROVE  UNCHANGED <<taskVars, outbox, disp, scan, parking, counters>>
  BY <1>4 DEF CallStart, CallFinish
<1>5. ASSUME NEW t \in Tasks, Park(t) \/ ParkEnqueue(t) \/ CloudGivesUp(t)
      PROVE  /\ UNCHANGED <<handler, worker, live, disp, scan, callVars, resolves, crashes>>
             /\ UNCHANGED outbox \/ ParkEnqueue(t)
  BY <1>5 DEF Park, ParkEnqueue, CloudGivesUp, taskVars, counters
<1>6. ASSUME NEW t \in Tasks, UserRetry(t) \/ UserAbort(t)
      PROVE  /\ UNCHANGED <<handler, worker, live, disp, scan, parking, parks>>
             /\ UNCHANGED <<outbox, callVars>> \/ UserRetry(t)
  BY <1>6 DEF UserRetry, UserAbort
<1>7. CASE ScanList \/ ScanStep
  <2>1. UNCHANGED <<handler, worker, live, disp, parking, parks, resolves, crashes>>
    BY <1>7 DEF ScanList, ScanStep, ScanProcess, ScanBlock, ScanEnqueue, taskVars, counters
  <2>2. UNCHANGED outbox \/ ScanEnqueue
    BY <1>7 DEF ScanList, ScanStep, ScanProcess, ScanBlock
  <2>3. UNCHANGED callVars \/ \E t \in Tasks : ScanProcess(t)
    BY <1>7 DEF ScanList, ScanStep, ScanBlock, ScanEnqueue
  <2> QED BY <1>7, <2>1, <2>2, <2>3
<1>8. CASE DispList \/ DispStep
  <2>1. UNCHANGED <<handler, scan, parking, callVars, parks, resolves, crashes>>
    BY <1>8 DEF DispList, DispStep, DispClaim, DispLoad, DispSwitch, DispSpawn,
       DispSpawnFails, DispReturns, taskVars, counters
  <2>2. UNCHANGED outbox \/ DispStep
    BY <1>8 DEF DispList
  <2>3. \/ UNCHANGED <<worker, live>> \/ DispSpawn \/ DispSpawnFails
        \/ \E ok \in BOOLEAN : DispReturns(ok)
    BY <1>8 DEF DispList, DispStep, DispClaim, DispLoad, DispSwitch, taskVars
  <2> QED BY <1>8, <2>1, <2>2, <2>3
<1>9. ASSUME NEW r \in RowId, LeaseExpires(r) \/ BackoffElapses(r)
      PROVE  UNCHANGED <<taskVars, disp, scan, parking, callVars, counters>>
  BY <1>9 DEF LeaseExpires, BackoffElapses
<1> QED
  BY <1>1, <1>2, <1>3, <1>4, <1>5, <1>6, <1>7, <1>8, <1>9 DEF Next, taskVars, counters

\* The registered and the running workers of a task, and its handler.
LEMMA TaskTypes ==
    ASSUME TypeOK, [Next]_vars
    PROVE  /\ handler' \in [Tasks -> {"none", "start", "spawn", "run"}]
           /\ worker' \in [Tasks -> SUBSET Worker]
           /\ live' \in [Tasks -> {"none", "handler", "dispatcher"}]
<1> USE DEF Worker
<1>0. /\ handler \in [Tasks -> {"none", "start", "spawn", "run"}]
      /\ worker \in [Tasks -> SUBSET Worker]
      /\ live \in [Tasks -> {"none", "handler", "dispatcher"}]
  BY DEF TypeOK
<1>1. CASE Crash
  BY <1>0, <1>1 DEF Crash
<1>2. CASE ~Crash
  <2>1. handler' \in [Tasks -> {"none", "start", "spawn", "run"}]
    BY <1>0, <1>2, Writers DEF Submit, HandlerStep, AnswerLocally, HandlerStart,
       HandlerSpawn, HandlerSpawnFails, HandlerReturns
  <2>2. worker' \in [Tasks -> SUBSET Worker]
    BY <1>0, <1>2, Writers DEF DispSpawn, DispSpawnFails, DispReturns, HandlerSpawn,
       HandlerReturns, HaltKill, OrphanExits, StartWorker
  <2>3. live' \in [Tasks -> {"none", "handler", "dispatcher"}]
    BY <1>0, <1>2, Writers DEF DispSpawn, DispSpawnFails, DispReturns, HandlerSpawn,
       HandlerReturns, HaltKill, OrphanExits, StartWorker
  <2> QED BY <2>1, <2>2, <2>3
<1> QED BY <1>1, <1>2

\* The outbox.
LEMMA OutboxType ==
    ASSUME TypeOK, [Next]_vars
    PROVE  outbox' \in [RowId -> [task : Tasks \cup {NoTask}, due : BOOLEAN,
                                  leased : BOOLEAN, canceled : BOOLEAN]]
<1> DEFINE Row == [task : Tasks \cup {NoTask}, due : BOOLEAN,
                   leased : BOOLEAN, canceled : BOOLEAN]
<1>0. outbox \in [RowId -> Row] /\ NoRow \in Row
  BY DEF TypeOK, NoRow
<1>1. CASE Crash
  BY <1>0, <1>1 DEF Crash
<1>2. CASE DispStep
  <2>1. CASE MarkDelivered
    BY <1>0, <2>1 DEF MarkDelivered
  <2>2. CASE \E r \in RowId : outbox' = [outbox EXCEPT ![r].leased = TRUE]
    BY <1>0, <2>2
  <2>3. disp.batch \subseteq RowId
    BY DEF TypeOK
  <2> QED
    BY <1>0, <1>2, <2>1, <2>2, <2>3 DEF DispStep, DispClaim, DispLoad, DispSwitch, DispSpawn,
       DispSpawnFails, DispReturns
<1>3. CASE ScanEnqueue
  BY <1>3, InsertKeeps DEF ScanEnqueue, TypeOK
<1>4. ASSUME NEW t \in Tasks, ParkEnqueue(t) \/ UserRetry(t) PROVE outbox' \in [RowId -> Row]
  BY <1>4, InsertKeeps DEF ParkEnqueue, UserRetry
<1>5. ASSUME NEW t \in Tasks, HaltCancel(t) PROVE outbox' \in [RowId -> Row]
  BY <1>0, <1>5 DEF HaltCancel
<1>6. ASSUME NEW r \in RowId, LeaseExpires(r) \/ BackoffElapses(r)
      PROVE outbox' \in [RowId -> Row]
  BY <1>0, <1>6 DEF LeaseExpires, BackoffElapses
<1> QED BY <1>0, <1>1, <1>2, <1>3, <1>4, <1>5, <1>6, Writers

\* The goroutines of the dispatcher and of the scan.
LEMMA LoopTypes ==
    ASSUME TypeOK, [Next]_vars
    PROVE  /\ disp' \in [pc : {"idle", "claim", "load", "switch", "spawn", "run"},
                         row : 0..MaxOut, batch : SUBSET RowId]
           /\ scan' \in [pc : {"idle", "next", "block", "enqueue"},
                         task : Tasks \cup {NoTask}, todo : SUBSET Tasks]
<1> USE DurabilityAssumption
<1>0. /\ disp \in [pc : {"idle", "claim", "load", "switch", "spawn", "run"},
                   row : 0..MaxOut, batch : SUBSET RowId]
      /\ scan \in [pc : {"idle", "next", "block", "enqueue"},
                   task : Tasks \cup {NoTask}, todo : SUBSET Tasks]
  BY DEF TypeOK
<1>1. disp' \in [pc : {"idle", "claim", "load", "switch", "spawn", "run"},
                 row : 0..MaxOut, batch : SUBSET RowId]
  <2>1. CASE Crash \/ DispList
    BY <1>0, <2>1 DEF Crash, DispList
  <2>2. CASE DispClaim
    BY <1>0, <2>2 DEF DispClaim, DispNext, RowId
  <2>3. CASE DispStep /\ ~DispClaim
    BY <1>0, <2>3 DEF DispStep, DispLoad, DispSwitch, DispSpawn, DispSpawnFails,
       DispReturns, DispNext, DispTo
  <2> QED BY <1>0, <2>1, <2>2, <2>3, Writers
<1>2. scan' \in [pc : {"idle", "next", "block", "enqueue"},
                 task : Tasks \cup {NoTask}, todo : SUBSET Tasks]
  <2>1. CASE Crash \/ ScanList
    BY <1>0, <2>1 DEF Crash, ScanList
  <2>2. ASSUME NEW t \in Tasks, ScanProcess(t)
        PROVE  scan' \in [pc : {"idle", "next", "block", "enqueue"},
                          task : Tasks \cup {NoTask}, todo : SUBSET Tasks]
    <3>1. PICK pc \in {"idle", "next", "block", "enqueue"}, u \in Tasks \cup {NoTask},
               todo \in {{}, scan.todo \ {t}} : ScanTo(pc, u, todo)
      BY <2>2 DEF ScanProcess
    <3> QED BY <1>0, <3>1 DEF ScanTo
  <2>3. CASE ScanBlock \/ ScanEnqueue
    <3>1. ScanAdvance
      BY <2>3 DEF ScanBlock, ScanEnqueue
    <3> QED BY <1>0, <3>1 DEF ScanAdvance, ScanTo
  <2> QED BY <1>0, <2>1, <2>2, <2>3, Writers DEF ScanStep
<1> QED BY <1>1, <1>2

\* The latest tool call of a task, and the counters.
LEMMA CallTypes ==
    ASSUME TypeOK, [Next]_vars
    PROVE  /\ parking' \in [Tasks -> BOOLEAN] /\ parks' \in [Tasks -> 0..MaxParks]
           /\ call' \in [Tasks -> [row : {"none", "executing", "failed"}, busy : BOOLEAN]]
           /\ calls' \in [Tasks -> 0..MaxCalls] /\ approved' \in [Tasks -> BOOLEAN]
           /\ resolves' \in 0..MaxResolves /\ crashes' \in 0..MaxCrashes
<1> USE DurabilityAssumption
<1>0. /\ parking \in [Tasks -> BOOLEAN] /\ parks \in [Tasks -> 0..MaxParks]
      /\ call \in [Tasks -> [row : {"none", "executing", "failed"}, busy : BOOLEAN]]
      /\ calls \in [Tasks -> 0..MaxCalls] /\ approved \in [Tasks -> BOOLEAN]
      /\ resolves \in 0..MaxResolves /\ crashes \in 0..MaxCrashes
  BY DEF TypeOK
<1>1. parking' \in [Tasks -> BOOLEAN] /\ parks' \in [Tasks -> 0..MaxParks]
  <2>1. CASE Crash
    BY <1>0, <2>1 DEF Crash
  <2>2. ASSUME NEW t \in Tasks, Park(t) \/ ParkEnqueue(t) \/ CloudGivesUp(t)
        PROVE  parking' \in [Tasks -> BOOLEAN] /\ parks' \in [Tasks -> 0..MaxParks]
    <3>1. \/ UNCHANGED parking
          \/ \E b \in BOOLEAN : parking' = [parking EXCEPT ![t] = b]
      BY <2>2 DEF Park, ParkEnqueue, CloudGivesUp, CanTransition
    <3>2. UNCHANGED parks \/ (parks[t] < MaxParks /\ parks' = [parks EXCEPT ![t] = @ + 1])
      BY <2>2 DEF Park, ParkEnqueue, CloudGivesUp, CloudFails, CountPark, counters
    <3>3. parks' \in [Tasks -> 0..MaxParks]
      BY <1>0, <3>2
    <3> QED BY <1>0, <3>1, <3>3
  <2> QED BY <1>0, <2>1, <2>2, Writers
<1>2. /\ call' \in [Tasks -> [row : {"none", "executing", "failed"}, busy : BOOLEAN]]
      /\ calls' \in [Tasks -> 0..MaxCalls] /\ approved' \in [Tasks -> BOOLEAN]
  <2>1. CASE Crash
    BY <1>0, <2>1 DEF Crash
  <2>2. ASSUME NEW t \in Tasks, CallStart(t) \/ CallFinish(t)
        PROVE  /\ call' \in [Tasks -> [row : {"none", "executing", "failed"}, busy : BOOLEAN]]
               /\ calls' \in [Tasks -> 0..MaxCalls] /\ approved' \in [Tasks -> BOOLEAN]
    <3>1. CASE CallStart(t)
      BY <1>0, <3>1 DEF CallStart
    <3>2. CASE CallFinish(t)
      BY <1>0, <3>2 DEF CallFinish
    <3> QED BY <2>2, <3>1, <3>2
  <2>3. ASSUME NEW t \in Tasks, ScanProcess(t) \/ UserRetry(t)
        PROVE  /\ call' \in [Tasks -> [row : {"none", "executing", "failed"}, busy : BOOLEAN]]
               /\ calls' \in [Tasks -> 0..MaxCalls] /\ approved' \in [Tasks -> BOOLEAN]
    <3>1. UNCHANGED calls /\ (UNCHANGED call \/ call' = [call EXCEPT ![t].row = "failed"])
      BY <2>3 DEF ScanProcess, UserRetry, callVars
    <3>2. \/ UNCHANGED approved
          \/ \E b \in BOOLEAN : approved' = [approved EXCEPT ![t] = b]
      BY <2>3 DEF ScanProcess, UserRetry, callVars
    <3> QED BY <1>0, <3>1, <3>2
  <2> QED BY <1>0, <2>1, <2>2, <2>3, Writers DEF callVars
<1>3. resolves' \in 0..MaxResolves /\ crashes' \in 0..MaxCrashes
  <2>1. \/ UNCHANGED resolves \/ (resolves < MaxResolves /\ resolves' = resolves + 1)
    BY Writers DEF Crash, UserRetry, UserAbort
  <2>2. \/ UNCHANGED crashes \/ (crashes < MaxCrashes /\ crashes' = crashes + 1)
    BY Writers DEF Crash, UserRetry, UserAbort
  <2> QED BY <1>0, <2>1, <2>2
<1> QED BY <1>1, <1>2, <1>3

\* Every statement keeps the types of the columns and of the goroutines' state.
LEMMA TypeStep == TypeOK /\ LifeInv /\ [Next]_vars => TypeOK'
<1> SUFFICES ASSUME TypeOK, LifeInv, [Next]_vars PROVE TypeOK'
  OBVIOUS
<1>1. StatusType' /\ HaltDecided'
  BY StatusStep, HaltStepKeeps
<1> QED
  BY <1>1, TaskTypes, OutboxType, LoopTypes, CallTypes
     DEF TypeOK, StatusType, HaltDecided, HaltRec

Busy == {"load", "switch", "spawn", "run"}

\* Nobody but the dispatcher touches the task of a leased row, or its lease.
LEMMA LeasedRowStays ==
    ASSUME TypeOK, [Next]_vars, ~DispStep, ~Crash,
           NEW r \in RowId, r = disp.row, outbox[r].leased
    PROVE  outbox'[r].task = outbox[r].task /\ outbox'[r].leased
<1>0. outbox \in [RowId -> [task : Tasks \cup {NoTask}, due : BOOLEAN,
                            leased : BOOLEAN, canceled : BOOLEAN]]
  BY DEF TypeOK
<1>1. CASE ScanEnqueue
  BY <1>1, InsertKeeps DEF ScanEnqueue, TypeOK
<1>2. ASSUME NEW t \in Tasks, ParkEnqueue(t) \/ UserRetry(t)
      PROVE  outbox'[r].task = outbox[r].task /\ outbox'[r].leased
  BY <1>2, InsertKeeps DEF ParkEnqueue, UserRetry
<1>3. ASSUME NEW t \in Tasks, HaltCancel(t)
      PROVE  outbox'[r].task = outbox[r].task /\ outbox'[r].leased
  BY <1>0, <1>3 DEF HaltCancel
<1>4. ASSUME NEW s \in RowId, LeaseExpires(s) \/ BackoffElapses(s)
      PROVE  outbox'[r].task = outbox[r].task /\ outbox'[r].leased
  BY <1>0, <1>4 DEF LeaseExpires, BackoffElapses
<1> QED BY <1>1, <1>2, <1>3, <1>4, Writers

\* The dispatcher gets a row by leasing it and leaves it by going on.
LEMMA ClaimStep ==
    ASSUME DurabilityInv, [Next]_vars, disp'.pc \in Busy
    PROVE  /\ disp'.row \in RowId /\ (DispTask # NoTask)' /\ outbox'[disp'.row].leased
           /\ disp.pc \in Busy => UNCHANGED <<disp.row, DispTask>>
<1>0. /\ TypeOK
      /\ outbox \in [RowId -> [task : Tasks \cup {NoTask}, due : BOOLEAN,
                               leased : BOOLEAN, canceled : BOOLEAN]]
      /\ disp \in [pc : {"idle", "claim", "load", "switch", "spawn", "run"},
                   row : 0..MaxOut, batch : SUBSET RowId]
  BY DEF DurabilityInv, WorkersAreAccounted, TypeOK
<1>1. disp.pc \in Busy => disp.row \in RowId /\ DispTask # NoTask /\ outbox[disp.row].leased
  BY DEF DurabilityInv, WorkersAreAccounted, ClaimedRowStays, DispatchInv, Busy
<1>2. CASE DispClaim
  <2>1. PICK r \in disp.batch :
          IF outbox[r].task = NoTask \/ outbox[r].leased
            THEN DispNext(disp.batch \ {r})
            ELSE /\ outbox' = [outbox EXCEPT ![r].leased = TRUE]
                 /\ disp' = [pc |-> "load", row |-> r, batch |-> disp.batch \ {r}]
    BY <1>2 DEF DispClaim
  <2>2. r \in RowId /\ disp.pc \notin Busy
    BY <1>0, <1>2 DEF DispClaim, Busy
  <2>3. outbox[r].task # NoTask /\ ~outbox[r].leased
    BY <2>1 DEF DispNext, Busy
  <2> QED BY <1>0, <2>1, <2>2, <2>3 DEF DispTask
<1>3. CASE DispStep /\ ~DispClaim
  <2>1. disp.pc \in Busy /\ disp'.row = disp.row /\ UNCHANGED outbox
    BY <1>0, <1>3 DEF DispStep, DispLoad, DispSwitch, DispSpawn, DispSpawnFails, DispReturns,
       DispNext, DispTo, Busy
  <2> QED BY <1>1, <2>1 DEF DispTask
<1>4. CASE ~DispStep
  <2>1. ~Crash /\ ~DispList
    BY DEF Crash, DispList, Busy
  <2>2. UNCHANGED disp
    BY <1>4, <2>1, Writers
  <2>3. disp.pc \in Busy
    BY <2>2
  <2> QED BY <1>0, <1>1, <1>4, <2>1, <2>2, <2>3, LeasedRowStays DEF DispTask
<1> QED BY <1>2, <1>3, <1>4

\* A task that got its row has no way back to having none.
LEMMA AbsentStep ==
    ASSUME LifeInv, DurabilityInv, [Next]_vars, NEW t \in Tasks, status'[t] = "absent"
    PROVE  handler'[t] = "none"
<1>0. TypeOK /\ StatusType /\ (status[t] = "absent" => handler[t] = "none")
  BY DEF DurabilityInv, WorkersAreAccounted, DispatchInv, LifeInv
<1>1. status[t] = "absent"
  BY <1>0, StatusStep DEF StatusType, Lifecycle!Next, Lifecycle!Create, Lifecycle!Move,
     Lifecycle!IsLegalTransition
<1>2. ASSUME NEW u \in Tasks, Submit(u) PROVE u # t
  BY <1>0, <1>2 DEF Submit, StatusType
<1>3. ASSUME NEW u \in Tasks, Submit(u) \/ HandlerStep(u) PROVE handler'[t] = handler[t]
  <2>1. u # t
    BY <1>0, <1>1, <1>2, <1>3 DEF HandlerStep, AnswerLocally, HandlerStart, HandlerSpawn,
       HandlerSpawnFails, HandlerReturns
  <2>2. PICK pc : handler' = [handler EXCEPT ![u] = pc]
    BY <1>3 DEF Submit, HandlerStep, AnswerLocally, HandlerStart, HandlerSpawn,
       HandlerSpawnFails, HandlerReturns
  <2> QED BY <1>0, <2>1, <2>2 DEF TypeOK
<1>4. Crash => handler'[t] = "none"
  BY DEF Crash
<1> QED BY <1>0, <1>1, <1>3, <1>4, Writers

\* The registry and its owners change together.
LEMMA RegistryStep ==
    ASSUME LifeInv, DurabilityInv, [Next]_vars PROVE RegistryHasOwner'
<1>0. /\ TypeOK /\ RegistryHasOwner /\ DispatchInv
      /\ live \in [Tasks -> {"none", "handler", "dispatcher"}]
      /\ handler \in [Tasks -> {"none", "start", "spawn", "run"}]
  BY DEF DurabilityInv, WorkersAreAccounted, TypeOK
<1> SUFFICES ASSUME NEW t \in Tasks
             PROVE  /\ live'[t] = "handler" => handler'[t] = "run"
                    /\ live'[t] = "dispatcher" => disp'.pc = "run" /\ DispTask' = t
  BY DEF RegistryHasOwner
<1>1. CASE Crash
  BY <1>1 DEF Crash
<1>2. CASE DispSpawn
  <2>1. disp.pc = "spawn" /\ disp'.pc = "run" /\ UNCHANGED <<outbox, handler>>
        /\ disp'.row = disp.row /\ live' = [live EXCEPT ![DispTask] = "dispatcher"]
    BY <1>0, <1>2 DEF DispSpawn, DispTo, StartWorker, TypeOK
  <2> QED BY <1>0, <2>1 DEF RegistryHasOwner, DispTask
<1>3. ASSUME NEW ok \in BOOLEAN, DispSpawnFails \/ DispReturns(ok)
      PROVE  /\ live'[t] = "handler" => handler'[t] = "run"
             /\ live'[t] # "dispatcher"
  <2>1. UNCHANGED handler /\ live' = [live EXCEPT ![DispTask] = "none"]
        /\ disp.pc \in {"spawn", "run"}
    BY <1>3 DEF DispSpawnFails, DispReturns
  <2> QED BY <1>0, <2>1 DEF RegistryHasOwner
<1>4. CASE ~Crash /\ ~DispSpawn /\ ~DispSpawnFails /\ ~(\E ok \in BOOLEAN : DispReturns(ok))
  <2>1. disp.pc = "run" => disp'.pc = "run"
    BY <1>4, Writers DEF DispList, DispStep, DispClaim, DispLoad, DispSwitch
  <2>2. live[t] = "dispatcher" => disp'.pc = "run" /\ DispTask' = t
    BY <1>0, <2>1, ClaimStep DEF RegistryHasOwner, Busy
  <2>3. ASSUME NEW u \in Tasks, Submit(u) \/ HandlerStep(u)
        PROVE  /\ live'[t] = "handler" => handler'[t] = "run"
               /\ live'[t] = "dispatcher" => live[t] = "dispatcher"
    <3>1. CASE HandlerSpawn(u)
      BY <1>0, <3>1 DEF HandlerSpawn, StartWorker, RegistryHasOwner
    <3>2. CASE \E ok \in BOOLEAN : HandlerReturns(u, ok)
      BY <1>0, <3>2 DEF HandlerReturns, RegistryHasOwner
    <3>3. CASE ~HandlerSpawn(u) /\ ~(\E ok \in BOOLEAN : HandlerReturns(u, ok))
      <4>1. /\ UNCHANGED live /\ handler[u] # "run"
            /\ \E pc \in {"none", "start", "spawn"} : handler' = [handler EXCEPT ![u] = pc]
        BY <1>0, <2>3, <3>3 DEF Submit, HandlerStep, AnswerLocally, HandlerStart,
           HandlerSpawnFails, DispatchInv
      <4> QED BY <1>0, <4>1 DEF RegistryHasOwner
    <3> QED BY <3>1, <3>2, <3>3
  <2>4. CASE UNCHANGED handler
    <3>1. \A u \in Tasks : ~HandlerSpawn(u) /\ ~\E ok \in BOOLEAN : HandlerReturns(u, ok)
      BY <1>0, <2>4 DEF HandlerSpawn, HandlerReturns
    <3>2. UNCHANGED live
      BY <1>4, <3>1, Writers DEF HaltKill, OrphanExits
    <3> QED BY <1>0, <2>2, <2>4, <3>2 DEF RegistryHasOwner
  <2> QED BY <1>4, <2>2, <2>3, <2>4, Writers
<1> QED BY <1>1, <1>2, <1>3, <1>4

\* Before anything runs nothing is registered, claimed or counted.
LEMMA InitDurable == Init => DurabilityInv
BY DurabilityAssumption DEF Init, DurabilityInv, WorkersAreAccounted, TypeOK, RegistryHasOwner,
   ClaimedRowStays, DispatchInv, Statuses, Worker, NoRow

\* The types, the registry and the claim hold together in every reachable state.
LEMMA DurabilityInvariant == Spec => []DurabilityInv
<1>1. LifeInv /\ DurabilityInv /\ [Next]_vars => DurabilityInv'
  <2> SUFFICES ASSUME LifeInv, DurabilityInv, [Next]_vars PROVE DurabilityInv'
    OBVIOUS
  <2>1. TypeOK'
    BY TypeStep DEF DurabilityInv, WorkersAreAccounted
  <2>2. ClaimedRowStays' /\ DispatchInv'
    BY ClaimStep, AbsentStep DEF ClaimedRowStays, DispatchInv, Busy
  <2> QED
    BY <2>1, <2>2, RegistryStep DEF DurabilityInv, WorkersAreAccounted
<1> QED
  BY <1>1, InitDurable, LifeInvariant, PTL DEF Spec

\* For any number of tasks and rows: a registered worker has an owner that
\* will unregister it, and the outbox row of a running resume stays claimed,
\* whatever crashes, leases, halts and late results do.
THEOREM WorkersStayAccounted == Spec => []WorkersAreAccounted
BY DurabilityInvariant, PTL DEF DurabilityInv

\* No dispatch of a task that is user_halted gets past its Transition.
THEOREM HaltBlocksDispatch == Spec => HaltedNotRedispatched
<1> DEFINE Blocked == \A t \in Tasks :
         status[t] = "user_halted" /\ disp'.pc = "spawn" /\ outbox[disp'.row].task = t
         => disp.pc = "spawn"
<1>1. DurabilityInv /\ [Next]_vars => Blocked
  <2> SUFFICES ASSUME DurabilityInv, [Next]_vars, NEW t \in Tasks, status[t] = "user_halted",
                      disp'.pc = "spawn", outbox[disp'.row].task = t
               PROVE  disp.pc = "spawn"
    OBVIOUS
  <2>0. disp \in [pc : {"idle", "claim", "load", "switch", "spawn", "run"},
                  row : 0..MaxOut, batch : SUBSET RowId]
    BY DEF DurabilityInv, WorkersAreAccounted, TypeOK
  <2>1. CASE DispSwitch
    <3>1. CanTransition(DispTask, "executing") /\ disp'.row = disp.row
      BY <2>0, <2>1 DEF DispSwitch, DispNext, DispTo
    <3> QED BY <3>1 DEF DispTask, CanTransition, IsLegalTransition
  <2>2. CASE ~DispSwitch
    BY <2>0, <2>2, Writers DEF Crash, DispList, DispStep, DispClaim, DispLoad, DispSpawn,
       DispSpawnFails, DispReturns, DispNext, DispTo
  <2> QED BY <2>1, <2>2
<1> QED
  BY <1>1, DurabilityInvariant, PTL DEF Spec, HaltedNotRedispatched

-----------------------------------------------------------------------------
(***************************************************************************)
(* The file tools, for any number of calls, tasks and traces, any trash    *)
(* and any number of the user's own writes.  A record of a directory that  *)
(* was missing is used only while the directory is none or a real one, and *)
(* a trash entry that an undo will look for is held by one call or one     *)
(* record alone, so that nobody else can take it away.                     *)
(***************************************************************************)
FsSafety == FsInit /\ [][FsNext]_fsVars

Texts == AllTexts \cup {NoFile}
FsRecs == [tool : {"none", "fs_write", "fs_delete"}, at : Places, missing : BOOLEAN, had : BOOLEAN,
           hash : Texts, blob : Texts, copy : BOOLEAN, task : {FsTask[c] : c \in FsCalls} \cup {0},
           dest : 0..MaxTrash]
FsPcs == {"idle", "check", "read", "write", "keep", "rename", "put", "delete", "copy", "remove", "ended"}

FsTypes ==
    /\ fsFiles \in [Places -> Texts]
    /\ sub \in {"none", "dir", "link"}
    /\ fsFiles["sub"] # NoFile => sub = "dir"
    /\ fsCall \in [FsCalls -> [pc : FsPcs, tool : {"none", "read", "write", "delete"}, path : Places,
                               rec : FsRecs]]
    /\ trash \in [1..MaxTrash -> Texts]
    /\ registry \in [Traces -> FsRecs]

\* What a record says of the directory is what it was, or still is.
PathFits(rec) ==
    /\ rec.missing => rec.at = "sub"
    /\ rec.at = "sub" /\ ~rec.missing => sub = "dir"

\* What a call knows at each of its steps.
CallFits(c) ==
    /\ PathFits(Rec(c))
    /\ fsCall[c].pc = "check" /\ fsCall[c].tool # "read" => Rec(c).at # "elsewhere"
    /\ fsCall[c].pc = "check" => fsCall[c].tool # "none"
    /\ fsCall[c].pc \in {"write", "keep", "rename", "delete", "copy", "remove", "put"} =>
          Rec(c).at # "elsewhere"
    /\ fsCall[c].pc \in {"keep", "rename"} => Rec(c).tool = "fs_write"
    /\ fsCall[c].pc \in {"copy", "remove"} =>
          /\ Rec(c).tool = "fs_delete" /\ Rec(c).dest \in 1..MaxTrash
          /\ Rec(c).missing => sub = "dir"

RecordFits(t) ==
    /\ PathFits(registry[t])
    /\ registry[t].at # "elsewhere"

\* The calls and the records that will want an entry of the trash back.
CallHolds(c) == fsCall[c].pc \in {"remove", "put"} /\ Rec(c).tool = "fs_delete"
TraceHolds(t) == registry[t].tool = "fs_delete"
InTrash(rec) == rec.dest \in 1..MaxTrash /\ rec.hash # NoFile /\ trash[rec.dest] = rec.hash

\* Each has its text there, and no two of them the same entry.
TrashHeld ==
    /\ \A c \in FsCalls : CallHolds(c) => InTrash(Rec(c))
    /\ \A t \in Traces : TraceHolds(t) => InTrash(registry[t])
    /\ \A c, d \in FsCalls : CallHolds(c) /\ CallHolds(d) /\ Rec(c).dest = Rec(d).dest => c = d
    /\ \A t, u \in Traces : TraceHolds(t) /\ TraceHolds(u) /\ registry[t].dest = registry[u].dest => t = u
    /\ \A c \in FsCalls, t \in Traces : CallHolds(c) /\ TraceHolds(t) => Rec(c).dest # registry[t].dest

FsInv ==
    /\ FsTypes
    /\ \A c \in FsCalls : CallFits(c)
    /\ \A t \in Traces : RecordFits(t)
    /\ TrashHeld
    /\ ChangesWhereChecked

\* Without a link in the way an operation ends where the record says.
LEMMA ReachedIsChecked ==
    ASSUME NEW rec, ~Refused(rec) PROVE Reached(rec) = rec.at
BY DEF Refused, Reached

\* A free name of the trash is one of its names, and nothing is there.
LEMMA FreeName ==
    ASSUME CollisionSafe # 0
    PROVE  CollisionSafe \in 1..MaxTrash /\ trash[CollisionSafe] = NoFile
<1> DEFINE free == {n \in 1..MaxTrash : trash[n] = NoFile}
<1>1. free # {}
  BY DEF CollisionSafe
<1>2. free \in SUBSET Nat
  OBVIOUS
<1>3. PICK m \in free : \A k \in free : m <= k
  <2> HIDE DEF free
  <2> QED BY <1>1, <1>2, LeastNumber
<1>4. CollisionSafe = CHOOSE n \in free : \A k \in free : n <= k
  BY <1>1 DEF CollisionSafe
<1>5. CollisionSafe \in free
  <2> HIDE DEF free
  <2> QED BY <1>3, <1>4
<1> QED BY <1>5

\* The beginning.
LEMMA InitFiles == ASSUME FsInit PROVE FsInv
<1>1. NoRecord \in FsRecs /\ NoRecord.tool = "none" /\ NoRecord.at = "top" /\ NoRecord.missing = FALSE
  BY FsAssumption DEF NoRecord, FsRecs, Texts, Places
<1>2. FsTypes
  <2>1. fsFiles \in [Places -> Texts] /\ fsFiles["sub"] = NoFile
    BY DEF FsInit, Texts, AllTexts, Places
  <2>2. sub = "none"
    BY DEF FsInit
  <2>3. fsCall \in [FsCalls -> [pc : FsPcs, tool : {"none", "read", "write", "delete"}, path : Places,
                               rec : FsRecs]]
    <3> HIDE DEF FsRecs
    <3> QED BY <1>1 DEF FsInit, IdleCall, FsPcs, Places
  <2>4. trash \in [1..MaxTrash -> Texts]
    BY DEF FsInit, Texts
  <2>5. registry \in [Traces -> FsRecs]
    BY <1>1 DEF FsInit
  <2> QED BY <2>1, <2>2, <2>3, <2>4, <2>5 DEF FsTypes
<1>3. \A c \in FsCalls : fsCall[c].pc = "idle" /\ Rec(c) = NoRecord
  BY DEF FsInit, IdleCall, Rec
<1>4. \A t \in Traces : registry[t] = NoRecord
  BY DEF FsInit
<1>5. \A c \in FsCalls : CallFits(c)
  BY <1>1, <1>3 DEF CallFits, PathFits
<1>6. \A t \in Traces : RecordFits(t)
  BY <1>1, <1>4 DEF RecordFits, PathFits
<1>7. TrashHeld
  BY <1>1, <1>3, <1>4 DEF TrashHeld, CallHolds, TraceHolds
<1>8. ChangesWhereChecked
  BY DEF FsInit, ChangesWhereChecked
<1> QED BY <1>2, <1>5, <1>6, <1>7, <1>8 DEF FsInv

\* A call that did not move knows what it knew, as a directory stays one.
LEMMA CallStays ==
    ASSUME NEW c \in FsCalls, CallFits(c), fsCall'[c] = fsCall[c], sub = "dir" => sub' = "dir"
    PROVE  CallFits(c)'
<1>1. Rec(c)' = Rec(c)
  BY DEF Rec
<1> QED BY <1>1 DEF CallFits, PathFits

\* And so does a record.
LEMMA RecordStays ==
    ASSUME NEW t \in Traces, RecordFits(t), registry'[t] = registry[t], sub = "dir" => sub' = "dir"
    PROVE  RecordFits(t)'
BY DEF RecordFits, PathFits

\* Whoever still holds an entry held it before, and it was not touched.
LEMMA HoldersStay ==
    ASSUME TrashHeld,
           \A c \in FsCalls : CallHolds(c)' =>
              CallHolds(c) /\ Rec(c)' = Rec(c) /\ trash'[Rec(c).dest] = trash[Rec(c).dest],
           \A t \in Traces : TraceHolds(t)' =>
              TraceHolds(t) /\ registry'[t] = registry[t] /\ trash'[registry[t].dest] = trash[registry[t].dest]
    PROVE  TrashHeld'
<1>1. \A c \in FsCalls : CallHolds(c)' => InTrash(Rec(c))'
  BY DEF TrashHeld, InTrash
<1>2. \A t \in Traces : TraceHolds(t)' => InTrash(registry[t])'
  BY DEF TrashHeld, InTrash
<1>3. \A c, d \in FsCalls : CallHolds(c)' /\ CallHolds(d)' /\ Rec(c)'.dest = Rec(d)'.dest => c = d
  BY DEF TrashHeld
<1>4. \A t, u \in Traces : TraceHolds(t)' /\ TraceHolds(u)' /\ registry'[t].dest = registry'[u].dest => t = u
  BY DEF TrashHeld
<1>5. \A c \in FsCalls, t \in Traces : CallHolds(c)' /\ TraceHolds(t)' => Rec(c)'.dest # registry'[t].dest
  BY DEF TrashHeld
<1> QED BY <1>1, <1>2, <1>3, <1>4, <1>5 DEF TrashHeld

\* A call steps on and touches neither files nor trash nor records.
LEMMA OneCallMoves ==
    ASSUME FsInv, NEW c \in FsCalls, NEW STATE row,
           row \in [pc : FsPcs, tool : {"none", "read", "write", "delete"}, path : Places, rec : FsRecs],
           fsCall' = [fsCall EXCEPT ![c] = row], CallFits(c)',
           CallHolds(c)' => CallHolds(c) /\ Rec(c)' = Rec(c),
           UNCHANGED <<fsFiles, sub, trash, registry, wrote>>
    PROVE  FsInv'
<1>1. FsTypes'
  <2> HIDE DEF FsRecs
  <2> QED BY DEF FsInv, FsTypes
<1>2. \A d \in FsCalls : d # c => fsCall'[d] = fsCall[d] /\ Rec(d)' = Rec(d)
  BY DEF FsInv, FsTypes, Rec
<1>3. \A d \in FsCalls : CallFits(d)'
  BY <1>2, CallStays DEF FsInv
<1>4. \A t \in Traces : RecordFits(t)'
  BY RecordStays DEF FsInv
<1>5. \A d \in FsCalls : CallHolds(d)' => CallHolds(d) /\ Rec(d)' = Rec(d)
  BY <1>2 DEF CallHolds
<1>6. \A t \in Traces : TraceHolds(t)' => TraceHolds(t)
  BY DEF TraceHolds
<1>7. TrashHeld'
  BY <1>5, <1>6, HoldersStay DEF FsInv
<1>8. ChangesWhereChecked'
  BY DEF FsInv, ChangesWhereChecked
<1> QED BY <1>1, <1>3, <1>4, <1>7, <1>8 DEF FsInv

\* A call that ends keeps nothing.
LEMMA EndedCall ==
    ASSUME FsInv, NEW c \in FsCalls, CallEnds(c)
    PROVE  /\ fsCall' \in [FsCalls -> [pc : FsPcs, tool : {"none", "read", "write", "delete"},
                                       path : Places, rec : FsRecs]]
           /\ CallFits(c)' /\ ~CallHolds(c)'
           /\ \A d \in FsCalls : d # c => fsCall'[d] = fsCall[d]
<1> DEFINE row == [IdleCall EXCEPT !.pc = "ended"]
<1>1. NoRecord \in FsRecs /\ NoRecord.tool = "none" /\ NoRecord.at = "top" /\ NoRecord.missing = FALSE
  BY FsAssumption DEF NoRecord, FsRecs, Texts, Places
<1>2. row \in [pc : FsPcs, tool : {"none", "read", "write", "delete"}, path : Places, rec : FsRecs]
      /\ row.pc = "ended" /\ row.rec = NoRecord
  <2> HIDE DEF FsRecs
  <2> QED BY <1>1 DEF IdleCall, FsPcs, Places
<1>3. fsCall' = [fsCall EXCEPT ![c] = row]
  BY DEF CallEnds
<1>4. fsCall'[c] = row /\ \A d \in FsCalls : d # c => fsCall'[d] = fsCall[d]
  <2> HIDE DEF row
  <2> QED BY <1>3 DEF FsInv, FsTypes
<1>5. fsCall' \in [FsCalls -> [pc : FsPcs, tool : {"none", "read", "write", "delete"},
                                       path : Places, rec : FsRecs]]
  <2> HIDE DEF row
  <2> QED BY <1>2, <1>3 DEF FsInv, FsTypes
<1>6. fsCall'[c].pc = "ended" /\ Rec(c)' = NoRecord
  <2> HIDE DEF row
  <2> QED BY <1>2, <1>4 DEF Rec
<1>7. CallFits(c)' /\ ~CallHolds(c)'
  BY <1>1, <1>6 DEF CallFits, CallHolds, PathFits
<1> QED BY <1>4, <1>5, <1>7

\* And touches nothing either.
LEMMA CallGivesUp ==
    ASSUME FsInv, NEW c \in FsCalls, CallEnds(c), UNCHANGED <<fsFiles, sub, trash, registry, wrote>>
    PROVE  FsInv'
<1>1. PICK row : row = fsCall'[c]
  OBVIOUS
<1>2. row \in [pc : FsPcs, tool : {"none", "read", "write", "delete"}, path : Places, rec : FsRecs]
  BY <1>1, EndedCall
<1>3. fsCall' = [fsCall EXCEPT ![c] = row]
  <2> HIDE DEF FsRecs
  <2> QED BY <1>1 DEF CallEnds, FsInv, FsTypes
<1> QED BY <1>2, <1>3, EndedCall, OneCallMoves

\* A call that goes to another step, with another record.
LEMMA CallAtStep ==
    ASSUME FsInv, NEW c \in FsCalls, NEW pc \in FsPcs, NEW rec \in FsRecs,
           fsCall' = [fsCall EXCEPT ![c].pc = pc, ![c].rec = rec]
    PROVE  /\ fsCall' \in [FsCalls -> [pc : FsPcs, tool : {"none", "read", "write", "delete"},
                                       path : Places, rec : FsRecs]]
           /\ fsCall'[c].pc = pc /\ Rec(c)' = rec /\ fsCall'[c].tool = fsCall[c].tool
           /\ \A d \in FsCalls : d # c => fsCall'[d] = fsCall[d]
<1>1. /\ fsCall \in [FsCalls -> [pc : FsPcs, tool : {"none", "read", "write", "delete"},
                                 path : Places, rec : FsRecs]]
  BY DEF FsInv, FsTypes
<1> HIDE DEF FsRecs
<1> QED BY <1>1 DEF Rec

\* The same when only the step changes.
LEMMA CallGoes ==
    ASSUME FsInv, NEW c \in FsCalls, NEW pc \in FsPcs, CallTo(c, pc)
    PROVE  /\ fsCall' \in [FsCalls -> [pc : FsPcs, tool : {"none", "read", "write", "delete"},
                                       path : Places, rec : FsRecs]]
           /\ fsCall'[c].pc = pc /\ Rec(c)' = Rec(c) /\ fsCall'[c].tool = fsCall[c].tool
           /\ \A d \in FsCalls : d # c => fsCall'[d] = fsCall[d]
<1>1. /\ fsCall \in [FsCalls -> [pc : FsPcs, tool : {"none", "read", "write", "delete"},
                                 path : Places, rec : FsRecs]]
  BY DEF FsInv, FsTypes
<1> HIDE DEF FsRecs
<1> QED BY <1>1 DEF Rec, CallTo

\* A step of a call that holds nothing afterwards.
LEMMA CallStepsOn ==
    ASSUME FsInv, NEW c \in FsCalls,
           fsCall' \in [FsCalls -> [pc : FsPcs, tool : {"none", "read", "write", "delete"},
                                    path : Places, rec : FsRecs]],
           \A d \in FsCalls : d # c => fsCall'[d] = fsCall[d],
           CallFits(c)', ~CallHolds(c)', UNCHANGED <<fsFiles, sub, trash, registry, wrote>>
    PROVE  FsInv'
<1>1. PICK row : row = fsCall'[c]
  OBVIOUS
<1>2. row \in [pc : FsPcs, tool : {"none", "read", "write", "delete"}, path : Places, rec : FsRecs]
  BY <1>1
<1>3. fsCall' = [fsCall EXCEPT ![c] = row]
  <2> HIDE DEF FsRecs
  <2> QED BY <1>1 DEF FsInv, FsTypes
<1> QED BY <1>2, <1>3, OneCallMoves

\* A call starts: what it is about to change is no denied place.
LEMMA StartKeeps ==
    ASSUME FsInv, NEW c \in FsCalls, NEW tool \in {"read", "write", "delete"}, NEW path \in Places,
           StartCall(c, tool, path)
    PROVE  FsInv'
<1>0. UNCHANGED <<fsFiles, sub, trash, registry, wrote>>
  BY DEF StartCall, undoVars
<1>1. CASE tool # "read" /\ Denied(path)
  BY <1>0, <1>1, CallGivesUp DEF StartCall
<1>2. CASE ~(tool # "read" /\ Denied(path))
  <2> DEFINE at == Canonicalize(path)
             missing == (path = "sub" /\ sub = "none")
             rec == [NoRecord EXCEPT !.at = at, !.task = FsTask[c], !.missing = missing]
  <2>1. at \in Places /\ missing \in BOOLEAN
    BY DEF Canonicalize, Places
  <2>2. rec \in FsRecs /\ rec.at = at /\ rec.missing = missing
    <3>1. NoRecord \in FsRecs
      BY FsAssumption DEF NoRecord, FsRecs, Texts, Places
    <3> HIDE DEF at, missing
    <3> QED BY <2>1, <3>1 DEF FsRecs
  <2>3. fsCall' = [fsCall EXCEPT ![c] = [pc |-> "check", tool |-> tool, path |-> path, rec |-> rec]]
    BY <1>2 DEF StartCall
  <2>4. PathFits(rec)
    <3>1. (missing => at = "sub") /\ (at = "sub" /\ ~missing => sub = "dir")
      BY DEF Canonicalize, FsInv, FsTypes
    <3> HIDE DEF rec, at, missing
    <3> QED BY <2>2, <3>1 DEF PathFits
  <2>5. tool # "read" => at # "elsewhere"
    BY <1>2 DEF Denied, DenyGlobs
  <2> HIDE DEF rec
  <2>6. fsCall' \in [FsCalls -> [pc : FsPcs, tool : {"none", "read", "write", "delete"},
                                    path : Places, rec : FsRecs]]
    <3> HIDE DEF FsRecs
    <3> QED BY <2>2, <2>3 DEF FsInv, FsTypes, FsPcs
  <2>7. fsCall'[c] = [pc |-> "check", tool |-> tool, path |-> path, rec |-> rec]
        /\ \A d \in FsCalls : d # c => fsCall'[d] = fsCall[d]
    BY <2>3 DEF FsInv, FsTypes
  <2>8. /\ fsCall'[c].pc = "check" /\ fsCall'[c].tool = tool
        /\ fsCall'[c].rec.at = at /\ PathFits(fsCall'[c].rec)
    BY <2>2, <2>4, <2>7
  <2>9. CallFits(c)' /\ ~CallHolds(c)'
    BY <1>0, <2>5, <2>8 DEF CallFits, CallHolds, PathFits, Rec
  <2> QED BY <1>0, <2>6, <2>7, <2>9, CallStepsOn
<1> QED BY <1>1, <1>2

\* The engine answers, and the call goes to its tool's first step.
LEMMA AnswerKeeps == ASSUME FsInv, NEW c \in FsCalls, PolicyAnswers(c) PROVE FsInv'
<1>0. UNCHANGED <<fsFiles, sub, trash, registry, wrote>>
  BY DEF PolicyAnswers, undoVars
<1>1. CASE CallEnds(c)
  BY <1>0, <1>1, CallGivesUp
<1>2. CASE CallTo(c, fsCall[c].tool)
  <2>0. fsCall[c].pc = "check" /\ CallFits(c)
    BY DEF PolicyAnswers, CallAt, FsInv
  <2>1. PICK pc \in FsPcs : pc = fsCall[c].tool /\ pc \in {"read", "write", "delete"}
    <3> HIDE DEF FsRecs
    <3> QED BY <2>0 DEF FsInv, FsTypes, FsPcs, CallFits
  <2>2. CallTo(c, pc)
    BY <1>2, <2>1
  <2>3. /\ fsCall' \in [FsCalls -> [pc : FsPcs, tool : {"none", "read", "write", "delete"},
                                       path : Places, rec : FsRecs]]
        /\ fsCall'[c].pc = pc /\ Rec(c)' = Rec(c)
        /\ \A d \in FsCalls : d # c => fsCall'[d] = fsCall[d]
    BY <2>2, CallGoes
  <2>4. CallFits(c)' /\ ~CallHolds(c)'
    BY <1>0, <2>0, <2>1, <2>3 DEF CallFits, CallHolds, PathFits
  <2> QED BY <1>0, <2>3, <2>4, CallStepsOn
<1> QED BY <1>1, <1>2 DEF PolicyAnswers

\* What a record leads to is a text or nothing; with the directory missing,
\* or a link by now, it is nothing.
LEMMA TextIsText ==
    ASSUME FsInv, NEW rec \in FsRecs
    PROVE  /\ Reached(rec) \in Places /\ TextThere(rec) \in Texts
           /\ PathFits(rec) /\ ~Refused(rec) /\ TextThere(rec) # NoFile => (rec.missing => sub = "dir")
<1>1. rec.at \in Places /\ rec.missing \in BOOLEAN
  BY DEF FsRecs
<1>2. Reached(rec) \in Places
  BY <1>1 DEF Reached, Places
<1>3. TextThere(rec) \in Texts
  BY <1>2 DEF TextThere, FsInv, FsTypes
<1>4. ASSUME PathFits(rec), ~Refused(rec), TextThere(rec) # NoFile, rec.missing PROVE sub = "dir"
  <2>1. Reached(rec) = "sub"
    BY <1>4, ReachedIsChecked DEF PathFits
  <2> QED BY <1>4, <2>1 DEF TextThere, FsInv, FsTypes
<1> QED BY <1>2, <1>3, <1>4

\* The record a call carries.
LEMMA CallRecord ==
    ASSUME FsInv, NEW c \in FsCalls
    PROVE  Rec(c) \in FsRecs /\ CallFits(c) /\ PathFits(Rec(c)) /\ fsCall[c].rec = Rec(c)
<1>1. fsCall \in [FsCalls -> [pc : FsPcs, tool : {"none", "read", "write", "delete"},
                              path : Places, rec : FsRecs]]
  BY DEF FsInv, FsTypes
<1>2. Rec(c) \in FsRecs
  <2> HIDE DEF FsRecs
  <2> QED BY <1>1 DEF Rec
<1> QED BY <1>2 DEF FsInv, CallFits, Rec

\* A read changes nothing but the session's mark.
LEMMA ReadKeeps == ASSUME FsInv, NEW c \in FsCalls, HandleRead(c) PROVE FsInv'
BY CallGivesUp DEF HandleRead

\* The first read of a write.
LEMMA CheckpointKeeps == ASSUME FsInv, NEW c \in FsCalls, CheckpointPreImage(c) PROVE FsInv'
<1>0. UNCHANGED <<fsFiles, sub, trash, registry, wrote>> /\ fsCall[c].pc = "write"
  BY DEF CheckpointPreImage, undoVars, CallAt
<1>1. CASE Refused(Rec(c))
  BY <1>0, <1>1, CallGivesUp DEF CheckpointPreImage
<1>2. CASE ~Refused(Rec(c))
  <2>1. PICK text \in Texts : text = TextThere(Rec(c))
    BY CallRecord, TextIsText
  <2>2. PICK pc \in FsPcs : pc = (IF text = NoFile THEN "rename" ELSE "keep")
    BY DEF FsPcs
  <2>3. PICK rec : rec = [Rec(c) EXCEPT !.tool = "fs_write", !.had = (text # NoFile), !.hash = text]
    OBVIOUS
  <2>4. rec \in FsRecs /\ rec.tool = "fs_write" /\ rec.at = Rec(c).at /\ rec.missing = Rec(c).missing
    BY <2>1, <2>3, CallRecord DEF FsRecs
  <2>5. fsCall' = [fsCall EXCEPT ![c].pc = pc, ![c].rec = rec]
    BY <1>2, <2>1, <2>2, <2>3 DEF CheckpointPreImage
  <2>6. /\ fsCall' \in [FsCalls -> [pc : FsPcs, tool : {"none", "read", "write", "delete"},
                                       path : Places, rec : FsRecs]]
        /\ fsCall'[c].pc = pc /\ Rec(c)' = rec
        /\ \A d \in FsCalls : d # c => fsCall'[d] = fsCall[d]
    BY <2>4, <2>5, CallAtStep
  <2>7. CallFits(c)' /\ ~CallHolds(c)'
    BY <1>0, <2>2, <2>4, <2>6, CallRecord DEF CallFits, CallHolds, PathFits
  <2> QED BY <1>0, <2>6, <2>7, CallStepsOn
<1> QED BY <1>1, <1>2

\* The second read, or the copy of the first.
LEMMA KeepKeeps == ASSUME FsInv, NEW c \in FsCalls, KeepPreImage(c) PROVE FsInv'
<1>0. UNCHANGED <<fsFiles, sub, trash, registry, wrote>> /\ fsCall[c].pc = "keep"
  BY DEF KeepPreImage, CallAt
<1>a. "rename" \in FsPcs
  BY DEF FsPcs
<1>1. ASSUME NEW rec \in FsRecs, rec.tool = "fs_write", rec.at = Rec(c).at, rec.missing = Rec(c).missing,
             fsCall' = [fsCall EXCEPT ![c].pc = "rename", ![c].rec = rec]
      PROVE  FsInv'
  <2>6. /\ fsCall' \in [FsCalls -> [pc : FsPcs, tool : {"none", "read", "write", "delete"},
                                       path : Places, rec : FsRecs]]
        /\ fsCall'[c].pc = "rename" /\ Rec(c)' = rec
        /\ \A d \in FsCalls : d # c => fsCall'[d] = fsCall[d]
    BY <1>1, <1>a, CallAtStep
  <2>7. CallFits(c)' /\ ~CallHolds(c)'
    BY <1>0, <1>1, <2>6, CallRecord DEF CallFits, CallHolds, PathFits
  <2> QED BY <1>0, <2>6, <2>7, CallStepsOn
<1>2. Rec(c).tool = "fs_write" /\ fsCall[c].rec = Rec(c) /\ Rec(c) \in FsRecs
  BY <1>0, CallRecord DEF CallFits
<1>3. CASE fsCall' = [fsCall EXCEPT ![c].pc = "rename", ![c].rec.blob = fsFiles[Rec(c).at]]
  <2>1. PICK rec : rec = [Rec(c) EXCEPT !.blob = fsFiles[Rec(c).at]]
    OBVIOUS
  <2>2. fsFiles[Rec(c).at] \in Texts
    BY <1>2 DEF FsRecs, FsInv, FsTypes
  <2>3. rec \in FsRecs /\ rec.tool = "fs_write" /\ rec.at = Rec(c).at /\ rec.missing = Rec(c).missing
    BY <1>2, <2>1, <2>2 DEF FsRecs
  <2>4. fsCall' = [fsCall EXCEPT ![c].pc = "rename", ![c].rec = rec]
    BY <1>2, <1>3, <2>1
  <2> QED BY <1>1, <2>3, <2>4
<1>4. CASE fsCall' = [fsCall EXCEPT ![c].pc = "rename", ![c].rec.copy = TRUE]
  <2>1. PICK rec : rec = [Rec(c) EXCEPT !.copy = TRUE]
    OBVIOUS
  <2>3. rec \in FsRecs /\ rec.tool = "fs_write" /\ rec.at = Rec(c).at /\ rec.missing = Rec(c).missing
    BY <1>2, <2>1 DEF FsRecs
  <2>4. fsCall' = [fsCall EXCEPT ![c].pc = "rename", ![c].rec = rec]
    BY <1>2, <1>4, <2>1
  <2> QED BY <1>1, <2>3, <2>4
<1>5. CASE CallEnds(c)
  BY <1>0, <1>5, CallGivesUp
<1> QED BY <1>3, <1>4, <1>5 DEF KeepPreImage

\* A name for the trash is picked: nothing is held yet.
LEMMA PickKeeps == ASSUME FsInv, NEW c \in FsCalls, PickTrashName(c) PROVE FsInv'
<1>0. UNCHANGED <<fsFiles, sub, trash, registry, wrote>> /\ fsCall[c].pc = "delete"
  BY DEF PickTrashName, undoVars, CallAt
<1>1. CASE Refused(Rec(c)) \/ TextThere(Rec(c)) = NoFile \/ CollisionSafe = 0
  BY <1>0, <1>1, CallGivesUp DEF PickTrashName
<1>2. CASE ~(Refused(Rec(c)) \/ TextThere(Rec(c)) = NoFile \/ CollisionSafe = 0)
  <2>1. PICK n \in 1..MaxTrash : n = CollisionSafe
    BY <1>2, FreeName
  <2>2. "copy" \in FsPcs
    BY DEF FsPcs
  <2>3. PICK rec : rec = [Rec(c) EXCEPT !.tool = "fs_delete", !.dest = n]
    OBVIOUS
  <2>4. rec \in FsRecs /\ rec.tool = "fs_delete" /\ rec.at = Rec(c).at /\ rec.missing = Rec(c).missing
        /\ rec.dest = n
    <3>1. n \in 0..MaxTrash
      BY FsAssumption
    <3> QED BY <2>3, <3>1, CallRecord DEF FsRecs
  <2>5. fsCall' = [fsCall EXCEPT ![c].pc = "copy", ![c].rec = rec]
    BY <1>2, <2>1, <2>3 DEF PickTrashName
  <2>6. /\ fsCall' \in [FsCalls -> [pc : FsPcs, tool : {"none", "read", "write", "delete"},
                                       path : Places, rec : FsRecs]]
        /\ fsCall'[c].pc = "copy" /\ Rec(c)' = rec
        /\ \A d \in FsCalls : d # c => fsCall'[d] = fsCall[d]
    BY <2>2, <2>4, <2>5, CallAtStep
  <2>7. Rec(c).missing => sub = "dir"
    BY <1>2, CallRecord, TextIsText
  <2>8. CallFits(c)' /\ ~CallHolds(c)'
    BY <1>0, <2>4, <2>6, <2>7, CallRecord DEF CallFits, CallHolds, PathFits
  <2> QED BY <1>0, <2>6, <2>8, CallStepsOn
<1> QED BY <1>1, <1>2

\* A text put where the record says: below a directory that is one by then.
LEMMA PutLands ==
    ASSUME FsInv, NEW rec \in FsRecs, PathFits(rec), rec.at # "elsewhere", ~Refused(rec),
           NEW text \in Texts, PutText(rec, text)
    PROVE  /\ fsFiles' \in [Places -> Texts] /\ sub' \in {"none", "dir", "link"}
           /\ fsFiles'["sub"] # NoFile => sub' = "dir"
           /\ sub = "dir" => sub' = "dir"
           /\ fsFiles'[rec.at] = text
           /\ ChangesWhereChecked'
<1>1. Reached(rec) = rec.at /\ rec.at \in Places /\ rec.missing \in BOOLEAN
  BY ReachedIsChecked DEF FsRecs
<1>2. fsFiles' = [fsFiles EXCEPT ![rec.at] = text] /\ fsFiles \in [Places -> Texts]
  BY <1>1 DEF PutText, FsInv, FsTypes
<1>3. sub' \in {"none", "dir", "link"} /\ (sub = "dir" => sub' = "dir")
  BY DEF PutText, FsInv, FsTypes
<1>4. rec.at = "sub" => sub' = "dir"
  BY DEF PutText, PathFits, Refused, FsInv, FsTypes
<1>5. fsFiles'["sub"] # NoFile => sub' = "dir"
  <2>1. CASE rec.at = "sub"
    BY <1>4, <2>1
  <2>2. CASE rec.at # "sub"
    BY <1>2, <1>3, <2>2 DEF FsInv, FsTypes
  <2> QED BY <2>1, <2>2
<1>6. ChangesWhereChecked'
  BY <1>1 DEF PutText, FsInv, ChangesWhereChecked, DenyGlobs
<1> QED BY <1>1, <1>2, <1>3, <1>5, <1>6

\* A write renames its text into place, and its pre-image will be recorded.
LEMMA WriteKeeps == ASSUME FsInv, NEW c \in FsCalls, RootedWrite(c) PROVE FsInv'
<1>0. UNCHANGED <<trash, registry>> /\ fsCall[c].pc = "rename"
  BY DEF RootedWrite, undoVars, CallAt
<1>1. CASE CallEnds(c) /\ UNCHANGED <<fsFiles, sub, wrote>>
  BY <1>0, <1>1, CallGivesUp
<1>2. CASE ~Refused(Rec(c)) /\ PutText(Rec(c), TextOf[c]) /\ CallTo(c, "put")
  <2>1. Rec(c) \in FsRecs /\ PathFits(Rec(c)) /\ Rec(c).at # "elsewhere" /\ Rec(c).tool = "fs_write"
        /\ CallFits(c) /\ TextOf[c] \in Texts /\ "put" \in FsPcs
    BY <1>0, CallRecord DEF CallFits, Texts, AllTexts, FsPcs
  <2>2. /\ fsFiles' \in [Places -> Texts] /\ sub' \in {"none", "dir", "link"}
        /\ fsFiles'["sub"] # NoFile => sub' = "dir"
        /\ sub = "dir" => sub' = "dir"
        /\ ChangesWhereChecked'
    BY <1>2, <2>1, PutLands
  <2>3. /\ fsCall' \in [FsCalls -> [pc : FsPcs, tool : {"none", "read", "write", "delete"},
                                       path : Places, rec : FsRecs]]
        /\ fsCall'[c].pc = "put" /\ Rec(c)' = Rec(c)
        /\ \A d \in FsCalls : d # c => fsCall'[d] = fsCall[d]
    BY <1>2, <2>1, CallGoes
  <2>4. FsTypes'
    <3> HIDE DEF FsRecs
    <3> QED BY <1>0, <2>2, <2>3 DEF FsInv, FsTypes
  <2>5. CallFits(c)' /\ ~CallHolds(c)'
    BY <2>1, <2>2, <2>3 DEF CallFits, PathFits, CallHolds
  <2>6. \A d \in FsCalls : CallFits(d)'
    BY <2>2, <2>3, <2>5, CallStays DEF FsInv
  <2>7. \A t \in Traces : RecordFits(t)'
    BY <1>0, <2>2, RecordStays DEF FsInv
  <2>8. TrashHeld'
    <3>1. \A d \in FsCalls : CallHolds(d)' => CallHolds(d) /\ Rec(d)' = Rec(d)
      BY <2>3, <2>5 DEF CallHolds, Rec
    <3>2. \A t \in Traces : TraceHolds(t)' => TraceHolds(t)
      BY <1>0 DEF TraceHolds
    <3> QED BY <1>0, <3>1, <3>2, HoldersStay DEF FsInv
  <2> QED BY <2>2, <2>4, <2>6, <2>7, <2>8 DEF FsInv
<1> QED BY <1>1, <1>2 DEF RootedWrite

\* The record of a call becomes its trace's, with what it holds.
LEMMA PutRecordKeeps == ASSUME FsInv, NEW c \in FsCalls, PutRecord(c) PROVE FsInv'
<1>0. UNCHANGED <<fsFiles, sub, trash, wrote>> /\ fsCall[c].pc = "put" /\ CallEnds(c) /\ FsTrace[c] \in Traces
      /\ registry' = [registry EXCEPT ![FsTrace[c]] = Rec(c)] /\ registry \in [Traces -> FsRecs]
  BY DEF PutRecord, CallAt, Traces, FsInv, FsTypes
<1>1. Rec(c) \in FsRecs /\ PathFits(Rec(c)) /\ Rec(c).at # "elsewhere"
  BY <1>0, CallRecord DEF CallFits
<1>2. /\ fsCall' \in [FsCalls -> [pc : FsPcs, tool : {"none", "read", "write", "delete"},
                                  path : Places, rec : FsRecs]]
      /\ CallFits(c)' /\ ~CallHolds(c)'
      /\ \A d \in FsCalls : d # c => fsCall'[d] = fsCall[d]
  BY <1>0, EndedCall
<1>3. registry' \in [Traces -> FsRecs] /\ registry'[FsTrace[c]] = Rec(c)
      /\ \A t \in Traces : t # FsTrace[c] => registry'[t] = registry[t]
  <2> HIDE DEF FsRecs
  <2> QED BY <1>0, <1>1
<1>4. FsTypes'
  <2> HIDE DEF FsRecs
  <2> QED BY <1>0, <1>2, <1>3 DEF FsInv, FsTypes
<1>5. \A d \in FsCalls : CallFits(d)'
  BY <1>0, <1>2, CallStays DEF FsInv
<1>6. \A t \in Traces : RecordFits(t)'
  <2>1. RecordFits(FsTrace[c])'
    BY <1>0, <1>1, <1>3 DEF RecordFits, PathFits
  <2> QED BY <1>0, <1>3, <2>1, RecordStays DEF FsInv
<1>7. TrashHeld'
  <2>1. \A d \in FsCalls : CallHolds(d)' => d # c /\ CallHolds(d) /\ Rec(d)' = Rec(d)
    BY <1>2 DEF CallHolds, Rec
  <2>2. \A t \in Traces : t # FsTrace[c] => (TraceHolds(t)' <=> TraceHolds(t)) /\ registry'[t] = registry[t]
    BY <1>3 DEF TraceHolds
  <2>3. TraceHolds(FsTrace[c])' => CallHolds(c)
    BY <1>0, <1>3 DEF TraceHolds, CallHolds
  <2>4. \A d \in FsCalls : CallHolds(d)' => InTrash(Rec(d))'
    BY <1>0, <2>1 DEF FsInv, TrashHeld, InTrash
  <2>5. \A t \in Traces : TraceHolds(t)' => InTrash(registry[t])'
    <3>1. TraceHolds(FsTrace[c])' => InTrash(Rec(c))
      BY <2>3 DEF FsInv, TrashHeld
    <3> QED BY <1>0, <1>3, <2>2, <3>1 DEF FsInv, TrashHeld, InTrash
  <2>6. \A d, e \in FsCalls : CallHolds(d)' /\ CallHolds(e)' /\ Rec(d)'.dest = Rec(e)'.dest => d = e
    BY <2>1 DEF FsInv, TrashHeld
  <2>7. \A t, u \in Traces : TraceHolds(t)' /\ TraceHolds(u)' /\ registry'[t].dest = registry'[u].dest => t = u
    <3> SUFFICES ASSUME NEW t \in Traces, NEW u \in Traces, t # u, TraceHolds(t)', TraceHolds(u)'
                 PROVE  registry'[t].dest # registry'[u].dest
      OBVIOUS
    <3>1. CASE t # FsTrace[c] /\ u # FsTrace[c]
      BY <2>2, <3>1 DEF FsInv, TrashHeld
    <3>2. CASE t = FsTrace[c]
      BY <1>3, <2>2, <2>3, <3>2 DEF FsInv, TrashHeld
    <3>3. CASE u = FsTrace[c]
      BY <1>3, <2>2, <2>3, <3>3 DEF FsInv, TrashHeld
    <3> QED BY <3>1, <3>2, <3>3
  <2>8. \A d \in FsCalls, t \in Traces : CallHolds(d)' /\ TraceHolds(t)' => Rec(d)'.dest # registry'[t].dest
    <3> SUFFICES ASSUME NEW d \in FsCalls, NEW t \in Traces, CallHolds(d)', TraceHolds(t)'
                 PROVE  Rec(d)'.dest # registry'[t].dest
      OBVIOUS
    <3>1. CASE t # FsTrace[c]
      BY <2>1, <2>2, <3>1 DEF FsInv, TrashHeld
    <3>2. CASE t = FsTrace[c]
      BY <1>3, <2>1, <2>3, <3>2 DEF FsInv, TrashHeld
    <3> QED BY <3>1, <3>2
  <2> QED BY <2>4, <2>5, <2>6, <2>7, <2>8 DEF TrashHeld
<1>8. ChangesWhereChecked'
  BY <1>0 DEF FsInv, ChangesWhereChecked
<1> QED BY <1>4, <1>5, <1>6, <1>7, <1>8 DEF FsInv

\* The entry is created where nothing is, and belongs to the call from then on.
LEMMA CopyKeeps == ASSUME FsInv, NEW c \in FsCalls, CopyToTrash(c) PROVE FsInv'
<1>0. UNCHANGED <<fsFiles, sub, registry, wrote>> /\ fsCall[c].pc = "copy"
  BY DEF CopyToTrash, CallAt
<1>1. CASE ~(TrashFree(Rec(c).dest) /\ ~Refused(Rec(c)) /\ TextThere(Rec(c)) # NoFile)
  BY <1>0, <1>1, CallGivesUp DEF CopyToTrash
<1>2. CASE TrashFree(Rec(c).dest) /\ ~Refused(Rec(c)) /\ TextThere(Rec(c)) # NoFile
  <2>1. /\ Rec(c) \in FsRecs /\ CallFits(c) /\ Rec(c).tool = "fs_delete" /\ Rec(c).dest \in 1..MaxTrash
        /\ fsCall[c].rec = Rec(c) /\ "remove" \in FsPcs /\ trash[Rec(c).dest] = NoFile
    BY <1>0, <1>2, CallRecord DEF CallFits, FsPcs, TrashFree
  <2>2. PICK text \in Texts : text = TextThere(Rec(c)) /\ text # NoFile
    BY <1>2, <2>1, TextIsText
  <2>3. PICK n \in 1..MaxTrash : n = Rec(c).dest /\ trash[n] = NoFile
    BY <2>1
  <2>4. PICK rec : rec = [Rec(c) EXCEPT !.hash = text]
    OBVIOUS
  <2>5. rec \in FsRecs /\ rec.tool = "fs_delete" /\ rec.at = Rec(c).at /\ rec.missing = Rec(c).missing
        /\ rec.dest = n /\ rec.hash = text
    BY <2>1, <2>3, <2>4 DEF FsRecs
  <2>6. fsCall' = [fsCall EXCEPT ![c].pc = "remove", ![c].rec = rec]
        /\ trash' = [trash EXCEPT ![n] = text]
    BY <1>2, <2>1, <2>2, <2>3, <2>4 DEF CopyToTrash
  <2>7. /\ fsCall' \in [FsCalls -> [pc : FsPcs, tool : {"none", "read", "write", "delete"},
                                       path : Places, rec : FsRecs]]
        /\ fsCall'[c].pc = "remove" /\ Rec(c)' = rec
        /\ \A d \in FsCalls : d # c => fsCall'[d] = fsCall[d]
    BY <2>1, <2>5, <2>6, CallAtStep
  <2>8. trash' \in [1..MaxTrash -> Texts] /\ trash'[n] = text
        /\ \A m \in 1..MaxTrash : trash[m] # NoFile => m # n /\ trash'[m] = trash[m]
    BY <2>3, <2>6 DEF FsInv, FsTypes
  <2>9. FsTypes'
    <3> HIDE DEF FsRecs
    <3> QED BY <1>0, <2>7, <2>8 DEF FsInv, FsTypes
  <2>10. CallFits(c)'
    BY <1>0, <2>1, <2>5, <2>7 DEF CallFits, PathFits
  <2>11. \A d \in FsCalls : CallFits(d)'
    BY <1>0, <2>7, <2>10, CallStays DEF FsInv
  <2>12. \A t \in Traces : RecordFits(t)'
    BY <1>0, RecordStays DEF FsInv
  <2>13. TrashHeld'
    <3>1. \A d \in FsCalls : d # c => (CallHolds(d)' <=> CallHolds(d)) /\ Rec(d)' = Rec(d)
      BY <2>7 DEF CallHolds, Rec
    <3>2. \A t \in Traces : (TraceHolds(t)' <=> TraceHolds(t)) /\ registry'[t] = registry[t]
      BY <1>0 DEF TraceHolds
    <3>3. \A d \in FsCalls : CallHolds(d) =>
             Rec(d).dest \in 1..MaxTrash /\ Rec(d).hash # NoFile /\ trash[Rec(d).dest] = Rec(d).hash
      BY DEF FsInv, TrashHeld, InTrash
    <3>4. \A t \in Traces : TraceHolds(t) =>
             registry[t].dest \in 1..MaxTrash /\ registry[t].hash # NoFile
             /\ trash[registry[t].dest] = registry[t].hash
      BY DEF FsInv, TrashHeld, InTrash
    <3>5. \A d \in FsCalls : CallHolds(d)' => InTrash(Rec(d))'
      <4>1. InTrash(Rec(c))'
        BY <2>2, <2>3, <2>5, <2>7, <2>8 DEF InTrash
      <4>2. \A d \in FsCalls : d # c /\ CallHolds(d)' => InTrash(Rec(d))'
        BY <2>8, <3>1, <3>3 DEF InTrash
      <4> QED BY <4>1, <4>2
    <3>6. \A t \in Traces : TraceHolds(t)' => InTrash(registry[t])'
      BY <2>8, <3>2, <3>4 DEF InTrash
    <3>7. \A d, e \in FsCalls : CallHolds(d)' /\ CallHolds(e)' /\ Rec(d)'.dest = Rec(e)'.dest => d = e
      <4> SUFFICES ASSUME NEW d \in FsCalls, NEW e \in FsCalls, CallHolds(d)', CallHolds(e)', d # e
                   PROVE  Rec(d)'.dest # Rec(e)'.dest
        OBVIOUS
      <4>1. CASE d # c /\ e # c
        BY <3>1, <4>1 DEF FsInv, TrashHeld
      <4>2. CASE d = c
        BY <2>5, <2>7, <2>8, <3>1, <3>3, <4>2
      <4>3. CASE e = c
        BY <2>5, <2>7, <2>8, <3>1, <3>3, <4>3
      <4> QED BY <4>1, <4>2, <4>3
    <3>8. \A t, u \in Traces : TraceHolds(t)' /\ TraceHolds(u)' /\ registry'[t].dest = registry'[u].dest => t = u
      BY <3>2 DEF FsInv, TrashHeld
    <3>9. \A d \in FsCalls, t \in Traces : CallHolds(d)' /\ TraceHolds(t)' => Rec(d)'.dest # registry'[t].dest
      <4> SUFFICES ASSUME NEW d \in FsCalls, NEW t \in Traces, CallHolds(d)', TraceHolds(t)'
                   PROVE  Rec(d)'.dest # registry'[t].dest
        OBVIOUS
      <4>1. CASE d # c
        BY <3>1, <3>2, <4>1 DEF FsInv, TrashHeld
      <4>2. CASE d = c
        BY <2>5, <2>7, <2>8, <3>2, <3>4, <4>2
      <4> QED BY <4>1, <4>2
    <3> QED BY <3>5, <3>6, <3>7, <3>8, <3>9 DEF TrashHeld
  <2>14. ChangesWhereChecked'
    BY <1>0 DEF FsInv, ChangesWhereChecked
  <2> QED BY <2>9, <2>11, <2>12, <2>13, <2>14 DEF FsInv
<1> QED BY <1>1, <1>2

\* A place of files loses its text.
LEMMA FileGoes ==
    ASSUME FsInv, NEW rec \in FsRecs, Reached(rec) = rec.at, rec.at # "elsewhere",
           fsFiles' = [fsFiles EXCEPT ![Reached(rec)] = NoFile],
           wrote' = wrote \cup {[at |-> Reached(rec), for |-> rec.at]}, sub' = sub
    PROVE  /\ fsFiles' \in [Places -> Texts]
           /\ fsFiles'["sub"] # NoFile => sub' = "dir"
           /\ ChangesWhereChecked'
<1>1. rec.at \in Places /\ NoFile \in Texts
  BY DEF FsRecs, Texts
<1>2. fsFiles' \in [Places -> Texts] /\ (fsFiles'["sub"] # NoFile => sub' = "dir")
  BY <1>1 DEF FsInv, FsTypes
<1>3. ChangesWhereChecked'
  BY DEF FsInv, ChangesWhereChecked, DenyGlobs
<1> QED BY <1>2, <1>3

\* The file is removed; its directory is a real one by then.
LEMMA RemoveKeeps == ASSUME FsInv, NEW c \in FsCalls, RemoveSource(c) PROVE FsInv'
<1>0. UNCHANGED <<sub, trash, registry>> /\ fsCall[c].pc = "remove"
  BY DEF RemoveSource, undoVars, CallAt
<1>1. CASE TextThere(Rec(c)) = NoFile
  BY <1>0, <1>1, CallGivesUp DEF RemoveSource
<1>2. CASE TextThere(Rec(c)) # NoFile
  <2>1. Rec(c) \in FsRecs /\ PathFits(Rec(c)) /\ Rec(c).at # "elsewhere" /\ "put" \in FsPcs
        /\ CallFits(c) /\ (Rec(c).missing => sub = "dir")
    BY <1>0, CallRecord DEF CallFits, FsPcs
  <2>2. Reached(Rec(c)) = Rec(c).at
    BY <2>1 DEF Reached
  <2>3. /\ fsFiles' \in [Places -> Texts]
        /\ fsFiles'["sub"] # NoFile => sub' = "dir"
        /\ ChangesWhereChecked'
    BY <1>0, <1>2, <2>1, <2>2, FileGoes DEF RemoveSource
  <2>4. /\ fsCall' \in [FsCalls -> [pc : FsPcs, tool : {"none", "read", "write", "delete"},
                                       path : Places, rec : FsRecs]]
        /\ fsCall'[c].pc = "put" /\ Rec(c)' = Rec(c)
        /\ \A d \in FsCalls : d # c => fsCall'[d] = fsCall[d]
    BY <1>2, <2>1, CallGoes DEF RemoveSource
  <2>5. FsTypes'
    <3> HIDE DEF FsRecs
    <3> QED BY <1>0, <2>3, <2>4 DEF FsInv, FsTypes
  <2>6. CallFits(c)'
    BY <1>0, <2>1, <2>4 DEF CallFits, PathFits
  <2>7. \A d \in FsCalls : CallFits(d)'
    BY <1>0, <2>4, <2>6, CallStays DEF FsInv
  <2>8. \A t \in Traces : RecordFits(t)'
    BY <1>0, RecordStays DEF FsInv
  <2>9. TrashHeld'
    <3>1. \A d \in FsCalls : CallHolds(d)' => CallHolds(d) /\ Rec(d)' = Rec(d)
      BY <1>0, <2>4 DEF CallHolds, Rec
    <3>2. \A t \in Traces : TraceHolds(t)' => TraceHolds(t)
      BY <1>0 DEF TraceHolds
    <3> QED BY <1>0, <3>1, <3>2, HoldersStay DEF FsInv
  <2> QED BY <2>3, <2>5, <2>7, <2>8, <2>9 DEF FsInv
<1> QED BY <1>1, <1>2

\* A record that is used up, or expires: it holds nothing any more.
LEMMA RecordGone ==
    ASSUME FsInv, NEW t \in Traces, registry' = [registry EXCEPT ![t] = NoRecord],
           sub = "dir" => sub' = "dir"
    PROVE  /\ registry' \in [Traces -> FsRecs]
           /\ \A u \in Traces : RecordFits(u)'
           /\ ~TraceHolds(t)'
           /\ \A u \in Traces : TraceHolds(u)' => u # t /\ TraceHolds(u) /\ registry'[u] = registry[u]
<1>1. NoRecord \in FsRecs /\ NoRecord.tool = "none" /\ NoRecord.at = "top" /\ NoRecord.missing = FALSE
  BY FsAssumption DEF NoRecord, FsRecs, Texts, Places
<1>2. registry' \in [Traces -> FsRecs] /\ registry'[t] = NoRecord
      /\ \A u \in Traces : u # t => registry'[u] = registry[u]
  <2> HIDE DEF FsRecs, NoRecord
  <2> QED BY <1>1 DEF FsInv, FsTypes
<1>3. RecordFits(t)' /\ ~TraceHolds(t)'
  BY <1>1, <1>2 DEF RecordFits, PathFits, TraceHolds
<1>4. \A u \in Traces : RecordFits(u)'
  BY <1>2, <1>3, RecordStays DEF FsInv
<1> QED BY <1>2, <1>3, <1>4 DEF TraceHolds

\* A step in which no call takes part.
LEMMA CallsStay ==
    ASSUME FsInv, fsCall' = fsCall, sub = "dir" => sub' = "dir"
    PROVE  /\ \A c \in FsCalls : CallFits(c)'
           /\ \A c \in FsCalls : CallHolds(c)' => CallHolds(c) /\ Rec(c)' = Rec(c)
<1>1. \A c \in FsCalls : CallFits(c)'
  BY CallStays DEF FsInv
<1> QED BY <1>1 DEF CallHolds, Rec

\* What is known of a record of a trace.
LEMMA TraceRecord ==
    ASSUME FsInv, NEW t \in Traces
    PROVE  /\ registry[t] \in FsRecs /\ PathFits(registry[t]) /\ registry[t].at # "elsewhere"
           /\ registry[t].hash \in Texts /\ registry[t].at \in Places
<1>1. registry[t] \in FsRecs
  BY DEF FsInv, FsTypes
<1> QED BY <1>1 DEF FsInv, RecordFits, FsRecs

\* An undo of a write puts back the text that the write found.
LEMMA UndoWriteKeeps ==
    ASSUME FsInv, NEW t \in Traces, UndoWrite(t)
    PROVE  FsInv' /\ fsFiles'[registry[t].at] = registry[t].hash
<1>1. PICK rec \in FsRecs : rec = registry[t]
  BY TraceRecord
<1>2. /\ PathFits(rec) /\ rec.at # "elsewhere" /\ rec.hash \in Texts
      /\ ~Refused(rec) /\ PutText(rec, rec.hash)
      /\ registry' = [registry EXCEPT ![t] = NoRecord]
      /\ UNCHANGED <<fsCall, trash>>
  BY <1>1, TraceRecord DEF UndoWrite, Verified
<1>3. /\ fsFiles' \in [Places -> Texts] /\ sub' \in {"none", "dir", "link"}
      /\ fsFiles'["sub"] # NoFile => sub' = "dir"
      /\ sub = "dir" => sub' = "dir"
      /\ fsFiles'[rec.at] = rec.hash
      /\ ChangesWhereChecked'
  BY <1>2, PutLands
<1>4. /\ registry' \in [Traces -> FsRecs]
      /\ \A u \in Traces : RecordFits(u)'
      /\ \A u \in Traces : TraceHolds(u)' => TraceHolds(u) /\ registry'[u] = registry[u]
  BY <1>2, <1>3, RecordGone
<1>5. FsTypes'
  <2> HIDE DEF FsRecs
  <2> QED BY <1>2, <1>3, <1>4 DEF FsInv, FsTypes
<1>6. \A c \in FsCalls : CallFits(c)' /\ (CallHolds(c)' => CallHolds(c) /\ Rec(c)' = Rec(c))
  BY <1>2, <1>3, CallsStay
<1>7. TrashHeld'
  BY <1>2, <1>4, <1>6, HoldersStay DEF FsInv
<1> QED BY <1>1, <1>3, <1>4, <1>5, <1>6, <1>7 DEF FsInv

\* An undo of a file that the write made takes a free name of the trash.
LEMMA UndoCreateKeeps == ASSUME FsInv, NEW t \in Traces, UndoCreate(t) PROVE FsInv'
<1>1. PICK rec \in FsRecs : rec = registry[t]
  BY TraceRecord
<1>2. /\ rec.at # "elsewhere" /\ ~Refused(rec)
      /\ fsFiles' = [fsFiles EXCEPT ![Reached(rec)] = NoFile]
      /\ wrote' = wrote \cup {[at |-> Reached(rec), for |-> rec.at]}
      /\ registry' = [registry EXCEPT ![t] = NoRecord]
      /\ CollisionSafe # 0
      /\ UNCHANGED <<sub, fsCall>>
  BY <1>1, TraceRecord DEF UndoCreate
<1>3. PICK n \in 1..MaxTrash : n = CollisionSafe /\ trash[n] = NoFile
  BY <1>2, FreeName
<1>4. PICK text \in Texts : text = TextThere(rec)
  BY TextIsText
<1>5. trash' = [trash EXCEPT ![n] = text]
  BY <1>1, <1>3, <1>4 DEF UndoCreate
<1>6. trash' \in [1..MaxTrash -> Texts] /\ \A m \in 1..MaxTrash : trash[m] # NoFile => trash'[m] = trash[m]
  BY <1>3, <1>5 DEF FsInv, FsTypes
<1>7. /\ fsFiles' \in [Places -> Texts]
      /\ fsFiles'["sub"] # NoFile => sub' = "dir"
      /\ ChangesWhereChecked'
  BY <1>2, ReachedIsChecked, FileGoes
<1>8. /\ registry' \in [Traces -> FsRecs]
      /\ \A u \in Traces : RecordFits(u)'
      /\ \A u \in Traces : TraceHolds(u)' => TraceHolds(u) /\ registry'[u] = registry[u]
  BY <1>2, RecordGone
<1>9. FsTypes'
  <2> HIDE DEF FsRecs
  <2> QED BY <1>2, <1>6, <1>7, <1>8 DEF FsInv, FsTypes
<1>10. \A c \in FsCalls : CallFits(c)' /\ (CallHolds(c)' => CallHolds(c) /\ Rec(c)' = Rec(c))
  BY <1>2, CallsStay
<1>11. TrashHeld'
  <2>1. \A c \in FsCalls : CallHolds(c) => trash'[Rec(c).dest] = trash[Rec(c).dest]
    BY <1>6 DEF FsInv, TrashHeld, InTrash
  <2>2. \A u \in Traces : TraceHolds(u) => trash'[registry[u].dest] = trash[registry[u].dest]
    BY <1>6 DEF FsInv, TrashHeld, InTrash
  <2> QED BY <1>8, <1>10, <2>1, <2>2, HoldersStay DEF FsInv
<1> QED BY <1>7, <1>8, <1>9, <1>10, <1>11 DEF FsInv

\* An undo of a delete takes back its own entry, which nobody else holds.
LEMMA UndoDeleteKeeps == ASSUME FsInv, NEW t \in Traces, UndoDelete(t) PROVE FsInv'
<1>1. PICK rec \in FsRecs : rec = registry[t]
  BY TraceRecord
<1>2. /\ PathFits(rec) /\ rec.at # "elsewhere" /\ TraceHolds(t) /\ ~Refused(rec)
      /\ registry' = [registry EXCEPT ![t] = NoRecord]
      /\ UNCHANGED fsCall
  BY <1>1, TraceRecord DEF UndoDelete, TraceHolds
<1>3. PICK n \in 1..MaxTrash : n = rec.dest
  BY <1>1, <1>2 DEF FsInv, TrashHeld, InTrash
<1>4. PICK text \in Texts : text = trash[n]
  BY DEF FsInv, FsTypes
<1>5. PutText(rec, text) /\ trash' = [trash EXCEPT ![n] = NoFile]
  BY <1>1, <1>3, <1>4 DEF UndoDelete
<1>6. trash' \in [1..MaxTrash -> Texts] /\ \A m \in 1..MaxTrash : m # n => trash'[m] = trash[m]
  BY <1>5 DEF FsInv, FsTypes, Texts
<1>7. /\ fsFiles' \in [Places -> Texts] /\ sub' \in {"none", "dir", "link"}
      /\ fsFiles'["sub"] # NoFile => sub' = "dir"
      /\ sub = "dir" => sub' = "dir"
      /\ ChangesWhereChecked'
  BY <1>2, <1>5, PutLands
<1>8. /\ registry' \in [Traces -> FsRecs]
      /\ \A u \in Traces : RecordFits(u)'
      /\ \A u \in Traces : TraceHolds(u)' => u # t /\ TraceHolds(u) /\ registry'[u] = registry[u]
  BY <1>2, <1>7, RecordGone
<1>9. FsTypes'
  <2> HIDE DEF FsRecs
  <2> QED BY <1>2, <1>6, <1>7, <1>8 DEF FsInv, FsTypes
<1>10. \A c \in FsCalls : CallFits(c)' /\ (CallHolds(c)' => CallHolds(c) /\ Rec(c)' = Rec(c))
  BY <1>2, <1>7, CallsStay
<1>11. TrashHeld'
  <2>1. \A c \in FsCalls : CallHolds(c) => trash'[Rec(c).dest] = trash[Rec(c).dest]
    BY <1>1, <1>2, <1>3, <1>6 DEF FsInv, TrashHeld, InTrash
  <2>2. \A u \in Traces : u # t /\ TraceHolds(u) => trash'[registry[u].dest] = trash[registry[u].dest]
    BY <1>1, <1>2, <1>3, <1>6 DEF FsInv, TrashHeld, InTrash
  <2> QED BY <1>8, <1>10, <2>1, <2>2, HoldersStay DEF FsInv
<1> QED BY <1>7, <1>8, <1>9, <1>10, <1>11 DEF FsInv

\* An undo window that ends gives up the record alone.
LEMMA PurgeKeeps == ASSUME FsInv, NEW t \in Traces, PurgeExpired(t) PROVE FsInv'
<1>0. registry' = [registry EXCEPT ![t] = NoRecord] /\ UNCHANGED <<fsFiles, sub, fsCall, trash, wrote>>
  BY DEF PurgeExpired
<1>1. /\ registry' \in [Traces -> FsRecs]
      /\ \A u \in Traces : RecordFits(u)'
      /\ \A u \in Traces : TraceHolds(u)' => TraceHolds(u) /\ registry'[u] = registry[u]
  BY <1>0, RecordGone
<1>2. FsTypes'
  <2> HIDE DEF FsRecs
  <2> QED BY <1>0, <1>1 DEF FsInv, FsTypes
<1>3. \A c \in FsCalls : CallFits(c)' /\ (CallHolds(c)' => CallHolds(c) /\ Rec(c)' = Rec(c))
  BY <1>0, CallsStay
<1>4. TrashHeld'
  BY <1>0, <1>1, <1>3, HoldersStay DEF FsInv
<1>5. ChangesWhereChecked'
  BY <1>0 DEF FsInv, ChangesWhereChecked
<1> QED BY <1>1, <1>2, <1>3, <1>4, <1>5 DEF FsInv

\* The user writes files and makes directories, or links, without asking.
LEMMA UserKeeps ==
    ASSUME FsInv,
           \/ \E p \in Places, text \in {NoFile, UserText} : UserWrite(p, text)
           \/ \E kind \in {"dir", "link"} : UserMakesSub(kind)
    PROVE  FsInv'
<1>0. UNCHANGED <<fsCall, trash, registry, wrote>> /\ (sub = "dir" => sub' = "dir")
  BY DEF UserWrite, UserMakesSub, undoVars
<1>1. fsFiles' \in [Places -> Texts] /\ sub' \in {"none", "dir", "link"}
      /\ (fsFiles'["sub"] # NoFile => sub' = "dir")
  <2>1. CASE \E p \in Places, text \in {NoFile, UserText} : UserWrite(p, text)
    <3>1. PICK p \in Places, text \in {NoFile, UserText} : UserWrite(p, text)
      BY <2>1
    <3>2. text \in Texts
      BY DEF Texts, AllTexts
    <3>3. fsFiles' = [fsFiles EXCEPT ![p] = text] /\ sub' = sub /\ (p = "sub" => sub = "dir")
      BY <3>1 DEF UserWrite
    <3> QED BY <3>2, <3>3 DEF FsInv, FsTypes
  <2>2. CASE \E kind \in {"dir", "link"} : UserMakesSub(kind)
    BY <2>2 DEF UserMakesSub, FsInv, FsTypes
  <2> QED BY <2>1, <2>2
<1>2. FsTypes'
  <2> HIDE DEF FsRecs
  <2> QED BY <1>0, <1>1 DEF FsInv, FsTypes
<1>3. \A c \in FsCalls : CallFits(c)' /\ (CallHolds(c)' => CallHolds(c) /\ Rec(c)' = Rec(c))
  BY <1>0, CallsStay
<1>4. \A t \in Traces : RecordFits(t)' /\ (TraceHolds(t)' => TraceHolds(t))
  BY <1>0, RecordStays DEF FsInv, TraceHolds
<1>5. TrashHeld'
  BY <1>0, <1>3, <1>4, HoldersStay DEF FsInv
<1>6. ChangesWhereChecked'
  BY <1>0 DEF FsInv, ChangesWhereChecked
<1> QED BY <1>2, <1>3, <1>4, <1>5, <1>6 DEF FsInv

\* A restart leaves nobody who wants anything back.
LEMMA RestartKeeps == ASSUME FsInv, FsRestart PROVE FsInv'
<1>1. NoRecord \in FsRecs /\ NoRecord.tool = "none" /\ NoRecord.at = "top" /\ NoRecord.missing = FALSE
  BY FsAssumption DEF NoRecord, FsRecs, Texts, Places
<1>2. PICK row : row = [IdleCall EXCEPT !.pc = "ended"]
  OBVIOUS
<1>3. row \in [pc : FsPcs, tool : {"none", "read", "write", "delete"}, path : Places, rec : FsRecs]
      /\ row.pc = "ended" /\ row.rec = NoRecord
  <2> HIDE DEF FsRecs
  <2> QED BY <1>1, <1>2 DEF IdleCall, FsPcs, Places
<1>4. /\ UNCHANGED <<fsFiles, sub, trash, wrote>>
      /\ fsCall' = [c \in FsCalls |-> row]
      /\ registry' = [t \in Traces |-> NoRecord]
  BY <1>2 DEF FsRestart
<1>5. FsTypes'
  <2> HIDE DEF FsRecs, NoRecord
  <2> QED BY <1>1, <1>3, <1>4 DEF FsInv, FsTypes
<1>6. \A c \in FsCalls : fsCall'[c].pc = "ended" /\ Rec(c)' = NoRecord
  BY <1>3, <1>4 DEF Rec
<1>7. \A t \in Traces : registry'[t] = NoRecord
  BY <1>4
<1>8. \A c \in FsCalls : CallFits(c)' /\ ~CallHolds(c)'
  BY <1>1, <1>6 DEF CallFits, PathFits, CallHolds
<1>9. \A t \in Traces : RecordFits(t)' /\ ~TraceHolds(t)'
  BY <1>1, <1>7 DEF RecordFits, PathFits, TraceHolds
<1>10. TrashHeld'
  BY <1>8, <1>9 DEF TrashHeld
<1>11. ChangesWhereChecked'
  BY <1>4 DEF FsInv, ChangesWhereChecked
<1> QED BY <1>5, <1>8, <1>9, <1>10, <1>11 DEF FsInv

\* Every step of the tools, of an undo, of the user and of a restart keeps it.
LEMMA FilesKeep == ASSUME FsInv, [FsNext]_fsVars PROVE FsInv'
<1>1. CASE UNCHANGED fsVars
  <2>1. FsTypes'
    <3> HIDE DEF FsRecs
    <3> QED BY <1>1 DEF FsInv, FsTypes, fsVars
  <2>2. UNCHANGED <<fsFiles, sub, fsCall, trash, registry, wrote>>
    BY <1>1 DEF fsVars
  <2>3. \A c \in FsCalls : CallFits(c)' /\ (CallHolds(c)' => CallHolds(c) /\ Rec(c)' = Rec(c))
    BY <2>2, CallsStay
  <2>4. \A t \in Traces : RecordFits(t)' /\ (TraceHolds(t)' => TraceHolds(t))
    BY <2>2, RecordStays DEF FsInv, TraceHolds
  <2>5. TrashHeld'
    BY <2>2, <2>3, <2>4, HoldersStay DEF FsInv
  <2> QED BY <2>1, <2>2, <2>3, <2>4, <2>5 DEF FsInv, ChangesWhereChecked
<1>2. ASSUME NEW c \in FsCalls, NEW tool \in {"read", "write", "delete"}, NEW path \in Places,
             StartCall(c, tool, path)
      PROVE  FsInv'
  BY <1>2, StartKeeps
<1>3. ASSUME NEW c \in FsCalls,
             \/ PolicyAnswers(c) \/ HandleRead(c)
             \/ CheckpointPreImage(c) \/ KeepPreImage(c) \/ RootedWrite(c)
             \/ PickTrashName(c) \/ CopyToTrash(c) \/ RemoveSource(c) \/ PutRecord(c)
      PROVE  FsInv'
  BY <1>3, AnswerKeeps, ReadKeeps, CheckpointKeeps, KeepKeeps, WriteKeeps, PickKeeps, CopyKeeps,
     RemoveKeeps, PutRecordKeeps
<1>4. ASSUME NEW t \in Traces, UndoWrite(t) \/ UndoCreate(t) \/ UndoDelete(t) \/ PurgeExpired(t)
      PROVE  FsInv'
  BY <1>4, UndoWriteKeeps, UndoCreateKeeps, UndoDeleteKeeps, PurgeKeeps
<1> QED BY <1>1, <1>2, <1>3, <1>4, UserKeeps, RestartKeeps DEF FsNext

\* The file tools change what was checked and nothing else, whatever became of
\* the directories since; what a delete took away is in the trash under the
\* name that its undo will look for; and an undo of a write gives back the text
\* that the write found (checkpointPreImage, rootedWrite, moveToTrashConfined,
\* UndoWrite, UndoDelete), for any number of calls at the same time.
THEOREM FilesAreKept == FsSafety => FilesAreRecoverable
<1>1. FsInv => FsTypeOK /\ ChangesWhereChecked /\ DeletedIsInTrash
  <2> SUFFICES ASSUME FsInv PROVE FsTypeOK /\ ChangesWhereChecked /\ DeletedIsInTrash
    OBVIOUS
  <2>1. \A t \in Traces : registry[t].tool \in {"none", "fs_write", "fs_delete"}
    BY TraceRecord DEF FsRecs
  <2>2. FsTypeOK
    BY <2>1 DEF FsInv, FsTypes, FsTypeOK, Texts
  <2>3. DeletedIsInTrash
    BY DEF DeletedIsInTrash, FsInv, TrashHeld, TraceHolds, InTrash
  <2> QED BY <2>2, <2>3 DEF FsInv
<1>2. FsInv /\ [FsNext]_fsVars =>
         [\A t \in Traces : UndoWrite(t) => fsFiles'[registry[t].at] = registry[t].hash]_fsVars
  BY UndoWriteKeeps
<1>3. FsSafety => []FsInv
  BY InitFiles, FilesKeep, PTL DEF FsSafety
<1>4. FsSafety => UndoGivesBackWhatWas
  BY <1>2, <1>3, PTL DEF FsSafety, UndoGivesBackWhatWas
<1> QED BY <1>1, <1>3, <1>4, PTL DEF FilesAreRecoverable
=============================================================================
