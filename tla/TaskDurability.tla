--------------------------- MODULE TaskDurability ---------------------------
(***************************************************************************)
(* Durable tasks: the first run of a task (server/task.go), the resume     *)
(* scan (task/resume.go), the outbox and its dispatcher                    *)
(* (outbox/dispatcher.go), cloud parking (task/cloudretry.go), `kahya task *)
(* resolve` (task/resolve.go) and the halt key (halt/executor.go), all     *)
(* writing tasks.status through Machine.Transition (task/machine.go).      *)
(*                                                                         *)
(* Each runs on a goroutine of its own; the steps below are their database *)
(* statements and process operations.  A task makes one kind of tool call, *)
(* whose journal (module Receipts) is reduced to its latest row.           *)
(***************************************************************************)
EXTENDS Naturals, FiniteSets, TaskStatus

CONSTANTS Tasks, NoTask,
          Class,       \* "W1" or "W2": the class of each task's tool call
          W1MaxAuto,   \* task.retry.w1_max_auto
          MaxOut,      \* bound: outbox rows not yet delivered
          MaxCalls,    \* bound: tool-call attempts of one task
          MaxParks,    \* bound: cloud failures of one task
          MaxResolves, \* bound: `kahya task resolve` commands
          MaxHalts,    \* bound: tasks the halt key is pressed for
          MaxCrashes   \* bound: daemon crashes

ASSUME DurabilityAssumption ==
    /\ NoTask \notin Tasks
    /\ Class \in [Tasks -> {"W1", "W2"}]
    /\ {W1MaxAuto, MaxOut, MaxCalls, MaxParks, MaxResolves, MaxHalts,
        MaxCrashes} \subseteq Nat

VARIABLES
    status,    \* tasks.status ("absent": no row yet)
    handler,   \* handleTask's goroutine, per task
    worker,    \* the worker processes of each task that really run
    live,      \* LiveRegistry: the worker registered for each task
    pgid,      \* tasks.worker_pgid: the last worker recorded
    outbox,    \* undelivered outbox rows
    disp,      \* the dispatcher: position, claimed row, rows still to do
    scan,      \* the resume scan: position, task at hand, tasks still to do
    halter,    \* HaltTask, per task: position and what it read
    parking,   \* CloudRetry.park has set the status, not yet the outbox row
    call,      \* the latest tool_calls row and whether Execute still runs
    calls, parks, resolves, crashes,
    approved   \* history: the user resolved the interrupted call

taskVars == <<status, handler, worker, live, pgid>>
callVars == <<call, calls, approved>>
counters == <<parks, resolves, crashes>>
vars == <<taskVars, outbox, disp, scan, halter, parking, callVars, counters>>

RowId == 1..MaxOut
Worker == {"handler", "dispatcher", "orphan"}

NoRow == [task |-> NoTask, due |-> FALSE, leased |-> FALSE, canceled |-> FALSE]
NewRow(t, now) == [task |-> t, due |-> now, leased |-> FALSE, canceled |-> FALSE]

\* Machine.Transition returns nil: a no-op or a legal compare-and-swap.
CanTransition(t, to) == status[t] = to \/ IsLegalTransition(status[t], to)
Transition(t, to) == status' = [status EXCEPT ![t] = to]
TryTransition(t, to) ==
    status' = IF CanTransition(t, to) THEN [status EXCEPT ![t] = to] ELSE status

\* InsertOutboxRow.  The outbox is unbounded; here a row that repeats an
\* undelivered one is dropped once MaxOut rows are outstanding.
Insert(row) ==
    \/ \E r \in RowId :
          /\ outbox[r] = NoRow
          /\ \A s \in RowId : outbox[s] = NoRow => r <= s
          /\ outbox' = [outbox EXCEPT ![r] = row]
    \/ /\ \A s \in RowId : outbox[s] # NoRow
       /\ \E s \in RowId : outbox[s] = row
       /\ UNCHANGED outbox

Init ==
    /\ status = [t \in Tasks |-> "absent"]
    /\ handler = [t \in Tasks |-> "none"]
    /\ worker = [t \in Tasks |-> {}]
    /\ live = [t \in Tasks |-> "none"]
    /\ pgid = [t \in Tasks |-> "none"]
    /\ outbox = [r \in RowId |-> NoRow]
    /\ disp = [pc |-> "idle", row |-> 0, batch |-> {}]
    /\ scan = [pc |-> "idle", task |-> NoTask, todo |-> {}]
    /\ halter = [t \in Tasks |-> [pc |-> "idle", seen |-> "none"]]
    /\ parking = [t \in Tasks |-> FALSE]
    /\ call = [t \in Tasks |-> [row |-> "none", busy |-> FALSE]]
    /\ calls = [t \in Tasks |-> 0]
    /\ parks = [t \in Tasks |-> 0]
    /\ resolves = 0
    /\ crashes = 0
    /\ approved = [t \in Tasks |-> FALSE]

-----------------------------------------------------------------------------
(* handleTask: the first run of a task. *)

\* InsertTask: tasks.status starts at 'intent'.
Submit(t) ==
    /\ status[t] = "absent"
    /\ status' = [status EXCEPT ![t] = "intent"]
    /\ handler' = [handler EXCEPT ![t] = "start"]
    /\ UNCHANGED <<worker, live, pgid, outbox, disp, scan, halter, parking,
                   callVars, counters>>

\* A secret-lane or local answer never spawns a worker and never leaves 'intent'.
AnswerLocally(t) ==
    /\ handler[t] = "start"
    /\ handler' = [handler EXCEPT ![t] = "none"]
    /\ UNCHANGED <<status, worker, live, pgid, outbox, disp, scan, halter,
                   parking, callVars, counters>>

\* Transition(executing); its error is only logged and the run goes on.
HandlerStart(t) ==
    /\ handler[t] = "start"
    /\ TryTransition(t, "executing")
    /\ handler' = [handler EXCEPT ![t] = "spawn"]
    /\ UNCHANGED <<worker, live, pgid, outbox, disp, scan, halter, parking,
                   callVars, counters>>

\* The process starts; OnStart registers it and persists worker_pgid.
StartWorker(t, who) ==
    /\ worker' = [worker EXCEPT ![t] = @ \cup {who}]
    /\ live' = [live EXCEPT ![t] = who]
    /\ pgid' = [pgid EXCEPT ![t] = who]

HandlerSpawn(t) ==
    /\ handler[t] = "spawn"
    /\ StartWorker(t, "handler")
    /\ handler' = [handler EXCEPT ![t] = "run"]
    /\ UNCHANGED <<status, outbox, disp, scan, halter, parking, callVars, counters>>

\* No proxy or no process: handleTask returns, the task stays 'executing'.
HandlerSpawnFails(t) ==
    /\ handler[t] = "spawn"
    /\ handler' = [handler EXCEPT ![t] = "none"]
    /\ UNCHANGED <<status, worker, live, pgid, outbox, disp, scan, halter,
                   parking, callVars, counters>>

\* Defect: the deferred Unregister is missing on the error path.
BugHandlerReturns(t, ok) ==
    /\ handler[t] = "run"
    /\ worker' = [worker EXCEPT ![t] = @ \ {"handler"}]
    /\ handler' = [handler EXCEPT ![t] = "none"]
    /\ status' = IF ok /\ status[t] = "executing"
                   THEN [status EXCEPT ![t] = "done"] ELSE status
    /\ live' = IF ok THEN [live EXCEPT ![t] = "none"] ELSE live
    /\ UNCHANGED <<pgid, outbox, disp, scan, halter, parking, callVars, counters>>

\* spawn.Run returned: the worker exited, was killed or timed out.  With an
\* OK result and the status still 'executing' the task is done; anything
\* else is left to the scan.  The deferred Unregister drops the task's
\* registry entry, whoever's it is by then.
HandlerReturns(t, ok) ==
    /\ handler[t] = "run"
    /\ worker' = [worker EXCEPT ![t] = @ \ {"handler"}]
    /\ handler' = [handler EXCEPT ![t] = "none"]
    /\ status' = IF ok /\ status[t] = "executing"
                   THEN [status EXCEPT ![t] = "done"] ELSE status
    /\ live' = [live EXCEPT ![t] = "none"]
    /\ UNCHANGED <<pgid, outbox, disp, scan, halter, parking, callVars, counters>>
-----------------------------------------------------------------------------
(* The worker's tool call, in Receipts.Execute on a kahyad goroutine. *)

\* A worker starts its call: the key's mutex is free and no earlier row is
\* live.  A row that is still 'executing' without an Execute (a crash left it)
\* makes claimIntent time out instead, which changes nothing.
CallStart(t) ==
    /\ worker[t] # {}
    /\ ~call[t].busy
    /\ call[t].row # "executing"
    /\ calls[t] < MaxCalls
    /\ call' = [call EXCEPT ![t] = [row |-> "executing", busy |-> TRUE]]
    /\ calls' = [calls EXCEPT ![t] = @ + 1]
    /\ approved' = [approved EXCEPT ![t] = FALSE]
    /\ UNCHANGED <<taskVars, outbox, disp, scan, halter, parking, counters>>

\* The receipt commits, even when the worker is gone by now.
CallFinish(t) ==
    /\ call[t].busy
    /\ call' = [call EXCEPT ![t] = [row |-> "none", busy |-> FALSE]]
    /\ UNCHANGED <<taskVars, outbox, disp, scan, halter, parking, calls, approved, counters>>

-----------------------------------------------------------------------------
(* Resume.Scan, on the scan tick's goroutine. *)

ScanList ==
    /\ scan.pc = "idle"
    /\ \E t \in Tasks : status[t] = "executing"
    /\ scan' = [pc |-> "next", task |-> NoTask,
                todo |-> {t \in Tasks : status[t] = "executing"}]
    /\ UNCHANGED <<taskVars, outbox, disp, halter, parking, callVars, counters>>

ScanTo(pc, t, todo) == scan' = [pc |-> pc, task |-> t, todo |-> todo]
ScanAdvance ==
    IF scan.todo = {} THEN ScanTo("idle", NoTask, {}) ELSE ScanTo("next", NoTask, scan.todo)

\* A live task is skipped.  Otherwise ProcessTask marks the most recent
\* receipt-less row failed and picks a branch: only an interrupted W1 call
\* within its cap, or no interrupted call, is resumed automatically.
ScanProcess(t) ==
    LET interrupted == call[t].row = "executing"
        auto == ~interrupted \/ (Class[t] = "W1" /\ calls[t] <= W1MaxAuto)
        todo == scan.todo \ {t}
    IN /\ scan.pc = "next"
       /\ t \in scan.todo
       /\ IF live[t] # "none"
            THEN /\ (IF todo = {} THEN ScanTo("idle", NoTask, {})
                                  ELSE ScanTo("next", NoTask, todo))
                 /\ UNCHANGED callVars
            ELSE /\ ScanTo(IF auto THEN "enqueue" ELSE "block", t, todo)
                 /\ call' = IF interrupted THEN [call EXCEPT ![t].row = "failed"] ELSE call
                 /\ approved' = IF interrupted THEN [approved EXCEPT ![t] = FALSE] ELSE approved
                 /\ UNCHANGED calls
       /\ UNCHANGED <<taskVars, outbox, disp, halter, parking, counters>>

\* blockOnReceiptless / blockOnW1CapExceeded.
ScanBlock ==
    /\ scan.pc = "block"
    /\ TryTransition(scan.task, "blocked_user")
    /\ ScanAdvance
    /\ UNCHANGED <<handler, worker, live, pgid, outbox, disp, halter, parking,
                   callVars, counters>>

\* Defect: the scan resumes an interrupted task without telling the outbox.
BugScanForgets ==
    /\ scan.pc = "enqueue"
    /\ ScanAdvance
    /\ UNCHANGED <<taskVars, outbox, disp, halter, parking, callVars, counters>>

\* enqueueResume: one more row each time, whatever rows are waiting already.
ScanEnqueue ==
    /\ scan.pc = "enqueue"
    /\ Insert(NewRow(scan.task, TRUE))
    /\ ScanAdvance
    /\ UNCHANGED <<taskVars, disp, halter, parking, callVars, counters>>

-----------------------------------------------------------------------------
(* Dispatcher.ClaimAndDispatch: one pass at a time (inFlight), row by row. *)

\* ListDueOutboxRows.
Due(r) ==
    LET row == outbox[r] IN
    /\ row.task # NoTask
    /\ row.due /\ ~row.leased /\ ~row.canceled
    /\ status[row.task] # "user_halted"

DispList ==
    /\ disp.pc = "idle"
    /\ \E r \in RowId : Due(r)
    /\ disp' = [pc |-> "claim", row |-> 0, batch |-> {r \in RowId : Due(r)}]
    /\ UNCHANGED <<taskVars, outbox, scan, halter, parking, callVars, counters>>

DispTask == outbox[disp.row].task
DispTo(pc) == disp' = [disp EXCEPT !.pc = pc]
\* The pass goes on with the next listed row, or ends.
DispNext(batch) ==
    disp' = [pc |-> IF batch = {} THEN "idle" ELSE "claim", row |-> 0, batch |-> batch]
MarkDelivered == outbox' = [outbox EXCEPT ![disp.row] = NoRow]

\* ClaimOutboxRow takes the lease unless the row went or was leased since.
DispClaim ==
    /\ disp.pc = "claim"
    /\ \E r \in disp.batch :
          /\ \A s \in disp.batch : r <= s
          /\ IF outbox[r].task = NoTask \/ outbox[r].leased
               THEN DispNext(disp.batch \ {r}) /\ UNCHANGED outbox
               ELSE /\ outbox' = [outbox EXCEPT ![r].leased = TRUE]
                    /\ disp' = [pc |-> "load", row |-> r, batch |-> disp.batch \ {r}]
    /\ UNCHANGED <<taskVars, scan, halter, parking, callVars, counters>>

\* processResume's guards, on the task as loaded now.
DispLoad ==
    /\ disp.pc = "load"
    /\ \/ /\ status[DispTask] \in {"user_halted", "blocked_user"}
          /\ MarkDelivered
          /\ DispNext(disp.batch)
       \/ /\ status[DispTask] \notin {"user_halted", "blocked_user"}
          /\ live[DispTask] # "none"
          /\ DispNext(disp.batch)
          /\ UNCHANGED outbox
       \/ /\ status[DispTask] \notin {"user_halted", "blocked_user"}
          /\ live[DispTask] = "none"
          /\ DispTo("switch")
          /\ UNCHANGED outbox
    /\ UNCHANGED <<taskVars, scan, halter, parking, callVars, counters>>

\* Defect: the error of Transition(executing) is ignored.
BugDispatchAnyway ==
    /\ disp.pc = "switch"
    /\ TryTransition(DispTask, "executing")
    /\ DispTo("spawn")
    /\ UNCHANGED <<handler, worker, live, pgid, outbox, scan, halter, parking,
                   callVars, counters>>

\* Transition(executing), which may also start from blocked_user by now; on
\* an illegal edge the row is left to its lease.
DispSwitch ==
    /\ disp.pc = "switch"
    /\ IF CanTransition(DispTask, "executing")
         THEN Transition(DispTask, "executing") /\ DispTo("spawn")
         ELSE UNCHANGED status /\ DispNext(disp.batch)
    /\ UNCHANGED <<handler, worker, live, pgid, outbox, scan, halter, parking,
                   callVars, counters>>

DispSpawn ==
    /\ disp.pc = "spawn"
    /\ StartWorker(DispTask, "dispatcher")
    /\ DispTo("run")
    /\ UNCHANGED <<status, handler, outbox, scan, halter, parking, callVars, counters>>

\* No proxy: the row is left to its lease; no process: its fate depends on the
\* task's status, as in DispReturns.  The deferred Unregister runs.
DispSpawnFails ==
    /\ disp.pc = "spawn"
    /\ live' = [live EXCEPT ![DispTask] = "none"]
    /\ \/ UNCHANGED outbox
       \/ status[DispTask] \notin {"executing", "intent"} /\ MarkDelivered
    /\ DispNext(disp.batch)
    /\ UNCHANGED <<status, handler, worker, pgid, scan, halter, parking,
                   callVars, counters>>

\* spawn.Run returned.  OK: Transition(done), delivered.  Otherwise the row
\* is delivered if the task was parked, blocked or ended meanwhile, and left
\* to its lease while the task is still 'executing'.
DispReturns(ok) ==
    LET t == DispTask IN
    /\ disp.pc = "run"
    /\ worker' = [worker EXCEPT ![t] = @ \ {"dispatcher"}]
    /\ live' = [live EXCEPT ![t] = "none"]
    /\ IF ok THEN TryTransition(t, "done") ELSE UNCHANGED status
    /\ IF ok \/ status[t] \notin {"executing", "intent"}
         THEN MarkDelivered ELSE UNCHANGED outbox
    /\ DispNext(disp.batch)
    /\ UNCHANGED <<handler, pgid, scan, halter, parking, callVars, counters>>

\* Defect: no heartbeat, so the lease of the row in progress runs out too.
BugNoHeartbeat(r) ==
    /\ outbox[r].leased
    /\ outbox' = [outbox EXCEPT ![r].leased = FALSE]
    /\ UNCHANGED <<taskVars, disp, scan, halter, parking, callVars, counters>>

\* A lease runs out.  The row being processed keeps renewing its own.
LeaseExpires(r) ==
    /\ outbox[r].leased
    /\ disp.row # r
    /\ outbox' = [outbox EXCEPT ![r] =
                    IF @.canceled THEN NoRow ELSE [@ EXCEPT !.leased = FALSE]]
    /\ UNCHANGED <<taskVars, disp, scan, halter, parking, callVars, counters>>

\* available_at of a parked task's row is reached.
BackoffElapses(r) ==
    /\ outbox[r].task # NoTask
    /\ ~outbox[r].due
    /\ outbox' = [outbox EXCEPT ![r].due = TRUE]
    /\ UNCHANGED <<taskVars, disp, scan, halter, parking, callVars, counters>>
-----------------------------------------------------------------------------
(* CloudRetry, called by the proxy of a running worker. *)

CloudFails(t) == parks[t] < MaxParks /\ worker[t] \ {"orphan"} # {} /\ ~parking[t]
CountPark(t) == parks' = [parks EXCEPT ![t] = @ + 1]

\* park: Transition(retry_wait) first; a task already parked passes as a no-op.
Park(t) ==
    /\ CloudFails(t)
    /\ CountPark(t)
    /\ TryTransition(t, "retry_wait")
    /\ parking' = [parking EXCEPT ![t] = CanTransition(t, "retry_wait")]
    /\ UNCHANGED <<handler, worker, live, pgid, outbox, disp, scan, halter,
                   callVars, resolves, crashes>>

\* Defect: park sets next_retry_at but enqueues nothing.
BugParkNoRow(t) ==
    /\ parking[t]
    /\ parking' = [parking EXCEPT ![t] = FALSE]
    /\ UNCHANGED <<taskVars, outbox, disp, scan, halter, callVars, counters>>

\* park: the outbox row, available at next_retry_at.
ParkEnqueue(t) ==
    /\ parking[t]
    /\ Insert(NewRow(t, FALSE))
    /\ parking' = [parking EXCEPT ![t] = FALSE]
    /\ UNCHANGED <<taskVars, disp, scan, halter, callVars, counters>>

\* Defect: tasks.state's vocabulary written to tasks.status.
BugPausesStatus(t) ==
    /\ CloudFails(t)
    /\ CountPark(t)
    /\ Transition(t, "paused_budget")
    /\ UNCHANGED <<handler, worker, live, pgid, outbox, disp, scan, halter,
                   parking, callVars, resolves, crashes>>

\* giveUp (older than 24 h) or FailNonRetryable.
CloudGivesUp(t) ==
    /\ CloudFails(t)
    /\ CountPark(t)
    /\ TryTransition(t, "failed")
    /\ UNCHANGED <<handler, worker, live, pgid, outbox, disp, scan, halter,
                   parking, callVars, resolves, crashes>>

-----------------------------------------------------------------------------
(* `kahya task resolve`. *)

\* Resolver.Retry: Transition(executing), then a resume row.
UserRetry(t) ==
    /\ resolves < MaxResolves
    /\ resolves' = resolves + 1
    /\ CanTransition(t, "executing")
    /\ Transition(t, "executing")
    /\ Insert(NewRow(t, TRUE))
    /\ approved' = [approved EXCEPT ![t] = call[t].row = "failed"]
    /\ UNCHANGED <<handler, worker, live, pgid, disp, scan, halter, parking,
                   call, calls, parks, crashes>>

\* Resolver.Abort.
UserAbort(t) ==
    /\ resolves < MaxResolves
    /\ resolves' = resolves + 1
    /\ CanTransition(t, "failed")
    /\ Transition(t, "failed")
    /\ UNCHANGED <<handler, worker, live, pgid, outbox, disp, scan, halter,
                   parking, callVars, parks, crashes>>

-----------------------------------------------------------------------------
(* HaltTask, on its own request goroutine; pressed once per task here. *)

HaltTo(t, pc, seen) == halter' = [halter EXCEPT ![t] = [pc |-> pc, seen |-> seen]]

\* GetTaskByID: a terminal task is a no-op, otherwise worker_pgid is read.
HaltLoad(t) ==
    /\ halter[t].pc = "idle"
    /\ Cardinality({u \in Tasks : halter[u].pc # "idle"}) < MaxHalts
    /\ status[t] \notin Terminal \cup {"absent"}
    /\ HaltTo(t, "kill", pgid[t])
    /\ UNCHANGED <<taskVars, outbox, disp, scan, parking, callVars, counters>>

\* killProcessGroup: the registered worker, or else the one read above.
HaltKill(t) ==
    /\ halter[t].pc = "kill"
    /\ worker' = [worker EXCEPT ![t] =
                    @ \ {IF live[t] # "none" THEN live[t] ELSE halter[t].seen}]
    /\ HaltTo(t, "read", "none")
    /\ UNCHANGED <<status, handler, live, pgid, outbox, disp, scan, parking,
                   callVars, counters>>

\* Transition(user_halted): the read; an illegal edge is logged and skipped.
HaltRead(t) ==
    /\ halter[t].pc = "read"
    /\ IF IsLegalTransition(status[t], "user_halted")
         THEN HaltTo(t, "cas", status[t]) ELSE HaltTo(t, "cancel", "none")
    /\ UNCHANGED <<taskVars, outbox, disp, scan, parking, callVars, counters>>

\* Defect: SetTaskStatus without its WHERE status = from.
BugHaltBlindWrite(t) ==
    /\ halter[t].pc = "cas"
    /\ Transition(t, "user_halted")
    /\ HaltTo(t, "cancel", "none")
    /\ UNCHANGED <<handler, worker, live, pgid, outbox, disp, scan, parking,
                   callVars, counters>>

\* Transition(user_halted): the compare-and-swap; a lost race is logged only.
HaltCAS(t) ==
    /\ halter[t].pc = "cas"
    /\ IF status[t] = halter[t].seen THEN Transition(t, "user_halted") ELSE UNCHANGED status
    /\ HaltTo(t, "cancel", "none")
    /\ UNCHANGED <<handler, worker, live, pgid, outbox, disp, scan, parking,
                   callVars, counters>>

\* CancelOutboxRowsByTask; HaltTask reports the task as halted.  A canceled
\* row is never listed again, so it matters only if the dispatcher's pass has
\* listed it already.
HaltCancel(t) ==
    /\ halter[t].pc = "cancel"
    /\ outbox' = [r \in RowId |->
                    IF outbox[r].task # t THEN outbox[r]
                    ELSE IF r \in disp.batch \cup {disp.row}
                           THEN [outbox[r] EXCEPT !.canceled = TRUE] ELSE NoRow]
    /\ HaltTo(t, "done", "none")
    /\ UNCHANGED <<taskVars, disp, scan, parking, callVars, counters>>

-----------------------------------------------------------------------------
\* kahyad dies and restarts: goroutines, the registry and
\* running Executes go; leases and rows stay, but a canceled row is never
\* listed again.  Workers are their own process groups and survive.
Crash ==
    LET orphaned(t) == IF pgid[t] = "none" THEN "none" ELSE "orphan" IN
    /\ crashes < MaxCrashes
    /\ crashes' = crashes + 1
    /\ handler' = [t \in Tasks |-> "none"]
    /\ worker' = [t \in Tasks |-> IF worker[t] = {} THEN {} ELSE {"orphan"}]
    /\ live' = [t \in Tasks |-> "none"]
    /\ pgid' = [t \in Tasks |-> orphaned(t)]
    /\ disp' = [pc |-> "idle", row |-> 0, batch |-> {}]
    /\ scan' = [pc |-> "idle", task |-> NoTask, todo |-> {}]
    /\ halter' = [t \in Tasks |-> [pc |-> IF halter[t].pc = "done" THEN "done" ELSE "idle",
                                   seen |-> "none"]]
    /\ parking' = [t \in Tasks |-> FALSE]
    /\ call' = [t \in Tasks |-> [call[t] EXCEPT !.busy = FALSE]]
    /\ outbox' = [r \in RowId |-> IF outbox[r].canceled THEN NoRow ELSE outbox[r]]
    /\ UNCHANGED <<status, calls, approved, parks, resolves>>

OrphanExits(t) ==
    /\ "orphan" \in worker[t]
    /\ worker' = [worker EXCEPT ![t] = @ \ {"orphan"}]
    /\ UNCHANGED <<status, handler, live, pgid, outbox, disp, scan, halter,
                   parking, callVars, counters>>

HandlerStep(t) ==
    \/ AnswerLocally(t) \/ HandlerStart(t) \/ HandlerSpawn(t)
    \/ HandlerSpawnFails(t) \/ \E ok \in BOOLEAN : HandlerReturns(t, ok)
ScanStep == (\E t \in Tasks : ScanProcess(t)) \/ ScanBlock \/ ScanEnqueue
DispStep ==
    \/ DispClaim \/ DispLoad \/ DispSwitch \/ DispSpawn \/ DispSpawnFails
    \/ \E ok \in BOOLEAN : DispReturns(ok)
HaltStep(t) == HaltKill(t) \/ HaltRead(t) \/ HaltCAS(t) \/ HaltCancel(t)

Next ==
    \/ \E t \in Tasks :
          \/ Submit(t) \/ HandlerStep(t) \/ CallStart(t) \/ CallFinish(t)
          \/ Park(t) \/ ParkEnqueue(t) \/ CloudGivesUp(t)
          \/ UserRetry(t) \/ UserAbort(t)
          \/ HaltLoad(t) \/ HaltStep(t) \/ OrphanExits(t)
    \/ ScanList \/ ScanStep \/ DispList \/ DispStep
    \/ \E r \in RowId : LeaseExpires(r) \/ BackoffElapses(r)
    \/ Crash

Spec == Init /\ [][Next]_vars

\* Goroutines run on, ticks keep firing, timers expire, a spawn does not fail
\* for ever and a worker exits sooner or later.  Users, clouds and crashes owe nothing.
Fairness ==
    /\ \A t \in Tasks :
          /\ WF_vars(HandlerStep(t)) /\ WF_vars(CallFinish(t))
          /\ WF_vars(ParkEnqueue(t)) /\ WF_vars(HaltStep(t)) /\ WF_vars(OrphanExits(t))
    /\ WF_vars(ScanList) /\ WF_vars(ScanStep)
    /\ SF_vars(DispList) /\ WF_vars(DispStep) /\ SF_vars(DispSpawn)
    /\ \A r \in RowId : WF_vars(LeaseExpires(r)) /\ WF_vars(BackoffElapses(r))

FairSpec == Spec /\ Fairness

-----------------------------------------------------------------------------
TypeOK ==
    /\ status \in [Tasks -> Statuses]
    /\ handler \in [Tasks -> {"none", "start", "spawn", "run"}]
    /\ worker \in [Tasks -> SUBSET Worker]
    /\ live \in [Tasks -> {"none", "handler", "dispatcher"}]
    /\ pgid \in [Tasks -> {"none"} \cup Worker]
    /\ outbox \in [RowId -> [task : Tasks \cup {NoTask}, due : BOOLEAN,
                             leased : BOOLEAN, canceled : BOOLEAN]]
    /\ disp \in [pc : {"idle", "claim", "load", "switch", "spawn", "run"},
                 row : 0..MaxOut, batch : SUBSET RowId]
    /\ scan \in [pc : {"idle", "next", "block", "enqueue"},
                 task : Tasks \cup {NoTask}, todo : SUBSET Tasks]
    /\ halter \in [Tasks -> [pc : {"idle", "kill", "read", "cas", "cancel", "done"},
                             seen : {"none"} \cup Worker \cup Statuses]]
    /\ parking \in [Tasks -> BOOLEAN]
    /\ call \in [Tasks -> [row : {"none", "executing", "failed"}, busy : BOOLEAN]]
    /\ calls \in [Tasks -> 0..MaxCalls]
    /\ parks \in [Tasks -> 0..MaxParks]
    /\ resolves \in 0..MaxResolves
    /\ crashes \in 0..MaxCrashes
    /\ approved \in [Tasks -> BOOLEAN]

Lifecycle == INSTANCE TaskLifecycle WITH Tasks <- Tasks, status <- status

\* Whatever races with the halt key, the dispatcher, a late worker result, a
\* crash or `kahya task resolve`, a task only walks the legal edges and a
\* terminal status is final.
ImplementsLifecycle == Lifecycle!Spec

\* Once a task is user_halted no dispatch of it goes past its Transition, so
\* only a spawn already under way can still start a worker.
HaltedNotRedispatched ==
    [][\A t \in Tasks :
         status[t] = "user_halted" /\ disp'.pc = "spawn" /\ outbox[disp'.row].task = t
         => disp.pc = "spawn"]_vars

\* A registry entry always belongs to a handler or dispatcher that is still
\* inside spawn.Run and will remove it: the scan cannot skip a task forever.
RegistryHasOwner ==
    \A t \in Tasks :
        /\ live[t] = "handler" => handler[t] = "run"
        /\ live[t] = "dispatcher" => disp.pc = "run" /\ DispTask = t

\* A row is leased by a claim in progress, and the dispatcher's row is there:
\* nothing delivers or recycles a row under the dispatcher.
ClaimedRowStays ==
    disp.pc \in {"load", "switch", "spawn", "run"} =>
        DispTask # NoTask /\ outbox[disp.row].leased

\* A task left 'executing' without a worker is picked up again (resumed,
\* blocked for the user, or ended), across crashes and failed spawns.
InterruptedIsPickedUp ==
    \A t \in Tasks :
        status[t] = "executing" ~> (worker[t] # {} \/ status[t] # "executing")

\* A parked task leaves bekliyor-yeniden-deneme by itself, unless the halt
\* key was pressed or kahyad died meanwhile (cloudretry.go tells the user:
\* "otomatik devam edecek").
ParkedResumes ==
    \A t \in Tasks : status[t] = "retry_wait" /\ crashes = 0 ~>
        (status[t] # "retry_wait" \/ halter[t].pc # "idle" \/ crashes > 0)

\* dispatcher.go: a second worker for the same task "would be exactly the
\* double-execution this whole package exists to prevent".
OneWorkerPerTask == \A t \in Tasks : Cardinality(worker[t]) <= 1

\* HANDOFF: a receipt-less W2/W3 call is never repeated automatically by a
\* worker kahyad started for the resume.
W2NeverAuto ==
    [][\A t \in Tasks :
         /\ Class[t] = "W2" /\ call[t] = [row |-> "failed", busy |-> FALSE]
         /\ call'[t].busy /\ "orphan" \notin worker[t]
         => approved[t]]_vars

\* HANDOFF: the halt key kills the worker's process group; a halted task has
\* no worker any more.
HaltStops ==
    \A t \in Tasks : halter[t].pc = "done" /\ status[t] = "user_halted" => worker[t] = {}

\* A registered worker has an owner and the row of a running resume stays
\* claimed, whatever crashes, leases and halts do.
WorkersAreAccounted == TypeOK /\ RegistryHasOwner /\ ClaimedRowStays

\* Interrupted and parked tasks go on by themselves.
TasksGoOn == InterruptedIsPickedUp /\ ParkedResumes
=============================================================================
