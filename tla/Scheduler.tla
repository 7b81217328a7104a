----------------------------- MODULE Scheduler -----------------------------
(***************************************************************************)
(* Triggered jobs (kahyad/internal/scheduler/scheduler.go) and the morning *)
(* briefing (kahyad/internal/briefing) that runs as one of them.  launchd, *)
(* its catch-up after sleep and the user all trigger a job over HTTP; each *)
(* trigger is a goroutine that waits for the job's own mutex, runs the     *)
(* handler under a recover, and ledgers how it ended.  The briefing reads  *)
(* whether today's was delivered, collects, sends, and only then ledgers   *)
(* the delivery and the time up to which files were looked at.             *)
(***************************************************************************)
EXTENDS Integers, FiniteSets, Sequences

CONSTANTS
    Triggers,       \* the trigger calls of a behaviour
    JobOf,          \* the job each names
    JobConfig,      \* job name -> handler name, as in the configuration
    Registered,     \* handler names the daemon registered
    BriefingHandler,\* the name the briefing is registered under
    Files,          \* files the briefing's globs match
    SecretFiles,    \* those under a secret-lane glob
    DayLength,      \* clock ticks in a day
    MaxClock,       \* bound: clock ticks
    MaxDaemonCrashes \* bound

NoTrigger == 0

ASSUME SchedulerAssumption ==
    /\ Triggers \subseteq Nat \ {0}
    /\ SecretFiles \subseteq Files
    /\ DayLength \in Nat \ {0} /\ MaxClock \in Nat \ {0} /\ MaxDaemonCrashes \in Nat

VARIABLES
    run,        \* per trigger: where its goroutine is
    runLock,    \* per job: the trigger that holds its mutex
    jobEvents,  \* per trigger: the ledger rows it wrote
    clock,
    mtime,      \* per file: when it last changed, 0 for before the behaviour
    scanned,    \* the persisted FileScanState
    delivered,  \* days a briefing.delivered row is dated
    sent,       \* messages that reached the chat
    told,       \* changes some message was built from
    brief,      \* per trigger: the local variables of Orchestrator.Run
    crashes

schedVars == <<run, runLock, jobEvents>>
briefVars == <<clock, mtime, scanned, delivered, sent, told, brief>>
jobVars == <<schedVars, briefVars, crashes>>

\* LoadJobs: a job whose handler nobody registered is left out.
JobHandlers == {j \in DOMAIN JobConfig : JobConfig[j] \in Registered}

IsBriefing(t) ==
    JobOf[t] \in JobHandlers /\ JobConfig[JobOf[t]] = BriefingHandler

NoBrief == [pc |-> "none", now |-> 0, files |-> {}, prompt |-> {}]

JobsInit ==
    /\ run = [t \in Triggers |-> "idle"]
    /\ runLock = [j \in JobHandlers |-> NoTrigger]
    /\ jobEvents = [t \in Triggers |-> {}]
    /\ clock = 1
    /\ mtime = [f \in Files |-> 0]
    /\ scanned = 0
    /\ delivered = {}
    /\ sent = <<>>
    /\ told = {}
    /\ brief = [t \in Triggers |-> NoBrief]
    /\ crashes = 0

----------------------------------------------------------------------------
(* The scheduler.                                                          *)

\* handleJobTrigger and Trigger: unknown names are answered 404; a known
\* one is ledgered and its goroutine started.
Trigger(t) ==
    /\ run[t] = "idle"
    /\ IF JobOf[t] \in JobHandlers
         THEN /\ run' = [run EXCEPT ![t] = "queued"]
              /\ jobEvents' = [jobEvents EXCEPT ![t] = @ \cup {"triggered"}]
         ELSE /\ run' = [run EXCEPT ![t] = "unknown"]
              /\ UNCHANGED jobEvents
    /\ UNCHANGED <<runLock, briefVars, crashes>>

\* Defect: the handler runs without the per-job mutex.
BugNoRunLock(t) == run[t] = "queued"

\* jobRunLock(name).Lock().
LockFree(t) == run[t] = "queued" /\ runLock[JobOf[t]] = NoTrigger

StartHandler(t) ==
    /\ LockFree(t)
    /\ run' = [run EXCEPT ![t] = "running"]
    /\ runLock' = [runLock EXCEPT ![JobOf[t]] = t]
    /\ brief' = IF IsBriefing(t) THEN [brief EXCEPT ![t].pc = "dedupe"]
                                 ELSE brief
    /\ UNCHANGED <<jobEvents, clock, mtime, scanned, delivered, sent, told,
                   crashes>>

\* runHandlerRecovered: a panic comes back as an error.
HandlerReturns(t, how) == run' = [run EXCEPT ![t] = how]

\* A handler of another job ends, in whichever way.
OtherHandler(t) ==
    /\ run[t] = "running" /\ ~ IsBriefing(t)
    /\ \E how \in {"ok", "error", "panic"} : HandlerReturns(t, how)
    /\ UNCHANGED <<runLock, jobEvents, briefVars, crashes>>

\* Defect: the mutex is unlocked by hand after the result row, which a
\* panicking handler never reaches.
BugUnlock(t) == IF run[t] = "panic" THEN t ELSE NoTrigger

\* The deferred Unlock.
Unlocked(t) == NoTrigger

\* The result row, then the deferred unlock.
LedgerResult(t) ==
    /\ run[t] \in {"ok", "error", "panic"}
    /\ LET kind == IF run[t] = "ok" THEN "completed" ELSE "failed"
       IN /\ run' = [run EXCEPT ![t] = kind]
          /\ jobEvents' = [jobEvents EXCEPT ![t] = @ \cup {kind}]
    /\ runLock' = [runLock EXCEPT ![JobOf[t]] = Unlocked(t)]
    /\ UNCHANGED <<briefVars, crashes>>

\* The daemon dies: goroutines and mutexes go, the database, the state file
\* and what was sent stay.
DaemonCrash ==
    /\ crashes < MaxDaemonCrashes
    /\ crashes' = crashes + 1
    /\ run' = [t \in Triggers |->
                 IF run[t] \in {"queued", "running", "ok", "error", "panic"}
                   THEN "lost" ELSE run[t]]
    /\ runLock' = [j \in JobHandlers |-> NoTrigger]
    /\ brief' = [t \in Triggers |-> NoBrief]
    /\ UNCHANGED <<jobEvents, clock, mtime, scanned, delivered, sent, told>>

----------------------------------------------------------------------------
(* The briefing.                                                           *)

DayOf(x) == x \div DayLength

BriefAt(t, pc) == run[t] = "running" /\ brief[t].pc = pc

\* Time passes; with it a file may change.  Each change has a time of its
\* own: the clock of the source counts nanoseconds.
Tick ==
    /\ clock < MaxClock
    /\ clock' = clock + 1
    /\ \/ UNCHANGED mtime
       \/ \E f \in Files : mtime' = [mtime EXCEPT ![f] = clock + 1]
    /\ UNCHANGED <<schedVars, scanned, delivered, sent, told, brief, crashes>>

\* now, its date, and AlreadyDeliveredToday for that date.
CheckDedupe(t) ==
    /\ BriefAt(t, "dedupe")
    /\ IF DayOf(clock) \in delivered
         THEN HandlerReturns(t, "ok") /\ brief' = [brief EXCEPT ![t] = NoBrief]
         ELSE /\ brief' = [brief EXCEPT ![t].pc = "collect", ![t].now = clock]
              /\ UNCHANGED run
    /\ UNCHANGED <<runLock, jobEvents, clock, mtime, scanned, delivered, sent,
                   told, crashes>>

\* The files changed after the persisted time.
CollectFiles == {f \in Files : mtime[f] > scanned}

\* Defect: the path is not looked at, only what the classifier says.
BugGateItem(f) == TRUE

\* gateItem: a path under a secret-lane glob is dropped before anything is
\* read of it.
GateItem(f) == f \notin SecretFiles

\* GitHub and the calendar cost time and may give nothing.  The text of an
\* item that passes the gate may still be judged secret, or not be judged in
\* time: any of them may be dropped too.
Collect(t) ==
    /\ BriefAt(t, "collect")
    /\ \E clean \in SUBSET {f \in CollectFiles : GateItem(f)} :
         brief' = [brief EXCEPT ![t].pc = "spawn", ![t].prompt = clean,
                                ![t].files = {<<f, mtime[f]>> : f \in CollectFiles}]
    /\ UNCHANGED <<schedVars, clock, mtime, scanned, delivered, sent, told,
                   crashes>>

\* Taint and task rows, the worker, its summary's validation, and the
\* classifier over every line: any of them may end the run, or panic.
Summarise(t) ==
    /\ BriefAt(t, "spawn")
    /\ \/ /\ \E how \in {"error", "panic"} : HandlerReturns(t, how)
          /\ brief' = [brief EXCEPT ![t] = NoBrief]
       \/ /\ brief' = [brief EXCEPT ![t].pc = "deliver"]
          /\ UNCHANGED run
    /\ UNCHANGED <<runLock, jobEvents, clock, mtime, scanned, delivered, sent,
                   told, crashes>>

\* SendNotification: blocked or failed ends the run with nothing recorded.
Deliver(t) ==
    /\ BriefAt(t, "deliver")
    /\ \/ /\ HandlerReturns(t, "error")
          /\ brief' = [brief EXCEPT ![t] = NoBrief]
          /\ UNCHANGED <<sent, told>>
       \/ /\ sent' = Append(sent, [day |-> DayOf(brief[t].now),
                                   lines |-> brief[t].prompt, row |-> FALSE])
          /\ told' = told \cup brief[t].files
          /\ brief' = [brief EXCEPT ![t].pc = "ledger"]
          /\ UNCHANGED run
    /\ UNCHANGED <<runLock, jobEvents, clock, mtime, scanned, delivered,
                   crashes>>

\* The briefing.delivered row; its error is ignored.  The row is dated when
\* it is written.
LedgerDelivered(t) ==
    /\ BriefAt(t, "ledger")
    /\ \E written \in BOOLEAN :
         IF written
           THEN /\ delivered' = delivered \cup {DayOf(clock)}
                /\ sent' = [sent EXCEPT ![Len(sent)].row = TRUE]
           ELSE UNCHANGED <<delivered, sent>>
    /\ brief' = [brief EXCEPT ![t].pc = "save"]
    /\ UNCHANGED <<schedVars, clock, mtime, scanned, told, crashes>>

\* Defect: the time saved is when the run ends.
BugSavedTime(t) == clock

\* FileState.Save(now): the time the run began, not when it looked.
SavedTime(t) == brief[t].now

\* Saving is best effort too.
SaveScan(t) ==
    /\ BriefAt(t, "save")
    /\ scanned' \in {scanned, SavedTime(t)}
    /\ HandlerReturns(t, "ok")
    /\ brief' = [brief EXCEPT ![t] = NoBrief]
    /\ UNCHANGED <<runLock, jobEvents, clock, mtime, delivered, sent, told,
                   crashes>>

HandlerStep(t) ==
    \/ OtherHandler(t)
    \/ CheckDedupe(t) \/ Collect(t) \/ Summarise(t)
    \/ Deliver(t) \/ LedgerDelivered(t) \/ SaveScan(t)

JobStep(t) == StartHandler(t) \/ HandlerStep(t) \/ LedgerResult(t)

JobsNext ==
    \/ \E t \in Triggers : Trigger(t) \/ JobStep(t)
    \/ DaemonCrash
    \/ Tick

----------------------------------------------------------------------------

JobsTypeOK ==
    /\ run \in [Triggers -> {"idle", "unknown", "queued", "running", "ok",
                             "error", "panic", "completed", "failed", "lost"}]
    /\ runLock \in [JobHandlers -> Triggers \cup {NoTrigger}]
    /\ jobEvents \in [Triggers -> SUBSET {"triggered", "completed", "failed"}]
    /\ clock \in 1 .. MaxClock
    /\ mtime \in [Files -> 0 .. MaxClock]
    /\ scanned \in 0 .. MaxClock
    /\ delivered \subseteq 0 .. MaxClock
    /\ \A t \in Triggers : brief[t].prompt \subseteq Files \ SecretFiles

(* "a missed-run-fired-on-wake plus the regular scheduled run must never   *)
(* both deliver" (briefing.go:241): two messages for one day only when the *)
(* row of the first was never written, by a crash or a failing ledger      *)
(* between the send and the row.                                           *)
OneMessagePerDay ==
    \A i, k \in DOMAIN sent :
        i < k /\ sent[i].day = sent[k].day => ~ sent[i].row

(* However often delivery fails, the daemon dies or a run is slow, a file  *)
(* that changed is either in some delivered briefing or still ahead of the *)
(* persisted scan time, so that the next run finds it.                     *)
NoChangeForgotten ==
    \A f \in Files :
        \/ mtime[f] = 0
        \/ <<f, mtime[f]>> \in told
        \/ mtime[f] > scanned

(* A trigger that was accepted ends in a result row, whatever its handler  *)
(* did and whoever queued before it, unless the daemon died under it.      *)
AcceptedTriggersEnd ==
    \A t \in Triggers :
        run[t] = "queued" ~> run[t] \in {"completed", "failed", "lost"}

\* The safety part: a message a day unless its row was lost, and no change of a
\* file forgotten.
BriefingsAreKept == OneMessagePerDay /\ NoChangeForgotten

\* The scheduler's and the briefing's promise: briefings are kept, and every
\* accepted trigger ends.
JobsRunOnce == [](JobsTypeOK /\ BriefingsAreKept) /\ AcceptedTriggersEnd
=============================================================================
