---------------------------- MODULE ModelServer ----------------------------
(***************************************************************************)
(* The local model's server process: the generic child supervisor          *)
(* (kahyad/internal/mlxsup/supervisor.go) with the memory check, in-flight *)
(* count and idle unload of kahyad/internal/mlx/supervisor.go on top.  A   *)
(* call brings the child up and polls its health; one goroutine per child  *)
(* waits for its exit and restarts it after a backoff; the idle monitor    *)
(* and the shutdown kill it.  Every action is one critical section of the  *)
(* supervisor's mutex, or what a goroutine does between two of them.       *)
(***************************************************************************)
EXTENDS Integers, FiniteSets

CONSTANTS
    ModelCallers,   \* goroutines that need the model
    MaxRestarts,    \* Config.MaxRestarts
    LongSleep,      \* backoff steps from which a sleep outlasts stopGrace
    MaxBackoffStep, \* the step Config.MaxBackoff caps the doubling at
    MaxExits,       \* bound: exits nobody asked for
    MaxModelCalls   \* bound: calls

ASSUME ModelAssumption ==
    /\ MaxRestarts \in Nat \ {0}
    /\ LongSleep \in Nat \ {0} /\ MaxBackoffStep \in Nat
    /\ MaxExits \in Nat /\ MaxModelCalls \in Nat
    /\ IsFiniteSet(ModelCallers)

\* Every child is the answer to an exit or to a call.
Children == 1 .. MaxExits + MaxModelCalls
NoChild == 0

VARIABLES
    child,      \* per child: none, live or dead
    watch,      \* per child: where its supervise goroutine is
    supState,   \* Supervisor.state
    cmd,        \* Supervisor.cmd
    stopped,    \* Supervisor.stopped
    backoff,    \* Supervisor.backoff, in doublings of MinBackoff
    crashCount, \* Supervisor.crashCount
    sleep,      \* per child: the backoff its watcher sleeps
    user,       \* per caller: [pc, saw], saw the child it polls
    inFlight,
    idle,       \* idleSince: zero, set, or ripe when IdleTTL has passed
    monitor,    \* the idle monitor: [pc, saw]
    shutdown,   \* Stop: [pc, saw]
    lateStart,  \* whether a call started a child after Stop had begun
    startFailed,\* a restart's cmd.Start failed
    staleOK,    \* a health answer was recorded after its child had exited
    modelCounts \* [exits, calls] taken of the bounds

supVars == <<child, watch, supState, cmd, stopped, backoff, crashCount, sleep,
             lateStart, startFailed, staleOK>>
useVars == <<user, inFlight, idle>>
killVars == <<monitor, shutdown>>
modelVars == <<supVars, useVars, killVars, modelCounts>>

AtRest == [pc |-> "idle", saw |-> NoChild]

ModelInit ==
    /\ child = [c \in Children |-> "none"]
    /\ watch = [c \in Children |-> "none"]
    /\ supState = "down" /\ cmd = NoChild /\ stopped = FALSE
    /\ backoff = 0 /\ crashCount = 0
    /\ sleep = [c \in Children |-> 0]
    /\ user = [a \in ModelCallers |-> AtRest]
    /\ inFlight = 0 /\ idle = "zero"
    /\ monitor = AtRest /\ shutdown = AtRest
    /\ lateStart = FALSE /\ startFailed = FALSE /\ staleOK = FALSE
    /\ modelCounts = [exits |-> 0, calls |-> 0]

Spawned == {c \in Children : child[c] # "none"}
LiveChildren == {c \in Children : child[c] = "live"}

\* spawnLocked, when cmd.Start succeeds.
SpawnLocked ==
    LET c == Cardinality(Spawned) + 1
    IN /\ c \in Children
       /\ child' = [child EXCEPT ![c] = "live"]
       /\ cmd' = c
       /\ supState' = "starting"

----------------------------------------------------------------------------
(* supervise: one goroutine per child.                                     *)

\* The child exits by itself: cmd.Wait returns.
ChildExits(c) ==
    /\ child[c] = "live" /\ modelCounts.exits < MaxExits
    /\ child' = [child EXCEPT ![c] = "dead"]
    /\ modelCounts' = [modelCounts EXCEPT !.exits = @ + 1]
    /\ UNCHANGED <<watch, supState, cmd, stopped, backoff, crashCount, sleep,
                   lateStart, startFailed, staleOK, useVars, killVars>>

\* The first critical section: whose exit it is, and whether it was asked
\* for.
NoticeExit(c) ==
    /\ watch[c] = "wait" /\ child[c] = "dead"
    /\ supState' = IF cmd = c THEN "down" ELSE supState
    /\ watch' = [watch EXCEPT ![c] =
                   IF cmd = c /\ ~ stopped THEN "count" ELSE "done"]
    /\ UNCHANGED <<child, cmd, stopped, backoff, crashCount, sleep, lateStart,
                   startFailed, staleOK, useVars, killVars, modelCounts>>

\* Defect: giving up is not recorded.
BugStateAfter(n) == supState

\* The state after the nth crash in a row.
StateAfter(n) == IF n > MaxRestarts THEN "failed" ELSE supState

CountCrash(c) ==
    /\ watch[c] = "count"
    /\ crashCount' = crashCount + 1
    /\ supState' = StateAfter(crashCount')
    /\ watch' = [watch EXCEPT ![c] =
                   IF crashCount' > MaxRestarts THEN "done" ELSE "schedule"]
    /\ UNCHANGED <<child, cmd, stopped, backoff, sleep, lateStart, startFailed,
                   staleOK, useVars, killVars, modelCounts>>

\* Defect: the doubling has no cap.
BugDoubled(b) == b + 1

\* The next backoff.
Doubled(b) == IF b < MaxBackoffStep THEN b + 1 ELSE b

\* restartWithBackoff before its sleep: this wait, and the next one doubled.
ScheduleRestart(c) ==
    /\ watch[c] = "schedule"
    /\ sleep' = [sleep EXCEPT ![c] = backoff]
    /\ backoff' = Doubled(backoff)
    /\ watch' = [watch EXCEPT ![c] = "sleep"]
    /\ UNCHANGED <<child, supState, cmd, stopped, crashCount, lateStart,
                   startFailed, staleOK, useVars, killVars, modelCounts>>

\* Defect: stopped is looked at before the sleep only.
BugMayRestart == TRUE

MayRestart == ~ stopped

\* restartWithBackoff after it.  Its done channel closes when it returns.
\* A sleep takes a second at least: it does not end between two critical
\* sections that the idle monitor takes one after the other.
Restart(c) ==
    /\ watch[c] = "sleep" /\ monitor.pc # "stop"
    /\ \/ /\ ~ MayRestart
          /\ watch' = [watch EXCEPT ![c] = "done"]
          /\ UNCHANGED <<child, supState, cmd, startFailed>>
       \/ /\ MayRestart /\ SpawnLocked
          /\ watch' = [watch EXCEPT ![c] = "done", ![cmd'] = "wait"]
          /\ UNCHANGED startFailed
       \/ /\ MayRestart
          /\ startFailed' = TRUE
          /\ watch' = [watch EXCEPT ![c] = "done"]
          /\ UNCHANGED <<child, supState, cmd>>
    /\ UNCHANGED <<stopped, backoff, crashCount, sleep, lateStart, staleOK, useVars,
                   killVars, modelCounts>>

Watch(c) == NoticeExit(c) \/ CountCrash(c) \/ ScheduleRestart(c) \/ Restart(c)

----------------------------------------------------------------------------
(* A call: EnsureRunning of both supervisors, Acquire, the call, release.  *)

UserTo(a, pc) == user' = [user EXCEPT ![a].pc = pc]

\* Defect: the state is asked instead of the command.
BugNeedsSpawn == supState = "down"

\* s.cmd == nil.
NeedsSpawn == cmd = NoChild

\* The memory check has passed; the switch on the state, and the spawn if
\* there is no command.
EnsureRunning(a) ==
    /\ user[a].pc = "idle" /\ modelCounts.calls < MaxModelCalls
    /\ modelCounts' = [modelCounts EXCEPT !.calls = @ + 1]
    /\ \/ /\ supState = "ok"
          /\ UserTo(a, "mark")
          /\ UNCHANGED <<child, watch, supState, cmd, lateStart>>
       \/ /\ supState \in {"down", "starting"} /\ NeedsSpawn
          /\ SpawnLocked
          /\ watch' = [watch EXCEPT ![cmd'] = "wait"]
          /\ lateStart' = (lateStart \/ shutdown.pc # "idle")
          /\ user' = [user EXCEPT ![a] = [pc |-> "poll", saw |-> cmd']]
       \/ /\ supState \in {"down", "starting"} /\ ~ NeedsSpawn
          /\ user' = [user EXCEPT ![a] = [pc |-> "poll", saw |-> cmd]]
          /\ UNCHANGED <<child, watch, supState, cmd, lateStart>>
    /\ UNCHANGED <<stopped, backoff, crashCount, sleep, startFailed, staleOK, inFlight,
                   idle, killVars>>

\* pingHealth answered ok: by whichever process has the port.
PingHealth(a) ==
    /\ user[a].pc = "poll" /\ LiveChildren # {}
    /\ UserTo(a, "healthy")
    /\ UNCHANGED <<supVars, inFlight, idle, killVars, modelCounts>>

\* What the answer is taken to mean, under the mutex.
SetOK(a) ==
    /\ user[a].pc = "healthy"
    /\ supState' = "ok" /\ backoff' = 0 /\ crashCount' = 0
    /\ staleOK' = (staleOK \/ cmd \notin LiveChildren)
    /\ UserTo(a, "mark")
    /\ UNCHANGED <<child, watch, cmd, stopped, sleep, lateStart, startFailed,
                   inFlight, idle, killVars, modelCounts>>

\* The deadline, the caller's context, or the exit of the child it saw.
GiveUp(a) ==
    /\ user[a].pc = "poll"
    /\ user' = [user EXCEPT ![a] = AtRest]
    /\ UNCHANGED <<supVars, inFlight, idle, killVars, modelCounts>>

\* EnsureRunning of mlx: the idle time starts again.
MarkIdle(a) ==
    /\ user[a].pc = "mark"
    /\ idle' = IF inFlight = 0 THEN "set" ELSE idle
    /\ UserTo(a, "acquire")
    /\ UNCHANGED <<supVars, inFlight, killVars, modelCounts>>

Acquire(a) ==
    /\ user[a].pc = "acquire"
    /\ inFlight' = inFlight + 1
    /\ UserTo(a, "call")
    /\ UNCHANGED <<supVars, idle, killVars, modelCounts>>

\* The call has returned, with an answer or an error.
Release(a) ==
    /\ user[a].pc = "call"
    /\ inFlight' = IF inFlight > 0 THEN inFlight - 1 ELSE 0
    /\ idle' = IF inFlight' = 0 THEN "set" ELSE idle
    /\ user' = [user EXCEPT ![a] = AtRest]
    /\ UNCHANGED <<supVars, killVars, modelCounts>>

UserStep(a) ==
    \/ PingHealth(a) \/ SetOK(a) \/ GiveUp(a)
    \/ MarkIdle(a) \/ Acquire(a) \/ Release(a)

----------------------------------------------------------------------------
(* The idle monitor and the shutdown.                                      *)

\* IdleTTL, minutes, is longer than a backoff and than a caller's own steps.
IdleTTLPasses ==
    /\ idle = "set"
    /\ \A c \in Children : watch[c] \in {"none", "wait", "done"}
    /\ \A a \in ModelCallers : user[a].pc \in {"idle", "poll", "call"}
    /\ idle' = "ripe"
    /\ UNCHANGED <<supVars, user, inFlight, killVars, modelCounts>>

\* checkIdle.  mlx's Stop closes the monitor's channel before it stops the
\* child, but does not wait for a check that has begun.
CheckIdle ==
    /\ monitor.pc = "idle" /\ shutdown.pc = "idle"
    /\ supState = "ok" /\ inFlight = 0 /\ idle = "ripe"
    /\ idle' = "zero"
    /\ monitor' = [monitor EXCEPT !.pc = "stop"]
    /\ UNCHANGED <<supVars, user, inFlight, shutdown, modelCounts>>

\* StopForIdle's first critical section.
StopForIdle ==
    /\ monitor.pc = "stop"
    /\ IF cmd = NoChild
         THEN monitor' = AtRest /\ UNCHANGED <<supState, stopped>>
         ELSE /\ monitor' = [pc |-> "kill", saw |-> cmd]
              /\ stopped' = TRUE /\ supState' = "down"
    /\ UNCHANGED <<child, watch, cmd, backoff, crashCount, sleep, lateStart,
                   startFailed, staleOK, useVars, shutdown, modelCounts>>

\* The second, after the exit has been seen or the grace has passed.
ClearCmd ==
    /\ monitor.pc = "clear"
    /\ IF cmd = monitor.saw
         THEN stopped' = FALSE /\ cmd' = NoChild /\ backoff' = 0
         ELSE UNCHANGED <<stopped, cmd, backoff>>
    /\ monitor' = AtRest
    /\ UNCHANGED <<child, watch, supState, crashCount, sleep, lateStart,
                   startFailed, staleOK, useVars, shutdown, modelCounts>>

\* Stop, once, when the daemon ends.
Stop ==
    /\ shutdown.pc = "idle"
    /\ stopped' = TRUE /\ supState' = "down"
    /\ shutdown' = IF cmd = NoChild THEN [pc |-> "over", saw |-> NoChild]
                                    ELSE [pc |-> "kill", saw |-> cmd]
    /\ UNCHANGED <<child, watch, cmd, backoff, crashCount, sleep, lateStart,
                   startFailed, staleOK, useVars, monitor, modelCounts>>

\* kill(-pgid, SIGKILL): nothing of the group survives it.
Killed(c) == child' = [child EXCEPT ![c] = "dead"]

\* The wait for done ends: it closed, or stopGrace passed, which no process
\* and no sleep shorter than the grace takes.
WaitOver(c) ==
    watch[c] = "done" \/ (watch[c] = "sleep" /\ sleep[c] >= LongSleep)

IdleKill ==
    /\ monitor.pc = "kill"
    /\ Killed(monitor.saw)
    /\ monitor' = [monitor EXCEPT !.pc = "wait"]
    /\ UNCHANGED <<watch, supState, cmd, stopped, backoff, crashCount, sleep,
                   lateStart, startFailed, staleOK, useVars, shutdown, modelCounts>>

IdleWaited ==
    /\ monitor.pc = "wait" /\ WaitOver(monitor.saw)
    /\ monitor' = [monitor EXCEPT !.pc = "clear"]
    /\ UNCHANGED <<supVars, useVars, shutdown, modelCounts>>

StopKill ==
    /\ shutdown.pc = "kill"
    /\ Killed(shutdown.saw)
    /\ shutdown' = [shutdown EXCEPT !.pc = "wait"]
    /\ UNCHANGED <<watch, supState, cmd, stopped, backoff, crashCount, sleep,
                   lateStart, startFailed, staleOK, useVars, monitor, modelCounts>>

StopWaited ==
    /\ shutdown.pc = "wait" /\ WaitOver(shutdown.saw)
    /\ shutdown' = [shutdown EXCEPT !.pc = "over"]
    /\ UNCHANGED <<supVars, useVars, monitor, modelCounts>>

MonitorStep == StopForIdle \/ IdleKill \/ IdleWaited \/ ClearCmd
StopStep == StopKill \/ StopWaited

ModelNext ==
    \/ \E c \in Children : ChildExits(c) \/ Watch(c)
    \/ \E a \in ModelCallers : EnsureRunning(a) \/ UserStep(a)
    \/ IdleTTLPasses \/ CheckIdle \/ MonitorStep
    \/ Stop \/ StopStep

----------------------------------------------------------------------------

ModelTypeOK ==
    /\ child \in [Children -> {"none", "live", "dead"}]
    /\ watch \in [Children -> {"none", "wait", "count", "schedule", "sleep", "done"}]
    /\ supState \in {"down", "starting", "ok", "failed"}
    /\ cmd \in Children \cup {NoChild}
    /\ backoff \in 0 .. MaxBackoffStep
    /\ inFlight \in 0 .. Cardinality(ModelCallers)

(* "A Supervisor owns exactly one child process at a time": a restart, a   *)
(* call and an unload that overlap never leave a second process behind.    *)
(* The exception is a health answer recorded after its child has exited:   *)
(* it makes the state ok while a restart sleeps, an unload then clears the *)
(* command, and a call and the restart each start a child.                 *)
OneChild == Cardinality(LiveChildren) <= 1 \/ staleOK

(* "Stop, which must never restart anything again": when Stop has returned *)
(* nothing runs, unless a call started a child after it had begun; a       *)
(* sleeping restart, or an unload that clears the flag meanwhile, never    *)
(* brings one back, with OneChild's exception.                             *)
NothingRestartsAfterStop ==
    shutdown.pc = "over" => LiveChildren = {} \/ lateStart \/ staleOK

(* An exit nobody asked for is answered: by a new child, by giving up, or  *)
(* by the stop or unload that overtook it, unless the new child could not  *)
(* be started at all.                                                      *)
CrashIsAnswered ==
    \A c \in Children :
        watch[c] = "count" ~>
            \/ \E d \in Children : d > c /\ child[d] # "none"
            \/ supState = "failed" \/ stopped \/ cmd # c \/ startFailed

\* The supervisor's promise: one child, none after the stop, and a crash that
\* is answered by a restart or by giving up.
ChildIsSupervised ==
    [](ModelTypeOK /\ OneChild /\ NothingRestartsAfterStop) /\ CrashIsAnswered
=============================================================================
