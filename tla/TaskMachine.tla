---------------------------- MODULE TaskMachine ----------------------------
(***************************************************************************)
(* Machine.Transition (task/machine.go), called concurrently by the task   *)
(* handler, the dispatcher, the resume scan, the cloud callbacks, `kahya   *)
(* task resolve` and the halt key: GetTaskByID, the table check, the       *)
(* compare-and-set UPDATE, IncrementTaskAttempts and the ledger event are  *)
(* separate statements that no lock or transaction spans.                  *)
(***************************************************************************)
EXTENDS Naturals, FiniteSets, TaskStatus

CONSTANTS Tasks, NoTask,
          Callers,     \* goroutines inside Transition
          MaxCalls,    \* bound: calls of Transition
          MaxFailures  \* bound: database errors and crashes

ASSUME MachineAssumption ==
    /\ NoTask \notin Tasks /\ IsFiniteSet(Callers)
    /\ MaxCalls \in Nat /\ MaxFailures \in Nat

Targets == Statuses \ {"absent", "intent"}
Edges == Statuses \X Statuses

VARIABLES
    status,     \* tasks.status
    attempts,   \* tasks.attempts, as far as Transition counts it
    call,       \* each caller: position, task, the status it read, target
    ledger,     \* task.transition events, per task and edge
    lossy,      \* history: tasks for which an error or crash cut a call short
    ncalls, failures

vars == <<status, attempts, call, ledger, lossy, ncalls, failures>>

Idle == [pc |-> "idle", task |-> NoTask, from |-> "absent", to |-> "absent"]

Init ==
    /\ status = [t \in Tasks |-> "absent"]
    /\ attempts = [t \in Tasks |-> 0]
    /\ call = [c \in Callers |-> Idle]
    /\ ledger = [t \in Tasks |-> [e \in Edges |-> 0]]
    /\ lossy = {}
    /\ ncalls = 0
    /\ failures = 0

\* InsertTask.
Create(t) ==
    /\ status[t] = "absent"
    /\ status' = [status EXCEPT ![t] = "intent"]
    /\ UNCHANGED <<attempts, call, ledger, lossy, ncalls, failures>>

Begin(c, t, to) ==
    /\ call[c].pc = "idle"
    /\ status[t] # "absent"
    /\ ncalls < MaxCalls
    /\ ncalls' = ncalls + 1
    /\ call' = [call EXCEPT ![c] = [pc |-> "read", task |-> t, from |-> "absent", to |-> to]]
    /\ UNCHANGED <<status, attempts, ledger, lossy, failures>>

Return(c) == call' = [call EXCEPT ![c] = Idle]

\* Defect: only the no-op is tested, the table is not.
BugNoTable(c) ==
    LET from == status[call[c].task] IN
    /\ call[c].pc = "read"
    /\ IF from = call[c].to THEN Return(c)
         ELSE call' = [call EXCEPT ![c].pc = "write", ![c].from = from]
    /\ UNCHANGED <<status, attempts, ledger, lossy, ncalls, failures>>

\* GetTaskByID: a no-op and an illegal edge return here, with no write.
Read(c) ==
    LET from == status[call[c].task] IN
    /\ call[c].pc = "read"
    /\ \/ /\ from = call[c].to \/ ~IsLegalTransition(from, call[c].to)
          /\ Return(c)
       \/ /\ from # call[c].to /\ IsLegalTransition(from, call[c].to)
          /\ call' = [call EXCEPT ![c].pc = "write", ![c].from = from]
    /\ UNCHANGED <<status, attempts, ledger, lossy, ncalls, failures>>

\* What follows a won compare-and-set: the attempt is counted only for a start.
Written(c) ==
    [call[c] EXCEPT !.pc = IF call[c].to = "executing" THEN "count" ELSE "log"]

\* Defect: the loser of the race goes on as if its UPDATE had changed a row.
BugIgnoreAffected(c) ==
    /\ call[c].pc = "write"
    /\ status' = IF status[call[c].task] = call[c].from
                   THEN [status EXCEPT ![call[c].task] = call[c].to] ELSE status
    /\ call' = [call EXCEPT ![c] = Written(c)]
    /\ UNCHANGED <<attempts, ledger, lossy, ncalls, failures>>

\* Defect: the vocabulary of tasks.state written to tasks.status.
BugOtherVocabulary(c) ==
    /\ call[c].pc = "write"
    /\ status' = [status EXCEPT ![call[c].task] = "paused_budget"]
    /\ call' = [call EXCEPT ![c] = Written(c)]
    /\ UNCHANGED <<attempts, ledger, lossy, ncalls, failures>>

\* SetTaskStatus, WHERE status = from; zero rows is ErrLostTransitionRace.
SetTaskStatus(c) ==
    /\ call[c].pc = "write"
    /\ \/ /\ status[call[c].task] = call[c].from
          /\ status' = [status EXCEPT ![call[c].task] = call[c].to]
          /\ call' = [call EXCEPT ![c] = Written(c)]
       \/ /\ status[call[c].task] # call[c].from
          /\ UNCHANGED status
          /\ Return(c)
    /\ UNCHANGED <<attempts, ledger, lossy, ncalls, failures>>

\* Defect: every transition counts as an attempt.
BugCountAll(c) ==
    /\ call[c].pc \in {"count", "log"}
    /\ attempts' = [attempts EXCEPT ![call[c].task] = @ + 1]
    /\ call' = [call EXCEPT ![c].pc = "log"]
    /\ UNCHANGED <<status, ledger, lossy, ncalls, failures>>

IncrementTaskAttempts(c) ==
    /\ call[c].pc = "count"
    /\ attempts' = [attempts EXCEPT ![call[c].task] = @ + 1]
    /\ call' = [call EXCEPT ![c].pc = "log"]
    /\ UNCHANGED <<status, ledger, lossy, ncalls, failures>>

\* The task.transition event, with the edge this caller decided on.
LedgerTransition(c) ==
    /\ call[c].pc = "log"
    /\ ledger' = [ledger EXCEPT ![call[c].task][<<call[c].from, call[c].to>>] = @ + 1]
    /\ Return(c)
    /\ UNCHANGED <<status, attempts, lossy, ncalls, failures>>

\* Past the UPDATE: what is cut short here is missing from the ledger.
Unfinished(c) == call[c].pc \in {"count", "log"}

\* A statement fails: Transition returns the error (LogEvent's is dropped).
DBError(c) ==
    /\ call[c].pc # "idle"
    /\ failures < MaxFailures
    /\ failures' = failures + 1
    /\ lossy' = IF Unfinished(c) THEN lossy \cup {call[c].task} ELSE lossy
    /\ Return(c)
    /\ UNCHANGED <<status, attempts, ledger, ncalls>>

\* kahyad dies; the database keeps the rows.
Crash ==
    /\ failures < MaxFailures
    /\ failures' = failures + 1
    /\ lossy' = lossy \cup {call[c].task : c \in {d \in Callers : Unfinished(d)}}
    /\ call' = [c \in Callers |-> Idle]
    /\ UNCHANGED <<status, attempts, ledger, ncalls>>

Transition(c) ==
    \/ Read(c) \/ SetTaskStatus(c) \/ IncrementTaskAttempts(c)
    \/ LedgerTransition(c) \/ DBError(c)

Next ==
    \/ \E t \in Tasks : Create(t)
    \/ \E c \in Callers : \/ \E t \in Tasks, to \in Targets : Begin(c, t, to)
                          \/ Transition(c)
    \/ Crash

Spec == Init /\ [][Next]_vars

-----------------------------------------------------------------------------
TypeOK ==
    /\ status \in [Tasks -> Statuses]
    /\ attempts \in [Tasks -> Nat]
    /\ call \in [Callers -> [pc : {"idle", "read", "write", "count", "log"},
                             task : Tasks \cup {NoTask},
                             from : Statuses, to : Statuses]]
    /\ ledger \in [Tasks -> [Edges -> Nat]]
    /\ lossy \subseteq Tasks
    /\ ncalls \in 0..MaxCalls
    /\ failures \in 0..MaxFailures

Lifecycle == INSTANCE TaskLifecycle WITH Tasks <- Tasks, status <- status

\* However the callers interleave, and whatever fails between the read and the
\* write, readers of tasks.status see a task walk the legal edges only.
ImplementsLifecycle == Lifecycle!Spec

\* Callers on t that have changed the status and not yet ledgered it.
Pending(t) == {c \in Callers : Unfinished(c) /\ call[c].task = t}

\* How often t moved along the edge e: what is ledgered, plus what is about to be.
Moves(t, e) ==
    ledger[t][e] + Cardinality({c \in Pending(t) : <<call[c].from, call[c].to>> = e})
StatusSum(n) ==
    n["absent"] + n["intent"] + n["executing"] + n["retry_wait"] + n["blocked_user"]
      + n["done"] + n["failed"] + n["user_halted"]
Into(t, s) == StatusSum([r \in Statuses |-> Moves(t, <<r, s>>)])
OutOf(t, s) == StatusSum([r \in Statuses |-> Moves(t, <<s, r>>)])

\* The ledger explains the status: read as a walk from 'intent', the events of
\* a task lead to its present status, so no event is invented or missing for a
\* lost race (events are appended in any order, but each exactly once).
LedgerExplainsStatus ==
    \A t \in Tasks \ lossy : status[t] # "absent" =>
        \A s \in Statuses \ {"absent"} :
            Into(t, s) + (IF s = "intent" THEN 1 ELSE 0)
              = OutOf(t, s) + (IF s = status[t] THEN 1 ELSE 0)

\* tasks.attempts, which picks the backoff of a parked task, is the number of
\* times the task entered 'executing'.
AttemptsCountStarts ==
    \A t \in Tasks \ lossy :
        attempts[t] + Cardinality({c \in Pending(t) : call[c].pc = "count"})
          = Into(t, "executing")

\* The ledger and the attempts counter differ from the statuses by no more than
\* the calls that are unfinished or were cut off.
BooksLagByCalls == LedgerExplainsStatus /\ AttemptsCountStarts
=============================================================================
