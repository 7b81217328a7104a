-------------------------- MODULE TaskMachineProof --------------------------
(***************************************************************************)
(* For any number of tasks and callers: the compare-and-set keeps the      *)
(* promise of TaskLifecycle although the read, the table check and the     *)
(* write of Transition are separate statements, and the ledger and the     *)
(* attempts count what the status went through.  And for any number of     *)
(* calls, exits and restarts: the supervisor of the local model owns one   *)
(* child, and none after it was stopped.  The two share no state.          *)
(***************************************************************************)
EXTENDS TaskMachine, ModelServer, FiniteSetTheorems, TLAPS

\* A caller about to write decided on an edge of the table.
DecidedLegal ==
    \A c \in Callers : call[c].pc = "write" => IsLegalTransition(call[c].from, call[c].to)

CallRecord == [pc : {"idle", "read", "write", "count", "log"},
               task : Tasks \cup {NoTask}, from : Statuses, to : Statuses]

\* A caller inside Transition has a task and a target.
CallNamed ==
    \A c \in Callers : call[c].pc # "idle" => call[c].task \in Tasks

IInv == TypeOK /\ CallNamed /\ DecidedLegal

\* A legal edge leaves a status that is not terminal.
LEMMA LegalFromLive ==
    ASSUME NEW from, NEW to, IsLegalTransition(from, to)
    PROVE  from \notin Terminal /\ to \in Statuses
BY DEF IsLegalTransition, Terminal, Statuses

\* The invariant holds when the daemon starts.
LEMMA InitInv == Init => IInv
BY MachineAssumption DEF Init, IInv, TypeOK, CallNamed, DecidedLegal, Idle, Statuses, Terminal

\* Type correctness is kept by every step.
LEMMA TypeStep == IInv /\ [Next]_vars => TypeOK'
<1> SUFFICES ASSUME IInv, [Next]_vars PROVE TypeOK'
  OBVIOUS
<1> USE MachineAssumption DEF IInv, TypeOK, CallNamed
<1>0. Idle \in CallRecord
  BY DEF Idle, CallRecord, Statuses
<1>1. ASSUME NEW t \in Tasks, Create(t) PROVE TypeOK'
  BY <1>1 DEF Create, Statuses
<1>2. ASSUME NEW c \in Callers, NEW t \in Tasks, NEW to \in Targets, Begin(c, t, to)
      PROVE TypeOK'
  BY <1>2 DEF Begin, Targets, Statuses
<1>3. ASSUME NEW c \in Callers, Read(c) PROVE TypeOK'
  <2>1. status[call[c].task] \in Statuses
    BY <1>3 DEF Read
  <2>2. call' \in [Callers -> CallRecord]
    <3>1. CASE Return(c)
      BY <3>1, <1>0 DEF Return, CallRecord
    <3>2. CASE call' = [call EXCEPT ![c].pc = "write", ![c].from = status[call[c].task]]
      <4>1. [call[c] EXCEPT !.pc = "write", !.from = status[call[c].task]] \in CallRecord
        BY <2>1 DEF CallRecord
      <4>2. call' = [call EXCEPT ![c] =
                       [call[c] EXCEPT !.pc = "write", !.from = status[call[c].task]]]
        BY <3>2
      <4> QED BY <4>1, <4>2 DEF CallRecord
    <3> QED BY <1>3, <3>1, <3>2 DEF Read
  <2> QED BY <1>3, <2>2 DEF Read, CallRecord
<1>4. ASSUME NEW c \in Callers, SetTaskStatus(c) PROVE TypeOK'
  <2>1. Written(c) \in CallRecord
    BY DEF Written, CallRecord
  <2>2. call' \in [Callers -> CallRecord]
    BY <1>4, <2>1, <1>0 DEF SetTaskStatus, Return, CallRecord
  <2>3. status' \in [Tasks -> Statuses]
    BY <1>4 DEF SetTaskStatus
  <2> QED BY <1>4, <2>2, <2>3 DEF SetTaskStatus, CallRecord
<1>5. ASSUME NEW c \in Callers, IncrementTaskAttempts(c) PROVE TypeOK'
  BY <1>5 DEF IncrementTaskAttempts
<1>6. ASSUME NEW c \in Callers, LedgerTransition(c) PROVE TypeOK'
  <2>1. call' \in [Callers -> CallRecord]
    BY <1>6, <1>0 DEF LedgerTransition, Return, CallRecord
  <2>2. call[c].task \in Tasks /\ <<call[c].from, call[c].to>> \in Edges
    BY <1>6 DEF LedgerTransition, Edges
  <2>3. ledger' \in [Tasks -> [Edges -> Nat]]
    BY <1>6, <2>2 DEF LedgerTransition
  <2> QED BY <1>6, <2>1, <2>3 DEF LedgerTransition, CallRecord
<1>7. ASSUME NEW c \in Callers, DBError(c) PROVE TypeOK'
  <2>1. call' \in [Callers -> CallRecord]
    BY <1>7, <1>0 DEF DBError, Return, CallRecord
  <2> QED BY <1>7, <2>1 DEF DBError, CallRecord
<1>8. CASE Crash
  <2>1. call' \in [Callers -> CallRecord]
    BY <1>8, <1>0 DEF Crash
  <2>2. lossy' \subseteq Tasks
    BY <1>8 DEF Crash, Unfinished
  <2> QED BY <1>8, <2>1, <2>2 DEF Crash, CallRecord
<1>9. CASE UNCHANGED vars
  BY <1>9 DEF vars
<1> QED
  BY <1>1, <1>2, <1>3, <1>4, <1>5, <1>6, <1>7, <1>8, <1>9 DEF Next, Transition

\* What a caller has decided on stays decided until it writes.
LEMMA CallStep == IInv /\ [Next]_vars => CallNamed' /\ DecidedLegal'
<1> SUFFICES ASSUME IInv, [Next]_vars PROVE CallNamed' /\ DecidedLegal'
  OBVIOUS
<1> USE DEF IInv, TypeOK, CallNamed, DecidedLegal
<1>1. ASSUME NEW t \in Tasks, Create(t) PROVE CallNamed' /\ DecidedLegal'
  BY <1>1 DEF Create
<1>2. ASSUME NEW c \in Callers, NEW t \in Tasks, NEW to \in Targets, Begin(c, t, to)
      PROVE CallNamed' /\ DecidedLegal'
  BY <1>2 DEF Begin
<1>3. ASSUME NEW c \in Callers, Read(c) PROVE CallNamed' /\ DecidedLegal'
  <2>1. CASE Return(c)
    BY <2>1 DEF Return, Idle
  <2>2. CASE /\ IsLegalTransition(status[call[c].task], call[c].to)
             /\ call' = [call EXCEPT ![c].pc = "write", ![c].from = status[call[c].task]]
    <3>1. call'[c].from = status[call[c].task] /\ call'[c].to = call[c].to
          /\ call'[c].task = call[c].task
      BY <2>2
    <3>2. \A d \in Callers \ {c} : call'[d] = call[d]
      BY <2>2
    <3>3. call[c].task \in Tasks
      BY <1>3 DEF Read
    <3> QED BY <2>2, <3>1, <3>2, <3>3
  <2> QED BY <1>3, <2>1, <2>2 DEF Read
<1>4. ASSUME NEW c \in Callers, SetTaskStatus(c) PROVE CallNamed' /\ DecidedLegal'
  BY <1>4 DEF SetTaskStatus, Return, Written, Idle
<1>5. ASSUME NEW c \in Callers, IncrementTaskAttempts(c) PROVE CallNamed' /\ DecidedLegal'
  BY <1>5 DEF IncrementTaskAttempts
<1>6. ASSUME NEW c \in Callers, LedgerTransition(c) PROVE CallNamed' /\ DecidedLegal'
  BY <1>6 DEF LedgerTransition, Return, Idle
<1>7. ASSUME NEW c \in Callers, DBError(c) PROVE CallNamed' /\ DecidedLegal'
  BY <1>7 DEF DBError, Return, Idle
<1>8. CASE Crash
  BY <1>8 DEF Crash, Idle
<1>9. CASE UNCHANGED vars
  BY <1>9 DEF vars
<1> QED
  BY <1>1, <1>2, <1>3, <1>4, <1>5, <1>6, <1>7, <1>8, <1>9 DEF Next, Transition

\* Every step of a caller keeps the invariant.
LEMMA NextInv == IInv /\ [Next]_vars => IInv'
BY TypeStep, CallStep DEF IInv

\* So it always holds.
LEMMA InductiveInvariant == Spec => []IInv
BY InitInv, NextInv, PTL DEF Spec

\* Type correctness of the transition machine.
THEOREM TypeCorrect == Spec => []TypeOK
<1>1. IInv => TypeOK
  BY DEF IInv
<1> QED
  BY <1>1, InductiveInvariant, PTL

\* Every step of Transition is a step of the life cycle or leaves the status alone.
LEMMA StepRefines == IInv /\ [Next]_vars => [Lifecycle!Next]_status
<1> SUFFICES ASSUME IInv, [Next]_vars PROVE [Lifecycle!Next]_status
  OBVIOUS
<1>1. ASSUME NEW t \in Tasks, Create(t) PROVE Lifecycle!Next
  BY <1>1 DEF Create, Lifecycle!Next, Lifecycle!Create
<1>2. ASSUME NEW c \in Callers, SetTaskStatus(c) PROVE [Lifecycle!Next]_status
  <2>1. CASE status[call[c].task] = call[c].from
    <3>1. IsLegalTransition(call[c].from, call[c].to) /\ call[c].task \in Tasks
      BY <1>2 DEF SetTaskStatus, IInv, DecidedLegal, CallNamed
    <3>2. Lifecycle!Move(call[c].task, call[c].to)
      BY <1>2, <2>1, <3>1, LegalFromLive
         DEF SetTaskStatus, Lifecycle!Move, Lifecycle!IsLegalTransition,
             Lifecycle!Terminal, IsLegalTransition, Terminal
    <3> QED
      BY <3>1, <3>2, LegalFromLive DEF Lifecycle!Next, Lifecycle!Statuses,
             Lifecycle!Terminal, Statuses, Terminal
  <2>2. CASE status[call[c].task] # call[c].from
    BY <1>2, <2>2 DEF SetTaskStatus
  <2> QED BY <2>1, <2>2
<1>3. CASE UNCHANGED status
  BY <1>3
<1> QED
  BY <1>1, <1>2, <1>3 DEF Next, Transition, Begin, Read, IncrementTaskAttempts,
     LedgerTransition, DBError, Crash, vars

\* Machine.Transition, called by any number of goroutines on any tasks, with
\* errors and crashes between its statements, implements TaskLifecycle.
THEOREM MachineImplementsLifecycle == Spec => ImplementsLifecycle
<1>1. Init => Lifecycle!Init
  BY DEF Init, Lifecycle!Init
<1> QED
  BY <1>1, InductiveInvariant, StepRefines, PTL DEF Spec, ImplementsLifecycle, Lifecycle!Spec
-----------------------------------------------------------------------------
\* A task that has no row yet was moved by nobody, and no caller has it.
AbsentUntouched ==
    \A t \in Tasks : status[t] = "absent" =>
        /\ \A e \in Edges : ledger[t][e] = 0
        /\ \A c \in Callers : call[c].task # t

BooksInv == IInv /\ AbsentUntouched /\ BooksLagByCalls

\* The two sets of callers the books wait for.
OnEdge(t, e) == {c \in Pending(t) : <<call[c].from, call[c].to>> = e}
Starting(t) == {c \in Pending(t) : call[c].pc = "count"}
Starts(t) == attempts[t] + Cardinality(Starting(t))

\* A step leaves the books of t alone, or enters one move in them.
Still(t) == (\A e \in Edges : Moves(t, e)' = Moves(t, e)) /\ Starts(t)' = Starts(t)
Moved(t, f, g) ==
    /\ Moves(t, <<f, g>>)' = Moves(t, <<f, g>>) + 1
    /\ \A e \in Edges \ {<<f, g>>} : Moves(t, e)' = Moves(t, e)
    /\ Starts(t)' = Starts(t) + (IF g = "executing" THEN 1 ELSE 0)

\* There are finitely many callers, so the counts are numbers.
LEMMA CountsAreNumbers ==
    ASSUME IInv, NEW t \in Tasks
    PROVE  /\ \A e \in Edges : /\ IsFiniteSet(OnEdge(t, e))
                               /\ Cardinality(OnEdge(t, e)) \in Nat
                               /\ Moves(t, e) = ledger[t][e] + Cardinality(OnEdge(t, e))
                               /\ Moves(t, e) \in Nat
           /\ IsFiniteSet(Starting(t)) /\ Cardinality(Starting(t)) \in Nat /\ Starts(t) \in Nat
<1>1. \A S \in SUBSET Callers : IsFiniteSet(S) /\ Cardinality(S) \in Nat
  BY MachineAssumption, FS_Subset, FS_CardinalityType
<1>2. \A e \in Edges : OnEdge(t, e) \in SUBSET Callers
  BY DEF OnEdge, Pending
<1>3. Starting(t) \in SUBSET Callers
  BY DEF Starting, Pending
<1>4. attempts[t] \in Nat /\ \A e \in Edges : ledger[t][e] \in Nat
  BY DEF IInv, TypeOK
<1> QED
  BY <1>1, <1>2, <1>3, <1>4 DEF Moves, OnEdge, Starts

\* A step that changes no unfinished call on t, nor its rows, leaves its books alone.
LEMMA StillBooks ==
    ASSUME NEW t \in Tasks, ledger'[t] = ledger[t], attempts'[t] = attempts[t],
           \A d \in Callers : (d \in Pending(t) \/ d \in Pending(t)') => call'[d] = call[d]
    PROVE  Still(t)
<1>1. Pending(t)' = Pending(t)
  BY DEF Pending, Unfinished
<1>2. \A e \in Edges : OnEdge(t, e)' = OnEdge(t, e)
  <2> TAKE e \in Edges
  <2> QED BY <1>1 DEF OnEdge, Pending
<1>3. Starting(t)' = Starting(t)
  BY <1>1 DEF Starting, Pending
<1> QED BY <1>2, <1>3 DEF Still, Moves, OnEdge, Starts

\* A won compare-and-set is one more move, by a caller that is now pending.
LEMMA WonBooks ==
    ASSUME IInv, NEW c \in Callers, SetTaskStatus(c),
           NEW t, NEW f, NEW g, t = call[c].task, f = call[c].from, g = call[c].to,
           status[t] = f
    PROVE  /\ t \in Tasks /\ status' = [status EXCEPT ![t] = g]
           /\ IsLegalTransition(f, g) /\ Moved(t, f, g)
<1>1. /\ call[c].pc = "write" /\ call' = [call EXCEPT ![c] = Written(c)]
      /\ UNCHANGED <<attempts, ledger>> /\ status' = [status EXCEPT ![t] = g]
  BY DEF SetTaskStatus
<1>2. t \in Tasks /\ IsLegalTransition(f, g) /\ call[c] \in CallRecord /\ c \in DOMAIN call
  BY <1>1 DEF IInv, TypeOK, CallNamed, DecidedLegal, CallRecord
<1>3. /\ call'[c].pc = IF g = "executing" THEN "count" ELSE "log"
      /\ call'[c].task = t /\ call'[c].from = f /\ call'[c].to = g
  BY <1>1, <1>2 DEF Written, CallRecord
<1>4. \A d \in Callers \ {c} : call'[d] = call[d]
  BY <1>1 DEF IInv, TypeOK
<1>5. c \notin Pending(t) /\ Pending(t)' = Pending(t) \cup {c}
  BY <1>1, <1>3, <1>4 DEF Pending, Unfinished
<1>6. <<f, g>> \in Edges
  BY <1>2 DEF Edges, CallRecord
<1>7. OnEdge(t, <<f, g>>)' = OnEdge(t, <<f, g>>) \cup {c} /\ c \notin OnEdge(t, <<f, g>>)
  BY <1>3, <1>4, <1>5 DEF OnEdge, Pending
<1>8. \A e \in Edges \ {<<f, g>>} : OnEdge(t, e)' = OnEdge(t, e)
  BY <1>3, <1>4, <1>5 DEF OnEdge, Pending
<1>9. /\ g = "executing" => Starting(t)' = Starting(t) \cup {c} /\ c \notin Starting(t)
      /\ g # "executing" => Starting(t)' = Starting(t)
  BY <1>3, <1>4, <1>5 DEF Starting, Pending
<1>10. Moves(t, <<f, g>>)' = Moves(t, <<f, g>>) + 1
  <2>0. PICK e \in Edges : e = <<f, g>>
    BY <1>6
  <2>1. Cardinality(OnEdge(t, e) \cup {c}) = Cardinality(OnEdge(t, e)) + 1
    BY <1>2, <1>7, <2>0, CountsAreNumbers, FS_AddElement
  <2>2. ledger[t][e] \in Nat /\ Cardinality(OnEdge(t, e)) \in Nat
    BY <1>2, CountsAreNumbers DEF IInv, TypeOK
  <2>3. Moves(t, e)' = ledger[t][e] + Cardinality(OnEdge(t, e)')
    BY <1>1 DEF Moves, OnEdge
  <2>4. Moves(t, e)' = Moves(t, e) + 1
    BY <1>7, <2>0, <2>1, <2>2, <2>3 DEF Moves, OnEdge
  <2> QED BY <2>0, <2>4
<1>11. \A e \in Edges \ {<<f, g>>} : Moves(t, e)' = Moves(t, e)
  BY <1>1, <1>8 DEF Moves, OnEdge
<1>12. Starts(t)' = Starts(t) + (IF g = "executing" THEN 1 ELSE 0)
  <2>1. c \notin Starting(t) =>
          Cardinality(Starting(t) \cup {c}) = Cardinality(Starting(t)) + 1
    BY <1>2, CountsAreNumbers, FS_AddElement
  <2>2. attempts[t] \in Nat /\ Cardinality(Starting(t)) \in Nat
    BY <1>2, CountsAreNumbers DEF IInv, TypeOK
  <2>3. Starts(t)' = attempts[t] + Cardinality(Starting(t)')
    BY <1>1 DEF Starts
  <2> QED BY <1>9, <2>1, <2>2, <2>3 DEF Starts
<1> QED BY <1>1, <1>2, <1>10, <1>11, <1>12 DEF Moved

\* IncrementTaskAttempts takes a caller off the starts it counts.
LEMMA CountBooks ==
    ASSUME IInv, NEW c \in Callers, IncrementTaskAttempts(c), NEW t \in Tasks, t = call[c].task
    PROVE  Still(t)
<1>1. /\ call[c].pc = "count" /\ call' = [call EXCEPT ![c].pc = "log"]
      /\ attempts' = [attempts EXCEPT ![t] = @ + 1] /\ UNCHANGED ledger
  BY DEF IncrementTaskAttempts
<1>2. /\ call'[c].pc = "log" /\ call'[c].task = t
      /\ call'[c].from = call[c].from /\ call'[c].to = call[c].to
      /\ \A d \in Callers \ {c} : call'[d] = call[d]
  BY <1>1 DEF IInv, TypeOK
<1>3. Pending(t)' = Pending(t) /\ c \in Pending(t)
  BY <1>1, <1>2 DEF Pending, Unfinished
<1>4. \A e \in Edges : OnEdge(t, e)' = OnEdge(t, e)
  BY <1>2, <1>3 DEF OnEdge, Pending
<1>5. c \in Starting(t) /\ Starting(t)' = Starting(t) \ {c}
  BY <1>1, <1>2, <1>3 DEF Starting, Pending
<1>6. Cardinality(Starting(t) \ {c}) = Cardinality(Starting(t)) - 1
  BY <1>5, CountsAreNumbers, FS_RemoveElement
<1>7. attempts[t] \in Nat /\ Cardinality(Starting(t)) \in Nat /\ attempts'[t] = attempts[t] + 1
  BY <1>1, CountsAreNumbers DEF IInv, TypeOK
<1>8. Starts(t)' = attempts'[t] + Cardinality(Starting(t)')
  BY DEF Starts
<1>9. Starts(t)' = Starts(t)
  BY <1>5, <1>6, <1>7, <1>8 DEF Starts
<1> QED BY <1>1, <1>4, <1>9 DEF Still, Moves, OnEdge

\* The ledger event takes its caller off the edge it ledgers.
LEMMA LogBooks ==
    ASSUME IInv, NEW c \in Callers, LedgerTransition(c), NEW t \in Tasks, t = call[c].task
    PROVE  Still(t)
<1> DEFINE edge == <<call[c].from, call[c].to>>
<1>1. /\ call[c].pc = "log" /\ call' = [call EXCEPT ![c] = Idle] /\ UNCHANGED attempts
      /\ ledger' = [ledger EXCEPT ![t][edge] = @ + 1]
  BY DEF LedgerTransition, Return
<1>2. call'[c].pc = "idle" /\ \A d \in Callers \ {c} : call'[d] = call[d]
  BY <1>1 DEF IInv, TypeOK, Idle
<1>3. Pending(t)' = Pending(t) \ {c} /\ c \in Pending(t)
  BY <1>1, <1>2 DEF Pending, Unfinished
<1>4. Starting(t)' = Starting(t)
  BY <1>1, <1>2, <1>3 DEF Starting, Pending
<1>5. edge \in Edges
  BY DEF Edges, IInv, TypeOK
<1>6. ASSUME NEW e \in Edges PROVE Moves(t, e)' = Moves(t, e)
  <2>0. Moves(t, e)' = ledger'[t][e] + Cardinality(OnEdge(t, e)')
    BY DEF Moves, OnEdge
  <2>1. CASE e = edge
    <3>1. c \in OnEdge(t, e) /\ OnEdge(t, e)' = OnEdge(t, e) \ {c}
      BY <1>2, <1>3, <2>1 DEF OnEdge, Pending
    <3>2. Cardinality(OnEdge(t, e) \ {c}) = Cardinality(OnEdge(t, e)) - 1
      BY <3>1, <1>6, CountsAreNumbers, FS_RemoveElement
    <3>3. ledger'[t][e] = ledger[t][e] + 1 /\ ledger[t][e] \in Nat
      BY <1>1, <1>5, <2>1 DEF IInv, TypeOK
    <3> QED BY <1>6, <2>0, <3>1, <3>2, <3>3, CountsAreNumbers
  <2>2. CASE e # edge
    <3>1. OnEdge(t, e)' = OnEdge(t, e)
      BY <1>2, <1>3, <2>2 DEF OnEdge, Pending
    <3>2. ledger'[t][e] = ledger[t][e]
      BY <1>1, <1>5, <2>2 DEF IInv, TypeOK
    <3> QED BY <2>0, <3>1, <3>2 DEF Moves, OnEdge
  <2> QED BY <2>1, <2>2
<1> QED BY <1>1, <1>4, <1>6 DEF Still, Starts

\* Every step leaves the books of a task alone, unless it moves the task or
\* cuts short a call that has moved it.
LEMMA BooksStep ==
    ASSUME IInv, [Next]_vars, NEW t \in Tasks, t \notin lossy'
    PROVE  /\ t \notin lossy
           /\ \/ /\ Still(t)
                 /\ \/ status'[t] = status[t]
                    \/ status[t] = "absent" /\ status'[t] = "intent"
              \/ \E f, g \in Statuses : /\ status[t] = f /\ status'[t] = g
                                        /\ IsLegalTransition(f, g) /\ Moved(t, f, g)
<1> USE DEF IInv, TypeOK
<1>1. ASSUME NEW u \in Tasks, Create(u)
      PROVE  /\ t \notin lossy /\ Still(t)
             /\ status'[t] = status[t] \/ (status[t] = "absent" /\ status'[t] = "intent")
  <2>1. UNCHANGED <<attempts, call, ledger, lossy>>
    BY <1>1 DEF Create
  <2>2. Still(t)
    BY <2>1, StillBooks
  <2> QED BY <1>1, <2>1, <2>2 DEF Create
<1>2. ASSUME NEW c \in Callers, \/ \E u \in Tasks, to \in Targets : Begin(c, u, to)
                                \/ Read(c)
                                \/ SetTaskStatus(c) /\ status[call[c].task] # call[c].from
                                \/ DBError(c)
      PROVE  t \notin lossy /\ Still(t) /\ UNCHANGED status
  <2>1. /\ UNCHANGED <<attempts, ledger, status>> /\ lossy \subseteq lossy'
        /\ \A d \in Callers \ {c} : call'[d] = call[d]
    BY <1>2 DEF Begin, Read, SetTaskStatus, DBError, Return
  <2>2. c \notin Pending(t)'
    BY <1>2 DEF Begin, Read, SetTaskStatus, DBError, Return, Idle, Pending, Unfinished
  <2>3. c \notin Pending(t)
    BY <1>2 DEF Begin, Read, SetTaskStatus, DBError, Pending, Unfinished
  <2>4. Still(t)
    BY <2>1, <2>2, <2>3, StillBooks
  <2> QED BY <2>1, <2>4
<1>3. ASSUME NEW c \in Callers, SetTaskStatus(c), status[call[c].task] = call[c].from,
             call[c].task = t
      PROVE  /\ t \notin lossy
             /\ \E f, g \in Statuses : /\ status[t] = f /\ status'[t] = g
                                       /\ IsLegalTransition(f, g) /\ Moved(t, f, g)
  <2>1. PICK f \in Statuses, g \in Statuses : f = call[c].from /\ g = call[c].to
    OBVIOUS
  <2>2. Moved(t, f, g) /\ status' = [status EXCEPT ![t] = g] /\ IsLegalTransition(f, g)
    BY <1>3, <2>1, WonBooks
  <2> QED BY <1>3, <2>1, <2>2 DEF SetTaskStatus
<1>4. ASSUME NEW c \in Callers, call[c].task # t,
             \/ SetTaskStatus(c) /\ status[call[c].task] = call[c].from
             \/ IncrementTaskAttempts(c) \/ LedgerTransition(c)
      PROVE  t \notin lossy /\ Still(t) /\ status'[t] = status[t]
  <2>1. /\ UNCHANGED lossy /\ status'[t] = status[t]
        /\ \A d \in Callers \ {c} : call'[d] = call[d]
    BY <1>4 DEF SetTaskStatus, IncrementTaskAttempts, LedgerTransition, Return
  <2>2. attempts'[t] = attempts[t] /\ ledger'[t] = ledger[t]
    BY <1>4 DEF SetTaskStatus, IncrementTaskAttempts, LedgerTransition, Return
  <2>3. c \notin Pending(t) /\ c \notin Pending(t)'
    BY <1>4, MachineAssumption DEF SetTaskStatus, IncrementTaskAttempts, LedgerTransition,
       Return, Idle, Written, Pending, Unfinished
  <2>4. Still(t)
    BY <2>1, <2>2, <2>3, StillBooks
  <2> QED BY <2>1, <2>4
<1>5. ASSUME NEW c \in Callers, call[c].task = t, IncrementTaskAttempts(c) \/ LedgerTransition(c)
      PROVE  t \notin lossy /\ Still(t) /\ UNCHANGED status
  BY <1>5, CountBooks, LogBooks DEF IncrementTaskAttempts, LedgerTransition
<1>6. CASE Crash
  <2>1. UNCHANGED <<attempts, ledger, status>> /\ t \notin lossy
        /\ \A d \in Callers : call'[d].pc = "idle"
    BY <1>6 DEF Crash, Idle
  <2>2. Pending(t) = {} /\ Pending(t)' = {}
    BY <1>6, <2>1 DEF Crash, Pending, Unfinished
  <2>3. Still(t)
    BY <2>1, <2>2, StillBooks
  <2> QED BY <2>1, <2>3
<1>7. CASE UNCHANGED vars
  <2>1. Still(t)
    BY <1>7, StillBooks DEF vars
  <2> QED BY <1>7, <2>1 DEF vars
<1> QED
  BY <1>1, <1>2, <1>3, <1>4, <1>5, <1>6, <1>7 DEF Next, Transition

\* One more move of t adds one to what came into its target and to what left
\* its source, and to nothing else.
LEMMA MovedSums ==
    ASSUME IInv, IInv', NEW t \in Tasks, NEW f \in Statuses, NEW g \in Statuses,
           Moved(t, f, g), NEW s \in Statuses
    PROVE  /\ Into(t, s) \in Nat /\ OutOf(t, s) \in Nat
           /\ Into(t, s)' = Into(t, s) + (IF s = g THEN 1 ELSE 0)
           /\ OutOf(t, s)' = OutOf(t, s) + (IF s = f THEN 1 ELSE 0)
<1>1. \A r \in Statuses : <<r, s>> \in Edges /\ <<s, r>> \in Edges
  BY DEF Edges
<1>2. \A r \in Statuses : Moves(t, <<r, s>>) \in Nat /\ Moves(t, <<s, r>>) \in Nat
  BY <1>1, CountsAreNumbers
<1>3. \A r \in Statuses :
         /\ Moves(t, <<r, s>>)' = Moves(t, <<r, s>>) + (IF r = f /\ s = g THEN 1 ELSE 0)
         /\ Moves(t, <<s, r>>)' = Moves(t, <<s, r>>) + (IF r = g /\ s = f THEN 1 ELSE 0)
  BY <1>1, <1>2 DEF Moved
<1> QED
  BY <1>2, <1>3 DEF Into, OutOf, StatusSum, Statuses, Terminal

\* Without a move the sums stay.
LEMMA StillSums ==
    ASSUME NEW t \in Tasks, Still(t), NEW s \in Statuses
    PROVE  Into(t, s)' = Into(t, s) /\ OutOf(t, s)' = OutOf(t, s)
<1>1. \A r \in Statuses : <<r, s>> \in Edges /\ <<s, r>> \in Edges
  BY DEF Edges
<1>2. \A r \in Statuses : /\ Moves(t, <<r, s>>)' = Moves(t, <<r, s>>)
                          /\ Moves(t, <<s, r>>)' = Moves(t, <<s, r>>)
  BY <1>1 DEF Still
<1> QED BY <1>2 DEF Into, OutOf

\* Nothing came into or left any status of a task nobody has touched.
LEMMA AbsentSums ==
    ASSUME IInv, AbsentUntouched, NEW t \in Tasks, status[t] = "absent", NEW s \in Statuses
    PROVE  Into(t, s) = 0 /\ OutOf(t, s) = 0
<1>1. \A r \in Statuses : <<r, s>> \in Edges /\ <<s, r>> \in Edges
  BY DEF Edges
<1>2. \A e \in Edges : Moves(t, e) = 0
  <2> TAKE e \in Edges
  <2>1. OnEdge(t, e) = {} /\ ledger[t][e] = 0
    BY DEF AbsentUntouched, OnEdge, Pending
  <2> QED BY <2>1, CountsAreNumbers, FS_EmptySet
<1>3. \A r \in Statuses : Moves(t, <<r, s>>) = 0 /\ Moves(t, <<s, r>>) = 0
  BY <1>1, <1>2
<1> QED BY <1>3 DEF Into, OutOf, StatusSum, Statuses, Terminal

\* A task without a row stays out of everybody's hands.
LEMMA AbsentStep == IInv /\ AbsentUntouched /\ [Next]_vars => AbsentUntouched'
<1> SUFFICES ASSUME IInv, AbsentUntouched, [Next]_vars, NEW t \in Tasks, status'[t] = "absent"
             PROVE  /\ \A e \in Edges : ledger'[t][e] = 0
                    /\ \A c \in Callers : call'[c].task # t
  BY DEF AbsentUntouched
<1> USE DEF IInv, TypeOK
<1>0. status[t] = "absent"
  BY StepRefines DEF Lifecycle!Next, Lifecycle!Create, Lifecycle!Move,
     Lifecycle!IsLegalTransition
<1>1. (\A e \in Edges : ledger[t][e] = 0) /\ \A c \in Callers : call[c].task # t
  BY <1>0 DEF AbsentUntouched
<1>2. ASSUME NEW c \in Callers, (\E u \in Tasks, to \in Targets : Begin(c, u, to)) \/ Transition(c)
      PROVE  ledger'[t] = ledger[t] /\ \A d \in Callers : call'[d].task # t
  <2>1. \A d \in Callers \ {c} : call'[d] = call[d]
    BY <1>2 DEF Begin, Transition, Read, SetTaskStatus, IncrementTaskAttempts,
       LedgerTransition, DBError, Return
  <2>2. call'[c].task # t
    BY <1>0, <1>1, <1>2, MachineAssumption DEF Begin, Transition, Read, SetTaskStatus,
       IncrementTaskAttempts, LedgerTransition, DBError, Return, Idle, Written
  <2>3. ledger'[t] = ledger[t]
    BY <1>1, <1>2 DEF Begin, Transition, Read, SetTaskStatus, IncrementTaskAttempts,
       LedgerTransition, DBError
  <2> QED BY <1>1, <2>1, <2>2, <2>3
<1>3. ASSUME Crash \/ UNCHANGED vars \/ \E u \in Tasks : Create(u)
      PROVE  UNCHANGED ledger /\ \A c \in Callers : call'[c].task # t
  BY <1>1, <1>3, MachineAssumption DEF Crash, Create, Idle, vars
<1> QED BY <1>1, <1>2, <1>3 DEF Next

\* The books are balanced after every step.
LEMMA BalanceStep == BooksInv /\ [Next]_vars => BooksLagByCalls'
<1> SUFFICES ASSUME BooksInv, [Next]_vars, NEW t \in Tasks, t \notin lossy'
             PROVE  /\ status'[t] # "absent" => \A s \in Statuses \ {"absent"} :
                         Into(t, s)' + (IF s = "intent" THEN 1 ELSE 0)
                           = OutOf(t, s)' + (IF s = status'[t] THEN 1 ELSE 0)
                    /\ Starts(t)' = Into(t, "executing")'
  BY DEF BooksLagByCalls, LedgerExplainsStatus, AttemptsCountStarts, Starts, Starting
<1>0. IInv /\ IInv' /\ AbsentUntouched /\ "executing" \in Statuses
  BY NextInv DEF BooksInv, Statuses
<1>1. t \notin lossy
  BY <1>0, BooksStep
<1>2. /\ status[t] # "absent" => \A s \in Statuses \ {"absent"} :
            Into(t, s) + (IF s = "intent" THEN 1 ELSE 0)
              = OutOf(t, s) + (IF s = status[t] THEN 1 ELSE 0)
      /\ Starts(t) = Into(t, "executing")
  BY <1>1 DEF BooksInv, BooksLagByCalls, LedgerExplainsStatus, AttemptsCountStarts, Starts,
     Starting
<1>3. CASE Still(t)
           /\ (status'[t] = status[t] \/ (status[t] = "absent" /\ status'[t] = "intent"))
  <2>1. \A s \in Statuses : Into(t, s)' = Into(t, s) /\ OutOf(t, s)' = OutOf(t, s)
    BY <1>3, StillSums
  <2>2. Starts(t)' = Into(t, "executing")'
    BY <1>0, <1>2, <1>3, <2>1 DEF Still
  <2>3. CASE status[t] = "absent" /\ status'[t] = "intent"
    <3>1. \A s \in Statuses : Into(t, s) = 0 /\ OutOf(t, s) = 0
      BY <1>0, <2>3, AbsentSums
    <3> QED BY <2>1, <2>2, <2>3, <3>1
  <2> QED BY <1>2, <1>3, <2>1, <2>2, <2>3
<1>4. ASSUME NEW f \in Statuses, NEW g \in Statuses, status[t] = f, status'[t] = g,
             IsLegalTransition(f, g), Moved(t, f, g)
      PROVE  /\ \A s \in Statuses \ {"absent"} :
                   Into(t, s)' + (IF s = "intent" THEN 1 ELSE 0)
                     = OutOf(t, s)' + (IF s = g THEN 1 ELSE 0)
             /\ Starts(t)' = Into(t, "executing")'
  <2>1. \A s \in Statuses : /\ Into(t, s) \in Nat /\ OutOf(t, s) \in Nat
                            /\ Into(t, s)' = Into(t, s) + (IF s = g THEN 1 ELSE 0)
                            /\ OutOf(t, s)' = OutOf(t, s) + (IF s = f THEN 1 ELSE 0)
    BY <1>0, <1>4, MovedSums
  <2>2. f # "absent" /\ g # f
    BY <1>4 DEF IsLegalTransition
  <2>3. \A s \in Statuses \ {"absent"} :
            Into(t, s) + (IF s = "intent" THEN 1 ELSE 0)
              = OutOf(t, s) + (IF s = f THEN 1 ELSE 0)
    BY <1>2, <1>4, <2>2
  <2>4. Starts(t)' = Into(t, "executing")'
    BY <1>0, <1>2, <1>4, <2>1 DEF Moved
  <2>5. ASSUME NEW s \in Statuses \ {"absent"}
        PROVE  Into(t, s)' + (IF s = "intent" THEN 1 ELSE 0)
                 = OutOf(t, s)' + (IF s = g THEN 1 ELSE 0)
    BY <2>1, <2>2, <2>3, <2>5
  <2> QED BY <2>4, <2>5
<1> QED BY <1>0, <1>3, <1>4, BooksStep

\* At the start there is nothing to balance.
LEMMA InitBooks == Init => BooksInv
<1> SUFFICES ASSUME Init PROVE BooksInv
  OBVIOUS
<1>1. IInv /\ AbsentUntouched
  BY InitInv, MachineAssumption DEF Init, AbsentUntouched, Idle
<1>2. ASSUME NEW t \in Tasks PROVE Starts(t) = Into(t, "executing")
  <2>1. Into(t, "executing") = 0
    BY <1>1, AbsentSums DEF Init, Statuses
  <2>2. Starting(t) = {} /\ attempts[t] = 0
    BY DEF Init, Starting, Pending, Unfinished, Idle
  <2> QED BY <2>1, <2>2, FS_EmptySet DEF Starts
<1>3. LedgerExplainsStatus
  BY DEF Init, LedgerExplainsStatus
<1> QED
  BY <1>1, <1>2, <1>3 DEF BooksInv, BooksLagByCalls, AttemptsCountStarts, Starts, Starting

\* For any number of callers: read as a walk, the events of a task that no
\* error cut short lead from its creation to its status, and tasks.attempts
\* counts its starts, but for what calls under way have still to write.
THEOREM BooksAreBalanced == Spec => []BooksLagByCalls
<1>1. BooksInv /\ [Next]_vars => BooksInv'
  BY NextInv, AbsentStep, BalanceStep DEF BooksInv
<1>2. BooksInv => BooksLagByCalls
  BY DEF BooksInv
<1> QED
  BY <1>1, <1>2, InitBooks, PTL DEF Spec

-----------------------------------------------------------------------------
(***************************************************************************)
(* The supervisor of the model's process, for any number of callers, exits *)
(* and restarts.  As long as no health answer is recorded for a child that *)
(* is gone, whatever lives is the supervisor's command, and whoever is     *)
(* about to restart one watched that command: a call that finds no command *)
(* and a restart never both start one.                                     *)
(***************************************************************************)
ModelSafety == ModelInit /\ [][ModelNext]_modelVars

ChildOrNone == Children \cup {NoChild}
KillRec == [pc : {"idle", "stop", "kill", "wait", "clear", "over"}, saw : ChildOrNone]

\* Children are numbered as they are started, each with its watcher.
ModelTypes ==
    /\ child \in [Children -> {"none", "live", "dead"}]
    /\ watch \in [Children -> {"none", "wait", "count", "schedule", "sleep", "done"}]
    /\ supState \in {"down", "starting", "ok", "failed"}
    /\ cmd \in ChildOrNone
    /\ stopped \in BOOLEAN
    /\ backoff \in 0 .. MaxBackoffStep
    /\ sleep \in [Children -> 0 .. MaxBackoffStep]
    /\ monitor \in KillRec /\ shutdown \in KillRec
    /\ \A c \in Children : child[c] = "none" <=> watch[c] = "none"
    /\ \A c \in Children : child[c] = "live" => watch[c] = "wait"
    /\ cmd # NoChild => child[cmd] # "none"
    /\ monitor.pc = "kill" => monitor.saw \in Children /\ child[monitor.saw] # "none"
    /\ shutdown.pc = "kill" => shutdown.saw \in Children /\ child[shutdown.saw] # "none"
    /\ \E n \in Nat : Spawned = 1 .. n

\* The count of calls in flight is the number of callers in a call.
Calling == {a \in ModelCallers : user[a].pc = "call"}
CallsCounted ==
    /\ user \in [ModelCallers -> [pc : {"idle", "poll", "healthy", "mark", "acquire", "call"},
                                  saw : ChildOrNone]]
    /\ inFlight = Cardinality(Calling)

\* Nothing lives but the command.
LiveIsCommand == \A c \in Children : child[c] = "live" => cmd = c

\* Whoever counts a crash or waits to restart watched the command.
RestartIsCommands == \A c \in Children : watch[c] \in {"count", "schedule", "sleep"} => cmd = c

\* What is known to be well is watched, and starts from the least backoff.
WellIsWatched == supState = "ok" => cmd \in Children /\ watch[cmd] = "wait" /\ backoff = 0

\* A restart that overlaps with an unload sleeps for less than its grace.
Calm(c) ==
    \/ watch[c] \in {"wait", "count", "schedule"} /\ backoff = 0
    \/ watch[c] = "sleep" /\ sleep[c] = 0
    \/ watch[c] = "done"

\* The unload is about the command; when it clears it nobody restarts it.
UnloadIsCommands ==
    /\ monitor.pc # "idle" => cmd \in Children /\ Calm(cmd)
    /\ monitor.pc \notin {"idle", "stop"} => monitor.saw = cmd /\ stopped
    /\ monitor.pc = "clear" => watch[cmd] = "done"

\* From Stop on there is no restart; what it saw is all there is to kill.
StopIsLast ==
    shutdown.pc # "idle" => \/ lateStart
                            \/ /\ stopped \/ cmd = NoChild
                               /\ cmd \in {shutdown.saw, NoChild}
                               /\ shutdown.pc # "kill" => \A c \in Children : child[c] # "live"

Orderly ==
    LiveIsCommand /\ RestartIsCommands /\ WellIsWatched /\ UnloadIsCommands /\ StopIsLast

ModelInv == ModelTypes /\ CallsCounted /\ (staleOK \/ Orderly)

\* A child that is started is a new one.
LEMMA SpawnIsNew ==
    ASSUME ModelTypes, SpawnLocked, watch' = [watch EXCEPT ![cmd'] = "wait"]
               \/ \E d \in Children : watch[d] = "sleep" /\ watch' = [watch EXCEPT ![d] = "done", ![cmd'] = "wait"]
    PROVE  /\ cmd' \in Children /\ child[cmd'] = "none" /\ watch[cmd'] = "none"
           /\ child' = [child EXCEPT ![cmd'] = "live"]
           /\ supState' = "starting"
           /\ \E n \in Nat : Spawned' = 1 .. n
<1> DEFINE c == Cardinality(Spawned) + 1
<1>1. c \in Children /\ child' = [child EXCEPT ![c] = "live"] /\ cmd' = c /\ supState' = "starting"
  BY DEF SpawnLocked
<1>2. PICK n \in Nat : Spawned = 1 .. n
  BY DEF ModelTypes
<1>3. c = n + 1
  <2>1. Cardinality(1 .. n) = n
    BY FS_Interval
  <2> QED BY <1>2, <2>1
<1>4. n + 1 \in Children /\ child' = [child EXCEPT ![n + 1] = "live"] /\ cmd' = n + 1
  BY <1>1, <1>3
<1>5. child[n + 1] = "none"
  <2>1. n + 1 \notin Spawned
    BY <1>2
  <2> QED BY <1>4, <2>1 DEF Spawned
<1>6. Spawned' = 1 .. (n + 1)
  <2>1. Spawned' = Spawned \cup {n + 1}
    BY <1>4 DEF Spawned, ModelTypes
  <2>2. 1 .. (n + 1) = (1 .. n) \cup {n + 1}
    OBVIOUS
  <2> QED BY <1>2, <2>1, <2>2
<1> QED BY <1>1, <1>4, <1>5, <1>6 DEF ModelTypes

\* The beginning.
LEMMA InitModel == ASSUME ModelInit PROVE ModelInv
<1>0. MaxExits + MaxModelCalls \in Nat /\ NoChild \notin Children
  BY ModelAssumption DEF Children, NoChild
<1>1. Spawned = 1 .. 0
  BY DEF ModelInit, Spawned
<1>2. ModelTypes
  <2>1. \E n \in Nat : Spawned = 1 .. n
    BY <1>1
  <2>2. AtRest \in KillRec /\ AtRest.pc = "idle"
    BY DEF AtRest, KillRec, ChildOrNone
  <2>3. monitor \in KillRec /\ shutdown \in KillRec /\ monitor.pc = "idle" /\ shutdown.pc = "idle"
    BY <2>2 DEF ModelInit
  <2>4. 0 \in 0 .. MaxBackoffStep
    BY ModelAssumption
  <2>5. child = [c \in Children |-> "none"] /\ watch = [c \in Children |-> "none"]
        /\ sleep = [c \in Children |-> 0]
    BY DEF ModelInit
  <2>6. supState = "down" /\ cmd = NoChild /\ stopped = FALSE /\ backoff = 0
    BY DEF ModelInit
  <2> HIDE DEF Children, KillRec
  <2> QED BY <2>1, <2>3, <2>4, <2>5, <2>6 DEF ModelTypes, ChildOrNone
<1>3. Calling = {}
  BY DEF ModelInit, Calling, AtRest
<1>4. CallsCounted
  BY <1>3, FS_EmptySet DEF ModelInit, CallsCounted, AtRest, ChildOrNone
<1>5. Orderly
  BY DEF ModelInit, Orderly, LiveIsCommand, RestartIsCommands, WellIsWatched, UnloadIsCommands,
     StopIsLast, AtRest
<1> QED BY <1>2, <1>4, <1>5 DEF ModelInv

\* A step that changes no child and no watcher.
LEMMA TypesStay ==
    ASSUME ModelTypes, UNCHANGED <<child, watch, sleep>>,
           supState' \in {"down", "starting", "ok", "failed"},
           cmd' \in {cmd, NoChild}, stopped' \in BOOLEAN, backoff' \in 0 .. MaxBackoffStep,
           monitor' \in KillRec, shutdown' \in KillRec,
           monitor'.pc = "kill" => (monitor'.saw = cmd /\ cmd # NoChild) \/ monitor' = monitor,
           shutdown'.pc = "kill" => (shutdown'.saw = cmd /\ cmd # NoChild) \/ shutdown' = shutdown
    PROVE  ModelTypes'
<1>1. NoChild \in ChildOrNone /\ (cmd # NoChild => cmd \in Children)
  BY DEF ModelTypes, ChildOrNone
<1>2. Spawned' = Spawned
  BY DEF Spawned
<1>3. \E n \in Nat : Spawned' = 1 .. n
  BY <1>2 DEF ModelTypes
<1> HIDE DEF Children, KillRec
<1>4. cmd' \in ChildOrNone /\ (cmd' # NoChild => child'[cmd'] # "none")
  BY <1>1 DEF ModelTypes
<1>5. (monitor'.pc = "kill" => monitor'.saw \in Children /\ child'[monitor'.saw] # "none")
      /\ (shutdown'.pc = "kill" => shutdown'.saw \in Children /\ child'[shutdown'.saw] # "none")
  BY <1>1 DEF ModelTypes
<1> QED BY <1>3, <1>4, <1>5 DEF ModelTypes

\* A step of a watcher that starts nothing.
LEMMA WatcherTypes ==
    ASSUME ModelTypes, NEW c \in Children, watch[c] # "none", child[c] # "live",
           NEW at \in {"count", "schedule", "sleep", "done"},
           watch' = [watch EXCEPT ![c] = at],
           UNCHANGED <<child, cmd, stopped, monitor, shutdown>>,
           sleep' \in [Children -> 0 .. MaxBackoffStep],
           supState' \in {"down", "starting", "ok", "failed"}, backoff' \in 0 .. MaxBackoffStep
    PROVE  ModelTypes'
<1>1. Spawned' = Spawned
  BY DEF Spawned
<1>2. \E n \in Nat : Spawned' = 1 .. n
  BY <1>1 DEF ModelTypes
<1> HIDE DEF Children, KillRec
<1>3. watch' \in [Children -> {"none", "wait", "count", "schedule", "sleep", "done"}]
      /\ watch'[c] = at /\ \A d \in Children : d # c => watch'[d] = watch[d]
  BY DEF ModelTypes
<1> QED BY <1>2, <1>3 DEF ModelTypes

\* A child that ends, by itself or killed.
LEMMA DeadTypes ==
    ASSUME ModelTypes, NEW c \in Children, child[c] # "none", child' = [child EXCEPT ![c] = "dead"],
           UNCHANGED <<watch, supState, cmd, stopped, backoff, sleep>>,
           monitor' \in KillRec, shutdown' \in KillRec,
           monitor'.pc = "kill" => monitor' = monitor, shutdown'.pc = "kill" => shutdown' = shutdown
    PROVE  ModelTypes'
<1>1. child' \in [Children -> {"none", "live", "dead"}] /\ child'[c] = "dead"
      /\ \A d \in Children : d # c => child'[d] = child[d]
  BY DEF ModelTypes
<1>2. Spawned' = Spawned
  BY <1>1 DEF Spawned, ModelTypes
<1>3. \E n \in Nat : Spawned' = 1 .. n
  BY <1>2 DEF ModelTypes
<1> HIDE DEF Children, KillRec
<1>4. cmd \in Children \/ cmd = NoChild
  BY DEF ModelTypes, ChildOrNone
<1>5. \A d \in Children : (child'[d] = "none" <=> child[d] = "none") /\ (child'[d] = "live" => child[d] = "live")
  BY <1>1
<1>6. cmd' # NoChild => child'[cmd'] # "none"
  BY <1>4, <1>5 DEF ModelTypes
<1>7. (monitor'.pc = "kill" => monitor'.saw \in Children /\ child'[monitor'.saw] # "none")
      /\ (shutdown'.pc = "kill" => shutdown'.saw \in Children /\ child'[shutdown'.saw] # "none")
  BY <1>5 DEF ModelTypes
<1> QED BY <1>1, <1>3, <1>5, <1>6, <1>7 DEF ModelTypes

\* A child that starts, called for or in place of one that crashed.
LEMMA SpawnTypes ==
    ASSUME ModelTypes, SpawnLocked, UNCHANGED <<stopped, backoff, sleep, monitor, shutdown>>,
           \/ watch' = [watch EXCEPT ![cmd'] = "wait"]
           \/ \E d \in Children : watch[d] = "sleep" /\ watch' = [watch EXCEPT ![d] = "done", ![cmd'] = "wait"]
    PROVE  ModelTypes'
<1>1. /\ cmd' \in Children /\ child[cmd'] = "none" /\ watch[cmd'] = "none"
      /\ child' = [child EXCEPT ![cmd'] = "live"]
      /\ supState' = "starting"
      /\ \E n \in Nat : Spawned' = 1 .. n
  BY SpawnIsNew
<1>2. PICK c \in Children : c = cmd'
  BY <1>1
<1> HIDE DEF Children, KillRec
<1>3. child' \in [Children -> {"none", "live", "dead"}] /\ child'[c] = "live"
      /\ \A d \in Children : d # c => child'[d] = child[d]
  BY <1>1, <1>2 DEF ModelTypes
<1>4. /\ watch' \in [Children -> {"none", "wait", "count", "schedule", "sleep", "done"}] /\ watch'[c] = "wait"
      /\ \A d \in Children : d # c => watch'[d] = watch[d] \/ (watch[d] = "sleep" /\ watch'[d] = "done")
  <2>1. CASE watch' = [watch EXCEPT ![c] = "wait"]
    BY <2>1 DEF ModelTypes
  <2>2. ASSUME NEW d \in Children, watch[d] = "sleep", watch' = [watch EXCEPT ![d] = "done", ![c] = "wait"]
        PROVE  /\ watch' \in [Children -> {"none", "wait", "count", "schedule", "sleep", "done"}]
               /\ watch'[c] = "wait"
               /\ \A e \in Children : e # c => watch'[e] = watch[e] \/ (watch[e] = "sleep" /\ watch'[e] = "done")
    BY <2>2 DEF ModelTypes
  <2> QED BY <1>2, <2>1, <2>2
<1>5. \A d \in Children : (child'[d] = "none" <=> watch'[d] = "none") /\ (child'[d] = "live" => watch'[d] = "wait")
  <2>1. watch'[c] = "wait" /\ child'[c] = "live"
    BY <1>3, <1>4
  <2>2. ASSUME NEW d \in Children, d # c
        PROVE  (child'[d] = "none" <=> watch'[d] = "none") /\ (child'[d] = "live" => watch'[d] = "wait")
    BY <1>3, <1>4, <2>2 DEF ModelTypes
  <2> QED BY <2>1, <2>2
<1>6. (monitor'.pc = "kill" => monitor'.saw \in Children /\ child'[monitor'.saw] # "none")
      /\ (shutdown'.pc = "kill" => shutdown'.saw \in Children /\ child'[shutdown'.saw] # "none")
  BY <1>3 DEF ModelTypes
<1>7. cmd' \in ChildOrNone /\ (cmd' # NoChild => child'[cmd'] # "none")
  BY <1>2, <1>3 DEF ChildOrNone
<1> QED BY <1>1, <1>3, <1>4, <1>5, <1>6, <1>7 DEF ModelTypes

ServerInv == ModelTypes /\ (staleOK \/ Orderly)

\* A step beside the supervisor.
LEMMA ServerStays ==
    ASSUME ServerInv, UNCHANGED <<supVars, killVars>>
    PROVE  ServerInv'
<1>1. UNCHANGED <<child, watch, supState, cmd, stopped, backoff, sleep, lateStart, staleOK, monitor, shutdown>>
  BY DEF supVars, killVars
<1>2. Spawned' = Spawned
  BY <1>1 DEF Spawned
<1>3. ModelTypes'
  BY <1>1, <1>2 DEF ServerInv, ModelTypes
<1>4. Orderly => Orderly'
  BY <1>1 DEF Orderly, LiveIsCommand, RestartIsCommands, WellIsWatched, UnloadIsCommands, StopIsLast, Calm
<1> QED BY <1>1, <1>3, <1>4 DEF ServerInv

\* The child exits by itself.
LEMMA ExitKeeps == ASSUME ServerInv, NEW c \in Children, ChildExits(c) PROVE ServerInv'
<1>0. /\ child[c] = "live" /\ child' = [child EXCEPT ![c] = "dead"]
      /\ UNCHANGED <<watch, supState, cmd, stopped, backoff, sleep, lateStart, staleOK, monitor, shutdown>>
  BY DEF ChildExits, killVars
<1>1. ModelTypes'
  BY <1>0, DeadTypes DEF ServerInv, ModelTypes
<1>2. ASSUME Orderly PROVE Orderly'
  <2>1. \A d \in Children : child'[d] = "live" => child[d] = "live"
    BY <1>0 DEF ServerInv, ModelTypes
  <2>2. \A d \in Children : child[d] # "live" => child'[d] # "live"
    BY <2>1
  <2>3. LiveIsCommand' /\ StopIsLast'
    BY <1>0, <1>2, <2>1, <2>2 DEF Orderly, LiveIsCommand, StopIsLast
  <2>4. RestartIsCommands' /\ WellIsWatched' /\ UnloadIsCommands'
    BY <1>0, <1>2 DEF Orderly, RestartIsCommands, WellIsWatched, UnloadIsCommands, Calm
  <2> QED BY <2>3, <2>4 DEF Orderly
<1> QED BY <1>0, <1>1, <1>2 DEF ServerInv

\* A watcher notices the exit; what is not its command is none of its business.
LEMMA NoticeKeeps == ASSUME ServerInv, NEW c \in Children, NoticeExit(c) PROVE ServerInv'
<1>0. PICK at \in {"count", "done"} :
        /\ at = (IF cmd = c /\ ~ stopped THEN "count" ELSE "done")
        /\ watch[c] = "wait" /\ child[c] = "dead" /\ watch' = [watch EXCEPT ![c] = at]
        /\ supState' = (IF cmd = c THEN "down" ELSE supState)
        /\ UNCHANGED <<child, cmd, stopped, backoff, sleep, lateStart, staleOK, monitor, shutdown>>
  BY DEF NoticeExit, killVars
<1>1. ModelTypes'
  BY <1>0, WatcherTypes DEF ServerInv, ModelTypes
<1>2. watch'[c] = at /\ \A d \in Children : d # c => watch'[d] = watch[d]
  BY <1>0 DEF ServerInv, ModelTypes
<1>3. ASSUME Orderly PROVE Orderly'
  <2>1. LiveIsCommand' /\ StopIsLast'
    BY <1>0, <1>3 DEF Orderly, LiveIsCommand, StopIsLast
  <2>2. RestartIsCommands'
    BY <1>0, <1>2, <1>3 DEF Orderly, RestartIsCommands
  <2>3. WellIsWatched'
    BY <1>0, <1>2, <1>3 DEF Orderly, WellIsWatched
  <2>4. UnloadIsCommands'
    BY <1>0, <1>2, <1>3 DEF Orderly, UnloadIsCommands, Calm
  <2> QED BY <2>1, <2>2, <2>3, <2>4 DEF Orderly
<1> QED BY <1>0, <1>1, <1>3 DEF ServerInv

\* It counts the crash,
LEMMA CountKeeps == ASSUME ServerInv, NEW c \in Children, CountCrash(c) PROVE ServerInv'
<1>0. PICK at \in {"schedule", "done"} :
        /\ watch[c] = "count" /\ watch' = [watch EXCEPT ![c] = at]
        /\ supState' \in {supState, "failed"}
        /\ UNCHANGED <<child, cmd, stopped, backoff, sleep, lateStart, staleOK, monitor, shutdown>>
  BY DEF CountCrash, StateAfter, killVars
<1>1. child[c] # "live"
  BY <1>0 DEF ServerInv, ModelTypes
<1>2. ModelTypes'
  BY <1>0, <1>1, WatcherTypes DEF ServerInv, ModelTypes
<1>3. watch'[c] = at /\ \A d \in Children : d # c => watch'[d] = watch[d]
  BY <1>0 DEF ServerInv, ModelTypes
<1>4. ASSUME Orderly PROVE Orderly'
  <2>0. cmd = c
    BY <1>0, <1>4 DEF Orderly, RestartIsCommands
  <2>1. LiveIsCommand' /\ StopIsLast'
    BY <1>0, <1>4 DEF Orderly, LiveIsCommand, StopIsLast
  <2>2. RestartIsCommands'
    BY <1>0, <1>3, <1>4, <2>0 DEF Orderly, RestartIsCommands
  <2>3. WellIsWatched'
    BY <1>0, <1>4, <2>0 DEF Orderly, WellIsWatched
  <2>4. UnloadIsCommands'
    BY <1>0, <1>3, <1>4 DEF Orderly, UnloadIsCommands, Calm
  <2> QED BY <2>1, <2>2, <2>3, <2>4 DEF Orderly
<1> QED BY <1>0, <1>2, <1>4 DEF ServerInv

\* and sleeps for the backoff, which doubles up to its cap.
LEMMA ScheduleKeeps == ASSUME ServerInv, NEW c \in Children, ScheduleRestart(c) PROVE ServerInv'
<1>0. /\ watch[c] = "schedule" /\ watch' = [watch EXCEPT ![c] = "sleep"]
      /\ sleep' = [sleep EXCEPT ![c] = backoff] /\ backoff' = Doubled(backoff)
      /\ UNCHANGED <<child, supState, cmd, stopped, lateStart, staleOK, monitor, shutdown>>
  BY DEF ScheduleRestart, killVars
<1>1. child[c] # "live"
  BY <1>0 DEF ServerInv, ModelTypes
<1>2. sleep' \in [Children -> 0 .. MaxBackoffStep] /\ sleep'[c] = backoff
  BY <1>0 DEF ServerInv, ModelTypes
<1>3. backoff' \in 0 .. MaxBackoffStep
  BY <1>0, ModelAssumption DEF ServerInv, ModelTypes, Doubled
<1>4. ModelTypes'
  BY <1>0, <1>1, <1>2, <1>3, WatcherTypes DEF ServerInv, ModelTypes
<1>5. watch'[c] = "sleep" /\ \A d \in Children : d # c => watch'[d] = watch[d]
  BY <1>0 DEF ServerInv, ModelTypes
<1>6. ASSUME Orderly PROVE Orderly'
  <2>0. cmd = c
    BY <1>0, <1>6 DEF Orderly, RestartIsCommands
  <2>1. LiveIsCommand' /\ StopIsLast'
    BY <1>0, <1>6 DEF Orderly, LiveIsCommand, StopIsLast
  <2>2. RestartIsCommands'
    BY <1>0, <1>5, <1>6, <2>0 DEF Orderly, RestartIsCommands
  <2>3. WellIsWatched'
    BY <1>0, <1>6, <2>0 DEF Orderly, WellIsWatched
  <2>4. UnloadIsCommands'
    BY <1>0, <1>2, <1>5, <1>6, <2>0 DEF Orderly, UnloadIsCommands, Calm
  <2> QED BY <2>1, <2>2, <2>3, <2>4 DEF Orderly
<1> QED BY <1>0, <1>4, <1>6 DEF ServerInv

\* After its sleep it starts the next child, unless the supervisor was stopped.
LEMMA RestartsKeep == ASSUME ServerInv, NEW c \in Children, Restart(c) PROVE ServerInv'
<1>0. watch[c] = "sleep" /\ monitor.pc # "stop" /\ child[c] # "live"
      /\ UNCHANGED <<stopped, backoff, sleep, lateStart, staleOK, monitor, shutdown>>
  BY DEF Restart, killVars, ServerInv, ModelTypes
<1>1. CASE watch' = [watch EXCEPT ![c] = "done"] /\ UNCHANGED <<child, supState, cmd>>
  <2>1. ModelTypes'
    BY <1>0, <1>1, WatcherTypes DEF ServerInv, ModelTypes
  <2>2. watch'[c] = "done" /\ \A d \in Children : d # c => watch'[d] = watch[d]
    BY <1>1 DEF ServerInv, ModelTypes
  <2>3. ASSUME Orderly PROVE Orderly'
    <3>1. LiveIsCommand' /\ StopIsLast'
      BY <1>0, <1>1, <2>3 DEF Orderly, LiveIsCommand, StopIsLast
    <3>2. RestartIsCommands'
      BY <1>1, <2>2, <2>3 DEF Orderly, RestartIsCommands
    <3>3. WellIsWatched'
      BY <1>0, <1>1, <2>2, <2>3 DEF Orderly, WellIsWatched
    <3>4. UnloadIsCommands'
      BY <1>0, <1>1, <2>2, <2>3 DEF Orderly, UnloadIsCommands, Calm
    <3> QED BY <3>1, <3>2, <3>3, <3>4 DEF Orderly
  <2> QED BY <1>0, <2>1, <2>3 DEF ServerInv
<1>2. CASE ~ stopped /\ SpawnLocked /\ watch' = [watch EXCEPT ![c] = "done", ![cmd'] = "wait"]
  <2>0. \E d \in Children : watch[d] = "sleep" /\ watch' = [watch EXCEPT ![d] = "done", ![cmd'] = "wait"]
    BY <1>0, <1>2
  <2>1. ModelTypes'
    BY <1>0, <1>2, <2>0, SpawnTypes DEF ServerInv
  <2>2. PICK n \in Children : /\ cmd' = n /\ watch[n] = "none" /\ child' = [child EXCEPT ![n] = "live"]
                              /\ supState' = "starting"
    BY <1>2, <2>0, SpawnIsNew DEF ServerInv
  <2>3. n # c /\ watch'[c] = "done" /\ watch'[n] = "wait"
        /\ \A d \in Children : d # c /\ d # n => watch'[d] = watch[d]
    BY <1>0, <1>2, <2>2 DEF ServerInv, ModelTypes
  <2>4. \A d \in Children : d # n => child'[d] = child[d]
    BY <2>2 DEF ServerInv, ModelTypes
  <2>5. ASSUME Orderly PROVE Orderly'
    <3>0. cmd = c /\ monitor.pc = "idle"
      <4>1. cmd = c
        BY <1>0, <2>5 DEF Orderly, RestartIsCommands
      <4>2. monitor.pc \in {"idle", "stop"}
        BY <1>2, <2>5 DEF Orderly, UnloadIsCommands
      <4> QED BY <1>0, <4>1, <4>2
    <3>1. LiveIsCommand'
      BY <1>0, <2>2, <2>4, <2>5, <3>0 DEF Orderly, LiveIsCommand
    <3>2. RestartIsCommands'
      BY <2>3, <2>5, <3>0 DEF Orderly, RestartIsCommands
    <3>3. WellIsWatched' /\ UnloadIsCommands'
      BY <1>0, <2>2, <3>0 DEF WellIsWatched, UnloadIsCommands
    <3>4. StopIsLast'
      <4>1. cmd # NoChild
        BY <3>0, ModelAssumption DEF Children, NoChild
      <4> QED BY <1>0, <1>2, <2>5, <4>1 DEF Orderly, StopIsLast
    <3> QED BY <3>1, <3>2, <3>3, <3>4 DEF Orderly
  <2> QED BY <1>0, <2>1, <2>5 DEF ServerInv
<1> QED BY <1>1, <1>2 DEF Restart, MayRestart

\* A call finds no command and starts a child, or goes on with what is there.
LEMMA EnsureKeeps == ASSUME ServerInv, NEW a \in ModelCallers, EnsureRunning(a) PROVE ServerInv'
<1>0. UNCHANGED <<stopped, backoff, crashCount, sleep, startFailed, staleOK, monitor, shutdown>>
  BY DEF EnsureRunning, killVars
<1>1. CASE UNCHANGED <<child, watch, supState, cmd, lateStart>>
  BY <1>0, <1>1, ServerStays DEF supVars, killVars
<1>2. CASE /\ cmd = NoChild /\ SpawnLocked /\ watch' = [watch EXCEPT ![cmd'] = "wait"]
           /\ lateStart' = (lateStart \/ shutdown.pc # "idle")
  <2>1. ModelTypes'
    BY <1>0, <1>2, SpawnTypes DEF ServerInv
  <2>2. PICK n \in Children : /\ cmd' = n /\ watch[n] = "none" /\ child' = [child EXCEPT ![n] = "live"]
                              /\ supState' = "starting"
    BY <1>2, SpawnIsNew DEF ServerInv
  <2>3. watch'[n] = "wait" /\ \A d \in Children : d # n => watch'[d] = watch[d]
    BY <1>2, <2>2 DEF ServerInv, ModelTypes
  <2>4. \A d \in Children : d # n => child'[d] = child[d]
    BY <2>2 DEF ServerInv, ModelTypes
  <2>5. NoChild \notin Children
    BY ModelAssumption DEF Children, NoChild
  <2>6. ASSUME Orderly PROVE Orderly'
    <3>1. LiveIsCommand'
      BY <1>2, <2>2, <2>4, <2>5, <2>6 DEF Orderly, LiveIsCommand
    <3>2. RestartIsCommands'
      BY <1>2, <2>3, <2>5, <2>6 DEF Orderly, RestartIsCommands
    <3>3. WellIsWatched' /\ UnloadIsCommands'
      BY <1>0, <1>2, <2>2, <2>5, <2>6 DEF Orderly, WellIsWatched, UnloadIsCommands
    <3>4. StopIsLast'
      BY <1>0, <1>2 DEF StopIsLast
    <3> QED BY <3>1, <3>2, <3>3, <3>4 DEF Orderly
  <2> QED BY <1>0, <2>1, <2>6 DEF ServerInv
<1> QED BY <1>1, <1>2 DEF EnsureRunning, NeedsSpawn

\* A health answer, recorded while the command lives or excused from then on.
LEMMA SetOKKeeps == ASSUME ServerInv, NEW a \in ModelCallers, SetOK(a) PROVE ServerInv'
<1>0. /\ supState' = "ok" /\ backoff' = 0 /\ staleOK' = (staleOK \/ cmd \notin LiveChildren)
      /\ UNCHANGED <<child, watch, cmd, stopped, sleep, lateStart, monitor, shutdown>>
  BY DEF SetOK, killVars
<1>1. ModelTypes'
  <2>1. 0 \in 0 .. MaxBackoffStep
    BY ModelAssumption
  <2>2. /\ cmd' \in {cmd, NoChild} /\ stopped' \in BOOLEAN /\ monitor' \in KillRec /\ shutdown' \in KillRec
    BY <1>0 DEF ServerInv, ModelTypes
  <2> QED BY <1>0, <2>1, <2>2, TypesStay DEF ServerInv
<1>2. ASSUME Orderly, cmd \in LiveChildren PROVE Orderly'
  <2>1. cmd \in Children /\ watch[cmd] = "wait"
    BY <1>2 DEF LiveChildren, ServerInv, ModelTypes
  <2>2. LiveIsCommand' /\ RestartIsCommands' /\ WellIsWatched' /\ StopIsLast'
    BY <1>0, <1>2, <2>1 DEF Orderly, LiveIsCommand, RestartIsCommands, WellIsWatched, StopIsLast
  <2>3. UnloadIsCommands'
    BY <1>0, <1>2, <2>1 DEF Orderly, UnloadIsCommands, Calm
  <2> QED BY <2>2, <2>3 DEF Orderly
<1> QED BY <1>0, <1>1, <1>2 DEF ServerInv

\* The unload begins with a child that is well,
LEMMA CheckIdleKeeps == ASSUME ServerInv, CheckIdle PROVE ServerInv'
<1>0. /\ monitor.pc = "idle" /\ supState = "ok" /\ shutdown.pc = "idle"
      /\ monitor' = [monitor EXCEPT !.pc = "stop"]
      /\ UNCHANGED <<child, watch, supState, cmd, stopped, backoff, sleep, lateStart, staleOK, shutdown>>
  BY DEF CheckIdle, supVars
<1>1. monitor' \in KillRec /\ monitor'.pc = "stop"
  BY <1>0 DEF ServerInv, ModelTypes, KillRec
<1>2. ModelTypes'
  BY <1>0, <1>1, TypesStay DEF ServerInv, ModelTypes
<1>3. ASSUME Orderly PROVE Orderly'
  <2>1. LiveIsCommand' /\ RestartIsCommands' /\ WellIsWatched' /\ StopIsLast'
    BY <1>0, <1>3 DEF Orderly, LiveIsCommand, RestartIsCommands, WellIsWatched, StopIsLast
  <2>2. UnloadIsCommands'
    BY <1>0, <1>1, <1>3 DEF Orderly, WellIsWatched, UnloadIsCommands, Calm
  <2> QED BY <2>1, <2>2 DEF Orderly
<1> QED BY <1>0, <1>2, <1>3 DEF ServerInv

\* stops it first, so that nothing restarts it,
LEMMA StopForIdleKeeps == ASSUME ServerInv, StopForIdle PROVE ServerInv'
<1>0. /\ monitor.pc = "stop"
      /\ UNCHANGED <<child, watch, cmd, backoff, sleep, lateStart, staleOK, shutdown>>
  BY DEF StopForIdle
<1>1. CASE cmd = NoChild
  <2>1. monitor' = AtRest /\ UNCHANGED <<supState, stopped>>
    BY <1>1 DEF StopForIdle
  <2>2. monitor' \in KillRec /\ monitor'.pc = "idle"
    BY <2>1 DEF AtRest, KillRec, ChildOrNone
  <2>3. ModelTypes'
    BY <1>0, <2>1, <2>2, TypesStay DEF ServerInv, ModelTypes
  <2>4. ASSUME Orderly PROVE Orderly'
    BY <1>0, <2>1, <2>2, <2>4 DEF Orderly, LiveIsCommand, RestartIsCommands, WellIsWatched, StopIsLast,
       UnloadIsCommands
  <2> QED BY <1>0, <2>3, <2>4 DEF ServerInv
<1>2. CASE cmd # NoChild
  <2>1. monitor' = [pc |-> "kill", saw |-> cmd] /\ stopped' = TRUE /\ supState' = "down"
    BY <1>2 DEF StopForIdle
  <2>2. monitor' \in KillRec /\ monitor'.pc = "kill" /\ monitor'.saw = cmd
    BY <2>1 DEF KillRec, ServerInv, ModelTypes
  <2>3. ModelTypes'
    BY <1>0, <1>2, <2>1, <2>2, TypesStay DEF ServerInv, ModelTypes
  <2>4. ASSUME Orderly PROVE Orderly'
    <3>1. LiveIsCommand' /\ RestartIsCommands' /\ WellIsWatched' /\ StopIsLast'
      BY <1>0, <2>1, <2>4 DEF Orderly, LiveIsCommand, RestartIsCommands, WellIsWatched, StopIsLast
    <3>2. UnloadIsCommands'
      BY <1>0, <2>1, <2>2, <2>4 DEF Orderly, UnloadIsCommands, Calm
    <3> QED BY <3>1, <3>2 DEF Orderly
  <2> QED BY <1>0, <2>3, <2>4 DEF ServerInv
<1> QED BY <1>1, <1>2

\* kills it,
LEMMA IdleKillKeeps == ASSUME ServerInv, IdleKill PROVE ServerInv'
<1>0. /\ monitor.pc = "kill" /\ monitor' = [monitor EXCEPT !.pc = "wait"]
      /\ UNCHANGED <<watch, supState, cmd, stopped, backoff, sleep, lateStart, staleOK, shutdown>>
  BY DEF IdleKill
<1>1. PICK c \in Children : c = monitor.saw /\ child[c] # "none" /\ child' = [child EXCEPT ![c] = "dead"]
  BY <1>0 DEF IdleKill, Killed, ServerInv, ModelTypes
<1>2. monitor' \in KillRec /\ monitor'.pc = "wait" /\ monitor'.saw = monitor.saw
  BY <1>0 DEF ServerInv, ModelTypes, KillRec
<1>3. ModelTypes'
  BY <1>0, <1>1, <1>2, DeadTypes DEF ServerInv, ModelTypes
<1>4. ASSUME Orderly PROVE Orderly'
  <2>1. \A d \in Children : child'[d] = "live" => child[d] = "live"
    BY <1>1 DEF ServerInv, ModelTypes
  <2>2. \A d \in Children : child[d] # "live" => child'[d] # "live"
    BY <2>1
  <2>3. LiveIsCommand' /\ StopIsLast'
    BY <1>0, <1>4, <2>1, <2>2 DEF Orderly, LiveIsCommand, StopIsLast
  <2>4. RestartIsCommands' /\ WellIsWatched' /\ UnloadIsCommands'
    BY <1>0, <1>2, <1>4 DEF Orderly, RestartIsCommands, WellIsWatched, UnloadIsCommands, Calm
  <2> QED BY <2>3, <2>4 DEF Orderly
<1> QED BY <1>0, <1>3, <1>4 DEF ServerInv

\* waits for its watcher, which sleeps too short to outlast the grace,
LEMMA IdleWaitedKeeps == ASSUME ServerInv, IdleWaited PROVE ServerInv'
<1>0. /\ monitor.pc = "wait" /\ monitor' = [monitor EXCEPT !.pc = "clear"] /\ WaitOver(monitor.saw)
      /\ UNCHANGED <<child, watch, supState, cmd, stopped, backoff, sleep, lateStart, staleOK, shutdown>>
  BY DEF IdleWaited, supVars
<1>1. monitor' \in KillRec /\ monitor'.pc = "clear" /\ monitor'.saw = monitor.saw
  BY <1>0 DEF ServerInv, ModelTypes, KillRec
<1>2. ModelTypes'
  BY <1>0, <1>1, TypesStay DEF ServerInv, ModelTypes
<1>3. ASSUME Orderly PROVE Orderly'
  <2>1. LiveIsCommand' /\ RestartIsCommands' /\ WellIsWatched' /\ StopIsLast'
    BY <1>0, <1>3 DEF Orderly, LiveIsCommand, RestartIsCommands, WellIsWatched, StopIsLast
  <2>2. cmd \in Children /\ Calm(cmd) /\ monitor.saw = cmd /\ stopped
    BY <1>0, <1>3 DEF Orderly, UnloadIsCommands
  <2>3. watch[cmd] = "done"
    BY <1>0, <2>2, ModelAssumption DEF WaitOver, Calm
  <2>4. UnloadIsCommands'
    BY <1>0, <1>1, <2>2, <2>3 DEF UnloadIsCommands, Calm
  <2> QED BY <2>1, <2>4 DEF Orderly
<1> QED BY <1>0, <1>2, <1>3 DEF ServerInv

\* and forgets it.
LEMMA ClearKeeps == ASSUME ServerInv, ClearCmd PROVE ServerInv'
<1>0. /\ monitor.pc = "clear" /\ monitor' = AtRest
      /\ IF cmd = monitor.saw
           THEN stopped' = FALSE /\ cmd' = NoChild /\ backoff' = 0
           ELSE UNCHANGED <<stopped, cmd, backoff>>
      /\ UNCHANGED <<child, watch, supState, sleep, lateStart, staleOK, shutdown>>
  BY DEF ClearCmd
<1>1. monitor' \in KillRec /\ monitor'.pc = "idle"
  BY <1>0 DEF AtRest, KillRec, ChildOrNone
<1>2. ModelTypes'
  <2>1. 0 \in 0 .. MaxBackoffStep
    BY ModelAssumption
  <2>2. cmd' \in {cmd, NoChild} /\ stopped' \in BOOLEAN /\ backoff' \in 0 .. MaxBackoffStep
    BY <1>0, <2>1 DEF ServerInv, ModelTypes
  <2>3. supState' \in {"down", "starting", "ok", "failed"} /\ shutdown' \in KillRec
    BY <1>0 DEF ServerInv, ModelTypes
  <2> QED BY <1>0, <1>1, <2>2, <2>3, TypesStay DEF ServerInv
<1>3. ASSUME Orderly PROVE Orderly'
  <2>1. cmd \in Children /\ monitor.saw = cmd /\ watch[cmd] = "done" /\ child[cmd] # "live"
    BY <1>0, <1>3 DEF Orderly, UnloadIsCommands, ServerInv, ModelTypes
  <2>2. stopped' = FALSE /\ cmd' = NoChild /\ backoff' = 0
    BY <1>0, <2>1
  <2>3. LiveIsCommand' /\ RestartIsCommands' /\ WellIsWatched'
    BY <1>0, <1>3, <2>1, <2>2 DEF Orderly, LiveIsCommand, RestartIsCommands, WellIsWatched
  <2>4. UnloadIsCommands'
    BY <1>1 DEF UnloadIsCommands
  <2>5. StopIsLast'
    BY <1>0, <1>3, <2>2 DEF Orderly, StopIsLast
  <2> QED BY <2>3, <2>4, <2>5 DEF Orderly
<1> QED BY <1>0, <1>2, <1>3 DEF ServerInv

\* The shutdown stops it for good,
LEMMA StopKeeps == ASSUME ServerInv, Stop PROVE ServerInv'
<1>0. /\ stopped' = TRUE /\ supState' = "down"
      /\ shutdown' = IF cmd = NoChild THEN [pc |-> "over", saw |-> NoChild]
                                      ELSE [pc |-> "kill", saw |-> cmd]
      /\ UNCHANGED <<child, watch, cmd, backoff, sleep, lateStart, staleOK, monitor>>
  BY DEF Stop
<1>1. shutdown' \in KillRec /\ shutdown'.saw = cmd
      /\ shutdown'.pc = IF cmd = NoChild THEN "over" ELSE "kill"
  BY <1>0 DEF ServerInv, ModelTypes, KillRec, ChildOrNone
<1>2. ModelTypes'
  BY <1>0, <1>1, TypesStay DEF ServerInv, ModelTypes
<1>3. ASSUME Orderly PROVE Orderly'
  <2>1. LiveIsCommand' /\ RestartIsCommands' /\ WellIsWatched' /\ UnloadIsCommands'
    BY <1>0, <1>3 DEF Orderly, LiveIsCommand, RestartIsCommands, WellIsWatched, UnloadIsCommands, Calm
  <2>2. cmd = NoChild => \A c \in Children : child[c] # "live"
    <3>1. NoChild \notin Children
      BY ModelAssumption DEF Children, NoChild
    <3> QED BY <1>3, <3>1 DEF Orderly, LiveIsCommand
  <2>3. StopIsLast'
    BY <1>0, <1>1, <2>2 DEF StopIsLast
  <2> QED BY <2>1, <2>3 DEF Orderly
<1> QED BY <1>0, <1>2, <1>3 DEF ServerInv

\* kills it and waits for its watcher.
LEMMA StopStepKeeps == ASSUME ServerInv, StopStep PROVE ServerInv'
<1>1. CASE StopKill
  <2>0. /\ shutdown.pc = "kill" /\ shutdown' = [shutdown EXCEPT !.pc = "wait"]
        /\ UNCHANGED <<watch, supState, cmd, stopped, backoff, sleep, lateStart, staleOK, monitor>>
    BY <1>1 DEF StopKill
  <2>1. PICK c \in Children : c = shutdown.saw /\ child[c] # "none" /\ child' = [child EXCEPT ![c] = "dead"]
    BY <1>1, <2>0 DEF StopKill, Killed, ServerInv, ModelTypes
  <2>2. shutdown' \in KillRec /\ shutdown'.pc = "wait" /\ shutdown'.saw = shutdown.saw
    BY <2>0 DEF ServerInv, ModelTypes, KillRec
  <2>3. ModelTypes'
    BY <2>0, <2>1, <2>2, DeadTypes DEF ServerInv, ModelTypes
  <2>4. \A d \in Children : child'[d] = "live" => child[d] = "live" /\ d # c
    BY <2>1 DEF ServerInv, ModelTypes
  <2>5. ASSUME Orderly PROVE Orderly'
    <3>1. LiveIsCommand'
      BY <2>0, <2>4, <2>5 DEF Orderly, LiveIsCommand
    <3>2. RestartIsCommands' /\ WellIsWatched' /\ UnloadIsCommands'
      BY <2>0, <2>5 DEF Orderly, RestartIsCommands, WellIsWatched, UnloadIsCommands, Calm
    <3>3. StopIsLast'
      <4>1. NoChild \notin Children
        BY ModelAssumption DEF Children, NoChild
      <4> QED BY <2>0, <2>1, <2>2, <2>4, <2>5, <4>1 DEF Orderly, StopIsLast, LiveIsCommand
    <3> QED BY <3>1, <3>2, <3>3 DEF Orderly
  <2> QED BY <2>0, <2>3, <2>5 DEF ServerInv
<1>2. CASE StopWaited
  <2>0. /\ shutdown.pc = "wait" /\ shutdown' = [shutdown EXCEPT !.pc = "over"]
        /\ UNCHANGED <<child, watch, supState, cmd, stopped, backoff, sleep, lateStart, staleOK, monitor>>
    BY <1>2 DEF StopWaited, supVars
  <2>1. shutdown' \in KillRec /\ shutdown'.pc = "over" /\ shutdown'.saw = shutdown.saw
    BY <2>0 DEF ServerInv, ModelTypes, KillRec
  <2>2. ModelTypes'
    BY <2>0, <2>1, TypesStay DEF ServerInv, ModelTypes
  <2>3. ASSUME Orderly PROVE Orderly'
    BY <2>0, <2>1, <2>3 DEF Orderly, LiveIsCommand, RestartIsCommands, WellIsWatched, UnloadIsCommands,
       Calm, StopIsLast
  <2> QED BY <2>0, <2>2, <2>3 DEF ServerInv
<1> QED BY <1>1, <1>2 DEF StopStep

UserPcs == {"idle", "poll", "healthy", "mark", "acquire", "call"}

\* The callers in a call are finitely many.
LEMMA CallersFew == IsFiniteSet(Calling) /\ Cardinality(Calling) \in 0 .. Cardinality(ModelCallers)
<1>1. Calling \in SUBSET ModelCallers
  BY DEF Calling
<1>2. IsFiniteSet(ModelCallers)
  BY ModelAssumption
<1>3. IsFiniteSet(Calling) /\ Cardinality(Calling) <= Cardinality(ModelCallers)
  BY <1>1, <1>2, FS_Subset
<1>4. Cardinality(Calling) \in Nat /\ Cardinality(ModelCallers) \in Nat
  BY <1>2, <1>3, FS_CardinalityType
<1> QED BY <1>3, <1>4

\* One caller moves, outside its call.
LEMMA CallerMoves ==
    ASSUME CallsCounted, NEW a \in ModelCallers, user[a].pc # "call", inFlight' = inFlight,
           user' \in [ModelCallers -> [pc : UserPcs, saw : ChildOrNone]], user'[a].pc # "call",
           \A b \in ModelCallers : b # a => user'[b] = user[b]
    PROVE  CallsCounted'
<1>1. Calling' = Calling
  BY DEF Calling
<1> QED BY <1>1 DEF CallsCounted, UserPcs

\* What UserTo does.
LEMMA UserGoes ==
    ASSUME CallsCounted, NEW a \in ModelCallers, NEW pc \in UserPcs, UserTo(a, pc)
    PROVE  /\ user' \in [ModelCallers -> [pc : UserPcs, saw : ChildOrNone]] /\ user'[a].pc = pc
           /\ \A b \in ModelCallers : b # a => user'[b] = user[b]
<1>1. user \in [ModelCallers -> [pc : UserPcs, saw : ChildOrNone]]
  BY DEF CallsCounted, UserPcs
<1> HIDE DEF UserPcs, ChildOrNone
<1> QED BY <1>1 DEF UserTo

\* What a caller's row becomes.
LEMMA UserSet ==
    ASSUME CallsCounted, NEW a \in ModelCallers, NEW row \in [pc : UserPcs, saw : ChildOrNone],
           user' = [user EXCEPT ![a] = row]
    PROVE  /\ user' \in [ModelCallers -> [pc : UserPcs, saw : ChildOrNone]] /\ user'[a] = row
           /\ \A b \in ModelCallers : b # a => user'[b] = user[b]
<1>1. user \in [ModelCallers -> [pc : UserPcs, saw : ChildOrNone]]
  BY DEF CallsCounted, UserPcs
<1> QED BY <1>1

\* Every step of a caller counts its call in and out.
LEMMA CallerSteps == ASSUME CallsCounted, NEW a \in ModelCallers, UserStep(a) PROVE CallsCounted'
<1>0. AtRest \in [pc : UserPcs, saw : ChildOrNone] /\ AtRest.pc = "idle"
  BY DEF AtRest, UserPcs, ChildOrNone
<1>1. CASE PingHealth(a)
  BY <1>1, UserGoes, CallerMoves DEF PingHealth, UserPcs
<1>2. CASE SetOK(a)
  BY <1>2, UserGoes, CallerMoves DEF SetOK, UserPcs
<1>3. CASE MarkIdle(a)
  BY <1>3, UserGoes, CallerMoves DEF MarkIdle, UserPcs
<1>4. CASE GiveUp(a)
  <2>1. PICK row \in [pc : UserPcs, saw : ChildOrNone] : row = AtRest
    BY <1>0
  <2>2. user' = [user EXCEPT ![a] = row] /\ inFlight' = inFlight /\ user[a].pc = "poll"
    BY <1>4, <2>1 DEF GiveUp
  <2>3. /\ user' \in [ModelCallers -> [pc : UserPcs, saw : ChildOrNone]] /\ user'[a] = row
        /\ \A b \in ModelCallers : b # a => user'[b] = user[b]
    BY <2>2, UserSet
  <2> QED BY <1>0, <2>1, <2>2, <2>3, CallerMoves
<1>5. CASE Acquire(a)
  <2>0. "call" \in UserPcs
    BY DEF UserPcs
  <2>1. /\ user' \in [ModelCallers -> [pc : UserPcs, saw : ChildOrNone]] /\ user'[a].pc = "call"
        /\ \A b \in ModelCallers : b # a => user'[b] = user[b]
    BY <1>5, <2>0, UserGoes DEF Acquire
  <2>2. a \notin Calling /\ Calling' = Calling \cup {a}
    BY <1>5, <2>1 DEF Acquire, Calling
  <2>3. Cardinality(Calling \cup {a}) = Cardinality(Calling) + 1
    BY <2>2, CallersFew, FS_AddElement
  <2> QED BY <1>5, <2>1, <2>2, <2>3 DEF Acquire, CallsCounted, UserPcs
<1>6. CASE Release(a)
  <2>1. PICK row \in [pc : UserPcs, saw : ChildOrNone] : row = AtRest
    BY <1>0
  <2>2. user' = [user EXCEPT ![a] = row] /\ user[a].pc = "call"
        /\ inFlight' = (IF inFlight > 0 THEN inFlight - 1 ELSE 0)
    BY <1>6, <2>1 DEF Release
  <2>3. /\ user' \in [ModelCallers -> [pc : UserPcs, saw : ChildOrNone]] /\ user'[a] = row
        /\ \A b \in ModelCallers : b # a => user'[b] = user[b]
    BY <2>2, UserSet
  <2>4. a \in Calling /\ Calling' = Calling \ {a}
    BY <1>0, <2>1, <2>2, <2>3 DEF Calling
  <2>5. Cardinality(Calling \ {a}) = Cardinality(Calling) - 1
    BY <2>4, CallersFew, FS_RemoveElement
  <2>6. Cardinality(Calling) > 0
    BY <2>4, CallersFew, FS_EmptySet
  <2>7. inFlight' = Cardinality(Calling')
    BY <2>2, <2>4, <2>5, <2>6, CallersFew DEF CallsCounted
  <2> QED BY <2>3, <2>7 DEF CallsCounted, UserPcs
<1> QED BY <1>1, <1>2, <1>3, <1>4, <1>5, <1>6 DEF UserStep

\* So does a call that begins.
LEMMA EnsureCounted ==
    ASSUME ModelTypes, CallsCounted, NEW a \in ModelCallers, EnsureRunning(a)
    PROVE  CallsCounted'
<1>0. user[a].pc = "idle" /\ inFlight' = inFlight
  BY DEF EnsureRunning
<1>1. CASE UserTo(a, "mark")
  BY <1>0, <1>1, UserGoes, CallerMoves DEF UserPcs
<1>2. ASSUME NEW c \in ChildOrNone, user' = [user EXCEPT ![a] = [pc |-> "poll", saw |-> c]]
      PROVE  CallsCounted'
  <2>1. PICK row \in [pc : UserPcs, saw : ChildOrNone] : row = [pc |-> "poll", saw |-> c]
    BY DEF UserPcs
  <2>2. user' = [user EXCEPT ![a] = row]
    BY <1>2, <2>1
  <2>3. /\ user' \in [ModelCallers -> [pc : UserPcs, saw : ChildOrNone]] /\ user'[a] = row
        /\ \A b \in ModelCallers : b # a => user'[b] = user[b]
    BY <2>2, UserSet
  <2> QED BY <1>0, <2>1, <2>3, CallerMoves
<1>3. ASSUME SpawnLocked, user' = [user EXCEPT ![a] = [pc |-> "poll", saw |-> cmd']]
      PROVE  CallsCounted'
  <2>1. PICK c \in ChildOrNone : c = cmd'
    BY <1>3 DEF SpawnLocked, ChildOrNone
  <2> QED BY <1>2, <1>3, <2>1
<1>4. ASSUME user' = [user EXCEPT ![a] = [pc |-> "poll", saw |-> cmd]]
      PROVE  CallsCounted'
  <2>1. PICK c \in ChildOrNone : c = cmd
    BY DEF ModelTypes
  <2> QED BY <1>2, <1>4, <2>1
<1> QED BY <1>1, <1>3, <1>4 DEF EnsureRunning

\* Nobody else touches the count.
LEMMA OthersCounted ==
    ASSUME CallsCounted, UNCHANGED <<user, inFlight>> PROVE CallsCounted'
<1>1. Calling' = Calling
  BY DEF Calling
<1> QED BY <1>1 DEF CallsCounted

\* Every step of the supervisor, its watchers, callers, monitor and shutdown.
LEMMA ModelKeeps == ASSUME ModelInv, [ModelNext]_modelVars PROVE ModelInv'
<1>0. ServerInv /\ CallsCounted /\ ModelTypes
  BY DEF ModelInv, ServerInv
<1>1. CASE UNCHANGED modelVars
  BY <1>0, <1>1, ServerStays, OthersCounted DEF modelVars, useVars, ModelInv, ServerInv
<1>2. ASSUME NEW c \in Children, ChildExits(c) \/ Watch(c) PROVE ModelInv'
  <2>1. ServerInv'
    BY <1>0, <1>2, ExitKeeps, NoticeKeeps, CountKeeps, ScheduleKeeps, RestartsKeep DEF Watch
  <2>2. UNCHANGED <<user, inFlight>>
    BY <1>2 DEF ChildExits, Watch, NoticeExit, CountCrash, ScheduleRestart, Restart, useVars
  <2> QED BY <1>0, <2>1, <2>2, OthersCounted DEF ModelInv, ServerInv
<1>3. ASSUME NEW a \in ModelCallers, EnsureRunning(a) PROVE ModelInv'
  BY <1>0, <1>3, EnsureKeeps, EnsureCounted DEF ModelInv, ServerInv
<1>4. ASSUME NEW a \in ModelCallers, UserStep(a) PROVE ModelInv'
  <2>1. ASSUME SetOK(a) PROVE ServerInv'
    BY <1>0, <2>1, SetOKKeeps
  <2>2. ASSUME ~ SetOK(a) PROVE ServerInv'
    BY <1>0, <1>4, <2>2, ServerStays DEF UserStep, PingHealth, GiveUp, MarkIdle, Acquire, Release
  <2>3. ServerInv'
    BY <2>1, <2>2
  <2> QED BY <1>0, <1>4, <2>3, CallerSteps DEF ModelInv, ServerInv
<1>5. CASE IdleTTLPasses
  BY <1>0, <1>5, ServerStays, OthersCounted DEF IdleTTLPasses, ModelInv, ServerInv
<1>6. CASE CheckIdle
  BY <1>0, <1>6, CheckIdleKeeps, OthersCounted DEF CheckIdle, ModelInv, ServerInv
<1>7. CASE MonitorStep
  <2>1. ServerInv'
    BY <1>0, <1>7, StopForIdleKeeps, IdleKillKeeps, IdleWaitedKeeps, ClearKeeps DEF MonitorStep
  <2>2. UNCHANGED <<user, inFlight>>
    BY <1>7 DEF MonitorStep, StopForIdle, IdleKill, IdleWaited, ClearCmd, useVars
  <2> QED BY <1>0, <2>1, <2>2, OthersCounted DEF ModelInv, ServerInv
<1>8. CASE Stop
  BY <1>0, <1>8, StopKeeps, OthersCounted DEF Stop, useVars, ModelInv, ServerInv
<1>9. CASE StopStep
  <2>1. UNCHANGED <<user, inFlight>>
    BY <1>9 DEF StopStep, StopKill, StopWaited, useVars
  <2> QED BY <1>0, <1>9, <2>1, StopStepKeeps, OthersCounted DEF ModelInv, ServerInv
<1> QED BY <1>1, <1>2, <1>3, <1>4, <1>5, <1>6, <1>7, <1>8, <1>9 DEF ModelNext

\* "A Supervisor owns exactly one child process at a time", and Stop "must
\* never restart anything again": of a call, a restart, an unload and a
\* shutdown that overlap at most one starts a child, and what a stop that has
\* returned did not kill came of a call that started later, or followed on a
\* health answer that was recorded too late (mlxsup/supervisor.go).
THEOREM OneChildIsSupervised ==
    ModelSafety => [](ModelTypeOK /\ OneChild /\ NothingRestartsAfterStop)
<1>1. ModelInv => ModelTypeOK /\ OneChild /\ NothingRestartsAfterStop
  <2> SUFFICES ASSUME ModelInv PROVE ModelTypeOK /\ OneChild /\ NothingRestartsAfterStop
    OBVIOUS
  <2>1. ModelTypeOK
    BY CallersFew DEF ModelInv, ModelTypes, CallsCounted, ModelTypeOK, ChildOrNone
  <2>2. OneChild
    <3>1. CASE staleOK
      BY <3>1 DEF OneChild
    <3>2. CASE Orderly
      <4>1. LiveChildren \in SUBSET {cmd}
        BY <3>2 DEF Orderly, LiveIsCommand, LiveChildren
      <4>2. IsFiniteSet({cmd}) /\ Cardinality({cmd}) = 1
        BY FS_Singleton
      <4>3. Cardinality(LiveChildren) <= 1
        BY <4>1, <4>2, FS_Subset
      <4> QED BY <4>3 DEF OneChild
    <3> QED BY <3>1, <3>2 DEF ModelInv
  <2>3. NothingRestartsAfterStop
    BY DEF ModelInv, Orderly, StopIsLast, LiveChildren, NothingRestartsAfterStop
  <2> QED BY <2>1, <2>2, <2>3
<1> QED BY <1>1, InitModel, ModelKeeps, PTL DEF ModelSafety
=============================================================================
