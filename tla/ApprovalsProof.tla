--------------------------- MODULE ApprovalsProof ---------------------------
(***************************************************************************)
(* For any number of requests, tasks and concurrent operations: an         *)
(* approval is decided once, a W3 token needs the typed local approval,    *)
(* and a token authorises one execution.  For operations that do not       *)
(* overlap: a halt binds, an action is undone once, the ladder is earned.  *)
(* For any number of calls: what the tool gates and the bridge promise,    *)
(* and for any length of an answer: what is recorded of the worker that    *)
(* makes the calls.  The three components share no state.                  *)
(***************************************************************************)
EXTENDS Approvals, ToolGate, WorkerSession, FiniteSetTheorems, SequenceTheorems, TLAPS

WindowRec == [task : Tasks, class : Classes,
              state : {"open", "late", "triggered", "expired"}, undone : Nat]
ActorRec == [pc : Pcs, op : Ops \cup {"none"}, req : Requests \cup {NoRequest},
             via : Vias, level : 0..L4, streak : Nat, todo : SUBSET (Requests \cup Nat)]

\* An actor at work has a request, and what it still has to do are windows or,
\* for the halt key, requests.
ActorAtWork ==
    \A a \in Actors : act[a].pc # "idle" =>
        /\ act[a].req \in Requests
        /\ act[a].pc \in {"trigger", "lapse", "sweep"} => act[a].todo \subseteq 1..Len(windows)
        /\ act[a].op = "undo" /\ act[a].pc # "find" =>
              act[a].todo # {} /\ act[a].todo \subseteq 1..Len(windows)
        /\ act[a].pc = "sweep" => act[a].op = "sweep"
        /\ act[a].pc = "invalidate" => act[a].op = "halt" /\ act[a].todo \subseteq Requests

BeforeMint == {"taint", "ladder", "ask", "mint"}

\* A Check that has handed nothing out yet is the only one for its request,
\* which has no row so far.
CheckIsFirst ==
    \A a \in Actors : act[a].op = "check" /\ act[a].pc \in BeforeMint =>
        /\ act[a].req \in asked
        /\ pend[act[a].req] = "none" /\ token[act[a].req] = "none"
        /\ act[a].pc = "mint" => Class[act[a].req] # "W3"
        /\ \A b \in Actors : /\ act[b].op = "check" /\ act[b].pc \in BeforeMint
                             /\ act[b].req = act[a].req
                             => b = a

\* An Approve about to mint has won its pending approval, alone.
ApproveHasWon ==
    \A a \in Actors : act[a].op # "check" /\ act[a].pc = "mint" =>
        /\ pend[act[a].req] = "consumed" /\ token[act[a].req] = "none"
        /\ decided[act[a].req] = {"approve"}
        /\ Class[act[a].req] = "W3" => approvedVia[act[a].req] = "typed"
        /\ \A b \in Actors : /\ act[b].op # "check" /\ act[b].pc = "mint"
                             /\ act[b].req = act[a].req
                             => b = a

\* Only Approve and Deny go for a pending approval, and a W3 one passed the gates.
ClaimPassedGates ==
    \A a \in Actors : act[a].pc \in {"get", "claim"} =>
        /\ act[a].op \in {"approve", "deny"}
        /\ act[a].via \in Vias
        /\ act[a].pc = "claim" /\ act[a].op = "approve" /\ Class[act[a].req] = "W3"
           => act[a].via = "typed"

CheckOnlyChecks ==
    \A a \in Actors : act[a].pc \in {"taint", "ladder", "ask"} => act[a].op = "check"

UnaskedHasNoRow == \A r \in Requests \ asked : pend[r] = "none" /\ token[r] = "none"

\* Until its pending approval is consumed nothing is decided and no token exists.
UndecidedRows ==
    \A r \in Requests :
        /\ pend[r] # "consumed" => decided[r] = {}
        /\ Unconsumed(r) => token[r] = "none"

DecidedSingly == \A r \in Requests : decided[r] = {} \/ \E d \in {"approve", "deny", "halt"} : decided[r] = {d}

TokenNotDenied == \A r \in Requests : token[r] # "none" => decided[r] \subseteq {"approve"}

W3Token ==
    \A r \in Requests : Class[r] = "W3" /\ token[r] # "none" =>
        approvedVia[r] = "typed" /\ pend[r] = "consumed"

RunsSpent == \A r \in Requests : runs[r] = 0 \/ (runs[r] = 1 /\ token[r] = "used")

ActorInv == ActorAtWork /\ CheckOnlyChecks /\ ClaimPassedGates
RowInv == CheckIsFirst /\ ApproveHasWon /\ UnaskedHasNoRow /\ UndecidedRows
OutcomeInv == DecidedSingly /\ TokenNotDenied /\ W3Token /\ RunsSpent

IInv == TypeOK /\ ActorInv /\ RowInv /\ OutcomeInv
-----------------------------------------------------------------------------
(* What Goto and Return do to the actors. *)

Frame(a) == \A b \in Actors \ {a} : act'[b] = act[b]

\* The step leaves a past every place where the invariant speaks of it.
QuietPcs == Pcs \ {"taint", "ladder", "ask", "mint", "get", "claim"}
Settles(a) == Frame(a) /\ act'[a].pc \in QuietPcs

\* Goto changes the pc of one actor.
LEMMA GotoStep ==
    ASSUME act \in [Actors -> ActorRec], NEW a \in Actors, NEW pc \in Pcs, Goto(a, pc)
    PROVE  /\ act' \in [Actors -> ActorRec]
           /\ Frame(a)
           /\ act'[a].pc = pc /\ act'[a].op = act[a].op /\ act'[a].req = act[a].req
           /\ act'[a].via = act[a].via /\ act'[a].todo = act[a].todo
<1>1. act' = [act EXCEPT ![a] = [act[a] EXCEPT !.pc = pc]]
  BY DEF Goto
<1>2. [act[a] EXCEPT !.pc = pc] \in ActorRec
  BY DEF ActorRec
<1> QED
  BY <1>1, <1>2 DEF ActorRec, Frame

\* Return makes one actor idle.
LEMMA ReturnStep ==
    ASSUME act \in [Actors -> ActorRec], NEW a \in Actors, Return(a)
    PROVE  /\ act' \in [Actors -> ActorRec]
           /\ Frame(a)
           /\ act'[a].pc = "idle" /\ act'[a].op = "none"
<1>1. IdleActor \in ActorRec
  BY DEF IdleActor, ActorRec, Pcs, Vias, L4
<1> QED
  BY <1>1 DEF Return, Frame, IdleActor

\* The class an actor saves to is a class.
LEMMA LadderKeyType ==
    ASSUME TypeOK, ActorAtWork, NEW a \in Actors, act[a].pc \in {"load", "save"}
    PROVE  LadderKey(a) \in Classes
<1>1. act[a].req \in Requests
  BY DEF ActorAtWork
<1>2. CASE act[a].op = "undo"
  <2>1. (CHOOSE i \in act[a].todo : TRUE) \in act[a].todo
    <3>1. act[a].todo # {}
      BY <1>2 DEF ActorAtWork
    <3>2. \A S : S # {} => (CHOOSE i \in S : TRUE) \in S
      OBVIOUS
    <3> QED BY <3>1, <3>2
  <2>2. (CHOOSE i \in act[a].todo : TRUE) \in 1..Len(windows)
    BY <1>2, <2>1 DEF ActorAtWork
  <2>3. windows[CHOOSE i \in act[a].todo : TRUE] \in WindowRec
    <3>1. \A i \in 1..Len(windows) : windows[i] \in WindowRec
      <4>1. windows \in Seq(WindowRec)
        BY DEF TypeOK, WindowRec
      <4> QED BY <4>1, ElementOfSeq
    <3> QED BY <2>2, <3>1
  <2> QED BY <1>2, <2>3 DEF LadderKey, WindowRec
<1>3. CASE act[a].op # "undo"
  BY <1>1, <1>3, ApprovalsAssumption DEF LadderKey, ClassOf, Classes
<1> QED BY <1>2, <1>3

\* Setting fields of a window keeps the windows well formed and as many.
LEMMA SetWindow ==
    ASSUME TypeOK, NEW i \in 1..Len(windows), NEW w \in WindowRec,
           windows' = [windows EXCEPT ![i] = w]
    PROVE  windows' \in Seq(WindowRec) /\ Len(windows') = Len(windows)
BY ExceptSeq DEF TypeOK, WindowRec

-----------------------------------------------------------------------------
(* Type correctness. *)

\* An operation starts at its first statement with nothing left to do.
LEMMA BeginStep ==
    ASSUME TypeOK, NEW a \in Actors, NEW op \in Ops, NEW r \in Requests, NEW via \in Vias,
           Begin(a, op, r, via)
    PROVE  /\ TypeOK'
           /\ Frame(a)
           /\ act'[a].pc = FirstPc[op] /\ act'[a].op = op /\ act'[a].req = r
           /\ act'[a].via = via /\ act'[a].todo = {}
<1> DEFINE new == [pc |-> FirstPc[op], op |-> op, req |-> r, via |-> via,
                   level |-> 0, streak |-> 0, todo |-> {}]
<1>1. FirstPc[op] \in Pcs
  <2>1. /\ FirstPc["check"] = "taint" /\ FirstPc["approve"] = "get" /\ FirstPc["deny"] = "get"
        /\ FirstPc["use"] = "spend" /\ FirstPc["undo"] = "find" /\ FirstPc["promote"] = "load"
        /\ FirstPc["sweep"] = "list" /\ FirstPc["halt"] = "list"
    BY DEF FirstPc
  <2> QED BY <2>1 DEF Ops, Pcs
<1>2. /\ new \in ActorRec /\ new.pc = FirstPc[op] /\ new.op = op /\ new.req = r
      /\ new.via = via /\ new.todo = {}
  BY <1>1 DEF ActorRec, L4
<1>3. act' = [act EXCEPT ![a] = new] /\ act \in [Actors -> ActorRec]
  BY DEF Begin, TypeOK, ActorRec
<1>4. act' \in [Actors -> ActorRec]
  BY <1>2, <1>3
<1>5. asked' \subseteq Requests /\ ops' \in 0..MaxOps
  BY ApprovalsAssumption DEF Begin, TypeOK
<1>6. TypeOK'
  BY <1>4, <1>5 DEF Begin, TypeOK, ActorRec, rows, history
<1> HIDE DEF new
<1> QED
  BY <1>2, <1>3, <1>6 DEF Frame

\* Loading the ladder changes the actor only.
LEMMA LoadStep ==
    ASSUME TypeOK, ActorAtWork, NEW a \in Actors, LoadState(a)
    PROVE  /\ TypeOK' /\ Frame(a)
           /\ act'[a].pc = "save" /\ act'[a].op = act[a].op /\ act'[a].req = act[a].req
           /\ act'[a].via = act[a].via /\ act'[a].todo = act[a].todo
<1> DEFINE step == ladder[LadderKey(a)]
           new == [act[a] EXCEPT !.pc = "save", !.level = step.level, !.streak = step.streak]
<1>1. step.level \in 0..L4 /\ step.streak \in Nat
  BY LadderKeyType DEF LoadState, At, TypeOK
<1>2. act \in [Actors -> ActorRec] /\ act[a] \in ActorRec
  BY DEF TypeOK, ActorRec
<1>3. /\ new \in ActorRec /\ new.pc = "save" /\ new.op = act[a].op /\ new.req = act[a].req
      /\ new.via = act[a].via /\ new.todo = act[a].todo
  BY <1>1, <1>2 DEF ActorRec, Pcs
<1>4. act' = [act EXCEPT ![a] = new]
  BY <1>2 DEF LoadState
<1> HIDE DEF new
<1>5. act' \in [Actors -> ActorRec]
  BY <1>2, <1>3, <1>4
<1>6. TypeOK'
  BY <1>5 DEF LoadState, TypeOK, ActorRec, rows, history
<1> QED
  BY <1>2, <1>3, <1>4, <1>6 DEF Frame

SetTodo(a, pc, todo) == act' = [act EXCEPT ![a].pc = pc, ![a].todo = todo]

\* A list statement, or the end of one round over a list, changes pc and todo.
LEMMA TodoStep ==
    ASSUME act \in [Actors -> ActorRec], NEW a \in Actors, NEW pc \in Pcs,
           NEW todo \in SUBSET (Requests \cup Nat), SetTodo(a, pc, todo)
    PROVE  /\ act' \in [Actors -> ActorRec] /\ Frame(a)
           /\ act'[a].pc = pc /\ act'[a].op = act[a].op /\ act'[a].req = act[a].req
           /\ act'[a].via = act[a].via /\ act'[a].todo = todo
<1> DEFINE new == [act[a] EXCEPT !.pc = pc, !.todo = todo]
<1>1. /\ new \in ActorRec /\ new.pc = pc /\ new.op = act[a].op /\ new.req = act[a].req
      /\ new.via = act[a].via /\ new.todo = todo
  BY DEF ActorRec
<1>2. act' = [act EXCEPT ![a] = new]
  BY DEF SetTodo
<1> HIDE DEF new
<1> QED
  BY <1>1, <1>2 DEF Frame

Longer == Len(windows) \in Nat /\ Len(windows') \in Nat /\ Len(windows) <= Len(windows')

\* A step along the program of an operation keeps its request and its list.
LEMMA GotoWork ==
    ASSUME TypeOK, ActorAtWork, NEW a \in Actors, NEW pc \in Pcs, Goto(a, pc), Longer,
           pc \notin {"trigger", "lapse", "sweep", "invalidate"},
           act[a].pc \notin {"idle", "find"}
    PROVE  ActorAtWork'
<1>1. act \in [Actors -> ActorRec]
  BY DEF TypeOK, ActorRec
<1>2. /\ Frame(a) /\ act'[a].pc = pc /\ act'[a].op = act[a].op /\ act'[a].req = act[a].req
      /\ act'[a].todo = act[a].todo
  BY <1>1, GotoStep
<1> QED
  BY <1>2 DEF ActorAtWork, Frame, Longer

\* An actor that returns leaves the others at work as they were.
LEMMA ReturnWork ==
    ASSUME TypeOK, ActorAtWork, NEW a \in Actors, Return(a), Longer
    PROVE  ActorAtWork'
<1>1. act \in [Actors -> ActorRec]
  BY DEF TypeOK, ActorRec
<1>2. Frame(a) /\ act'[a].pc = "idle"
  BY <1>1, ReturnStep
<1> QED
  BY <1>2 DEF ActorAtWork, Frame, Longer

\* Either way the actors stay well typed.
LEMMA ActorType ==
    ASSUME TypeOK, NEW a \in Actors, Return(a) \/ \E pc \in Pcs : Goto(a, pc)
    PROVE  act' \in [Actors -> ActorRec]
<1>1. act \in [Actors -> ActorRec]
  BY DEF TypeOK, ActorRec
<1> QED
  BY <1>1, GotoStep, ReturnStep

\* The steps that change no row and no list.
LEMMA PlainStep ==
    ASSUME TypeOK, ActorAtWork, NEW a \in Actors,
           \/ CheckTaint(a) \/ CheckLadder(a) \/ FindWindow(a) \/ GetPending(a)
           \/ FailFromHash(a)
    PROVE  TypeOK' /\ ActorAtWork'
<1>1. UNCHANGED <<rows, asked, ops, history>> /\ act[a].pc \notin {"idle", "find"}
  BY DEF CheckTaint, CheckLadder, FindWindow, GetPending, FailFromHash, At
<1>2. Longer
  BY <1>1 DEF rows, Longer, TypeOK
<1>3. \/ Return(a)
      \/ \E pc \in Pcs \ {"trigger", "lapse", "sweep", "invalidate"} : Goto(a, pc)
  BY DEF CheckTaint, CheckLadder, FindWindow, GetPending, FailFromHash, Finish, Pcs
<1>4. act' \in [Actors -> ActorRec]
  BY <1>3, ActorType
<1>5. ActorAtWork'
  BY <1>1, <1>2, <1>3, GotoWork, ReturnWork
<1> QED
  BY <1>1, <1>4, <1>5 DEF TypeOK, ActorRec, rows, history

\* The steps that write one row of pend, token or windows and go on.
LEMMA RowStep ==
    ASSUME TypeOK, ActorAtWork, ClaimPassedGates, NEW a \in Actors,
           \/ MintPendingApproval(a) \/ MintToken(a) \/ InsertWindow(a)
           \/ ConsumePending(a) \/ SpendToken(a)
    PROVE  TypeOK' /\ ActorAtWork'
<1>1. act[a].pc \notin {"idle", "find"} /\ act[a].req \in Requests
  BY DEF MintPendingApproval, MintToken, InsertWindow, ConsumePending, SpendToken, At, ActorAtWork
<1>2. \/ Return(a)
      \/ \E pc \in Pcs \ {"trigger", "lapse", "sweep", "invalidate"} : Goto(a, pc)
  BY DEF MintPendingApproval, MintToken, InsertWindow, ConsumePending, SpendToken, Decide,
     Finish, Pcs
<1>3. act' \in [Actors -> ActorRec]
  BY <1>2, ActorType
<1>4. windows \in Seq(WindowRec)
  BY DEF TypeOK, WindowRec
<1>5. CASE InsertWindow(a)
  <2>1. [task |-> Task[Req(a)], class |-> ClassOf(a), state |-> "open", undone |-> 0] \in WindowRec
    BY <1>1, ApprovalsAssumption DEF WindowRec, Req, ClassOf, Classes
  <2>2. windows' \in Seq(WindowRec) /\ Len(windows') = Len(windows) + 1
    BY <1>4, <1>5, <2>1 DEF InsertWindow
  <2>3. Longer
    BY <1>4, <2>2 DEF Longer
  <2>4. ActorAtWork'
    BY <1>1, <1>2, <2>3, GotoWork, ReturnWork
  <2> QED
    BY <1>3, <1>5, <2>2, <2>4 DEF InsertWindow, TypeOK, ActorRec, WindowRec, history
<1>6. CASE ~InsertWindow(a)
  <2>1. UNCHANGED <<ladder, windows, tainted, asked, ops, suggested, earned, halted>>
    BY <1>6 DEF MintPendingApproval, MintToken, ConsumePending, SpendToken, history
  <2>2. Longer
    BY <1>4, <2>1 DEF Longer
  <2>3. ActorAtWork'
    BY <1>1, <1>2, <2>2, GotoWork, ReturnWork
  <2>4. pend' \in [Requests -> {"none", "open", "expired", "consumed"}]
    BY <1>6 DEF MintPendingApproval, MintToken, ConsumePending, SpendToken, TypeOK
  <2>5. token' \in [Requests -> {"none", "live", "expired", "used", "revoked"}]
    BY <1>6 DEF MintPendingApproval, MintToken, ConsumePending, SpendToken, TypeOK
  <2>6. runs' \in [Requests -> Nat]
    <3>1. runs' = runs \/ runs' = [runs EXCEPT ![act[a].req] = @ + 1]
      BY <1>6 DEF MintPendingApproval, MintToken, ConsumePending, SpendToken, Req, history
    <3>2. runs \in [Requests -> Nat]
      BY DEF TypeOK
    <3> QED BY <1>1, <3>1, <3>2
  <2>7. /\ approvedVia' \in [Requests -> Vias]
        /\ decided' \in [Requests -> SUBSET {"approve", "deny", "halt"}]
    <3>1. CASE ConsumePending(a)
      <4>1. act[a].op \in {"approve", "deny"} /\ act[a].via \in Vias
        BY <3>1 DEF ConsumePending, At, ClaimPassedGates
      <4>2. approvedVia' = approvedVia
            \/ approvedVia' = [approvedVia EXCEPT ![act[a].req] = act[a].via]
        BY <3>1 DEF ConsumePending, Decide, Req
      <4>3. decided' = decided
            \/ decided' = [decided EXCEPT ![act[a].req] = @ \cup {act[a].op}]
        BY <3>1 DEF ConsumePending, Decide, Req
      <4>4. approvedVia' \in [Requests -> Vias]
        BY <4>1, <4>2 DEF TypeOK
      <4>5. decided[act[a].req] \cup {act[a].op} \in SUBSET {"approve", "deny", "halt"}
        BY <1>1, <4>1 DEF TypeOK
      <4>6. decided \in [Requests -> SUBSET {"approve", "deny", "halt"}]
        BY DEF TypeOK
      <4>7. decided' \in [Requests -> SUBSET {"approve", "deny", "halt"}]
        BY <1>1, <4>3, <4>5, <4>6
      <4> QED BY <4>4, <4>7
    <3>2. CASE ~ConsumePending(a)
      <4>1. UNCHANGED <<approvedVia, decided>>
        BY <1>6, <3>2 DEF MintPendingApproval, MintToken, SpendToken, history
      <4> QED BY <4>1 DEF TypeOK
    <3> QED BY <3>1, <3>2
  <2> QED
    BY <1>3, <2>1, <2>3, <2>4, <2>5, <2>6, <2>7 DEF TypeOK, ActorRec
<1> QED BY <1>5, <1>6

\* saveState keeps levels between L0 and L4.
LEMMA SaveStep ==
    ASSUME TypeOK, ActorAtWork, NEW a \in Actors, SaveState(a)
    PROVE  TypeOK' /\ ActorAtWork'
<1>1. LadderKey(a) \in Classes /\ Return(a)
  BY LadderKeyType DEF SaveState, Save, At
<1>2. act' \in [Actors -> ActorRec]
  BY <1>1, ActorType
<1>3. NewState(a) \in [level : 0..L4, streak : Nat]
  <2>1. act[a].level \in 0..4 /\ act[a].streak \in Nat
    BY DEF TypeOK, L4
  <2>2. CASE act[a].op = "approve"
    BY <2>1, <2>2 DEF NewState, L4
  <2>3. CASE act[a].op = "promote"
    BY <2>1, <2>3 DEF NewState, L4
  <2>4. CASE act[a].op \notin {"approve", "promote"}
    <3>1. NewState(a) = [level |-> IF act[a].level > 0 THEN act[a].level - 1 ELSE 0, streak |-> 0]
      BY <2>4 DEF NewState
    <3> QED BY <2>1, <3>1 DEF L4
  <2> QED BY <2>2, <2>3, <2>4
<1>4. ladder' \in [Classes -> [level : 0..L4, streak : Nat]]
  BY <1>1, <1>3 DEF SaveState, Save, TypeOK
<1>5. suggested' \subseteq Classes
  BY <1>1 DEF SaveState, Save, TypeOK
<1>6. earned' \in [Classes -> Nat]
  BY <1>1 DEF SaveState, Save, TypeOK
<1>7. UNCHANGED <<pend, token, windows, tainted, asked, ops, decided, approvedVia, runs, halted>>
  BY DEF SaveState, Save
<1>8. Longer
  BY <1>7 DEF Longer, TypeOK
<1>9. ActorAtWork'
  BY <1>1, <1>8, ReturnWork
<1> QED
  BY <1>2, <1>4, <1>5, <1>6, <1>7, <1>9 DEF TypeOK, ActorRec

\* A window whose state is set, and counted as undone, is a window.
LEMMA WindowSet ==
    ASSUME NEW w \in WindowRec, NEW st \in {"open", "late", "triggered", "expired"}
    PROVE  /\ [w EXCEPT !.state = st] \in WindowRec
           /\ [w EXCEPT !.state = st, !.undone = w.undone + 1] \in WindowRec
<1>1. \A v \in WindowRec : [v EXCEPT !.state = st] \in WindowRec
  BY DEF WindowRec
<1>2. \A v \in WindowRec, n \in Nat : [v EXCEPT !.undone = n] \in WindowRec
  BY DEF WindowRec
<1>3. w.undone + 1 \in Nat
  BY DEF WindowRec
<1>4. [w EXCEPT !.state = st, !.undone = w.undone + 1]
      = [[w EXCEPT !.state = st] EXCEPT !.undone = w.undone + 1]
  BY DEF WindowRec
<1> QED
  BY <1>1, <1>2, <1>3, <1>4

\* Setting the state of a window that exists.
LEMMA WindowStep ==
    ASSUME TypeOK, NEW i \in 1..Len(windows),
           NEW st \in {"open", "late", "triggered", "expired"},
           \/ windows' = [windows EXCEPT ![i].state = st]
           \/ windows' = [windows EXCEPT ![i].state = st, ![i].undone = @ + 1]
    PROVE  windows' \in Seq(WindowRec) /\ Longer
<1>1. windows \in Seq(WindowRec) /\ windows[i] \in WindowRec
  BY ElementOfSeq DEF TypeOK, WindowRec
<1>2. PICK w \in WindowRec : windows' = [windows EXCEPT ![i] = w]
  <2>1. CASE windows' = [windows EXCEPT ![i].state = st]
    <3>1. [windows[i] EXCEPT !.state = st] \in WindowRec
      BY <1>1 DEF WindowRec
    <3>2. windows' = [windows EXCEPT ![i] = [windows[i] EXCEPT !.state = st]]
      BY <2>1
    <3> QED BY <3>1, <3>2
  <2>2. CASE windows' = [windows EXCEPT ![i].state = st, ![i].undone = @ + 1]
    <3>1. [windows[i] EXCEPT !.state = st, !.undone = windows[i].undone + 1] \in WindowRec
      BY <1>1, WindowSet
    <3>2. windows' = [windows EXCEPT ![i] = [windows[i] EXCEPT !.state = st,
                                                      !.undone = windows[i].undone + 1]]
      BY <1>1, <2>2
    <3> QED BY <3>1, <3>2
  <2> QED BY <2>1, <2>2
<1>3. windows' \in Seq(WindowRec) /\ Len(windows') = Len(windows)
  BY <1>2, SetWindow
<1> QED
  BY <1>1, <1>3 DEF Longer

\* TriggerUndo's statements: the windows stay well formed and as many.
LEMMA UndoStep ==
    ASSUME TypeOK, ActorAtWork, NEW a \in Actors,
           FindUndo(a) \/ TriggerUndo(a) \/ LapseUndo(a)
    PROVE  TypeOK' /\ ActorAtWork' /\ Settles(a)
<1>0. act \in [Actors -> ActorRec]
  BY DEF TypeOK, ActorRec
<1>1. CASE FindUndo(a)
  <2>1. UNCHANGED <<rows, asked, ops, history>> /\ Longer
    BY <1>1 DEF FindUndo, rows, Longer, TypeOK
  <2>2. CASE Return(a)
    <3>1. act' \in [Actors -> ActorRec] /\ ActorAtWork' /\ Settles(a)
      BY <1>0, <2>1, <2>2, ReturnStep, ReturnWork DEF Settles, QuietPcs, Pcs
    <3> QED BY <2>1, <3>1 DEF TypeOK, ActorRec, rows, history
  <2>3. CASE ~Return(a)
    <3>0. PICK i \in OpenOf(Task[Req(a)]) :
             act' = [act EXCEPT ![a].todo = {i},
                       ![a].pc = IF windows[i].state = "late" THEN "lapse" ELSE "trigger"]
      BY <1>1, <2>3 DEF FindUndo
    <3>1. PICK pc \in {"lapse", "trigger"} : SetTodo(a, pc, {i})
      <4>1. CASE windows[i].state = "late"
        <5>1. SetTodo(a, "lapse", {i})
          BY <1>0, <3>0, <4>1 DEF SetTodo
        <5> QED BY <5>1
      <4>2. CASE windows[i].state # "late"
        <5>1. SetTodo(a, "trigger", {i})
          BY <1>0, <3>0, <4>2 DEF SetTodo
        <5> QED BY <5>1
      <4> QED BY <4>1, <4>2
    <3>2. pc \in Pcs /\ {i} \in SUBSET (Requests \cup Nat) /\ i \in 1..Len(windows)
      BY DEF Pcs, OpenOf
    <3>3. /\ act' \in [Actors -> ActorRec] /\ Frame(a) /\ act'[a].pc = pc
          /\ act'[a].req = act[a].req /\ act'[a].todo = {i} /\ act'[a].op = act[a].op
      BY <1>0, <3>1, <3>2, TodoStep
    <3>4. ActorAtWork'
      <4>1. act[a].pc = "find" /\ windows' = windows
        BY <1>1, <2>1 DEF FindUndo, At, rows
      <4>2. act[a].req \in Requests
        BY <4>1 DEF ActorAtWork
      <4> QED BY <3>2, <3>3, <4>1, <4>2 DEF ActorAtWork, Frame
    <3>5. Settles(a)
      BY <3>1, <3>3 DEF Settles, QuietPcs, Pcs
    <3> QED BY <2>1, <3>3, <3>4, <3>5 DEF TypeOK, ActorRec, rows, history
  <2> QED BY <2>2, <2>3
<1>2. CASE TriggerUndo(a)
  <2>1. PICK i \in act[a].todo :
           windows' = [windows EXCEPT ![i].state = "triggered", ![i].undone = @ + 1]
    BY <1>2 DEF TriggerUndo
  <2>2. i \in 1..Len(windows) /\ act[a].pc = "trigger" /\ Goto(a, "load")
    BY <1>2 DEF TriggerUndo, At, ActorAtWork
  <2>3. windows' \in Seq(WindowRec) /\ Longer
    BY <2>1, <2>2, WindowStep
  <2>4. act' \in [Actors -> ActorRec] /\ ActorAtWork' /\ Settles(a)
    BY <1>0, <2>2, <2>3, GotoStep, GotoWork DEF Settles, QuietPcs, Pcs
  <2> QED BY <1>2, <2>3, <2>4 DEF TriggerUndo, TypeOK, ActorRec, WindowRec, history
<1>3. CASE LapseUndo(a)
  <2>1. PICK i \in act[a].todo : windows' = [windows EXCEPT ![i].state = "expired"]
    BY <1>3 DEF LapseUndo, SetUndoWindowState
  <2>2. i \in 1..Len(windows) /\ Return(a)
    BY <1>3 DEF LapseUndo, At, ActorAtWork
  <2>3. windows' \in Seq(WindowRec) /\ Longer
    BY <2>1, <2>2, WindowStep
  <2>4. act' \in [Actors -> ActorRec] /\ ActorAtWork' /\ Settles(a)
    BY <1>0, <2>2, <2>3, ReturnStep, ReturnWork DEF Settles, QuietPcs, Pcs
  <2> QED BY <1>3, <2>3, <2>4 DEF LapseUndo, TypeOK, ActorRec, WindowRec, history
<1> QED BY <1>1, <1>2, <1>3

\* One element of the list is dealt with.
LEMMA RestStep ==
    ASSUME act \in [Actors -> ActorRec], NEW a \in Actors, NEW x,
           act' = [act EXCEPT ![a].todo = @ \ {x}]
    PROVE  /\ act' \in [Actors -> ActorRec] /\ Frame(a)
           /\ act'[a].pc = act[a].pc /\ act'[a].op = act[a].op /\ act'[a].req = act[a].req
           /\ act'[a].via = act[a].via /\ act'[a].todo = act[a].todo \ {x}
<1> DEFINE new == [act[a] EXCEPT !.todo = act[a].todo \ {x}]
<1>1. /\ new \in ActorRec /\ new.pc = act[a].pc /\ new.op = act[a].op
      /\ new.req = act[a].req /\ new.via = act[a].via /\ new.todo = act[a].todo \ {x}
  BY DEF ActorRec
<1>2. act' = [act EXCEPT ![a] = new]
  OBVIOUS
<1> HIDE DEF new
<1> QED
  BY <1>1, <1>2 DEF Frame

\* SweepExpiredUndoWindows: what is swept are windows that exist.
LEMMA SweepStep ==
    ASSUME TypeOK, ActorAtWork, NEW a \in Actors, SweepList(a) \/ SweepOne(a)
    PROVE  TypeOK' /\ ActorAtWork' /\ Settles(a)
<1>0. act \in [Actors -> ActorRec]
  BY DEF TypeOK, ActorRec
<1>1. CASE SweepList(a)
  <2>1. UNCHANGED <<rows, asked, ops, history>> /\ Longer
    BY <1>1 DEF SweepList, rows, Longer, TypeOK
  <2>2. CASE Return(a)
    <3>1. act' \in [Actors -> ActorRec] /\ ActorAtWork' /\ Settles(a)
      BY <1>0, <2>1, <2>2, ReturnStep, ReturnWork DEF Settles, QuietPcs, Pcs
    <3> QED BY <2>1, <3>1 DEF TypeOK, ActorRec, rows, history
  <2>3. CASE ~Return(a)
    <3> DEFINE late == {i \in 1..Len(windows) : windows[i].state = "late"}
    <3>1. SetTodo(a, "sweep", late)
      BY <1>1, <2>3 DEF SweepList, SetTodo
    <3>2. late \in SUBSET (Requests \cup Nat) /\ late \subseteq 1..Len(windows) /\ "sweep" \in Pcs
      BY DEF Pcs
    <3> HIDE DEF late
    <3>3. /\ act' \in [Actors -> ActorRec] /\ Frame(a) /\ act'[a].pc = "sweep"
          /\ act'[a].req = act[a].req /\ act'[a].todo = late /\ act'[a].op = act[a].op
      BY <1>0, <3>1, <3>2, TodoStep
    <3>4. act[a].pc = "list" /\ act[a].op = "sweep" /\ windows' = windows
      BY <1>1, <2>1 DEF SweepList, At, rows
    <3>5. ActorAtWork'
      BY <3>2, <3>3, <3>4 DEF ActorAtWork, Frame
    <3>6. Settles(a)
      BY <3>3 DEF Settles, QuietPcs, Pcs
    <3> QED BY <2>1, <3>3, <3>5, <3>6 DEF TypeOK, ActorRec, rows, history
  <2> QED BY <2>2, <2>3
<1>2. CASE SweepOne(a)
  <2>1. PICK i \in act[a].todo :
           /\ windows' = [windows EXCEPT ![i].state = "expired"]
           /\ Return(a) \/ act' = [act EXCEPT ![a].todo = @ \ {i}]
    BY <1>2 DEF SweepOne, SetUndoWindowState
  <2>2. i \in 1..Len(windows) /\ act[a].pc = "sweep"
    BY <1>2 DEF SweepOne, At, ActorAtWork
  <2>3. windows' \in Seq(WindowRec) /\ Longer
    BY <2>1, <2>2, WindowStep
  <2>4. act' \in [Actors -> ActorRec] /\ ActorAtWork' /\ Settles(a)
    <3>1. CASE Return(a)
      BY <1>0, <2>3, <3>1, ReturnStep, ReturnWork DEF Settles, QuietPcs, Pcs
    <3>2. CASE ~Return(a)
      <4>1. /\ act' \in [Actors -> ActorRec] /\ Frame(a) /\ act'[a].pc = "sweep"
            /\ act'[a].req = act[a].req /\ act'[a].op = act[a].op
            /\ act'[a].todo \subseteq act[a].todo
        BY <1>0, <2>1, <2>2, <3>2, RestStep
      <4>2. act[a].op = "sweep" /\ act[a].req \in Requests
        BY <2>2 DEF ActorAtWork
      <4>3. ActorAtWork'
        BY <2>2, <2>3, <4>1, <4>2 DEF ActorAtWork, Frame, Longer
      <4> QED BY <4>1, <4>3 DEF Settles, QuietPcs, Pcs
    <3> QED BY <3>1, <3>2
  <2> QED BY <1>2, <2>3, <2>4 DEF SweepOne, TypeOK, ActorRec, WindowRec, history
<1> QED BY <1>1, <1>2

\* InvalidateApprovalsForTask: what is invalidated are requests.
LEMMA HaltStep ==
    ASSUME TypeOK, ActorAtWork, NEW a \in Actors,
           HaltList(a) \/ HaltConsume(a) \/ HaltRevoke(a)
    PROVE  TypeOK' /\ ActorAtWork' /\ Settles(a)
<1>0. act \in [Actors -> ActorRec]
  BY DEF TypeOK, ActorRec
<1>1. CASE HaltList(a)
  <2> DEFINE S == {r \in Requests : Task[r] = Task[Req(a)] /\ Unconsumed(r)}
  <2>1. UNCHANGED <<rows, asked, ops, history>> /\ act[a].pc = "list" /\ act[a].op = "halt"
    BY <1>1 DEF HaltList, At
  <2>2. SetTodo(a, "invalidate", S)
    BY <1>1 DEF HaltList, SetTodo
  <2>3. S \in SUBSET (Requests \cup Nat) /\ S \subseteq Requests /\ "invalidate" \in Pcs
    BY DEF Pcs
  <2> HIDE DEF S
  <2>4. /\ act' \in [Actors -> ActorRec] /\ Frame(a) /\ act'[a].pc = "invalidate"
        /\ act'[a].req = act[a].req /\ act'[a].todo = S /\ act'[a].op = act[a].op
    BY <1>0, <2>2, <2>3, TodoStep
  <2>5. ActorAtWork' /\ Settles(a)
    BY <2>1, <2>3, <2>4 DEF ActorAtWork, Frame, Settles, QuietPcs, Pcs, rows
  <2> QED BY <2>1, <2>4, <2>5 DEF TypeOK, ActorRec, rows, history
<1>2. CASE HaltConsume(a)
  <2>1. PICK r \in act[a].todo :
           /\ pend' = IF Unconsumed(r) THEN [pend EXCEPT ![r] = "consumed"] ELSE pend
           /\ decided' = IF Unconsumed(r) THEN [decided EXCEPT ![r] = @ \cup {"halt"}] ELSE decided
           /\ act' = [act EXCEPT ![a].todo = @ \ {r}]
    BY <1>2 DEF HaltConsume
  <2>2. /\ act[a].pc = "invalidate" /\ act[a].op = "halt" /\ act[a].req \in Requests
        /\ act[a].todo \subseteq Requests /\ r \in Requests
    BY <1>2 DEF HaltConsume, At, ActorAtWork
  <2>3. /\ act' \in [Actors -> ActorRec] /\ Frame(a) /\ act'[a].pc = "invalidate"
        /\ act'[a].req = act[a].req /\ act'[a].op = act[a].op
        /\ act'[a].todo \subseteq act[a].todo
    BY <1>0, <2>1, <2>2, RestStep
  <2>4. UNCHANGED <<ladder, token, windows, tainted, asked, ops, approvedVia, runs,
                    suggested, earned, halted>>
    BY <1>2 DEF HaltConsume
  <2>5. ActorAtWork' /\ Settles(a)
    BY <2>2, <2>3, <2>4 DEF ActorAtWork, Frame, Settles, QuietPcs, Pcs
  <2>6. pend' \in [Requests -> {"none", "open", "expired", "consumed"}]
    BY <2>1 DEF TypeOK
  <2>7. decided' \in [Requests -> SUBSET {"approve", "deny", "halt"}]
    <3>1. decided \in [Requests -> SUBSET {"approve", "deny", "halt"}]
      BY DEF TypeOK
    <3>2. decided[r] \cup {"halt"} \in SUBSET {"approve", "deny", "halt"}
      BY <2>2, <3>1
    <3> QED BY <2>1, <2>2, <3>1, <3>2
  <2> QED BY <2>3, <2>4, <2>5, <2>6, <2>7 DEF TypeOK, ActorRec
<1>3. CASE HaltRevoke(a)
  <2>1. Return(a) /\ act[a].pc = "invalidate" /\ windows' = windows
    BY <1>3 DEF HaltRevoke, At
  <2>2. Longer
    BY <2>1 DEF Longer, TypeOK
  <2>3. act' \in [Actors -> ActorRec] /\ ActorAtWork' /\ Settles(a)
    BY <1>0, <2>1, <2>2, ReturnStep, ReturnWork DEF Settles, QuietPcs, Pcs
  <2>4. token' \in [Requests -> {"none", "live", "expired", "used", "revoked"}]
    BY <1>3 DEF HaltRevoke, TypeOK
  <2>5. act[a].req \in Requests
    BY <2>1 DEF ActorAtWork
  <2>6. halted' \subseteq Tasks
    BY <1>3, <2>5, ApprovalsAssumption DEF HaltRevoke, TypeOK, Req
  <2> QED BY <1>3, <2>3, <2>4, <2>6 DEF HaltRevoke, TypeOK, ActorRec
<1> QED BY <1>1, <1>2, <1>3

\* The clock and a raised taint leave the actors alone.
LEMMA OutsideStep ==
    ASSUME TypeOK, ActorAtWork,
           \/ \E r \in Requests : PendingExpires(r) \/ TokenExpires(r)
           \/ \E i \in 1..Len(windows) : WindowLapses(i)
           \/ \E t \in Tasks : RaiseTaint(t)
    PROVE  TypeOK' /\ ActorAtWork' /\ UNCHANGED <<act, asked, decided, approvedVia, runs>>
<1>1. UNCHANGED <<act, asked, decided, approvedVia, runs>>
  BY DEF PendingExpires, TokenExpires, WindowLapses, RaiseTaint, history
<1>2. CASE \E i \in 1..Len(windows) : WindowLapses(i)
  <2>1. PICK i \in 1..Len(windows) : windows' = [windows EXCEPT ![i].state = "late"]
    BY <1>2 DEF WindowLapses, SetUndoWindowState
  <2>2. windows' \in Seq(WindowRec) /\ Longer
    BY <2>1, WindowStep
  <2>3. UNCHANGED <<ladder, pend, token, tainted, act, asked, ops, history>>
    BY <1>2 DEF WindowLapses
  <2>4. ActorAtWork'
    BY <2>2, <2>3 DEF ActorAtWork, Longer
  <2> QED BY <2>2, <2>3, <2>4 DEF TypeOK, WindowRec, history
<1>3. CASE \E r \in Requests : PendingExpires(r)
  BY <1>3 DEF PendingExpires, TypeOK, ActorAtWork, history
<1>4. CASE \E r \in Requests : TokenExpires(r)
  BY <1>4 DEF TokenExpires, TypeOK, ActorAtWork, history
<1>5. CASE \E t \in Tasks : RaiseTaint(t)
  BY <1>5 DEF RaiseTaint, TypeOK, ActorAtWork, history
<1> QED BY <1>1, <1>2, <1>3, <1>4, <1>5

-----------------------------------------------------------------------------
(* The gates, and the steps that leave the approval rows alone. *)

Gates == CheckOnlyChecks /\ ClaimPassedGates

\* An actor past the gates cannot break what is said of the others.
LEMMA SettleGates ==
    ASSUME Gates, NEW a \in Actors, Settles(a)
    PROVE  Gates'
BY DEF Gates, CheckOnlyChecks, ClaimPassedGates, Settles, Frame, QuietPcs

\* The rows RowInv and OutcomeInv speak of.
approvalRows == <<pend, token, decided, approvedVia, runs>>

\* The outcomes depend on the approval rows only.
LEMMA OutcomeFrame ==
    ASSUME OutcomeInv, UNCHANGED approvalRows
    PROVE  OutcomeInv'
BY DEF OutcomeInv, DecidedSingly, TokenNotDenied, W3Token, RunsSpent, approvalRows

\* Nor can it break the row invariant while the rows stay.
LEMMA SettleRows ==
    ASSUME RowInv, OutcomeInv, NEW a \in Actors, Settles(a), UNCHANGED <<approvalRows, asked>>
    PROVE  RowInv' /\ OutcomeInv'
<1>1. CheckIsFirst'
  BY DEF RowInv, CheckIsFirst, Settles, Frame, QuietPcs, BeforeMint, approvalRows
<1>2. ApproveHasWon'
  BY DEF RowInv, ApproveHasWon, Settles, Frame, QuietPcs, approvalRows
<1>3. UnaskedHasNoRow' /\ UndecidedRows'
  BY DEF RowInv, UnaskedHasNoRow, UndecidedRows, Unconsumed, approvalRows
<1> QED
  BY <1>1, <1>2, <1>3, OutcomeFrame DEF RowInv, approvalRows

\* The steps that neither move an actor along Check, Approve or Deny nor
\* write an approval row.
LEMMA SettlingStep ==
    ASSUME TypeOK, ActorAtWork, NEW a \in Actors,
           \/ FindWindow(a) \/ InsertWindow(a) \/ LoadState(a) \/ SaveState(a)
           \/ FailFromHash(a) \/ FindUndo(a) \/ TriggerUndo(a) \/ LapseUndo(a)
           \/ SweepList(a) \/ SweepOne(a) \/ HaltList(a)
    PROVE  Settles(a) /\ UNCHANGED <<approvalRows, asked>>
<1>0. act \in [Actors -> ActorRec]
  BY DEF TypeOK, ActorRec
<1>1. CASE FindWindow(a) \/ InsertWindow(a) \/ SaveState(a) \/ FailFromHash(a)
  <2>1. Return(a) \/ \E pc \in {"insert", "load"} : Goto(a, pc)
    BY <1>1 DEF FindWindow, InsertWindow, SaveState, Save, FailFromHash, Finish
  <2>2. UNCHANGED <<approvalRows, asked>>
    BY <1>1 DEF FindWindow, InsertWindow, SaveState, Save, FailFromHash, rows, history, approvalRows
  <2>3. Settles(a)
    BY <1>0, <2>1, GotoStep, ReturnStep DEF Settles, QuietPcs, Pcs
  <2> QED BY <2>2, <2>3
<1>2. CASE LoadState(a)
  BY <1>2, LoadStep DEF LoadState, Settles, QuietPcs, Pcs, rows, history, approvalRows
<1>3. CASE FindUndo(a) \/ TriggerUndo(a) \/ LapseUndo(a)
  <2>1. UNCHANGED <<approvalRows, asked>>
    BY <1>3 DEF FindUndo, TriggerUndo, LapseUndo, rows, history, approvalRows
  <2> QED BY <1>3, <2>1, UndoStep
<1>4. CASE SweepList(a) \/ SweepOne(a)
  <2>1. UNCHANGED <<approvalRows, asked>>
    BY <1>4 DEF SweepList, SweepOne, rows, history, approvalRows
  <2> QED BY <1>4, <2>1, SweepStep
<1>5. CASE HaltList(a)
  <2>1. UNCHANGED <<approvalRows, asked>>
    BY <1>5 DEF HaltList, rows, history, approvalRows
  <2> QED BY <1>5, <2>1, HaltStep
<1> QED BY <1>1, <1>2, <1>3, <1>4, <1>5

-----------------------------------------------------------------------------
(* Check. *)

\* The tail of a Check: it stays the only one for its request.
LEMMA CheckStep ==
    ASSUME TypeOK, ActorAtWork, Gates, RowInv, OutcomeInv, NEW a \in Actors,
           CheckTaint(a) \/ CheckLadder(a)
    PROVE  Gates' /\ RowInv' /\ OutcomeInv'
<1>0. act \in [Actors -> ActorRec]
  BY DEF TypeOK, ActorRec
<1>1. /\ act[a].pc \in {"taint", "ladder"} /\ act[a].op = "check"
      /\ UNCHANGED <<approvalRows, asked>>
  BY DEF CheckTaint, CheckLadder, At, rows, history, approvalRows, Gates, CheckOnlyChecks
<1>2. CASE Return(a)
  <2>1. Settles(a)
    BY <1>0, <1>2, ReturnStep DEF Settles, QuietPcs, Pcs
  <2> QED BY <1>1, <2>1, SettleGates, SettleRows
<1>3. CASE ~Return(a)
  <2>1. PICK pc \in {"ladder", "ask", "mint"} :
           Goto(a, pc) /\ (pc = "mint" => Class[act[a].req] # "W3")
    BY <1>3 DEF CheckTaint, CheckLadder, ClassOf
  <2>2. /\ Frame(a) /\ act'[a].pc = pc /\ act'[a].op = "check" /\ act'[a].req = act[a].req
    BY <1>0, <1>1, <2>1, GotoStep DEF Pcs
  <2>3. Gates'
    BY <2>2 DEF Gates, CheckOnlyChecks, ClaimPassedGates, Frame
  <2>4. CheckIsFirst'
    BY <1>1, <2>1, <2>2 DEF RowInv, CheckIsFirst, Frame, BeforeMint, approvalRows
  <2>5. ApproveHasWon'
    BY <1>1, <2>2 DEF RowInv, ApproveHasWon, Frame, approvalRows
  <2>6. UnaskedHasNoRow' /\ UndecidedRows'
    BY <1>1 DEF RowInv, UnaskedHasNoRow, UndecidedRows, Unconsumed, approvalRows
  <2> QED
    BY <1>1, <2>3, <2>4, <2>5, <2>6, OutcomeFrame DEF RowInv
<1> QED BY <1>2, <1>3

\* mintPendingApproval writes the request's first row.
LEMMA MintPendingStep ==
    ASSUME TypeOK, ActorAtWork, Gates, RowInv, OutcomeInv, NEW a \in Actors,
           MintPendingApproval(a)
    PROVE  Gates' /\ RowInv' /\ OutcomeInv'
<1>0. act \in [Actors -> ActorRec] /\ pend \in [Requests -> {"none", "open", "expired", "consumed"}]
  BY DEF TypeOK, ActorRec
<1> DEFINE r == act[a].req
<1>1. /\ act[a].pc = "ask" /\ act[a].op = "check" /\ r \in Requests
      /\ pend' = [pend EXCEPT ![r] = "open"] /\ Return(a)
      /\ UNCHANGED <<token, asked, decided, approvedVia, runs>>
  BY DEF MintPendingApproval, At, Req, history, Gates, CheckOnlyChecks, ActorAtWork
<1>2. r \in asked /\ pend[r] = "none" /\ token[r] = "none" /\ decided[r] = {}
  BY <1>1 DEF RowInv, CheckIsFirst, BeforeMint, UndecidedRows
<1>3. Settles(a)
  BY <1>0, <1>1, ReturnStep DEF Settles, QuietPcs, Pcs
<1>4. pend'[r] = "open" /\ \A q \in Requests \ {r} : pend'[q] = pend[q]
  BY <1>0, <1>1
<1>5. CheckIsFirst'
  BY <1>1, <1>3, <1>4 DEF RowInv, CheckIsFirst, Settles, Frame, QuietPcs, Pcs, BeforeMint, ActorAtWork
<1>6. ApproveHasWon'
  BY <1>1, <1>2, <1>3, <1>4 DEF RowInv, ApproveHasWon, Settles, Frame, QuietPcs, Pcs, ActorAtWork
<1>7. UnaskedHasNoRow' /\ UndecidedRows'
  BY <1>1, <1>2, <1>4 DEF RowInv, UnaskedHasNoRow, UndecidedRows, Unconsumed
<1>8. OutcomeInv'
  BY <1>1, <1>2, <1>4 DEF OutcomeInv, DecidedSingly, TokenNotDenied, W3Token, RunsSpent
<1> QED
  BY <1>3, <1>5, <1>6, <1>7, <1>8, SettleGates DEF RowInv

\* A token is minted by the one Check or the one Approve entitled to it.
LEMMA MintTokenStep ==
    ASSUME TypeOK, ActorAtWork, Gates, RowInv, OutcomeInv, NEW a \in Actors, MintToken(a)
    PROVE  Gates' /\ RowInv' /\ OutcomeInv'
<1>0. /\ act \in [Actors -> ActorRec]
      /\ token \in [Requests -> {"none", "live", "expired", "used", "revoked"}]
  BY DEF TypeOK, ActorRec
<1> DEFINE r == act[a].req
<1>1. /\ act[a].pc = "mint" /\ r \in Requests
      /\ token' = [token EXCEPT ![r] = "live"]
      /\ Return(a) \/ \E pc \in {"window", "load"} : Goto(a, pc)
      /\ UNCHANGED <<pend, asked, decided, approvedVia, runs>>
  BY DEF MintToken, At, Req, Finish, history, ActorAtWork
<1>2. token'[r] = "live" /\ \A q \in Requests \ {r} : token'[q] = token[q]
  BY <1>0, <1>1
<1>3. Settles(a)
  BY <1>0, <1>1, GotoStep, ReturnStep DEF Settles, QuietPcs, Pcs
<1>4. /\ token[r] = "none" /\ r \in asked /\ ~Unconsumed(r)
      /\ decided[r] \subseteq {"approve"}
      /\ Class[r] = "W3" => approvedVia[r] = "typed" /\ pend[r] = "consumed"
  <2>1. CASE act[a].op = "check"
    BY <1>1, <2>1 DEF RowInv, CheckIsFirst, UndecidedRows, Unconsumed, BeforeMint
  <2>2. CASE act[a].op # "check"
    BY <1>1, <2>2 DEF RowInv, ApproveHasWon, UnaskedHasNoRow, Unconsumed
  <2> QED BY <2>1, <2>2
<1>5. CheckIsFirst'
  <2>1. \A b \in Actors \ {a} : act[b].op = "check" /\ act[b].pc \in BeforeMint => act[b].req # r
    <3>1. CASE act[a].op = "check"
      BY <1>1, <3>1 DEF RowInv, CheckIsFirst, BeforeMint
    <3>2. CASE act[a].op # "check"
      BY <1>1, <3>2 DEF RowInv, CheckIsFirst, ApproveHasWon
    <3> QED BY <3>1, <3>2
  <2> QED
    BY <1>1, <1>2, <1>3, <2>1
    DEF RowInv, CheckIsFirst, Settles, Frame, QuietPcs, BeforeMint, ActorAtWork
<1>6. ApproveHasWon'
  <2>1. \A b \in Actors \ {a} : act[b].op # "check" /\ act[b].pc = "mint" => act[b].req # r
    <3>1. CASE act[a].op = "check"
      BY <1>1, <3>1 DEF RowInv, CheckIsFirst, ApproveHasWon, BeforeMint
    <3>2. CASE act[a].op # "check"
      BY <1>1, <3>2 DEF RowInv, ApproveHasWon
    <3> QED BY <3>1, <3>2
  <2> QED
    BY <1>1, <1>2, <1>3, <2>1
    DEF RowInv, ApproveHasWon, Settles, Frame, QuietPcs, ActorAtWork
<1>7. UnaskedHasNoRow' /\ UndecidedRows'
  BY <1>1, <1>2, <1>4 DEF RowInv, UnaskedHasNoRow, UndecidedRows, Unconsumed
<1>8. OutcomeInv'
  BY <1>1, <1>2, <1>4 DEF OutcomeInv, DecidedSingly, TokenNotDenied, W3Token, RunsSpent
<1> QED
  BY <1>3, <1>5, <1>6, <1>7, <1>8, SettleGates DEF RowInv

-----------------------------------------------------------------------------
(* Approve, Deny and the token. *)

\* getValidPendingApproval lets a W3 approval through only with the typed word.
LEMMA GetPendingStep ==
    ASSUME TypeOK, ActorAtWork, Gates, RowInv, OutcomeInv, NEW a \in Actors, GetPending(a)
    PROVE  Gates' /\ RowInv' /\ OutcomeInv'
<1>0. act \in [Actors -> ActorRec]
  BY DEF TypeOK, ActorRec
<1>1. /\ act[a].pc = "get" /\ act[a].op \in {"approve", "deny"} /\ act[a].via \in Vias
      /\ UNCHANGED <<approvalRows, asked>>
  BY DEF GetPending, At, rows, history, approvalRows, Gates, ClaimPassedGates
<1>2. CASE Return(a)
  <2>1. Settles(a)
    BY <1>0, <1>2, ReturnStep DEF Settles, QuietPcs, Pcs
  <2> QED BY <1>1, <2>1, SettleGates, SettleRows
<1>3. CASE ~Return(a)
  <2>1. Goto(a, "claim") /\ (act[a].op = "approve" /\ Class[act[a].req] = "W3" => act[a].via = "typed")
    BY <1>3 DEF GetPending, ClassOf
  <2>2. /\ Frame(a) /\ act'[a].pc = "claim" /\ act'[a].op = act[a].op
        /\ act'[a].req = act[a].req /\ act'[a].via = act[a].via
    BY <1>0, <2>1, GotoStep DEF Pcs
  <2>3. Gates'
    BY <1>1, <2>1, <2>2 DEF Gates, CheckOnlyChecks, ClaimPassedGates, Frame
  <2>4. CheckIsFirst'
    BY <1>1, <2>2 DEF RowInv, CheckIsFirst, Frame, BeforeMint, approvalRows
  <2>5. ApproveHasWon'
    BY <1>1, <2>2 DEF RowInv, ApproveHasWon, Frame, approvalRows
  <2>6. UnaskedHasNoRow' /\ UndecidedRows'
    BY <1>1 DEF RowInv, UnaskedHasNoRow, UndecidedRows, Unconsumed, approvalRows
  <2> QED
    BY <1>1, <2>3, <2>4, <2>5, <2>6, OutcomeFrame DEF RowInv
<1> QED BY <1>2, <1>3

\* The row is consumed once: the winner is the only decision.
LEMMA ConsumePendingStep ==
    ASSUME TypeOK, ActorAtWork, Gates, RowInv, OutcomeInv, NEW a \in Actors, ConsumePending(a)
    PROVE  Gates' /\ RowInv' /\ OutcomeInv'
<1>0. /\ act \in [Actors -> ActorRec]
      /\ pend \in [Requests -> {"none", "open", "expired", "consumed"}]
      /\ decided \in [Requests -> SUBSET {"approve", "deny", "halt"}]
      /\ approvedVia \in [Requests -> Vias]
  BY DEF TypeOK, ActorRec
<1> DEFINE r == act[a].req
<1>1. /\ act[a].pc = "claim" /\ r \in Requests /\ act[a].op \in {"approve", "deny"}
      /\ act[a].op = "approve" /\ Class[r] = "W3" => act[a].via = "typed"
      /\ UNCHANGED <<token, asked, runs>>
  BY DEF ConsumePending, At, ActorAtWork, Gates, ClaimPassedGates
<1>2. CASE ~Unconsumed(r)
  <2>1. Return(a) /\ UNCHANGED <<approvalRows, asked>>
    BY <1>1, <1>2 DEF ConsumePending, Req, approvalRows
  <2>2. Settles(a)
    BY <1>0, <2>1, ReturnStep DEF Settles, QuietPcs, Pcs
  <2> QED BY <2>1, <2>2, SettleGates, SettleRows
<1>3. CASE Unconsumed(r)
  <2>1. /\ pend' = [pend EXCEPT ![r] = "consumed"]
        /\ decided' = [decided EXCEPT ![r] = @ \cup {act[a].op}]
        /\ approvedVia' = IF act[a].op = "approve"
                             THEN [approvedVia EXCEPT ![r] = act[a].via] ELSE approvedVia
        /\ Goto(a, IF act[a].op = "approve" THEN "mint" ELSE "load")
    BY <1>3 DEF ConsumePending, Decide, Req
  <2>2. /\ decided[r] = {} /\ token[r] = "none" /\ pend[r] \in {"open", "expired"} /\ r \in asked
    BY <1>1, <1>3 DEF RowInv, UndecidedRows, UnaskedHasNoRow, Unconsumed
  <2>3. /\ pend'[r] = "consumed" /\ decided'[r] = {act[a].op}
        /\ act[a].op = "approve" => approvedVia'[r] = act[a].via
    BY <1>0, <1>1, <2>1, <2>2
  <2>4. \A q \in Requests \ {r} : /\ pend'[q] = pend[q] /\ decided'[q] = decided[q]
                                  /\ approvedVia'[q] = approvedVia[q]
    BY <1>0, <2>1
  <2>5. /\ Frame(a) /\ act'[a].op = act[a].op /\ act'[a].req = r
        /\ act'[a].pc = IF act[a].op = "approve" THEN "mint" ELSE "load"
    <3>1. CASE act[a].op = "approve"
      <4>1. Goto(a, "mint")
        BY <2>1, <3>1
      <4> QED BY <1>0, <3>1, <4>1, GotoStep DEF Pcs
    <3>2. CASE act[a].op # "approve"
      <4>1. Goto(a, "load")
        BY <2>1, <3>2
      <4> QED BY <1>0, <3>2, <4>1, GotoStep DEF Pcs
    <3> QED BY <3>1, <3>2
  <2>6. Gates'
    BY <2>5 DEF Gates, CheckOnlyChecks, ClaimPassedGates, Frame
  <2>7. CheckIsFirst'
    <3>1. \A b \in Actors : act[b].op = "check" /\ act[b].pc \in BeforeMint => act[b].req # r
      BY <2>2 DEF RowInv, CheckIsFirst
    <3> QED
      BY <1>1, <2>4, <2>5, <3>1 DEF RowInv, CheckIsFirst, Frame, BeforeMint, ActorAtWork
  <2>8. ApproveHasWon'
    <3>1. \A b \in Actors : act[b].op # "check" /\ act[b].pc = "mint" => act[b].req # r
      BY <2>2 DEF RowInv, ApproveHasWon
    <3> QED
      BY <1>1, <2>2, <2>3, <2>4, <2>5, <3>1 DEF RowInv, ApproveHasWon, Frame, ActorAtWork
  <2>9. UnaskedHasNoRow' /\ UndecidedRows'
    BY <1>1, <2>2, <2>3, <2>4 DEF RowInv, UnaskedHasNoRow, UndecidedRows, Unconsumed
  <2>10. OutcomeInv'
    BY <1>1, <2>2, <2>3, <2>4 DEF OutcomeInv, DecidedSingly, TokenNotDenied, W3Token, RunsSpent
  <2> QED
    BY <2>6, <2>7, <2>8, <2>9, <2>10 DEF RowInv
<1> QED BY <1>2, <1>3

\* No actor has come to a place where the invariant speaks of it.
Settled == act' = act \/ \E a \in Actors : Settles(a)

\* A token that exists is spent, revoked or expires: what the invariant says of
\* requests without a token is untouched.
LEMMA TokenRows ==
    ASSUME ActorAtWork, RowInv, OutcomeInv, Settled, RunsSpent',
           \A r \in Requests : token'[r] = "none" <=> token[r] = "none",
           UNCHANGED <<pend, decided, approvedVia, asked>>
    PROVE  RowInv' /\ OutcomeInv'
<1>1. CheckIsFirst'
  <2>1. CASE act' = act
    BY <2>1 DEF RowInv, CheckIsFirst, BeforeMint, ActorAtWork
  <2>2. CASE \E a \in Actors : Settles(a)
    BY <2>2 DEF RowInv, CheckIsFirst, Settles, Frame, QuietPcs, BeforeMint, ActorAtWork
  <2> QED BY <2>1, <2>2 DEF Settled
<1>2. ApproveHasWon'
  <2>1. CASE act' = act
    BY <2>1 DEF RowInv, ApproveHasWon, ActorAtWork
  <2>2. CASE \E a \in Actors : Settles(a)
    BY <2>2 DEF RowInv, ApproveHasWon, Settles, Frame, QuietPcs, ActorAtWork
  <2> QED BY <2>1, <2>2 DEF Settled
<1>3. UnaskedHasNoRow' /\ UndecidedRows'
  BY DEF RowInv, UnaskedHasNoRow, UndecidedRows, Unconsumed
<1>4. DecidedSingly' /\ TokenNotDenied' /\ W3Token'
  BY DEF OutcomeInv, DecidedSingly, TokenNotDenied, W3Token
<1> QED
  BY <1>1, <1>2, <1>3, <1>4 DEF RowInv, OutcomeInv

\* An unspent token has authorised nothing; spending it authorises one run.
LEMMA SpendTokenStep ==
    ASSUME TypeOK, ActorAtWork, Gates, RowInv, OutcomeInv, NEW a \in Actors, SpendToken(a)
    PROVE  Gates' /\ RowInv' /\ OutcomeInv'
<1>0. /\ act \in [Actors -> ActorRec] /\ runs \in [Requests -> Nat]
      /\ token \in [Requests -> {"none", "live", "expired", "used", "revoked"}]
  BY DEF TypeOK, ActorRec
<1> DEFINE r == act[a].req
           ok == token[r] = "live" /\ act[a].via = "match"
<1>1. /\ act[a].pc = "spend" /\ r \in Requests
      /\ token' = IF Unspent(r) THEN [token EXCEPT ![r] = "used"] ELSE token
      /\ runs' = IF ok THEN [runs EXCEPT ![r] = @ + 1] ELSE runs
      /\ Return(a) \/ Goto(a, "fail")
      /\ UNCHANGED <<pend, asked, decided, approvedVia>>
  BY DEF SpendToken, At, Req, ActorAtWork
<1>2. Settles(a)
  BY <1>0, <1>1, GotoStep, ReturnStep DEF Settles, QuietPcs, Pcs
<1>3. \A q \in Requests : token'[q] = "none" <=> token[q] = "none"
  BY <1>0, <1>1 DEF Unspent
<1>4. RunsSpent'
  <2>1. CASE ok
    <3>1. token'[r] = "used" /\ \A q \in Requests \ {r} : token'[q] = token[q]
      BY <1>0, <1>1, <2>1 DEF Unspent
    <3>2. runs[r] = 0
      BY <1>1, <2>1 DEF OutcomeInv, RunsSpent
    <3>3. runs'[r] = 1 /\ \A q \in Requests \ {r} : runs'[q] = runs[q]
      BY <1>0, <1>1, <2>1, <3>2
    <3> QED BY <3>1, <3>3 DEF OutcomeInv, RunsSpent
  <2>2. CASE ~ok
    <3>1. runs' = runs /\ \A q \in Requests : token[q] = "used" => token'[q] = "used"
      BY <1>0, <1>1, <2>2 DEF Unspent
    <3> QED BY <3>1 DEF OutcomeInv, RunsSpent
  <2> QED BY <2>1, <2>2
<1> QED
  BY <1>1, <1>2, <1>3, <1>4, SettleGates, TokenRows DEF Settled

\* RevokeApprovalTokensByTask touches unspent tokens only.
LEMMA HaltRevokeStep ==
    ASSUME TypeOK, ActorAtWork, Gates, RowInv, OutcomeInv, NEW a \in Actors, HaltRevoke(a)
    PROVE  Gates' /\ RowInv' /\ OutcomeInv'
<1>1. Settles(a)
  BY HaltStep
<1>2. /\ UNCHANGED <<pend, asked, decided, approvedVia, runs>>
      /\ \A q \in Requests : /\ token'[q] = "none" <=> token[q] = "none"
                             /\ token[q] = "used" => token'[q] = "used"
  BY DEF HaltRevoke, Unspent
<1>3. RunsSpent'
  BY <1>2 DEF OutcomeInv, RunsSpent
<1> QED
  BY <1>1, <1>2, <1>3, SettleGates, TokenRows DEF Settled

\* The halt key decides what nobody has decided yet.
LEMMA HaltConsumeStep ==
    ASSUME TypeOK, ActorAtWork, Gates, RowInv, OutcomeInv, NEW a \in Actors, HaltConsume(a)
    PROVE  Gates' /\ RowInv' /\ OutcomeInv'
<1>0. /\ pend \in [Requests -> {"none", "open", "expired", "consumed"}]
      /\ decided \in [Requests -> SUBSET {"approve", "deny", "halt"}]
  BY DEF TypeOK
<1>1. Settles(a)
  BY HaltStep
<1>2. PICK r \in act[a].todo :
         /\ pend' = IF Unconsumed(r) THEN [pend EXCEPT ![r] = "consumed"] ELSE pend
         /\ decided' = IF Unconsumed(r) THEN [decided EXCEPT ![r] = @ \cup {"halt"}] ELSE decided
  BY DEF HaltConsume
<1>3. r \in Requests /\ UNCHANGED <<token, asked, approvedVia, runs>>
  BY DEF HaltConsume, At, ActorAtWork
<1>4. CASE ~Unconsumed(r)
  <2>1. UNCHANGED <<approvalRows, asked>>
    BY <1>2, <1>3, <1>4 DEF approvalRows
  <2> QED BY <1>1, <2>1, SettleGates, SettleRows
<1>5. CASE Unconsumed(r)
  <2>1. decided[r] = {} /\ token[r] = "none" /\ pend[r] \in {"open", "expired"} /\ r \in asked
    BY <1>3, <1>5 DEF RowInv, UndecidedRows, UnaskedHasNoRow, Unconsumed
  <2>2. pend'[r] = "consumed" /\ decided'[r] = {"halt"}
    BY <1>0, <1>2, <1>3, <1>5, <2>1
  <2>3. \A q \in Requests \ {r} : pend'[q] = pend[q] /\ decided'[q] = decided[q]
    BY <1>0, <1>2, <1>5
  <2>4. CheckIsFirst'
    <3>1. \A b \in Actors : act[b].op = "check" /\ act[b].pc \in BeforeMint => act[b].req # r
      BY <2>1 DEF RowInv, CheckIsFirst
    <3> QED
      BY <1>1, <1>3, <2>3, <3>1
      DEF RowInv, CheckIsFirst, Settles, Frame, QuietPcs, BeforeMint, ActorAtWork
  <2>5. ApproveHasWon'
    <3>1. \A b \in Actors : act[b].op # "check" /\ act[b].pc = "mint" => act[b].req # r
      BY <2>1 DEF RowInv, ApproveHasWon
    <3> QED
      BY <1>1, <1>3, <2>3, <3>1
      DEF RowInv, ApproveHasWon, Settles, Frame, QuietPcs, ActorAtWork
  <2>6. UnaskedHasNoRow' /\ UndecidedRows'
    BY <1>3, <2>1, <2>2, <2>3 DEF RowInv, UnaskedHasNoRow, UndecidedRows, Unconsumed
  <2>7. OutcomeInv'
    BY <1>3, <2>1, <2>2, <2>3 DEF OutcomeInv, DecidedSingly, TokenNotDenied, W3Token, RunsSpent
  <2> QED
    BY <1>1, <2>4, <2>5, <2>6, <2>7, SettleGates DEF RowInv
<1> QED BY <1>4, <1>5

-----------------------------------------------------------------------------
(* An operation begins, the clock, the whole step. *)

\* A new Check is the first of its request; other operations change no row.
LEMMA BeginInv ==
    ASSUME TypeOK, ActorAtWork, Gates, RowInv, OutcomeInv,
           NEW a \in Actors, NEW op \in Ops, NEW r \in Requests, NEW via \in Vias,
           Begin(a, op, r, via)
    PROVE  ActorAtWork' /\ Gates' /\ RowInv' /\ OutcomeInv'
<1>1. /\ Frame(a) /\ act'[a].pc = FirstPc[op] /\ act'[a].op = op /\ act'[a].req = r
      /\ act'[a].via = via /\ act'[a].todo = {}
  BY BeginStep
<1>2. /\ UNCHANGED <<approvalRows, windows>>
      /\ asked' = IF op = "check" THEN asked \cup {r} ELSE asked
      /\ op = "check" => r \notin asked
  BY DEF Begin, Offered, rows, history, approvalRows
<1>3. OutcomeInv'
  BY <1>2, OutcomeFrame
<1>4. UnaskedHasNoRow' /\ UndecidedRows'
  BY <1>2 DEF RowInv, UnaskedHasNoRow, UndecidedRows, Unconsumed, approvalRows
<1>5. /\ FirstPc["check"] = "taint" /\ FirstPc["approve"] = "get" /\ FirstPc["deny"] = "get"
      /\ FirstPc["use"] = "spend" /\ FirstPc["undo"] = "find" /\ FirstPc["promote"] = "load"
      /\ FirstPc["sweep"] = "list" /\ FirstPc["halt"] = "list"
  BY DEF FirstPc
<1>6. CASE op = "check"
  <2>1. act'[a].pc = "taint" /\ act'[a].op = "check" /\ asked' = asked \cup {r} /\ r \notin asked
    BY <1>1, <1>2, <1>5, <1>6
  <2>2. ActorAtWork' /\ Gates'
    BY <1>1, <1>2, <2>1 DEF ActorAtWork, Gates, CheckOnlyChecks, ClaimPassedGates, Frame
  <2>3. pend[r] = "none" /\ token[r] = "none"
    BY <2>1 DEF RowInv, UnaskedHasNoRow
  <2>4. CheckIsFirst'
    <3>1. \A b \in Actors : act[b].op = "check" /\ act[b].pc \in BeforeMint => act[b].req # r
      BY <2>1 DEF RowInv, CheckIsFirst
    <3> QED
      BY <1>1, <1>2, <2>1, <2>3, <3>1 DEF RowInv, CheckIsFirst, Frame, approvalRows
  <2>5. ApproveHasWon'
    BY <1>1, <1>2, <2>1 DEF RowInv, ApproveHasWon, Frame, approvalRows
  <2> QED BY <1>3, <1>4, <2>2, <2>4, <2>5 DEF RowInv
<1>7. CASE op \in {"approve", "deny"}
  <2>1. act'[a].pc = "get" /\ act'[a].op \in {"approve", "deny"} /\ asked' = asked
    BY <1>1, <1>2, <1>5, <1>7
  <2>2. ActorAtWork' /\ Gates'
    BY <1>1, <1>2, <2>1 DEF ActorAtWork, Gates, CheckOnlyChecks, ClaimPassedGates, Frame
  <2>3. CheckIsFirst'
    BY <1>1, <1>2, <2>1 DEF RowInv, CheckIsFirst, Frame, BeforeMint, approvalRows
  <2>4. ApproveHasWon'
    BY <1>1, <1>2, <2>1 DEF RowInv, ApproveHasWon, Frame, approvalRows
  <2> QED BY <1>3, <1>4, <2>2, <2>3, <2>4 DEF RowInv
<1>8. CASE op \notin {"check", "approve", "deny"}
  <2>1. /\ act'[a].pc \in {"spend", "find", "load", "list"} /\ asked' = asked
        /\ op = "undo" => act'[a].pc = "find"
    BY <1>1, <1>2, <1>5, <1>8 DEF Ops
  <2>2. Settles(a)
    BY <1>1, <2>1 DEF Settles, QuietPcs, Pcs
  <2>3. ActorAtWork'
    BY <1>1, <1>2, <2>1 DEF ActorAtWork, Frame
  <2> QED BY <1>2, <2>1, <2>2, <2>3, SettleGates, SettleRows
<1> QED BY <1>6, <1>7, <1>8

\* Expiry never creates a token or a decision.
LEMMA OutsideInv ==
    ASSUME TypeOK, ActorAtWork, Gates, RowInv, OutcomeInv,
           \/ \E r \in Requests : PendingExpires(r) \/ TokenExpires(r)
           \/ \E i \in 1..Len(windows) : WindowLapses(i)
           \/ \E t \in Tasks : RaiseTaint(t)
    PROVE  Gates' /\ RowInv' /\ OutcomeInv'
<1>1. UNCHANGED <<act, asked, decided, approvedVia, runs>>
  BY OutsideStep
<1>2. Gates'
  BY <1>1 DEF Gates, CheckOnlyChecks, ClaimPassedGates
<1>3. CASE \E r \in Requests : PendingExpires(r)
  <2>1. PICK r \in Requests : PendingExpires(r)
    BY <1>3
  <2>2. /\ pend[r] = "open" /\ pend'[r] = "expired" /\ token' = token
        /\ \A q \in Requests \ {r} : pend'[q] = pend[q]
    BY <2>1 DEF PendingExpires, TypeOK
  <2>3. decided[r] = {} /\ token[r] = "none" /\ r \in asked
    BY <2>2 DEF RowInv, UndecidedRows, UnaskedHasNoRow, Unconsumed
  <2>4. CheckIsFirst'
    BY <1>1, <2>2 DEF RowInv, CheckIsFirst, BeforeMint, ActorAtWork
  <2>5. ApproveHasWon'
    BY <1>1, <2>2 DEF RowInv, ApproveHasWon, ActorAtWork
  <2>6. UnaskedHasNoRow' /\ UndecidedRows'
    BY <1>1, <2>2, <2>3 DEF RowInv, UnaskedHasNoRow, UndecidedRows, Unconsumed
  <2>7. OutcomeInv'
    BY <1>1, <2>2, <2>3 DEF OutcomeInv, DecidedSingly, TokenNotDenied, W3Token, RunsSpent
  <2> QED BY <1>2, <2>4, <2>5, <2>6, <2>7 DEF RowInv
<1>4. CASE ~\E r \in Requests : PendingExpires(r)
  <2>1. /\ pend' = pend
        /\ \A q \in Requests : /\ token'[q] = "none" <=> token[q] = "none"
                               /\ token[q] = "used" => token'[q] = "used"
    BY <1>4 DEF TokenExpires, WindowLapses, RaiseTaint, TypeOK
  <2>2. RunsSpent'
    BY <1>1, <2>1 DEF OutcomeInv, RunsSpent
  <2> QED BY <1>1, <1>2, <2>1, <2>2, TokenRows DEF Settled
<1> QED BY <1>3, <1>4

\* Every step keeps the inductive invariant.
LEMMA InvStep ==
    ASSUME IInv, [Next]_vars
    PROVE  IInv'
<1>0. TypeOK /\ ActorAtWork /\ Gates /\ ClaimPassedGates /\ RowInv /\ OutcomeInv
  BY DEF IInv, ActorInv, Gates
<1> SUFFICES TypeOK' /\ ActorAtWork' /\ Gates' /\ RowInv' /\ OutcomeInv'
  BY DEF IInv, ActorInv, Gates
<1>1. ASSUME NEW a \in Actors, Step(a)
      PROVE  TypeOK' /\ ActorAtWork' /\ Gates' /\ RowInv' /\ OutcomeInv'
  <2>1. TypeOK' /\ ActorAtWork'
    <3>1. CASE CheckTaint(a) \/ CheckLadder(a) \/ FindWindow(a) \/ GetPending(a) \/ FailFromHash(a)
      BY <1>0, <3>1, PlainStep
    <3>2. CASE \/ MintPendingApproval(a) \/ MintToken(a) \/ InsertWindow(a)
               \/ ConsumePending(a) \/ SpendToken(a)
      BY <1>0, <3>2, RowStep
    <3>3. CASE LoadState(a)
      <4>1. /\ TypeOK' /\ Frame(a) /\ act'[a].pc = "save" /\ act'[a].op = act[a].op
            /\ act'[a].req = act[a].req /\ act'[a].todo = act[a].todo
        BY <1>0, <3>3, LoadStep
      <4>2. act[a].pc = "load" /\ windows' = windows
        BY <3>3 DEF LoadState, At, rows
      <4> QED BY <1>0, <4>1, <4>2 DEF ActorAtWork, Frame
    <3>4. CASE SaveState(a)
      BY <1>0, <3>4, SaveStep
    <3>5. CASE FindUndo(a) \/ TriggerUndo(a) \/ LapseUndo(a)
      BY <1>0, <3>5, UndoStep
    <3>6. CASE SweepList(a) \/ SweepOne(a)
      BY <1>0, <3>6, SweepStep
    <3>7. CASE HaltList(a) \/ HaltConsume(a) \/ HaltRevoke(a)
      BY <1>0, <3>7, HaltStep
    <3> QED BY <1>1, <3>1, <3>2, <3>3, <3>4, <3>5, <3>6, <3>7 DEF Step
  <2>2. Gates' /\ RowInv' /\ OutcomeInv'
    <3>1. CASE CheckTaint(a) \/ CheckLadder(a)
      BY <1>0, <3>1, CheckStep
    <3>2. CASE MintPendingApproval(a)
      BY <1>0, <3>2, MintPendingStep
    <3>3. CASE MintToken(a)
      BY <1>0, <3>3, MintTokenStep
    <3>4. CASE GetPending(a)
      BY <1>0, <3>4, GetPendingStep
    <3>5. CASE ConsumePending(a)
      BY <1>0, <3>5, ConsumePendingStep
    <3>6. CASE SpendToken(a)
      BY <1>0, <3>6, SpendTokenStep
    <3>7. CASE HaltConsume(a)
      BY <1>0, <3>7, HaltConsumeStep
    <3>8. CASE HaltRevoke(a)
      BY <1>0, <3>8, HaltRevokeStep
    <3>9. CASE \/ FindWindow(a) \/ InsertWindow(a) \/ LoadState(a) \/ SaveState(a)
               \/ FailFromHash(a) \/ FindUndo(a) \/ TriggerUndo(a) \/ LapseUndo(a)
               \/ SweepList(a) \/ SweepOne(a) \/ HaltList(a)
      <4>1. Settles(a) /\ UNCHANGED <<approvalRows, asked>>
        BY <1>0, <3>9, SettlingStep
      <4> QED BY <1>0, <4>1, SettleGates, SettleRows
    <3> QED
      BY <1>1, <3>1, <3>2, <3>3, <3>4, <3>5, <3>6, <3>7, <3>8, <3>9 DEF Step
  <2> QED BY <2>1, <2>2
<1>2. ASSUME NEW a \in Actors, NEW op \in Ops, NEW r \in Requests, NEW via \in Vias,
             Begin(a, op, r, via)
      PROVE  TypeOK' /\ ActorAtWork' /\ Gates' /\ RowInv' /\ OutcomeInv'
  BY <1>0, <1>2, BeginStep, BeginInv
<1>3. CASE \/ \E r \in Requests : PendingExpires(r) \/ TokenExpires(r)
           \/ \E i \in 1..Len(windows) : WindowLapses(i)
           \/ \E t \in Tasks : RaiseTaint(t)
  BY <1>0, <1>3, OutsideStep, OutsideInv
<1>4. CASE UNCHANGED vars
  <2>1. UNCHANGED <<ladder, pend, token, windows, tainted, act, asked, ops, decided,
                    approvedVia, runs, suggested, earned, halted>>
    BY <1>4 DEF vars, rows, history
  <2>2. TypeOK' /\ ActorAtWork'
    BY <1>0, <2>1 DEF TypeOK, ActorAtWork
  <2>3. Gates'
    BY <1>0, <2>1 DEF Gates, CheckOnlyChecks, ClaimPassedGates
  <2>4. RowInv' /\ OutcomeInv'
    <3>1. RunsSpent'
      BY <1>0, <2>1 DEF OutcomeInv, RunsSpent
    <3> QED BY <1>0, <2>1, <3>1, TokenRows DEF Settled
  <2> QED BY <2>2, <2>3, <2>4
<1> QED
  BY <1>1, <1>2, <1>3, <1>4 DEF Next

\* It holds with empty tables.
LEMMA InitInv == Init => IInv
<1> SUFFICES ASSUME Init PROVE IInv
  OBVIOUS
<1>1. \A a \in Actors : act[a].pc = "idle" /\ act[a].op = "none"
  BY DEF Init, IdleActor
<1>2. TypeOK
  <2>1. act \in [Actors -> ActorRec]
    <3>1. IdleActor \in ActorRec
      BY DEF IdleActor, ActorRec, Pcs, Vias, L4
    <3> QED BY <3>1 DEF Init
  <2>2. ladder \in [Classes -> [level : 0..L4, streak : Nat]]
    BY ApprovalsAssumption DEF Init, L4
  <2>3. windows \in Seq(WindowRec)
    BY DEF Init
  <2>4. ops \in 0..MaxOps
    BY ApprovalsAssumption DEF Init
  <2> QED BY <2>1, <2>2, <2>3, <2>4 DEF Init, TypeOK, ActorRec, WindowRec, Vias
<1>3. ActorInv
  BY <1>1 DEF ActorInv, ActorAtWork, CheckOnlyChecks, ClaimPassedGates
<1>4. RowInv
  BY <1>1 DEF Init, RowInv, CheckIsFirst, ApproveHasWon, UnaskedHasNoRow, UndecidedRows,
     Unconsumed, BeforeMint
<1>5. OutcomeInv
  BY DEF Init, OutcomeInv, DecidedSingly, TokenNotDenied, W3Token, RunsSpent
<1> QED
  BY <1>2, <1>3, <1>4, <1>5 DEF IInv

\* So it always holds.
LEMMA Invariance == Spec => []IInv
BY InitInv, InvStep, PTL DEF Spec

-----------------------------------------------------------------------------
(* The theorems. *)

\* The rows and the operations in flight stay well formed: in particular no
\* sequence of counts, promotions and demotions leaves the ladder L0..L4.
THEOREM TypeCorrect == Spec => []TypeOK
<1>1. IInv => TypeOK
  BY DEF IInv
<1> QED BY <1>1, Invariance, PTL

\* Of an Approve, a Deny and a halt that race for a pending approval, whatever
\* their number, one takes effect (ConsumePendingApproval's WHERE clause).
THEOREM DecidedAtMostOnce == Spec => []DecidedOnce
<1>1. IInv => DecidedOnce
  <2> SUFFICES ASSUME IInv, NEW r \in Requests PROVE Cardinality(decided[r]) <= 1
    BY DEF DecidedOnce
  <2>1. CASE decided[r] = {}
    BY <2>1, FS_EmptySet
  <2>2. CASE decided[r] # {}
    <3>1. PICK d : decided[r] = {d}
      BY <2>2 DEF IInv, OutcomeInv, DecidedSingly
    <3>2. Cardinality({d}) = 1
      BY FS_Singleton
    <3> QED BY <3>1, <3>2
  <2> QED BY <2>1, <2>2
<1> QED BY <1>1, Invariance, PTL

\* No W3 token exists without a local approval with the typed word, however
\* many checks, approvals and promotions interleave.
THEOREM W3TokenTyped == Spec => []W3NeedsTypedApproval
<1>1. IInv => W3NeedsTypedApproval
  BY DEF IInv, OutcomeInv, W3Token, W3NeedsTypedApproval
<1> QED BY <1>1, Invariance, PTL

\* A token authorises one run, and none for a request that was denied or whose
\* pending approval the halt key consumed (ConsumeToken).
THEOREM OneExecution == Spec => []ExecutesOnce
<1>1. IInv => ExecutesOnce
  <2> SUFFICES ASSUME IInv, NEW r \in Requests, runs[r] > 0
               PROVE  runs[r] = 1 /\ decided[r] \subseteq {"approve"}
    BY DEF ExecutesOnce
  <2>1. runs[r] = 1 /\ token[r] = "used"
    BY DEF IInv, OutcomeInv, RunsSpent
  <2>2. decided[r] \subseteq {"approve"}
    BY <2>1 DEF IInv, OutcomeInv, TokenNotDenied
  <2> QED BY <2>1, <2>2
<1> QED BY <1>1, Invariance, PTL

-----------------------------------------------------------------------------
(* One operation at a time: what halt.go, queries.sql and the ladder's     *)
(* comments promise.  With two actors TLC refutes it; with one it is       *)
(* proved for any number of requests, tasks and operations.                *)

OneActor == \A a, b \in Actors : a = b

\* Where an operation may still bring a pending approval or a token to life.
LivePcs == {"taint", "ladder", "ask", "mint", "claim"}

\* What a halt has invalidated stays dead: nothing is under way for it.
HaltDone ==
    /\ \A r \in Requests : Task[r] \in halted => ~Unconsumed(r) /\ ~Unspent(r)
    /\ \A a \in Actors : act[a].pc \in LivePcs => Task[act[a].req] \notin halted
    /\ \A a \in Actors : act[a].pc = "invalidate" =>
          \A r \in Requests : Task[r] = Task[act[a].req] /\ Unconsumed(r) => r \in act[a].todo

\* A step that brings nothing to life.
LEMMA HaltQuiet ==
    ASSUME OneActor, HaltDone, NEW a \in Actors, halted' = halted,
           \A r \in Requests : /\ pend'[r] \in {"open", "expired"} => Unconsumed(r)
                               /\ token'[r] \in {"live", "expired"} => Unspent(r),
           act'[a].pc \in LivePcs => act[a].pc \in LivePcs /\ act'[a].req = act[a].req,
           act'[a].pc # "invalidate"
    PROVE  HaltDone'
<1>1. \A b \in Actors : b = a
  BY DEF OneActor
<1> QED BY <1>1 DEF HaltDone, Unconsumed, Unspent

\* Check and Approve do not start, or get past the row, for a halted task.
LEMMA HaltDoneChecks ==
    ASSUME IInv, OneActor, HaltDone, NEW a \in Actors,
           \/ CheckTaint(a) \/ CheckLadder(a) \/ MintPendingApproval(a) \/ MintToken(a)
           \/ FindWindow(a) \/ GetPending(a) \/ ConsumePending(a)
    PROVE  HaltDone'
<1>0. act \in [Actors -> ActorRec] /\ ActorAtWork
  BY DEF IInv, ActorInv, TypeOK, ActorRec
<1>1. /\ pend \in [Requests -> {"none", "open", "expired", "consumed"}]
      /\ token \in [Requests -> {"none", "live", "expired", "used", "revoked"}]
  BY DEF IInv, TypeOK
<1>2. \A b \in Actors : b = a
  BY DEF OneActor
<1>3. act[a].req \in Requests
  BY <1>0 DEF CheckTaint, CheckLadder, MintPendingApproval, MintToken, FindWindow, GetPending,
     ConsumePending, At, ActorAtWork
<1>4. /\ Return(a) \/ \E pc \in {"ladder", "ask", "mint", "window", "load", "insert", "claim"} : Goto(a, pc)
      /\ halted' = halted
  BY DEF CheckTaint, CheckLadder, MintPendingApproval, MintToken, FindWindow, GetPending,
     ConsumePending, Decide, Finish, rows, history
<1>5. /\ act'[a].pc \in {"idle", "ladder", "ask", "mint", "window", "load", "insert", "claim"}
      /\ act'[a].pc # "idle" => act'[a].req = act[a].req
  BY <1>0, <1>4, GotoStep, ReturnStep DEF Pcs
<1>6. CASE CheckTaint(a) \/ CheckLadder(a) \/ FindWindow(a) \/ GetPending(a)
  <2>1. UNCHANGED <<pend, token>>
    BY <1>6 DEF CheckTaint, CheckLadder, FindWindow, GetPending, rows
  <2>2. CASE GetPending(a)
    <3>1. act'[a].pc = "claim" => pend[act[a].req] = "open"
      <4>1. pend[act[a].req] # "open" => Return(a)
        BY <2>2 DEF GetPending, Req
      <4> QED BY <1>0, <4>1, ReturnStep
    <3>2. act'[a].pc \in {"idle", "claim"}
      <4>1. Return(a) \/ Goto(a, "claim")
        BY <2>2 DEF GetPending
      <4> QED BY <1>0, <4>1, GotoStep, ReturnStep DEF Pcs
    <3>3. act'[a].pc = "claim" => Task[act[a].req] \notin halted
      BY <1>3, <3>1 DEF HaltDone, Unconsumed
    <3> QED BY <1>2, <1>4, <1>5, <2>1, <3>2, <3>3 DEF HaltDone, Unconsumed, Unspent, LivePcs
  <2>3. CASE CheckTaint(a) \/ CheckLadder(a)
    BY <1>4, <1>5, <2>1, <2>3, HaltQuiet
    DEF CheckTaint, CheckLadder, At, Unconsumed, Unspent, LivePcs
  <2>4. CASE FindWindow(a)
    <3>1. Return(a) \/ Goto(a, "load") \/ Goto(a, "insert")
      BY <2>4 DEF FindWindow, Finish
    <3>2. act'[a].pc \in {"idle", "load", "insert"}
      BY <1>0, <3>1, GotoStep, ReturnStep DEF Pcs
    <3> QED BY <1>4, <2>1, <3>2, HaltQuiet DEF Unconsumed, Unspent, LivePcs
  <2> QED BY <1>6, <2>2, <2>3, <2>4
<1>7. CASE MintPendingApproval(a)
  <2>1. /\ Task[act[a].req] \notin halted /\ act'[a].pc = "idle" /\ token' = token
        /\ pend' = [pend EXCEPT ![act[a].req] = "open"]
    BY <1>0, <1>7, ReturnStep DEF MintPendingApproval, At, Req, HaltDone, LivePcs
  <2> QED BY <1>1, <1>2, <1>3, <1>4, <2>1 DEF HaltDone, Unconsumed, Unspent, LivePcs
<1>8. CASE MintToken(a)
  <2>1. /\ Task[act[a].req] \notin halted /\ pend' = pend
        /\ token' = [token EXCEPT ![act[a].req] = "live"]
        /\ Return(a) \/ Goto(a, "window") \/ Goto(a, "load")
    BY <1>8 DEF MintToken, At, Req, HaltDone, LivePcs, Finish
  <2>2. act'[a].pc \in {"idle", "window", "load"}
    BY <1>0, <2>1, GotoStep, ReturnStep DEF Pcs
  <2> QED BY <1>1, <1>2, <1>3, <1>4, <2>1, <2>2 DEF HaltDone, Unconsumed, Unspent, LivePcs
<1>9. CASE ConsumePending(a)
  <2>1. \A r \in Requests : pend'[r] \in {"open", "expired"} => Unconsumed(r)
    BY <1>1, <1>3, <1>9 DEF ConsumePending, Req, Unconsumed
  <2>2. token' = token /\ act[a].pc \in LivePcs
    BY <1>9 DEF ConsumePending, At, LivePcs
  <2> QED BY <1>4, <1>5, <2>1, <2>2, HaltQuiet DEF Unspent, LivePcs
<1> QED BY <1>6, <1>7, <1>8, <1>9

\* The halt consumes what its list holds, then revokes every token.
LEMMA HaltDoneHalts ==
    ASSUME IInv, OneActor, HaltDone, NEW a \in Actors,
           HaltList(a) \/ HaltConsume(a) \/ HaltRevoke(a)
    PROVE  HaltDone'
<1>0. act \in [Actors -> ActorRec] /\ ActorAtWork
  BY DEF IInv, ActorInv, TypeOK, ActorRec
<1>1. /\ pend \in [Requests -> {"none", "open", "expired", "consumed"}]
      /\ token \in [Requests -> {"none", "live", "expired", "used", "revoked"}]
  BY DEF IInv, TypeOK
<1>2. \A b \in Actors : b = a
  BY DEF OneActor
<1>3. CASE HaltList(a)
  <2> DEFINE S == {r \in Requests : Task[r] = Task[Req(a)] /\ Unconsumed(r)}
  <2>1. UNCHANGED <<pend, token, halted>>
    BY <1>3 DEF HaltList, rows, history
  <2>2. SetTodo(a, "invalidate", S)
    BY <1>3 DEF HaltList, SetTodo
  <2>3. S \in SUBSET (Requests \cup Nat) /\ "invalidate" \in Pcs
    BY DEF Pcs
  <2>4. \A r \in Requests : Task[r] = Task[act[a].req] /\ Unconsumed(r) => r \in S
    BY DEF Req
  <2> HIDE DEF S
  <2>5. act'[a].pc = "invalidate" /\ act'[a].req = act[a].req /\ act'[a].todo = S
    BY <1>0, <2>2, <2>3, TodoStep
  <2> QED BY <1>2, <2>1, <2>4, <2>5 DEF HaltDone, Unconsumed, Unspent, LivePcs
<1>4. CASE HaltConsume(a)
  <2>1. PICK r \in act[a].todo :
           /\ pend' = IF Unconsumed(r) THEN [pend EXCEPT ![r] = "consumed"] ELSE pend
           /\ act' = [act EXCEPT ![a].todo = @ \ {r}]
    BY <1>4 DEF HaltConsume
  <2>2. UNCHANGED <<token, halted>> /\ act[a].pc = "invalidate" /\ r \in Requests
    BY <1>0, <1>4 DEF HaltConsume, At, ActorAtWork
  <2>3. act'[a].pc = "invalidate" /\ act'[a].req = act[a].req /\ act'[a].todo = act[a].todo \ {r}
    BY <1>0, <2>1, <2>2, RestStep
  <2>4. /\ pend'[r] \notin {"open", "expired"}
        /\ \A q \in Requests : pend'[q] \in {"open", "expired"} => Unconsumed(q)
    BY <1>1, <2>1, <2>2 DEF Unconsumed
  <2> QED BY <1>2, <2>2, <2>3, <2>4 DEF HaltDone, Unconsumed, Unspent, LivePcs
<1>5. CASE HaltRevoke(a)
  <2>1. /\ act[a].pc = "invalidate" /\ act[a].todo = {} /\ Return(a) /\ pend' = pend
        /\ halted' = halted \cup {Task[act[a].req]}
        /\ token' = [r \in Requests |-> IF Task[r] = Task[act[a].req] /\ Unspent(r)
                                          THEN "revoked" ELSE token[r]]
    BY <1>5 DEF HaltRevoke, At, Req
  <2>2. act'[a].pc = "idle"
    BY <1>0, <2>1, ReturnStep
  <2>3. \A r \in Requests : Task[r] = Task[act[a].req] => ~Unconsumed(r)
    BY <2>1 DEF HaltDone
  <2> QED BY <1>2, <2>1, <2>2, <2>3 DEF HaltDone, Unconsumed, Unspent, LivePcs
<1> QED BY <1>3, <1>4, <1>5

\* No step brings to life what a halt has invalidated.
LEMMA HaltDoneStep == ASSUME IInv, OneActor, HaltDone, [Next]_vars PROVE HaltDone'
<1>0. act \in [Actors -> ActorRec] /\ TypeOK /\ ActorAtWork
  BY DEF IInv, ActorInv, TypeOK, ActorRec
<1>1. /\ pend \in [Requests -> {"none", "open", "expired", "consumed"}]
      /\ token \in [Requests -> {"none", "live", "expired", "used", "revoked"}]
  BY DEF IInv, TypeOK
<1>2. ASSUME NEW a \in Actors, NEW op \in Ops, NEW r \in Requests, NEW via \in Vias,
             Begin(a, op, r, via)
      PROVE  HaltDone'
  <2>1. /\ act'[a].pc = FirstPc[op] /\ act'[a].req = r /\ UNCHANGED <<pend, token, halted>>
    BY <1>0, <1>2, BeginStep DEF Begin, rows, history
  <2>2. /\ FirstPc[op] # "invalidate"
        /\ FirstPc[op] \in LivePcs => op = "check"
    BY DEF FirstPc, Ops, LivePcs
  <2>3. op = "check" => Task[r] \notin halted
    BY <1>2 DEF Begin, Offered
  <2>4. \A b \in Actors : b = a
    BY DEF OneActor
  <2> QED BY <2>1, <2>2, <2>3, <2>4 DEF HaltDone, Unconsumed, Unspent
<1>3. ASSUME NEW a \in Actors,
             \/ InsertWindow(a) \/ LoadState(a) \/ SaveState(a) \/ FailFromHash(a)
             \/ FindUndo(a) \/ TriggerUndo(a) \/ LapseUndo(a) \/ SweepList(a) \/ SweepOne(a)
      PROVE  HaltDone'
  <2>1. Settles(a) /\ UNCHANGED <<pend, token>>
    BY <1>0, <1>3, SettlingStep DEF approvalRows
  <2>2. halted' = halted
    BY <1>3 DEF InsertWindow, LoadState, SaveState, Save, FailFromHash, FindUndo, TriggerUndo,
       LapseUndo, SweepList, SweepOne, history
  <2>3. act'[a].pc # "invalidate"
    <3>1. CASE InsertWindow(a) \/ SaveState(a) \/ FailFromHash(a) \/ TriggerUndo(a) \/ LapseUndo(a)
      <4>1. Return(a) \/ Goto(a, "load")
        BY <3>1 DEF InsertWindow, SaveState, Save, FailFromHash, TriggerUndo, LapseUndo, Finish
      <4> QED BY <1>0, <4>1, GotoStep, ReturnStep DEF Pcs
    <3>2. CASE LoadState(a)
      BY <1>0, <3>2, LoadStep
    <3>3. CASE FindUndo(a)
      <4>1. \/ Return(a)
            \/ \E i \in OpenOf(Task[Req(a)]) :
                 act' = [act EXCEPT ![a].todo = {i},
                           ![a].pc = IF windows[i].state = "late" THEN "lapse" ELSE "trigger"]
        BY <3>3 DEF FindUndo
      <4>2. ASSUME NEW i, act' = [act EXCEPT ![a].todo = {i},
                           ![a].pc = IF windows[i].state = "late" THEN "lapse" ELSE "trigger"]
            PROVE  act'[a].pc # "invalidate"
        BY <1>0, <4>2 DEF ActorRec
      <4> QED BY <1>0, <4>1, <4>2, ReturnStep
    <3>4. CASE SweepList(a)
      <4>1. Return(a) \/ act' = [act EXCEPT ![a].pc = "sweep",
                                   ![a].todo = {i \in 1..Len(windows) : windows[i].state = "late"}]
        BY <3>4 DEF SweepList
      <4> QED BY <1>0, <4>1, ReturnStep DEF ActorRec
    <3>5. CASE SweepOne(a)
      <4>1. PICK i : Return(a) \/ act' = [act EXCEPT ![a].todo = @ \ {i}]
        BY <3>5 DEF SweepOne
      <4>2. act[a].pc = "sweep"
        BY <3>5 DEF SweepOne, At
      <4> QED BY <1>0, <4>1, <4>2, ReturnStep, RestStep
    <3> QED BY <1>3, <3>1, <3>2, <3>3, <3>4, <3>5
  <2> QED BY <2>1, <2>2, <2>3, HaltQuiet DEF Settles, QuietPcs, LivePcs, Unconsumed, Unspent
<1>4. ASSUME NEW a \in Actors, SpendToken(a) PROVE HaltDone'
  <2>1. /\ UNCHANGED <<pend, halted>>
        /\ Return(a) \/ Goto(a, "fail")
        /\ token' = IF Unspent(Req(a)) THEN [token EXCEPT ![Req(a)] = "used"] ELSE token
    BY <1>4 DEF SpendToken
  <2>2. \A r \in Requests : token'[r] \in {"live", "expired"} => Unspent(r)
    BY <1>1, <2>1 DEF Unspent
  <2>3. act'[a].pc \in {"idle", "fail"}
    BY <1>0, <2>1, GotoStep, ReturnStep DEF Pcs
  <2> QED BY <2>1, <2>2, <2>3, HaltQuiet DEF Unconsumed, LivePcs
<1>5. ASSUME \/ \E r \in Requests : PendingExpires(r) \/ TokenExpires(r)
             \/ \E i \in 1..Len(windows) : WindowLapses(i)
             \/ \E t \in Tasks : RaiseTaint(t)
             \/ UNCHANGED vars
      PROVE  HaltDone'
  <2>1. UNCHANGED <<act, halted>>
    BY <1>5 DEF PendingExpires, TokenExpires, WindowLapses, RaiseTaint, vars, history
  <2>2. \A r \in Requests : /\ pend'[r] \in {"open", "expired"} => Unconsumed(r)
                            /\ token'[r] \in {"live", "expired"} => Unspent(r)
    BY <1>1, <1>5 DEF PendingExpires, TokenExpires, WindowLapses, RaiseTaint, vars, rows,
       Unconsumed, Unspent
  <2> QED BY <2>1, <2>2 DEF HaltDone, Unconsumed, Unspent
<1> QED
  BY <1>2, <1>3, <1>4, <1>5, HaltDoneChecks, HaltDoneHalts DEF Next, Step

\* An action has one open window, which nothing has undone.
WindowsOnce ==
    /\ \A i \in 1..Len(windows) :
          windows[i].undone <= 1 /\ (IsOpen(windows[i]) => windows[i].undone = 0)
    /\ OneOpenWindow
    /\ \A a \in Actors : act[a].pc = "insert" =>
          \A i \in 1..Len(windows) : IsOpen(windows[i]) => ~SameAction(windows[i], act[a].req)
    /\ \A a \in Actors : act[a].pc = "trigger" =>
          \A i \in act[a].todo : windows[i].undone = 0

\* Where the windows stay and the actor comes to no place that speaks of them.
LEMMA WindowsQuiet ==
    ASSUME OneActor, WindowsOnce, NEW a \in Actors, windows' = windows,
           act'[a].pc \notin {"insert", "trigger"}
    PROVE  WindowsOnce'
<1>1. \A b \in Actors : b = a
  BY DEF OneActor
<1> QED BY <1>1 DEF WindowsOnce, OneOpenWindow

\* The windows but for what becomes of one: its state closes, or stays open.
LEMMA OneWindowChanges ==
    ASSUME WindowsOnce, windows \in Seq(WindowRec), NEW i \in 1..Len(windows), NEW w \in WindowRec,
           windows' = [windows EXCEPT ![i] = w],
           w.task = windows[i].task, w.class = windows[i].class, w.undone <= 1,
           IsOpen(w) => IsOpen(windows[i]) /\ w.undone = 0,
           \A a \in Actors : act'[a].pc = "trigger" =>
              act[a].pc = "trigger" /\ act'[a].todo = act[a].todo
              /\ act[a].todo \subseteq 1..Len(windows) /\ w.undone = windows[i].undone,
           \A a \in Actors : act'[a].pc = "insert" => act[a].pc = "insert" /\ act'[a].req = act[a].req
    PROVE  WindowsOnce'
<1>1. /\ Len(windows') = Len(windows)
      /\ \A k \in 1..Len(windows) : windows'[k] = IF k = i THEN w ELSE windows[k]
  BY ExceptSeq
<1>2. \A k \in 1..Len(windows) :
        /\ windows'[k].task = windows[k].task /\ windows'[k].class = windows[k].class
        /\ IsOpen(windows'[k]) => IsOpen(windows[k])
        /\ windows'[k].undone <= 1 /\ (IsOpen(windows'[k]) => windows'[k].undone = 0)
  BY <1>1 DEF WindowsOnce
<1>3. OneOpenWindow'
  BY <1>1, <1>2 DEF WindowsOnce, OneOpenWindow, IsOpen
<1>4. (\A a \in Actors : act[a].pc = "insert" =>
          \A k \in 1..Len(windows) : IsOpen(windows[k]) => ~SameAction(windows[k], act[a].req))'
  BY <1>1, <1>2 DEF WindowsOnce, IsOpen, SameAction
<1>5. (\A a \in Actors : act[a].pc = "trigger" => \A k \in act[a].todo : windows[k].undone = 0)'
  BY <1>1 DEF WindowsOnce
<1> QED BY <1>1, <1>2, <1>3, <1>4, <1>5 DEF WindowsOnce, IsOpen

\* A window is opened after none of its action was found, by the same actor.
LEMMA WindowOpens ==
    ASSUME IInv, OneActor, WindowsOnce, NEW a \in Actors, InsertWindow(a)
    PROVE  WindowsOnce'
<1>0. /\ act \in [Actors -> ActorRec] /\ windows \in Seq(WindowRec) /\ Len(windows) \in Nat
      /\ act[a].pc = "insert"
  BY DEF IInv, TypeOK, ActorRec, WindowRec, InsertWindow, At
<1>1. act[a].req \in Requests /\ \A b \in Actors : b = a
  BY <1>0 DEF IInv, ActorInv, ActorAtWork, OneActor
<1>2. PICK w : w = [task |-> Task[Req(a)], class |-> ClassOf(a), state |-> "open", undone |-> 0]
  OBVIOUS
<1>3. /\ w \in WindowRec /\ w.task = Task[act[a].req] /\ w.class = Class[act[a].req] /\ w.undone = 0
  BY <1>1, <1>2, ApprovalsAssumption DEF WindowRec, Req, ClassOf, Classes
<1>4. windows' = Append(windows, w)
  BY <1>2 DEF InsertWindow
<1>5. /\ Len(windows') = Len(windows) + 1
      /\ \A k \in 1..Len(windows) : windows'[k] = windows[k]
      /\ windows'[Len(windows) + 1] = w
  BY <1>0, <1>3, <1>4, AppendProperties
<1>6. \A k \in 1..Len(windows') : k \in 1..Len(windows) \/ k = Len(windows) + 1
  BY <1>0, <1>5
<1>7. \A k \in 1..Len(windows) :
        IsOpen(windows[k]) => ~(windows[k].task = w.task /\ windows[k].class = w.class)
  BY <1>0, <1>3 DEF WindowsOnce, SameAction
<1>8. Return(a) \/ Goto(a, "load")
  BY DEF InsertWindow, Finish
<1>9. act'[a].pc \in {"idle", "load"}
  BY <1>0, <1>8, GotoStep, ReturnStep DEF Pcs
<1>10. OneOpenWindow'
  <2> SUFFICES ASSUME NEW i \in 1..Len(windows'), NEW j \in 1..Len(windows'),
                      IsOpen(windows'[i]), IsOpen(windows'[j]),
                      windows'[i].task = windows'[j].task, windows'[i].class = windows'[j].class
               PROVE  i = j
    BY DEF OneOpenWindow, IsOpen
  <2> QED BY <1>5, <1>6, <1>7 DEF WindowsOnce, OneOpenWindow
<1> QED BY <1>1, <1>3, <1>5, <1>6, <1>9, <1>10 DEF WindowsOnce, IsOpen

\* The undo and the sweeper close a window; the clock leaves it open.
LEMMA WindowCloses ==
    ASSUME IInv, OneActor, WindowsOnce, NEW a \in Actors,
           TriggerUndo(a) \/ LapseUndo(a) \/ SweepOne(a)
    PROVE  WindowsOnce'
<1>0. /\ act \in [Actors -> ActorRec] /\ windows \in Seq(WindowRec) /\ ActorAtWork
      /\ \A b \in Actors : b = a
  BY DEF IInv, ActorInv, TypeOK, ActorRec, WindowRec, OneActor
<1>1. PICK i \in act[a].todo :
         \/ act[a].pc = "trigger" /\ Goto(a, "load")
            /\ windows' = [windows EXCEPT ![i].state = "triggered", ![i].undone = @ + 1]
         \/ act[a].pc \in {"lapse", "sweep"} /\ windows' = [windows EXCEPT ![i].state = "expired"]
            /\ (Return(a) \/ act' = [act EXCEPT ![a].todo = @ \ {i}])
  BY DEF TriggerUndo, LapseUndo, SweepOne, SetUndoWindowState, At
<1>2. i \in 1..Len(windows)
  BY <1>0, <1>1 DEF ActorAtWork
<1>3. windows[i] \in WindowRec
  BY <1>0, <1>2, ElementOfSeq
<1>4. act'[a].pc \notin {"insert", "trigger"}
  <2>1. CASE Goto(a, "load") \/ Return(a)
    BY <1>0, <2>1, GotoStep, ReturnStep DEF Pcs
  <2>2. CASE act[a].pc \in {"lapse", "sweep"} /\ act' = [act EXCEPT ![a].todo = @ \ {i}]
    BY <1>0, <2>2, RestStep
  <2> QED BY <1>1, <2>1, <2>2
<1>5. CASE act[a].pc = "trigger"
  <2>1. PICK w : w = [windows[i] EXCEPT !.state = "triggered", !.undone = windows[i].undone + 1]
    OBVIOUS
  <2>2. windows' = [windows EXCEPT ![i] = w]
    BY <1>1, <1>5, <2>1
  <2>3. w \in WindowRec
    BY <1>3, <2>1, WindowSet
  <2>4. /\ w.task = windows[i].task /\ w.class = windows[i].class /\ w.state = "triggered"
        /\ w.undone = windows[i].undone + 1
    BY <1>3, <2>1 DEF WindowRec
  <2>5. w.undone <= 1 /\ ~IsOpen(w)
    BY <1>5, <2>4 DEF WindowsOnce, IsOpen
  <2> QED BY <1>0, <1>2, <1>4, <2>2, <2>3, <2>4, <2>5, OneWindowChanges
<1>6. CASE act[a].pc # "trigger"
  <2>1. PICK w : w = [windows[i] EXCEPT !.state = "expired"]
    OBVIOUS
  <2>2. windows' = [windows EXCEPT ![i] = w]
    BY <1>1, <1>6, <2>1
  <2>3. w \in WindowRec
    BY <1>3, <2>1, WindowSet
  <2>4. /\ w.task = windows[i].task /\ w.class = windows[i].class /\ w.state = "expired"
        /\ w.undone = windows[i].undone
    BY <1>3, <2>1 DEF WindowRec
  <2>5. w.undone <= 1 /\ ~IsOpen(w)
    BY <1>2, <2>4 DEF WindowsOnce, IsOpen
  <2> QED BY <1>0, <1>2, <1>4, <2>2, <2>3, <2>4, <2>5, OneWindowChanges
<1> QED BY <1>5, <1>6

\* No step opens a second window, or undoes an action again.
LEMMA WindowsOnceStep == ASSUME IInv, OneActor, WindowsOnce, [Next]_vars PROVE WindowsOnce'
<1>0. /\ act \in [Actors -> ActorRec] /\ windows \in Seq(WindowRec) /\ TypeOK /\ ActorAtWork
  BY DEF IInv, ActorInv, TypeOK, ActorRec, WindowRec
<1>1. ASSUME NEW a \in Actors,
             \/ CheckTaint(a) \/ CheckLadder(a) \/ MintPendingApproval(a) \/ MintToken(a)
             \/ GetPending(a) \/ ConsumePending(a) \/ SaveState(a) \/ SpendToken(a)
             \/ FailFromHash(a) \/ HaltRevoke(a)
      PROVE  WindowsOnce'
  <2>1. /\ Return(a) \/ \E pc \in {"ladder", "ask", "mint", "window", "load", "claim", "fail"} : Goto(a, pc)
        /\ windows' = windows
    BY <1>1 DEF CheckTaint, CheckLadder, MintPendingApproval, MintToken, GetPending,
       ConsumePending, SaveState, Save, SpendToken, FailFromHash, HaltRevoke, Decide, Finish, rows
  <2>2. act'[a].pc \notin {"insert", "trigger"}
    BY <1>0, <2>1, GotoStep, ReturnStep DEF Pcs
  <2> QED BY <2>1, <2>2, WindowsQuiet
<1>2. ASSUME NEW a \in Actors, LoadState(a) PROVE WindowsOnce'
  BY <1>0, <1>2, LoadStep, WindowsQuiet DEF LoadState, rows
<1>3. ASSUME NEW a \in Actors, SweepList(a) PROVE WindowsOnce'
  <2>1. Return(a) \/ act' = [act EXCEPT ![a].pc = "sweep",
                               ![a].todo = {i \in 1..Len(windows) : windows[i].state = "late"}]
    BY <1>3 DEF SweepList
  <2>2. act'[a].pc \notin {"insert", "trigger"}
    BY <1>0, <2>1, ReturnStep DEF ActorRec
  <2> QED BY <1>3, <2>2, WindowsQuiet DEF SweepList, rows
<1>4. ASSUME NEW a \in Actors, HaltList(a) PROVE WindowsOnce'
  <2> DEFINE S == {r \in Requests : Task[r] = Task[Req(a)] /\ Unconsumed(r)}
  <2>1. act' = [act EXCEPT ![a].pc = "invalidate", ![a].todo = S] /\ windows' = windows
    BY <1>4 DEF HaltList, rows
  <2> HIDE DEF S
  <2>2. act'[a].pc = "invalidate"
    BY <1>0, <2>1 DEF ActorRec
  <2> QED BY <2>1, <2>2, WindowsQuiet
<1>5. ASSUME NEW a \in Actors, HaltConsume(a) PROVE WindowsOnce'
  <2>1. PICK r : act' = [act EXCEPT ![a].todo = @ \ {r}]
    BY <1>5 DEF HaltConsume
  <2>2. act[a].pc = "invalidate" /\ windows' = windows
    BY <1>5 DEF HaltConsume, At
  <2> QED BY <1>0, <2>1, <2>2, RestStep, WindowsQuiet
<1>6. ASSUME NEW a \in Actors, FindWindow(a) PROVE WindowsOnce'
  <2>1. windows' = windows /\ \A b \in Actors : b = a
    BY <1>6 DEF FindWindow, rows, OneActor
  <2>2. CASE \E i \in 1..Len(windows) : IsOpen(windows[i]) /\ SameAction(windows[i], Req(a))
    <3>1. Return(a) \/ Goto(a, "load")
      BY <1>6, <2>2 DEF FindWindow, Finish
    <3>2. act'[a].pc \notin {"insert", "trigger"}
      BY <1>0, <3>1, GotoStep, ReturnStep DEF Pcs
    <3> QED BY <2>1, <3>2, WindowsQuiet
  <2>3. CASE ~\E i \in 1..Len(windows) : IsOpen(windows[i]) /\ SameAction(windows[i], Req(a))
    <3>1. Goto(a, "insert")
      BY <1>6, <2>3 DEF FindWindow
    <3>2. act'[a].pc = "insert" /\ act'[a].req = act[a].req
      BY <1>0, <3>1, GotoStep DEF Pcs
    <3> QED BY <2>1, <2>3, <3>2 DEF WindowsOnce, OneOpenWindow, IsOpen, SameAction, Req
  <2> QED BY <2>2, <2>3
<1>7. ASSUME NEW a \in Actors, FindUndo(a) PROVE WindowsOnce'
  <2>1. windows' = windows /\ \A b \in Actors : b = a
    BY <1>7 DEF FindUndo, rows, OneActor
  <2>2. CASE Return(a)
    BY <1>0, <2>1, <2>2, ReturnStep, WindowsQuiet
  <2>3. CASE ~Return(a)
    <3>1. PICK i \in OpenOf(Task[Req(a)]) :
             act' = [act EXCEPT ![a].todo = {i},
                       ![a].pc = IF windows[i].state = "late" THEN "lapse" ELSE "trigger"]
      BY <1>7, <2>3 DEF FindUndo
    <3>2. windows[i].undone = 0
      BY DEF OpenOf, WindowsOnce
    <3>3. act'[a].todo = {i} /\ act'[a].pc \in {"lapse", "trigger"}
      BY <1>0, <3>1 DEF ActorRec
    <3> QED BY <2>1, <3>2, <3>3 DEF WindowsOnce, OneOpenWindow
  <2> QED BY <2>2, <2>3
<1>8. ASSUME NEW a \in Actors, NEW op \in Ops, NEW r \in Requests, NEW via \in Vias,
             Begin(a, op, r, via)
      PROVE  WindowsOnce'
  <2>1. act'[a].pc = FirstPc[op] /\ windows' = windows
    BY <1>0, <1>8, BeginStep DEF Begin, rows
  <2>2. FirstPc[op] \notin {"insert", "trigger"}
    BY DEF FirstPc, Ops
  <2> QED BY <2>1, <2>2, WindowsQuiet
<1>9. ASSUME NEW i \in 1..Len(windows), WindowLapses(i) PROVE WindowsOnce'
  <2>1. windows[i] \in WindowRec
    BY <1>0, ElementOfSeq
  <2>2. PICK w : w = [windows[i] EXCEPT !.state = "late"]
    OBVIOUS
  <2>3. /\ windows[i].state = "open" /\ act' = act
        /\ windows' = [windows EXCEPT ![i] = w]
    BY <1>9, <2>2 DEF WindowLapses, SetUndoWindowState
  <2>4. w \in WindowRec
    BY <2>1, <2>2, WindowSet
  <2>5. /\ w.task = windows[i].task /\ w.class = windows[i].class
        /\ w.undone = windows[i].undone
    BY <2>1, <2>2 DEF WindowRec
  <2>6. IsOpen(windows[i]) /\ windows[i].undone = 0
    BY <2>3 DEF WindowsOnce, IsOpen
  <2>7. \A a \in Actors : act[a].pc = "trigger" => act[a].todo \subseteq 1..Len(windows)
    BY <1>0 DEF ActorAtWork
  <2>8. w.undone <= 1 /\ (IsOpen(w) => IsOpen(windows[i]) /\ w.undone = 0)
    BY <2>5, <2>6
  <2>9. \A a \in Actors : act'[a].pc = "trigger" =>
           act[a].pc = "trigger" /\ act'[a].todo = act[a].todo
           /\ act[a].todo \subseteq 1..Len(windows) /\ w.undone = windows[i].undone
    BY <2>3, <2>5, <2>7
  <2>10. \A a \in Actors : act'[a].pc = "insert" => act[a].pc = "insert" /\ act'[a].req = act[a].req
    BY <2>3
  <2> QED BY <1>0, <2>3, <2>4, <2>5, <2>8, <2>9, <2>10, OneWindowChanges
<1>10. ASSUME \/ \E r \in Requests : PendingExpires(r) \/ TokenExpires(r)
              \/ \E t \in Tasks : RaiseTaint(t)
              \/ UNCHANGED vars
       PROVE  WindowsOnce'
  <2>1. UNCHANGED <<act, windows>>
    BY <1>10 DEF PendingExpires, TokenExpires, RaiseTaint, vars, rows
  <2> QED BY <2>1 DEF WindowsOnce, OneOpenWindow
<1> QED
  BY <1>1, <1>2, <1>3, <1>4, <1>5, <1>6, <1>7, <1>8, <1>9, <1>10, WindowOpens, WindowCloses
  DEF Next, Step

\* The count on the row is the approvals since the last reset, and what an
\* actor has loaded is what the row still says.
LadderLoaded ==
    /\ \A c \in Classes : ladder[c].streak = earned[c]
    /\ \A a \in Actors : act[a].pc = "save" =>
          act[a].level = ladder[LadderKey(a)].level /\ act[a].streak = ladder[LadderKey(a)].streak

\* While the row stays, no actor but a load comes to save.
LEMMA LadderQuiet ==
    ASSUME OneActor, LadderLoaded, NEW a \in Actors, UNCHANGED <<ladder, earned>>,
           act'[a].pc # "save"
    PROVE  LadderLoaded'
<1>1. \A b \in Actors : b = a
  BY DEF OneActor
<1> QED BY <1>1 DEF LadderLoaded

\* LoadState reads the row LadderKey names, and it names the same one after.
LEMMA LadderLoads ==
    ASSUME IInv, OneActor, LadderLoaded, NEW a \in Actors, LoadState(a)
    PROVE  LadderLoaded'
<1>0. /\ act \in [Actors -> ActorRec] /\ TypeOK /\ ActorAtWork
      /\ \A b \in Actors : b = a
  BY DEF IInv, ActorInv, TypeOK, ActorRec, OneActor
<1>1. /\ act' = [act EXCEPT ![a].pc = "save", ![a].level = ladder[LadderKey(a)].level,
                            ![a].streak = ladder[LadderKey(a)].streak]
      /\ UNCHANGED <<ladder, windows, earned>>
  BY DEF LoadState, rows, history
<1>2. /\ act'[a].op = act[a].op /\ act'[a].req = act[a].req /\ act'[a].todo = act[a].todo
  BY <1>0, LoadStep
<1>3. LadderKey(a)' = LadderKey(a)
  <2>1. \A S, T : S = T => (CHOOSE i \in S : TRUE) = (CHOOSE i \in T : TRUE)
    OBVIOUS
  <2>2. (CHOOSE i \in act'[a].todo : TRUE) = (CHOOSE i \in act[a].todo : TRUE)
    BY <1>2, <2>1
  <2>3. PICK j : j = CHOOSE i \in act[a].todo : TRUE
    OBVIOUS
  <2>4. LadderKey(a) = IF act[a].op = "undo" THEN windows[j].class ELSE Class[act[a].req]
    BY <2>3 DEF LadderKey, ClassOf
  <2>5. LadderKey(a)' = IF act'[a].op = "undo" THEN windows'[j].class ELSE Class[act'[a].req]
    <3>1. j = CHOOSE i \in act'[a].todo : TRUE
      BY <2>2, <2>3
    <3>2. ClassOf(a)' = Class[act'[a].req]
      BY DEF ClassOf
    <3>3. CASE act'[a].op = "undo"
      BY <3>1, <3>3 DEF LadderKey
    <3>4. CASE act'[a].op # "undo"
      BY <3>2, <3>4 DEF LadderKey
    <3> QED BY <3>3, <3>4
  <2> QED BY <1>1, <1>2, <2>4, <2>5
<1>4. PICK k : k = LadderKey(a)
  OBVIOUS
<1>5. act'[a].level = ladder[k].level /\ act'[a].streak = ladder[k].streak
  BY <1>0, <1>1, <1>4 DEF ActorRec
<1> QED BY <1>0, <1>1, <1>3, <1>4, <1>5 DEF LadderLoaded

\* saveState: the count and its history move together, the level rises for a
\* promotion only, and the threshold is met by approvals counted since a reset.
LEMMA LadderSaves ==
    ASSUME IInv, OneActor, LadderLoaded, NEW a \in Actors, SaveState(a)
    PROVE  LadderLoaded' /\ RaisedByPromotion /\ SuggestionIsEarned
<1>0. /\ act \in [Actors -> ActorRec] /\ TypeOK /\ ActorAtWork
      /\ \A b \in Actors : b = a
      /\ act[a].pc = "save" /\ Return(a)
  BY DEF IInv, ActorInv, TypeOK, ActorRec, OneActor, SaveState, Save, At
<1>1. PICK k : k = LadderKey(a)
  OBVIOUS
<1>2. k \in Classes
  BY <1>0, <1>1, LadderKeyType
<1>3. PICK step : step = NewState(a)
  OBVIOUS
<1>4. PICK n : n = IF act[a].op = "approve" THEN earned[k] + 1 ELSE 0
  OBVIOUS
<1>5. /\ ladder' = [ladder EXCEPT ![k] = step]
      /\ suggested' = IF act[a].op = "approve" /\ step.streak = Threshold
                        THEN suggested \cup {k} ELSE suggested
      /\ earned' = [earned EXCEPT ![k] = n]
  BY <1>1, <1>3, <1>4 DEF SaveState, Save
<1>6. act'[a].pc = "idle"
  BY <1>0, ReturnStep
<1>7. act[a].level = ladder[k].level /\ act[a].streak = earned[k]
  BY <1>0, <1>1, <1>2 DEF LadderLoaded
<1>8. ladder[k].level \in 0..4 /\ earned[k] \in Nat
  BY <1>0, <1>2 DEF TypeOK, L4
<1>9. step.streak = n /\ (step.level > ladder[k].level => act[a].op = "promote")
  <2>1. CASE act[a].op = "approve"
    <3>1. step = [level |-> act[a].level, streak |-> act[a].streak + 1]
      BY <1>3, <2>1 DEF NewState
    <3> QED BY <1>4, <1>7, <1>8, <2>1, <3>1
  <2>2. CASE act[a].op = "promote"
    <3>1. step.streak = 0
      BY <1>3, <2>2 DEF NewState
    <3> QED BY <1>4, <2>2, <3>1
  <2>3. CASE act[a].op \notin {"approve", "promote"}
    <3>1. step = [level |-> IF act[a].level > 0 THEN act[a].level - 1 ELSE 0, streak |-> 0]
      BY <1>3, <2>3 DEF NewState
    <3> QED BY <1>4, <1>7, <1>8, <2>3, <3>1
  <2> QED BY <2>1, <2>2, <2>3
<1>10. /\ \A c \in Classes : ladder'[c] = IF c = k THEN step ELSE ladder[c]
       /\ \A c \in Classes : earned'[c] = IF c = k THEN n ELSE earned[c]
  BY <1>0, <1>2, <1>5 DEF TypeOK
<1>11. LadderLoaded'
  BY <1>0, <1>6, <1>9, <1>10 DEF LadderLoaded
<1>12. RaisedByPromotion
  <2> SUFFICES ASSUME NEW c \in Classes, ladder'[c].level > ladder[c].level
               PROVE  At(a, "save") /\ act[a].op = "promote" /\ act'[a].pc = "idle"
    BY DEF RaisedByPromotion
  <2>1. c = k
    <3>1. CASE c # k
      <4>1. ladder'[c] = ladder[c] /\ ladder[c].level \in 0..4
        BY <1>0, <1>10, <3>1 DEF TypeOK, L4
      <4> QED BY <4>1
    <3> QED BY <3>1
  <2> QED BY <1>0, <1>6, <1>9, <1>10, <2>1 DEF At
<1>13. SuggestionIsEarned
  <2> SUFFICES ASSUME NEW c \in suggested' \ suggested PROVE earned'[c] >= Threshold
    BY DEF SuggestionIsEarned
  <2>1. c = k /\ step.streak = Threshold
    BY <1>5
  <2> QED BY <1>2, <1>9, <1>10, <2>1, ApprovalsAssumption
<1> QED BY <1>11, <1>12, <1>13

\* A step that leaves the ladder and its history alone raises and suggests nothing.
LEMMA LadderStays ==
    ASSUME TypeOK, UNCHANGED <<ladder, suggested>>
    PROVE  RaisedByPromotion /\ SuggestionIsEarned
<1>1. \A c \in Classes : ladder[c].level \in 0..4 /\ ladder'[c] = ladder[c]
  BY DEF TypeOK, L4
<1>2. RaisedByPromotion
  BY <1>1 DEF RaisedByPromotion
<1> QED BY <1>2 DEF SuggestionIsEarned

\* No other step touches the ladder.
LEMMA LadderStep ==
    ASSUME IInv, OneActor, LadderLoaded, [Next]_vars
    PROVE  LadderLoaded' /\ RaisedByPromotion /\ SuggestionIsEarned
<1>0. /\ act \in [Actors -> ActorRec] /\ windows \in Seq(WindowRec) /\ TypeOK /\ ActorAtWork
  BY DEF IInv, ActorInv, TypeOK, ActorRec, WindowRec
<1>1. ASSUME NEW a \in Actors, Step(a), ~LoadState(a), ~SaveState(a)
      PROVE  UNCHANGED <<ladder, earned, suggested>> /\ act'[a].pc # "save"
  <2>1. UNCHANGED <<ladder, earned, suggested>>
    BY <1>1 DEF Step, CheckTaint, CheckLadder, MintPendingApproval, MintToken, FindWindow,
       InsertWindow, GetPending, ConsumePending, SpendToken, FailFromHash, FindUndo,
       TriggerUndo, LapseUndo, SweepList, SweepOne, HaltList, HaltConsume, HaltRevoke,
       rows, history
  <2>2. CASE \/ Return(a)
             \/ \E pc \in {"ladder", "ask", "mint", "window", "insert", "load", "claim", "fail"} :
                   Goto(a, pc)
    <3>1. act'[a].pc # "save"
      BY <1>0, <2>2, GotoStep, ReturnStep DEF Pcs
    <3> QED BY <2>1, <3>1
  <2>3. CASE \/ CheckTaint(a) \/ CheckLadder(a) \/ MintPendingApproval(a) \/ MintToken(a)
             \/ FindWindow(a) \/ InsertWindow(a) \/ GetPending(a) \/ ConsumePending(a)
             \/ SpendToken(a) \/ FailFromHash(a) \/ TriggerUndo(a) \/ LapseUndo(a) \/ HaltRevoke(a)
    <3>1. \/ Return(a)
          \/ \E pc \in {"ladder", "ask", "mint", "window", "insert", "load", "claim", "fail"} :
                Goto(a, pc)
      BY <2>3 DEF CheckTaint, CheckLadder, MintPendingApproval, MintToken, FindWindow,
         InsertWindow, GetPending, ConsumePending, SpendToken, FailFromHash, TriggerUndo,
         LapseUndo, HaltRevoke, Decide, Finish
    <3> QED BY <2>2, <3>1
  <2>4. CASE FindUndo(a) /\ ~Return(a)
    <3>1. PICK i : act' = [act EXCEPT ![a].todo = {i},
                       ![a].pc = IF windows[i].state = "late" THEN "lapse" ELSE "trigger"]
      BY <2>4 DEF FindUndo
    <3>2. act'[a].pc # "save"
      BY <1>0, <3>1 DEF ActorRec
    <3> QED BY <2>1, <3>2
  <2>5. CASE SweepList(a) /\ ~Return(a)
    <3>1. act' = [act EXCEPT ![a].pc = "sweep",
                             ![a].todo = {i \in 1..Len(windows) : windows[i].state = "late"}]
      BY <2>5 DEF SweepList
    <3>2. act'[a].pc # "save"
      BY <1>0, <3>1 DEF ActorRec
    <3> QED BY <2>1, <3>2
  <2>6. CASE HaltList(a)
    <3> DEFINE S == {r \in Requests : Task[r] = Task[Req(a)] /\ Unconsumed(r)}
    <3>1. act' = [act EXCEPT ![a].pc = "invalidate", ![a].todo = S]
      BY <2>6 DEF HaltList
    <3> HIDE DEF S
    <3>2. act'[a].pc # "save"
      BY <1>0, <3>1 DEF ActorRec
    <3> QED BY <2>1, <3>2
  <2>7. CASE (SweepOne(a) \/ HaltConsume(a)) /\ ~Return(a)
    <3>1. PICK x : act' = [act EXCEPT ![a].todo = @ \ {x}]
      BY <2>7 DEF SweepOne, HaltConsume
    <3>2. act[a].pc \in {"sweep", "invalidate"}
      BY <2>7 DEF SweepOne, HaltConsume, At
    <3>3. act'[a].pc # "save"
      BY <1>0, <3>1, <3>2, RestStep
    <3> QED BY <2>1, <3>3
  <2> QED BY <1>1, <2>2, <2>3, <2>4, <2>5, <2>6, <2>7 DEF Step
<1>2. ASSUME NEW a \in Actors, Step(a), ~LoadState(a), ~SaveState(a)
      PROVE  LadderLoaded' /\ RaisedByPromotion /\ SuggestionIsEarned
  BY <1>0, <1>1, <1>2, LadderQuiet, LadderStays
<1>3. ASSUME NEW a \in Actors, LoadState(a)
      PROVE  LadderLoaded' /\ RaisedByPromotion /\ SuggestionIsEarned
  <2>1. UNCHANGED <<ladder, suggested>>
    BY <1>3 DEF LoadState, rows, history
  <2> QED BY <1>0, <1>3, <2>1, LadderLoads, LadderStays
<1>4. ASSUME NEW a \in Actors, NEW op \in Ops, NEW r \in Requests, NEW via \in Vias,
             Begin(a, op, r, via)
      PROVE  LadderLoaded' /\ RaisedByPromotion /\ SuggestionIsEarned
  <2>1. act'[a].pc = FirstPc[op] /\ UNCHANGED <<ladder, earned, suggested>>
    BY <1>0, <1>4, BeginStep DEF Begin, rows, history
  <2>2. FirstPc[op] # "save"
    BY DEF FirstPc, Ops
  <2> QED BY <1>0, <2>1, <2>2, LadderQuiet, LadderStays
<1>5. ASSUME NEW i \in 1..Len(windows), WindowLapses(i)
      PROVE  LadderLoaded' /\ RaisedByPromotion /\ SuggestionIsEarned
  <2>1. PICK w : w = [windows[i] EXCEPT !.state = "late"]
    OBVIOUS
  <2>2. UNCHANGED <<act, ladder, earned, suggested>> /\ windows' = [windows EXCEPT ![i] = w]
    BY <1>5, <2>1 DEF WindowLapses, SetUndoWindowState, history
  <2>3. windows[i] \in WindowRec
    BY <1>0, ElementOfSeq
  <2>4. w.class = windows[i].class /\ w \in WindowRec
    BY <2>1, <2>3, WindowSet DEF WindowRec
  <2>5. \A k \in 1..Len(windows) : windows'[k].class = windows[k].class
    BY <1>0, <2>2, <2>4, ExceptSeq
  <2>6. ASSUME NEW a \in Actors, act[a].pc = "save" PROVE LadderKey(a)' = LadderKey(a)
    <3>1. CASE act[a].op = "undo"
      <4>1. act[a].todo # {} /\ act[a].todo \subseteq 1..Len(windows)
        BY <1>0, <2>6, <3>1 DEF ActorAtWork
      <4>2. \A S : S # {} => (CHOOSE k \in S : TRUE) \in S
        OBVIOUS
      <4>3. PICK k : k = CHOOSE j \in act[a].todo : TRUE
        OBVIOUS
      <4>4. k \in 1..Len(windows)
        BY <4>1, <4>2, <4>3
      <4> QED BY <2>2, <2>5, <3>1, <4>3, <4>4 DEF LadderKey
    <3>2. CASE act[a].op # "undo"
      BY <2>2, <3>2 DEF LadderKey, ClassOf
    <3> QED BY <3>1, <3>2
  <2>7. LadderLoaded'
    BY <2>2, <2>6 DEF LadderLoaded
  <2> QED BY <1>0, <2>2, <2>7, LadderStays
<1>6. ASSUME \/ \E r \in Requests : PendingExpires(r) \/ TokenExpires(r)
             \/ \E t \in Tasks : RaiseTaint(t)
             \/ UNCHANGED vars
      PROVE  LadderLoaded' /\ RaisedByPromotion /\ SuggestionIsEarned
  <2>1. UNCHANGED <<act, windows, ladder, earned, suggested>>
    BY <1>6 DEF PendingExpires, TokenExpires, RaiseTaint, vars, rows, history
  <2>2. LadderLoaded'
    BY <2>1 DEF LadderLoaded, LadderKey, ClassOf
  <2> QED BY <1>0, <2>1, <2>2, LadderStays
<1> QED
  BY <1>2, <1>3, <1>4, <1>5, <1>6, LadderSaves DEF Next

SerialInv == IInv /\ HaltDone /\ WindowsOnce /\ LadderLoaded

\* With nothing begun and nothing halted all of it holds.
LEMMA InitSerial == Init => SerialInv
<1> SUFFICES ASSUME Init PROVE SerialInv
  OBVIOUS
<1>1. \A a \in Actors : act[a].pc = "idle"
  BY DEF Init, IdleActor
<1>2. Len(windows) = 0
  BY DEF Init
<1>3. HaltDone
  BY <1>1 DEF Init, HaltDone, LivePcs
<1>4. WindowsOnce
  BY <1>1, <1>2 DEF WindowsOnce, OneOpenWindow
<1>5. LadderLoaded
  BY <1>1 DEF Init, LadderLoaded
<1> QED BY <1>3, <1>4, <1>5, InitInv DEF SerialInv

\* It holds always when operations do not overlap.
LEMMA SerialInvariance == OneActor => (Spec => []SerialInv)
<1>1. OneActor /\ SerialInv /\ [Next]_vars => SerialInv'
  BY InvStep, HaltDoneStep, WindowsOnceStep, LadderStep DEF SerialInv
<1> SUFFICES ASSUME OneActor PROVE Spec => []SerialInv
  OBVIOUS
<1>2. SerialInv /\ [Next]_vars => SerialInv'
  BY <1>1
<1> QED BY <1>2, InitSerial, PTL DEF Spec

\* When operations do not overlap, no token or approval outlives a halt, an
\* action has one open undo window and is undone once (halt.go, queries.sql).
THEOREM SerialDecisions == OneActor => (Spec => []SerialDecisionsBind)
<1>1. SerialInv => SerialDecisionsBind
  BY DEF SerialInv, HaltDone, HaltBinds, WindowsOnce, UndoneOnce, SerialDecisionsBind
<1> SUFFICES ASSUME OneActor PROVE Spec => []SerialDecisionsBind
  OBVIOUS
<1> QED BY <1>1, SerialInvariance, PTL

\* When operations do not overlap, only a promotion raises a level, and a
\* promotion is suggested after Threshold approvals in a row.
THEOREM SerialLadder == OneActor => (Spec => LadderIsEarned)
<1> SUFFICES ASSUME OneActor PROVE Spec => LadderIsEarned
  OBVIOUS
<1>1. SerialInv /\ [Next]_vars => RaisedByPromotion /\ SuggestionIsEarned
  BY LadderStep DEF SerialInv
<1> QED BY <1>1, SerialInvariance, PTL DEF Spec, LadderIsEarned

-----------------------------------------------------------------------------
(* The tool gates.                                                         *)

GateSafety == GateInit /\ [][GateNext]_gateVars

GateTypes ==
    /\ tool \in [GateCalls -> GateTools]
    /\ stage \in [GateCalls -> Stages]
    /\ answer \in [GateCalls -> {"none", "denied", "failed", "done"}]
    /\ decidedBy \in [GateCalls -> SUBSET {"own", "middleware"}]
    /\ spent \in [GateCalls -> 0..1]
    /\ effects \in [GateCalls -> 0..1]
    /\ relaying \in GateCalls \cup {NoCall, Gone}
    /\ enteredDirty \subseteq GateCalls
    /\ denyAll \in BOOLEAN

\* A call that passed its gate: one decided, and there is a policy.
Passed(c) ==
    /\ decidedBy[c] = {IF tool[c] \in OwnedTools THEN "own" ELSE "middleware"}
    /\ ~denyAll /\ ClassOfCall(c) # "W3"

Paid(c) == spent[c] = IF ClassOfCall(c) = "R" THEN 0 ELSE 1

\* What a call has behind it at each stage.  The bridge waits for no call that
\* has ended, and one that came in tainted never gets past the taint gate.
StageOK(c) ==
    /\ stage[c] \in {"idle", "hook", "send"} => answer[c] = "none" /\ c \notin enteredDirty
    /\ stage[c] \in {"idle", "hook", "send", "end"} => relaying # c
    /\ stage[c] \in {"idle", "hook", "send", "gate", "taint", "ladder"} => decidedBy[c] = {}
    /\ stage[c] \in {"taint", "ladder"} => ~denyAll
    /\ stage[c] \in {"spend", "run", "ran"} => Passed(c)
    /\ stage[c] \in Stages \ {"run", "ran", "end"} => spent[c] = 0
    /\ stage[c] \in {"run", "ran"} => Paid(c)
    /\ stage[c] \in Stages \ {"ran", "end"} => effects[c] = 0
    /\ stage[c] = "ran" => effects[c] = 1
    /\ stage[c] = "end" /\ effects[c] = 1 => Passed(c) /\ Paid(c)
    /\ answer[c] \in {"denied", "done"} => stage[c] = "end"
    /\ answer[c] = "denied" => effects[c] = 0
    /\ answer[c] = "done" => effects[c] = 1
    /\ c \in enteredDirty =>
          /\ dirty
          /\ ClassOfCall(c) # "R" => stage[c] \in {"gate", "taint", "end"} /\ effects[c] = 0

GateInv == GateTypes /\ \A c \in GateCalls : StageOK(c)

\* Every action of a call, of its bridge and of its gates keeps the stages.
LEMMA CallGated ==
    ASSUME GateInv, NEW c \in GateCalls,
           \/ \E t \in GateTools : Ask(c, t)
           \/ CallStep(c) \/ RunTool(c) \/ RequestTimeout(c) \/ Abandoned(c)
    PROVE  GateInv'
<1> USE ToolGateAssumption DEF GateInv, GateTypes, StageOK, Passed, Paid, ClassOfCall, Stages, OwnedTools
<1>1. CASE \E t \in GateTools : Ask(c, t)
  BY <1>1 DEF Ask, Move
<1>2. CASE CanUseTool(c)
  BY <1>2 DEF CanUseTool, Move, Told
<1>3. CASE Relay(c)
  BY <1>3 DEF Relay, Move
<1>4. CASE NoBridge(c)
  BY <1>4 DEF NoBridge, Move, Told
<1>5. CASE Enter(c)
  BY <1>5 DEF Enter, Move, Answered, Waiting
<1>6. CASE CheckSession(c)
  BY <1>6 DEF CheckSession, SessionClean, Move, Answered, Waiting
<1>7. CASE CheckAutonomy(c)
  BY <1>7 DEF CheckAutonomy, Gate, Move, Answered, Waiting
<1>8. CASE Spend(c)
  BY <1>8 DEF Spend, ChecksItself, Move, Answered, Waiting
<1>9. CASE RunTool(c)
  BY <1>9 DEF RunTool, Move
<1>10. CASE Reply(c)
  BY <1>10 DEF Reply, Answered, Waiting
<1>11. CASE RequestTimeout(c)
  BY <1>11 DEF RequestTimeout, TimeoutDue, TransportError, Told
<1>12. CASE Abandoned(c)
  BY <1>12 DEF Abandoned, Waiting
<1> QED BY <1>1, <1>2, <1>3, <1>4, <1>5, <1>6, <1>7, <1>8, <1>9, <1>10, <1>11, <1>12 DEF CallStep

\* Nothing was asked at the start.
LEMMA InitGate == GateInit => GateInv
<1>1. "memory_search" \in GateTools
  BY DEF GateTools, ToolClass
<1> QED
  BY <1>1, ToolGateAssumption DEF GateInit, GateInv, GateTypes, StageOK, Passed, Paid, Stages

\* What the stages say of effects and answers.
LEMMA StagesTell == GateInv => GateTypeOK /\ CallsPassOneGate
<1> SUFFICES ASSUME GateInv PROVE GateTypeOK /\ CallsPassOneGate
  OBVIOUS
<1>1. GateTypeOK
  BY DEF GateInv, GateTypes, GateTypeOK
<1>2. ASSUME NEW c \in GateCalls, effects[c] > 0
      PROVE  Cardinality(decidedBy[c]) = 1 /\ Paid(c) /\ ~denyAll /\ ClassOfCall(c) # "W3"
  <2>1. effects[c] = 1 /\ stage[c] \in {"ran", "end"}
    BY <1>2 DEF GateInv, GateTypes, StageOK
  <2>2. Passed(c) /\ Paid(c)
    BY <2>1 DEF GateInv, StageOK
  <2> QED BY <2>2, FS_Singleton DEF Passed
<1>3. GatedExactlyOnce
  BY <1>2 DEF GatedExactlyOnce, Paid
<1>4. TaintedHasNoEffect
  BY DEF GateInv, GateTypes, StageOK, TaintedHasNoEffect
<1>5. AnswersAreTrue
  BY DEF GateInv, StageOK, AnswersAreTrue
<1> QED BY <1>1, <1>3, <1>4, <1>5 DEF CallsPassOneGate

\* For any number of calls, whatever the ladder, the taint, the bridge's
\* time-outs and the hook do meanwhile: what ran passed one gate of the daemon
\* and spent one token, nothing that came from a tainted session ran, and what
\* the worker was told is what happened.
THEOREM GatesHold == GateSafety => [](GateTypeOK /\ CallsPassOneGate)
<1>1. GateInv /\ [GateNext]_gateVars => GateInv'
  <2>1. ASSUME GateInv, MoveLadder \/ StoreSession \/ RaiseSession \/ UNCHANGED gateVars
        PROVE  GateInv'
    BY <2>1 DEF MoveLadder, StoreSession, RaiseSession, gateVars, GateInv, GateTypes, StageOK,
       Passed, Paid, ClassOfCall
  <2> QED BY <2>1, CallGated DEF GateNext
<1> QED BY <1>1, InitGate, StagesTell, PTL DEF GateSafety

-----------------------------------------------------------------------------
(***************************************************************************)
(* A worker process and the daemon that reads it, for an answer of any     *)
(* length: what the parser has recorded and what is still in the pipe are  *)
(* together what the worker said, and nobody returns a verdict before the  *)
(* pipe is read.                                                           *)
(***************************************************************************)
WsSafety == WsInit /\ [][WsNext]_wsVars

Lines == Terminal \cup {"session", "delta", "clarification_turn"}
DeltasIn(q) == {n \in 1..Len(q) : q[n] = "delta"}
Verdicts == {"none", "ok", "error", "cloud_unreachable"}

WsTypes ==
    /\ wpc \in {"none", "boot", "chat", "reader", "stt", "answer", "failing", "closing", "asked",
                "transcribed", "exit", "gone"}
    /\ mode \in {"chat", "reader", "stt"}
    /\ printed \in Nat /\ printed <= MaxDeltas + 1 /\ joined \in Nat
    /\ wpc \in {"none", "boot", "stt"} => printed = 0
    /\ pipe \in Seq(Lines)
    /\ said \in Terminal \cup {"none"}
    /\ outcome \in [status : Verdicts, saw : BOOLEAN]
    /\ returned \in Verdicts \cup {"timeout", "spawn_error"}
    /\ tier \in {"none", "clean", "tainted"}
    /\ row \in {"running", "paused_budget", "done", "waiting_retry", "error"}
    /\ runPc \in {"none", "wait", "drain", "reclaim", "returned"}
    /\ accepted = TRUE
    /\ parsing \in BOOLEAN /\ readEnd \in BOOLEAN

\* The text blocks the caller has and those in the pipe are all there are.
BlocksAddUp == joined + Cardinality(DeltasIn(pipe)) = printed

\* The last verdict is in the pipe, or recorded if none is in the pipe.
VerdictAddsUp ==
    \/ /\ \A n \in 1..Len(pipe) : pipe[n] \notin Terminal
       /\ outcome.saw = (said # "none")
       /\ outcome.saw => outcome.status = StatusOf(said)
    \/ \E n \in 1..Len(pipe) :
          /\ pipe[n] = said /\ said \in Terminal
          /\ \A k \in 1..Len(pipe) : k > n => pipe[k] \notin Terminal

\* Who has stopped when.
StagesAgree ==
    /\ wpc = "none" <=> (runPc = "none" \/ returned = "spawn_error")
    /\ wpc = "none" => pipe = <<>> /\ said = "none"
    /\ runPc = "none" => ~parsing
    /\ runPc # "returned" => returned = "none"
    /\ runPc \in {"drain", "reclaim"} => wpc = "gone"
    /\ ~readEnd => wpc = "gone" /\ pipe = <<>>
    /\ ~parsing /\ wpc # "none" => wpc = "gone" /\ pipe = <<>>
    /\ runPc = "returned" => ~parsing
    /\ runPc = "returned" /\ returned # "spawn_error" =>
          \/ returned \in {"error", "timeout"} /\ ~outcome.saw
          \/ returned = outcome.status /\ outcome.saw

WsInv == WsTypes /\ BlocksAddUp /\ VerdictAddsUp /\ StagesAgree

\* Counting the text blocks of the pipe, when a line goes in and when one
\* comes out.
LEMMA BlockPrinted ==
    ASSUME NEW q \in Seq(Lines), NEW line \in Lines
    PROVE  /\ Cardinality(DeltasIn(q)) \in Nat
           /\ Cardinality(DeltasIn(Append(q, line))) =
                 Cardinality(DeltasIn(q)) + (IF line = "delta" THEN 1 ELSE 0)
<1>1. Len(q) \in Nat /\ IsFiniteSet(1..Len(q)) /\ DeltasIn(q) \subseteq 1..Len(q)
  BY LenProperties, FS_Interval DEF DeltasIn
<1>2. IsFiniteSet(DeltasIn(q)) /\ Cardinality(DeltasIn(q)) \in Nat
  BY <1>1, FS_Subset, FS_CardinalityType
<1>3. /\ Len(Append(q, line)) = Len(q) + 1 /\ Append(q, line)[Len(q) + 1] = line
      /\ \A n \in 1..Len(q) : Append(q, line)[n] = q[n]
  BY AppendProperties
<1>4. CASE line = "delta"
  <2>1. DeltasIn(Append(q, line)) = DeltasIn(q) \cup {Len(q) + 1}
    BY <1>1, <1>3, <1>4 DEF DeltasIn
  <2>2. Len(q) + 1 \notin DeltasIn(q)
    BY <1>1
  <2> QED BY <1>2, <1>4, <2>1, <2>2, FS_AddElement
<1>5. CASE line # "delta"
  <2>1. DeltasIn(Append(q, line)) = DeltasIn(q)
    BY <1>1, <1>3, <1>5 DEF DeltasIn
  <2> QED BY <1>2, <1>5, <2>1
<1> QED BY <1>2, <1>4, <1>5

\* A line read off the pipe takes its block, if it is one, along.
LEMMA BlockParsed ==
    ASSUME NEW q \in Seq(Lines), q # <<>>
    PROVE  Cardinality(DeltasIn(q)) =
              Cardinality(DeltasIn(Tail(q))) + (IF Head(q) = "delta" THEN 1 ELSE 0)
<1>1. /\ Len(q) \in Nat \ {0} /\ Tail(q) \in Seq(Lines) /\ Len(Tail(q)) = Len(q) - 1
      /\ Head(q) = q[1] /\ \A n \in 1..Len(Tail(q)) : Tail(q)[n] = q[n + 1]
  BY HeadTailProperties, LenProperties, EmptySeq
<1> DEFINE rest == DeltasIn(Tail(q))
           up == {n + 1 : n \in rest}
<1>2. IsFiniteSet(rest) /\ Cardinality(rest) \in Nat /\ rest \subseteq Nat
  <2>1. IsFiniteSet(1..Len(Tail(q))) /\ rest \subseteq 1..Len(Tail(q))
    BY <1>1, FS_Interval DEF DeltasIn
  <2> QED BY <1>1, <2>1, FS_Subset, FS_CardinalityType
<1>3. IsFiniteSet(up) /\ Cardinality(up) = Cardinality(rest)
  <2> DEFINE f == [n \in rest |-> n + 1]
  <2>1. f \in Bijection(rest, up)
    BY <1>2 DEF Bijection, Injection, Surjection, IsInjective
  <2> QED BY <1>2, <2>1, FS_Bijection DEF ExistsBijection
<1>4. DeltasIn(q) = up \cup (IF Head(q) = "delta" THEN {1} ELSE {})
  <2>1. \A n \in 1..Len(q) : n # 1 => (n - 1) \in 1..Len(Tail(q)) /\ Tail(q)[n - 1] = q[n]
    BY <1>1
  <2>2. \A n : n \in DeltasIn(q) => n \in up \cup (IF Head(q) = "delta" THEN {1} ELSE {})
    <3> SUFFICES ASSUME NEW n \in DeltasIn(q)
                 PROVE  n \in up \cup (IF Head(q) = "delta" THEN {1} ELSE {})
      OBVIOUS
    <3>1. n \in 1..Len(q) /\ q[n] = "delta"
      BY DEF DeltasIn
    <3>2. CASE n = 1
      BY <1>1, <3>1, <3>2
    <3>3. CASE n # 1
      <4>1. (n - 1) \in rest /\ n = (n - 1) + 1
        BY <2>1, <3>1, <3>3 DEF DeltasIn
      <4> QED BY <4>1
    <3> QED BY <3>2, <3>3
  <2>3. \A n \in rest : n + 1 \in DeltasIn(q)
    BY <1>1 DEF DeltasIn
  <2>4. Head(q) = "delta" => 1 \in DeltasIn(q)
    BY <1>1 DEF DeltasIn
  <2> QED BY <2>2, <2>3, <2>4
<1>5. 1 \notin up
  BY <1>1 DEF DeltasIn
<1> HIDE DEF rest, up
<1>6. CASE Head(q) = "delta"
  <2>1. DeltasIn(q) = up \cup {1}
    BY <1>4, <1>6
  <2> QED BY <1>2, <1>3, <1>5, <1>6, <2>1, FS_AddElement DEF rest
<1>7. CASE Head(q) # "delta"
  <2>1. DeltasIn(q) = up
    BY <1>4, <1>7
  <2> QED BY <1>2, <1>3, <1>7, <2>1 DEF rest
<1> QED BY <1>6, <1>7

\* What the worker says goes to the pipe: the books add up again.
LEMMA LineSaid ==
    ASSUME WsInv, NEW line \in Lines, PrintLine(line), UNCHANGED <<outcome, joined>>
    PROVE  /\ BlocksAddUp' /\ VerdictAddsUp'
           /\ pipe' \in Seq(Lines) /\ said' \in Terminal \cup {"none"}
           /\ printed' = printed + (IF line = "delta" THEN 1 ELSE 0)
<1>0. pipe \in Seq(Lines) /\ Len(pipe) \in Nat /\ printed \in Nat /\ joined \in Nat
  BY LenProperties DEF WsInv, WsTypes
<1>1. /\ pipe' = Append(pipe, line)
      /\ said' = IF line \in Terminal THEN line ELSE said
      /\ printed' = printed + (IF line = "delta" THEN 1 ELSE 0)
  BY <1>0 DEF PrintLine
<1>2. /\ pipe' \in Seq(Lines) /\ Len(pipe') = Len(pipe) + 1 /\ pipe'[Len(pipe) + 1] = line
      /\ \A n \in 1..Len(pipe) : pipe'[n] = pipe[n]
  BY <1>0, <1>1, AppendProperties
<1>3. BlocksAddUp'
  BY <1>0, <1>1, BlockPrinted DEF WsInv, BlocksAddUp
<1>4. VerdictAddsUp'
  <2>1. CASE line \in Terminal
    <3>1. Len(pipe) + 1 \in 1..Len(pipe') /\ pipe'[Len(pipe) + 1] = said' /\ said' \in Terminal
          /\ \A k \in 1..Len(pipe') : ~(k > Len(pipe) + 1)
      BY <1>0, <1>1, <1>2, <2>1
    <3> QED BY <3>1 DEF VerdictAddsUp
  <2>2. CASE line \notin Terminal
    <3>1. said' = said
      BY <1>1, <2>2
    <3>2. \A k \in 1..Len(pipe') : k \in 1..Len(pipe) \/ k = Len(pipe) + 1
      BY <1>0, <1>2
    <3>3. CASE /\ \A n \in 1..Len(pipe) : pipe[n] \notin Terminal
               /\ outcome.saw = (said # "none")
               /\ outcome.saw => outcome.status = StatusOf(said)
      <4>1. \A n \in 1..Len(pipe') : pipe'[n] \notin Terminal
        BY <1>2, <2>2, <3>2, <3>3
      <4> QED BY <3>1, <3>3, <4>1 DEF VerdictAddsUp
    <3>4. CASE \E n \in 1..Len(pipe) :
                  /\ pipe[n] = said /\ said \in Terminal
                  /\ \A k \in 1..Len(pipe) : k > n => pipe[k] \notin Terminal
      <4>1. PICK n \in 1..Len(pipe) :
                  /\ pipe[n] = said /\ said \in Terminal
                  /\ \A k \in 1..Len(pipe) : k > n => pipe[k] \notin Terminal
        BY <3>4
      <4>2. n \in 1..Len(pipe') /\ pipe'[n] = said'
        BY <1>0, <1>2, <3>1, <4>1
      <4>3. \A k \in 1..Len(pipe') : k > n => pipe'[k] \notin Terminal
        BY <1>2, <2>2, <3>2, <4>1
      <4> QED BY <3>1, <4>1, <4>2, <4>3 DEF VerdictAddsUp
    <3> QED BY <3>3, <3>4 DEF WsInv, VerdictAddsUp
  <2> QED BY <2>1, <2>2
<1> QED BY <1>0, <1>1, <1>2, <1>3, <1>4 DEF WsInv, WsTypes

\* Where a step of the worker leads, and what it prints on the way.
LEMMA WorkerMoves ==
    ASSUME WsInv, WorkerStep
    PROVE  /\ wpc \notin {"none", "gone"} /\ UNCHANGED <<mode, accepted>>
           /\ wpc' \in {"chat", "reader", "stt", "answer", "failing", "closing", "asked",
                        "transcribed", "exit", "gone"}
           /\ \/ Quiet /\ (wpc' = "stt" => printed = 0)
              \/ /\ wpc' # "stt" /\ \E line \in Lines :
                       PrintLine(line) /\ (line = "delta" => printed <= MaxDeltas)
<1>0. MaxDeltas \in Nat /\ printed \in Nat /\ accepted = TRUE /\ mode \in {"chat", "reader", "stt"}
      /\ (wpc \in {"boot", "stt"} => printed = 0)
  BY SessionAssumption DEF WsInv, WsTypes
<1> USE DEF Lines, Terminal
<1>1. CASE EnvInvalid \/ ToolUse \/ ResultOK \/ Failed \/ Exited
  BY <1>1 DEF EnvInvalid, ToolUse, ResultOK, Failed, Exited
<1>2. CASE WorkerDies
  BY <1>2 DEF WorkerDies
<1>3. CASE Main
  BY <1>0, <1>3 DEF Main
<1>4. CASE SessionMessage \/ ResultError \/ TaskDone \/ Clarify
  BY <1>4 DEF SessionMessage, ResultError, TaskDone, Clarify
<1>5. CASE SDKRaises
  BY <1>5 DEF SDKRaises
<1>6. CASE TextBlock
  BY <1>0, <1>6 DEF TextBlock
<1>7. CASE ReaderMessage
  BY <1>0, <1>7 DEF ReaderMessage
<1>8. CASE Transcribe
  BY <1>0, <1>8 DEF Transcribe
<1> QED BY <1>1, <1>2, <1>3, <1>4, <1>5, <1>6, <1>7, <1>8 DEF WorkerStep

\* The worker speaks only while it is read.
LEMMA WorkerKeeps == ASSUME WsInv, WorkerStep PROVE WsInv'
<1>0. /\ wpc \notin {"none", "gone"} /\ MaxDeltas \in Nat /\ printed \in Nat
      /\ wpc' \in {"chat", "reader", "stt", "answer", "failing", "closing", "asked",
                   "transcribed", "exit", "gone"}
      /\ UNCHANGED <<mode, accepted, outcome, parsing, joined, sessionRow, tier, readEnd, ctxDone,
                     runPc, returned, row, told>>
  BY WorkerMoves, SessionAssumption
  DEF WorkerStep, streamVars, runVars, callerVars, WsInv, WsTypes
<1>1. runPc = "wait" /\ parsing /\ readEnd /\ returned = "none"
  BY <1>0 DEF WsInv, WsTypes, StagesAgree
<1>2. StagesAgree'
  BY <1>0, <1>1 DEF StagesAgree
<1>3. CASE Quiet /\ (wpc' = "stt" => printed = 0)
  <2>1. UNCHANGED <<pipe, said, printed>>
    BY <1>3 DEF Quiet
  <2>2. WsTypes' /\ BlocksAddUp' /\ VerdictAddsUp'
    BY <1>0, <1>3, <2>1 DEF WsInv, WsTypes, BlocksAddUp, VerdictAddsUp
  <2> QED BY <1>2, <2>2 DEF WsInv
<1>4. CASE wpc' # "stt" /\ \E line \in Lines :
              PrintLine(line) /\ (line = "delta" => printed <= MaxDeltas)
  <2>1. PICK line \in Lines : PrintLine(line) /\ (line = "delta" => printed <= MaxDeltas)
    BY <1>4
  <2>2. /\ BlocksAddUp' /\ VerdictAddsUp'
        /\ pipe' \in Seq(Lines) /\ said' \in Terminal \cup {"none"}
        /\ printed' = printed + (IF line = "delta" THEN 1 ELSE 0)
    BY <1>0, <2>1, LineSaid
  <2>3. printed' \in Nat /\ printed' <= MaxDeltas + 1
    BY <1>0, <2>1, <2>2 DEF WsInv, WsTypes
  <2>4. WsTypes'
    BY <1>0, <1>4, <2>2, <2>3 DEF WsInv, WsTypes
  <2> QED BY <1>2, <2>2, <2>4 DEF WsInv
<1> QED BY <1>3, <1>4, WorkerMoves

\* A line read is a line of the books moved from the pipe to the record.
LEMMA LineRead == ASSUME WsInv, ParseLine PROVE WsInv'
<1> DEFINE line == Head(pipe)
<1>0. /\ parsing /\ readEnd /\ pipe # <<>> /\ pipe \in Seq(Lines) /\ Len(pipe) \in Nat \ {0}
      /\ printed \in Nat /\ joined \in Nat /\ outcome \in [status : Verdicts, saw : BOOLEAN]
  BY LenProperties, EmptySeq DEF ParseLine, WsInv, WsTypes
<1>1. /\ pipe' = Tail(pipe)
      /\ outcome' = IF line \in Terminal THEN [status |-> StatusOf(line), saw |-> TRUE] ELSE outcome
      /\ joined' = joined + (IF line = "delta" THEN 1 ELSE 0)
      /\ UNCHANGED <<mode, wpc, printed, said, accepted, holder, parsing, readEnd, runPc, returned,
                     row, told>>
  BY <1>0 DEF ParseLine, Join, workerVars, runVars, callerVars
<1>2. /\ pipe' \in Seq(Lines) /\ Len(pipe') = Len(pipe) - 1 /\ line = pipe[1] /\ line \in Lines
      /\ \A n \in 1..Len(pipe') : pipe'[n] = pipe[n + 1]
  BY <1>0, <1>1, HeadTailProperties
<1> HIDE DEF line
<1>3. tier' \in {"none", "clean", "tainted"}
  BY DEF ParseLine, PersistSessionStarted, InsertClean, WsInv, WsTypes
<1>4. outcome' \in [status : Verdicts, saw : BOOLEAN]
  BY <1>0, <1>1, <1>2 DEF Lines, Terminal, StatusOf, Verdicts
<1>5. WsTypes'
  BY <1>0, <1>1, <1>2, <1>3, <1>4 DEF WsInv, WsTypes
<1>6. BlocksAddUp'
  <2>1. Cardinality(DeltasIn(pipe)) = Cardinality(DeltasIn(pipe')) + (IF line = "delta" THEN 1 ELSE 0)
    BY <1>0, <1>1, BlockParsed DEF line
  <2>2. Cardinality(DeltasIn(pipe')) \in Nat
    BY <1>2, BlockPrinted
  <2> QED BY <1>0, <1>1, <2>1, <2>2 DEF WsInv, BlocksAddUp
<1>7. VerdictAddsUp'
  <2>1. \A k \in 1..Len(pipe') : k + 1 \in 1..Len(pipe)
    BY <1>0, <1>2
  <2>2. CASE /\ \A n \in 1..Len(pipe) : pipe[n] \notin Terminal
             /\ outcome.saw = (said # "none")
             /\ outcome.saw => outcome.status = StatusOf(said)
    <3>1. line \notin Terminal /\ outcome' = outcome /\ said' = said
      BY <1>0, <1>1, <1>2, <2>2
    <3>2. \A n \in 1..Len(pipe') : pipe'[n] \notin Terminal
      BY <1>2, <2>1, <2>2
    <3> QED BY <2>2, <3>1, <3>2 DEF VerdictAddsUp
  <2>3. CASE \E n \in 1..Len(pipe) :
                /\ pipe[n] = said /\ said \in Terminal
                /\ \A k \in 1..Len(pipe) : k > n => pipe[k] \notin Terminal
    <3>1. PICK n \in 1..Len(pipe) :
                /\ pipe[n] = said /\ said \in Terminal
                /\ \A k \in 1..Len(pipe) : k > n => pipe[k] \notin Terminal
      BY <2>3
    <3>2. CASE n = 1
      <4>1. line = said /\ said \in Terminal /\ said # "none"
        BY <1>2, <3>1, <3>2 DEF Terminal
      <4>2. outcome'.saw = TRUE /\ outcome'.status = StatusOf(said)
        BY <1>1, <4>1
      <4>3. \A k \in 1..Len(pipe') : pipe'[k] \notin Terminal
        BY <1>0, <1>2, <2>1, <3>1, <3>2
      <4> QED BY <1>1, <4>1, <4>2, <4>3 DEF VerdictAddsUp
    <3>3. CASE n # 1
      <4>1. n - 1 \in 1..Len(pipe') /\ pipe'[n - 1] = said
        BY <1>0, <1>2, <3>1, <3>3
      <4>2. \A k \in 1..Len(pipe') : k > n - 1 => pipe'[k] \notin Terminal
        BY <1>0, <1>2, <2>1, <3>1, <3>3
      <4> QED BY <1>1, <3>1, <4>1, <4>2 DEF VerdictAddsUp
    <3> QED BY <3>2, <3>3
  <2> QED BY <2>2, <2>3 DEF WsInv, VerdictAddsUp
<1>8. StagesAgree'
  BY <1>0, <1>1 DEF WsInv, StagesAgree
<1> QED BY <1>5, <1>6, <1>7, <1>8 DEF WsInv

\* Run returns what has been recorded, and only when all has been read.
LEMMA RunKeeps == ASSUME WsInv, RunStep \/ RunStart PROVE WsInv'
<1>0. UNCHANGED <<mode, printed, said, pipe, outcome, joined, tier, row>>
  BY DEF RunStep, RunStart, RunWaited, KillGroup, DrainGrace, AwaitExitBounded, workerVars,
         streamVars, callerVars
<1>1. BlocksAddUp' /\ VerdictAddsUp'
  BY <1>0 DEF WsInv, BlocksAddUp, VerdictAddsUp
<1>2. outcome \in [status : Verdicts, saw : BOOLEAN]
  BY DEF WsInv, WsTypes
<1>3. CASE RunWaited \/ AwaitExitBounded
  <2>1. /\ runPc \in {"wait", "drain", "reclaim"} /\ runPc' = "returned" /\ ~parsing /\ wpc = "gone"
        /\ \E e \in {"error", "timeout"} : returned' = FinalizeOutcome(e)
        /\ UNCHANGED <<wpc, accepted, parsing, readEnd>>
    BY <1>3 DEF RunWaited, AwaitExitBounded, RunReturn, Waited, workerVars, streamVars
  <2>2. /\ returned' \in Verdicts \cup {"timeout"}
        /\ \/ returned' \in {"error", "timeout"} /\ ~outcome.saw
           \/ returned' = outcome.status /\ outcome.saw
    BY <1>2, <2>1 DEF FinalizeOutcome, Verdicts
  <2>3. returned' # "spawn_error" /\ returned = "none"
    BY <2>1, <2>2 DEF Verdicts, WsInv, StagesAgree
  <2>4. WsTypes'
    BY <1>0, <2>1, <2>2 DEF WsInv, WsTypes
  <2>5. StagesAgree'
    BY <1>0, <2>1, <2>2, <2>3 DEF WsInv, StagesAgree
  <2> QED BY <1>1, <2>4, <2>5 DEF WsInv
<1>4. CASE KillGroup
  <2>1. /\ runPc = "wait" /\ runPc' = "drain" /\ wpc' = "gone"
        /\ UNCHANGED <<accepted, parsing, readEnd, returned>>
    BY <1>4 DEF KillGroup, streamVars
  <2>2. WsTypes' /\ StagesAgree'
    BY <1>0, <2>1 DEF WsInv, WsTypes, StagesAgree
  <2> QED BY <1>1, <2>2 DEF WsInv
<1>5. CASE DrainGrace
  <2>1. /\ runPc = "drain" /\ pipe = <<>> /\ runPc' = "reclaim" /\ readEnd' = FALSE
        /\ UNCHANGED <<wpc, accepted, parsing, returned>>
    BY <1>5 DEF DrainGrace, ReadEndAfter, workerVars, streamVars
  <2>2. WsTypes'
    <3>1. /\ runPc' = "reclaim" /\ readEnd' \in BOOLEAN
          /\ UNCHANGED <<wpc, accepted, parsing, returned>>
      BY <2>1
    <3> QED BY <1>0, <3>1 DEF WsInv, WsTypes
  <2>3. StagesAgree'
    BY <1>0, <2>1 DEF WsInv, StagesAgree
  <2> QED BY <1>1, <2>2, <2>3 DEF WsInv
<1>6. CASE RunStart
  <2>1. /\ runPc = "none" /\ UNCHANGED readEnd /\ wpc = "none" /\ ~parsing /\ returned = "none"
        /\ pipe = <<>> /\ said = "none" /\ printed = 0 /\ readEnd = TRUE
    BY <1>6 DEF RunStart, WsInv, WsTypes, StagesAgree
  <2>2. CASE /\ \E e \in Envelopes :
                   e.mode = mode /\ Validate(e) /\ accepted' = ParseEnvelope(e)
             /\ wpc' = "boot" /\ parsing' = TRUE /\ runPc' = "wait"
             /\ UNCHANGED returned
    <3>1. accepted' = TRUE
      BY <2>2 DEF Validate, ParseEnvelope
    <3>2. WsTypes'
      BY <1>0, <2>1, <2>2, <3>1 DEF WsInv, WsTypes
    <3>3. StagesAgree'
      BY <1>0, <2>1, <2>2 DEF StagesAgree
    <3> QED BY <1>1, <3>2, <3>3 DEF WsInv
  <2>3. CASE RunReturn("spawn_error") /\ UNCHANGED <<wpc, parsing, accepted>>
    <3>0. runPc' = "returned" /\ returned' = "spawn_error" /\ UNCHANGED <<wpc, parsing, accepted>>
      BY <2>3 DEF RunReturn
    <3>1. WsTypes'
      BY <1>0, <2>1, <3>0 DEF WsInv, WsTypes
    <3>2. StagesAgree'
      BY <1>0, <2>1, <3>0 DEF StagesAgree
    <3> QED BY <1>1, <3>1, <3>2 DEF WsInv
  <2> QED BY <1>6, <2>2, <2>3 DEF RunStart
<1> QED BY <1>3, <1>4, <1>5, <1>6 DEF RunStep

\* Descendants, taint, deadlines and callers change none of it.
LEMMA OthersKeep ==
    ASSUME WsInv,
           \/ ParserEnds \/ Detach \/ HolderEnds \/ Raise \/ CtxDone \/ PauseBudget
           \/ FinishTask \/ FinishRead \/ FinishTranscript
    PROVE  WsInv'
<1>0. UNCHANGED <<mode, wpc, printed, said, accepted, pipe, outcome, joined, readEnd, runPc, returned>>
  BY DEF ParserEnds, Detach, HolderEnds, Raise, CtxDone, PauseBudget, FinishTask, FinishRead,
         FinishTranscript, workerVars, streamVars, runVars
<1>1. tier' \in {"none", "clean", "tainted"}
  BY DEF ParserEnds, Detach, HolderEnds, Raise, CtxDone, PauseBudget, FinishTask, FinishRead,
         FinishTranscript, streamVars, WsInv, WsTypes
<1>2. row' \in {"running", "paused_budget", "done", "waiting_retry", "error"}
  <2>1. row' \in {row, "paused_budget", FinalState(returned)}
    BY DEF ParserEnds, Detach, HolderEnds, Raise, CtxDone, PauseBudget, FinishTask, FinishRead,
           FinishTranscript, callerVars
  <2>2. FinalState(returned) \in {"done", "waiting_retry", "error"}
    BY DEF FinalState
  <2> QED BY <2>1, <2>2 DEF WsInv, WsTypes
<1>3. \/ parsing' = parsing
      \/ parsing /\ parsing' = FALSE /\ (~readEnd \/ (pipe = <<>> /\ wpc = "gone"))
  BY DEF ParserEnds, Detach, HolderEnds, Raise, CtxDone, PauseBudget, FinishTask, FinishRead,
         FinishTranscript, streamVars
<1>4. WsTypes' /\ BlocksAddUp' /\ VerdictAddsUp'
  <2>0. parsing' \in BOOLEAN
    BY <1>3 DEF WsInv, WsTypes
  <2>1. WsTypes'
    BY <1>0, <1>1, <1>2, <2>0 DEF WsInv, WsTypes
  <2>2. BlocksAddUp' /\ VerdictAddsUp'
    BY <1>0 DEF WsInv, BlocksAddUp, VerdictAddsUp
  <2> QED BY <2>1, <2>2
<1>5. StagesAgree'
  BY <1>0, <1>3 DEF WsInv, StagesAgree
<1> QED BY <1>4, <1>5 DEF WsInv

\* Nothing has been said before the process is started.
LEMMA InitSession == WsInit => WsInv
<1> SUFFICES ASSUME WsInit PROVE WsInv
  OBVIOUS
<1>1. pipe = <<>> /\ Len(pipe) = 0 /\ DeltasIn(pipe) = {} /\ Cardinality({}) = 0
  BY FS_EmptySet DEF WsInit, DeltasIn
<1>2. outcome \in [status : Verdicts, saw : BOOLEAN] /\ outcome.saw = FALSE
  BY DEF WsInit, Verdicts
<1>3. WsTypes
  <2>1. pipe \in Seq(Lines) /\ 0 <= MaxDeltas + 1
    BY <1>1, SessionAssumption
  <2>2. returned \in Verdicts
    BY DEF WsInit, Verdicts
  <2> QED BY <1>2, <2>1, <2>2 DEF WsInit, WsTypes
<1>4. StagesAgree
  BY <1>1 DEF WsInit, StagesAgree
<1>5. joined + Cardinality(DeltasIn(pipe)) = printed
  <2>1. joined = 0 /\ printed = 0 /\ Cardinality(DeltasIn(pipe)) = 0
    BY <1>1 DEF WsInit
  <2> QED BY <2>1
<1>6. VerdictAddsUp
  <2>1. \A n \in 1..Len(pipe) : pipe[n] \notin Terminal
    BY <1>1
  <2> QED BY <1>2, <2>1 DEF WsInit, VerdictAddsUp
<1> QED BY <1>3, <1>4, <1>5, <1>6 DEF WsInv, BlocksAddUp

\* What a worker said reaches the one who asked, whole and with its own
\* verdict, whatever dies, detaches or runs out of time meanwhile; what the
\* daemon sends is what the worker takes; and a session that saw content from
\* outside stays tainted (spawn.go Run, finalizeOutcome, awaitExitBounded;
\* server/task.go OnSession).
THEOREM SessionIsTrue ==
    WsSafety =>
        /\ [](WsTypeOK /\ WorkerTakesWhatIsSent /\ OutcomeIsWhatWasSaid /\ WholeAnswer)
        /\ TaintOnlyRises
<1>1. WsInv /\ [WsNext]_wsVars => WsInv'
  <2> SUFFICES ASSUME WsInv, [WsNext]_wsVars PROVE WsInv'
    OBVIOUS
  <2>1. CASE UNCHANGED wsVars
    BY <2>1 DEF wsVars, workerVars, streamVars, runVars, callerVars, WsInv, WsTypes, BlocksAddUp,
                VerdictAddsUp, StagesAgree
  <2>2. CASE WsNext
    BY <2>2, WorkerKeeps, LineRead, RunKeeps, OthersKeep DEF WsNext, ParserStep
  <2> QED BY <2>1, <2>2
<1>2. WsInv => WsTypeOK /\ WorkerTakesWhatIsSent /\ OutcomeIsWhatWasSaid /\ WholeAnswer
  <2> SUFFICES ASSUME WsInv PROVE WsTypeOK /\ WorkerTakesWhatIsSent /\ OutcomeIsWhatWasSaid /\ WholeAnswer
    OBVIOUS
  <2>0. /\ MaxDeltas \in Nat /\ pipe \in Seq(Lines) /\ Cardinality(DeltasIn(pipe)) \in Nat
        /\ "delta" \in Lines
    BY SessionAssumption, BlockPrinted DEF WsInv, WsTypes, Lines
  <2>1. WsTypeOK /\ WorkerTakesWhatIsSent
    BY <2>0 DEF WsInv, WsTypes, BlocksAddUp, WsTypeOK, WorkerTakesWhatIsSent, Verdicts
  <2>2. runPc = "returned" /\ returned # "spawn_error" =>
           pipe = <<>> /\ outcome.saw = (said # "none")
           /\ (outcome.saw => outcome.status = StatusOf(said))
    <3> SUFFICES ASSUME runPc = "returned", returned # "spawn_error"
                 PROVE  pipe = <<>> /\ outcome.saw = (said # "none")
                        /\ (outcome.saw => outcome.status = StatusOf(said))
      OBVIOUS
    <3>1. pipe = <<>>
      BY DEF WsInv, StagesAgree
    <3>2. Len(pipe) = 0
      BY <3>1
    <3> QED BY <3>1, <3>2 DEF WsInv, VerdictAddsUp
  <2>3. OutcomeIsWhatWasSaid
    BY <2>2 DEF WsInv, StagesAgree, OutcomeIsWhatWasSaid, StatusOf
  <2>4. WholeAnswer
    <3> SUFFICES ASSUME returned = "ok" PROVE joined = printed
      BY DEF WholeAnswer
    <3>1. runPc = "returned" /\ pipe = <<>>
      BY <2>2 DEF WsInv, WsTypes, StagesAgree
    <3>2. DeltasIn(pipe) = {} /\ Cardinality({}) = 0
      BY <3>1, FS_EmptySet DEF DeltasIn
    <3> QED BY <3>2 DEF WsInv, WsTypes, BlocksAddUp
  <2> QED BY <2>1, <2>3, <2>4
<1>3. [WsNext]_wsVars => [tier = "tainted" => tier' = "tainted"]_wsVars
  <2> SUFFICES ASSUME WsNext, tier = "tainted" PROVE tier' = "tainted"
    OBVIOUS
  <2>1. CASE ParseLine
    BY <2>1 DEF ParseLine, PersistSessionStarted, InsertClean
  <2>2. CASE ~ParseLine
    BY <2>2 DEF WsNext, WorkerStep, ParserStep, RunStep, Detach, HolderEnds, ParserEnds, Raise,
       RunStart, CtxDone, RunWaited, KillGroup, DrainGrace, AwaitExitBounded, PauseBudget,
       FinishTask, FinishRead, FinishTranscript, streamVars
  <2> QED BY <2>1, <2>2
<1>4. WsSafety => []WsInv
  BY InitSession, <1>1, PTL DEF WsSafety
<1>5. WsSafety => TaintOnlyRises
  BY <1>3, PTL DEF WsSafety, TaintOnlyRises
<1> QED BY <1>2, <1>4, <1>5, PTL
=============================================================================
