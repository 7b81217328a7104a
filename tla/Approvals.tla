----------------------------- MODULE Approvals -----------------------------
(***************************************************************************)
(* The policy engine (policy/engine.go, tokens.go, halt.go): a tool call   *)
(* is checked against the autonomy ladder, waits for an approval or gets a *)
(* one-time token, and the token is spent when the tool runs.  Approve,    *)
(* Deny, undo, `kahya autonomy promote`, the halt key and the undo sweeper *)
(* work on the same rows.                                                  *)
(*                                                                         *)
(* Every operation runs on its own goroutine (an actor) and takes several  *)
(* SQL statements with no transaction or lock around them: each step below *)
(* is one statement with the decision taken on its result.                 *)
(*                                                                         *)
(* A request is one Check call.  There is one tool per class and the scope *)
(* is global, so the ladder is keyed by class; a task is one trace.        *)
(***************************************************************************)
EXTENDS Integers, Sequences, FiniteSets

CONSTANTS Requests, Tasks, Actors, NoRequest,
          Class,      \* the class of each request's tool
          Task,       \* the task of each request
          InitLevels, \* ladder levels a triple may have to begin with
          Threshold,  \* promotionThreshold
          MaxOps      \* bound: operations begun

ASSUME ApprovalsAssumption ==
    /\ NoRequest \notin Requests
    /\ Class \in [Requests -> {"W1", "W2", "W3"}]
    /\ Task \in [Requests -> Tasks]
    /\ InitLevels \subseteq 0..4
    /\ Threshold \in Nat \ {0}
    /\ MaxOps \in Nat

L4 == 4
Classes == {"W1", "W2", "W3"}
Ops == {"check", "approve", "deny", "use", "undo", "promote", "sweep", "halt"}
\* How an approval arrives ("typed": local, with the word onayla), or whether
\* a token is presented with the bytes, task and tool it was minted for.
Vias == {"none", "telegram", "local", "typed", "match", "mismatch"}

Pcs == {"idle", "taint", "ladder", "ask", "mint", "window", "insert", "get", "claim",
        "load", "save", "spend", "fail", "find", "trigger", "lapse", "list", "sweep",
        "invalidate"}

VARIABLES
    ladder,    \* autonomy_state: level and consecutive_approvals
    pend,      \* pending_approvals, one row per request
    token,     \* approval_tokens, one row per request
    windows,   \* undo_windows, in the order they were opened
    tainted,   \* tasks whose session is tainted
    act,       \* the actors
    asked,     \* requests whose Check has begun
    ops,
    decided,   \* history: what has decided each pending approval
    approvedVia, \* history: how it was approved
    runs,      \* history: executions a token has authorised
    suggested, \* history: classes with a promotion_suggested event
    earned,    \* history: approvals counted since the last reset of the count
    halted     \* history: tasks whose halt has invalidated their approvals

rows == <<ladder, pend, token, windows, tainted>>
history == <<decided, approvedVia, runs, suggested, earned, halted>>
vars == <<rows, act, asked, ops, history>>

IdleActor == [pc |-> "idle", op |-> "none", req |-> NoRequest, via |-> "none",
              level |-> 0, streak |-> 0, todo |-> {}]

Init ==
    /\ \E l \in InitLevels : ladder = [c \in Classes |-> [level |-> l, streak |-> 0]]
    /\ pend = [r \in Requests |-> "none"]
    /\ token = [r \in Requests |-> "none"]
    /\ windows = <<>>
    /\ tainted = {}
    /\ act = [a \in Actors |-> IdleActor]
    /\ asked = {}
    /\ ops = 0
    /\ decided = [r \in Requests |-> {}]
    /\ approvedVia = [r \in Requests |-> "none"]
    /\ runs = [r \in Requests |-> 0]
    /\ suggested = {}
    /\ earned = [c \in Classes |-> 0]
    /\ halted = {}

\* autoLevelFor; W3 is never automatic.
AutoLevel(c) == IF c = "W1" THEN 2 ELSE 3
Unconsumed(r) == pend[r] \in {"open", "expired"}
Unspent(r) == token[r] \in {"live", "expired"}

-----------------------------------------------------------------------------
\* The first step of each operation.
FirstPc == [check |-> "taint", approve |-> "get", deny |-> "get", use |-> "spend",
            undo |-> "find", promote |-> "load", sweep |-> "list", halt |-> "list"]

\* Check and Approve hand the token out when they return.
HandedOut(r) ==
    /\ token[r] # "none"
    /\ \A a \in Actors : act[a].req = r /\ act[a].op \in {"check", "approve"} =>
          act[a].pc \notin {"window", "insert", "load", "save"}

\* Who may ask for what: a worker checks its call once and only while its task
\* is not being halted; ids and tokens exist once they were handed out.
Offered(op, r, via) ==
    CASE op = "check"   -> /\ via = "none" /\ r \notin asked /\ Task[r] \notin halted
                           /\ \A a \in Actors : act[a].op = "halt" => Task[act[a].req] # Task[r]
      [] op = "approve" -> via \in {"telegram", "local", "typed"} /\ pend[r] # "none"
      [] op = "deny"    -> via = "none" /\ pend[r] # "none"
      [] op = "use"     -> via \in {"match", "mismatch"} /\ HandedOut(r)
      [] op = "halt"    -> via = "none" /\ Task[r] \notin halted
      [] op = "undo"    -> via = "none" /\ windows # <<>>
      [] OTHER          -> via = "none"

Begin(a, op, r, via) ==
    /\ act[a].pc = "idle"
    /\ ops < MaxOps
    /\ Offered(op, r, via)
    /\ ops' = ops + 1
    /\ asked' = IF op = "check" THEN asked \cup {r} ELSE asked
    /\ act' = [act EXCEPT ![a] = [pc |-> FirstPc[op], op |-> op, req |-> r, via |-> via,
                                  level |-> 0, streak |-> 0, todo |-> {}]]
    /\ UNCHANGED <<rows, history>>

At(a, pc) == act[a].pc = pc
Goto(a, pc) == act' = [act EXCEPT ![a].pc = pc]
Return(a) == act' = [act EXCEPT ![a] = IdleActor]
Req(a) == act[a].req
ClassOf(a) == Class[act[a].req]

-----------------------------------------------------------------------------
(* Check, and what Approve shares with it. *)

\* denyIfTainted: a tainted session gets no write tool at all.
CheckTaint(a) ==
    /\ At(a, "taint")
    /\ IF Task[Req(a)] \in tainted THEN Return(a) ELSE Goto(a, "ladder")
    /\ UNCHANGED <<rows, asked, ops, history>>

\* Defect: a high enough level lets a W3 call through as well.
BugW3Ladder(a) ==
    /\ At(a, "ladder")
    /\ Goto(a, IF ladder[ClassOf(a)].level >= AutoLevel(ClassOf(a)) THEN "mint" ELSE "ask")
    /\ UNCHANGED <<rows, asked, ops, history>>

\* loadState and the decision: automatic at the class's level, never for W3.
CheckLadder(a) ==
    /\ At(a, "ladder")
    /\ Goto(a, IF ClassOf(a) # "W3" /\ ladder[ClassOf(a)].level >= AutoLevel(ClassOf(a))
                 THEN "mint" ELSE "ask")
    /\ UNCHANGED <<rows, asked, ops, history>>

\* mintPendingApproval.
MintPendingApproval(a) ==
    /\ At(a, "ask")
    /\ pend' = [pend EXCEPT ![Req(a)] = "open"]
    /\ Return(a)
    /\ UNCHANGED <<ladder, token, windows, tainted, asked, ops, history>>

\* After the token and the window: Check returns, Approve counts the approval.
Finish(a) == IF act[a].op = "approve" THEN Goto(a, "load") ELSE Return(a)

MintToken(a) ==
    /\ At(a, "mint")
    /\ token' = [token EXCEPT ![Req(a)] = "live"]
    /\ IF ClassOf(a) = "W1" THEN Goto(a, "window") ELSE Finish(a)
    /\ UNCHANGED <<ladder, pend, windows, tainted, asked, ops, history>>

\* A row of undo_windows whose state is still 'open', its deadline passed or not.
IsOpen(w) == w.state \in {"open", "late"}
SameAction(w, r) == w.task = Task[r] /\ w.class = Class[r]

\* Defect: every W1 token opens a window of its own.
BugAlwaysOpen(a) ==
    /\ At(a, "window")
    /\ Goto(a, "insert")
    /\ UNCHANGED <<rows, asked, ops, history>>

\* openUndoWindow: an open window of the same action is reused.
FindWindow(a) ==
    /\ At(a, "window")
    /\ IF \E i \in 1..Len(windows) : IsOpen(windows[i]) /\ SameAction(windows[i], Req(a))
         THEN Finish(a) ELSE Goto(a, "insert")
    /\ UNCHANGED <<rows, asked, ops, history>>

InsertWindow(a) ==
    /\ At(a, "insert")
    /\ windows' = Append(windows, [task |-> Task[Req(a)], class |-> ClassOf(a),
                                   state |-> "open", undone |-> 0])
    /\ Finish(a)
    /\ UNCHANGED <<ladder, pend, token, tainted, asked, ops, history>>

-----------------------------------------------------------------------------
(* Approve and Deny. *)

\* getValidPendingApproval, then the W3 gates: local surface, typed word.
GetPending(a) ==
    /\ At(a, "get")
    /\ IF /\ pend[Req(a)] = "open"
          /\ act[a].op = "approve" /\ ClassOf(a) = "W3" => act[a].via = "typed"
         THEN Goto(a, "claim") ELSE Return(a)
    /\ UNCHANGED <<rows, asked, ops, history>>

Decide(a) ==
    /\ decided' = [decided EXCEPT ![Req(a)] = @ \cup {act[a].op}]
    /\ approvedVia' = IF act[a].op = "approve"
                        THEN [approvedVia EXCEPT ![Req(a)] = act[a].via] ELSE approvedVia
    /\ Goto(a, IF act[a].op = "approve" THEN "mint" ELSE "load")

\* Defect: the row count of the UPDATE is not looked at.
BugConsumeBlindly(a) ==
    /\ At(a, "claim")
    /\ pend' = [pend EXCEPT ![Req(a)] = "consumed"]
    /\ Decide(a)
    /\ UNCHANGED <<ladder, token, windows, tainted, asked, ops, runs, suggested, earned, halted>>

\* ConsumePendingApproval, WHERE consumed_at IS NULL: one decision wins.
ConsumePending(a) ==
    /\ At(a, "claim")
    /\ IF Unconsumed(Req(a))
         THEN pend' = [pend EXCEPT ![Req(a)] = "consumed"] /\ Decide(a)
         ELSE Return(a) /\ UNCHANGED <<pend, decided, approvedVia>>
    /\ UNCHANGED <<ladder, token, windows, tainted, asked, ops, runs, suggested, earned, halted>>

-----------------------------------------------------------------------------
(* The ladder: loadState, then saveState with the values loaded. *)

\* The window an undo works on decides the class it demotes.
LadderKey(a) ==
    IF act[a].op = "undo" THEN windows[CHOOSE i \in act[a].todo : TRUE].class ELSE ClassOf(a)

LoadState(a) ==
    /\ At(a, "load")
    /\ act' = [act EXCEPT ![a].pc = "save", ![a].level = ladder[LadderKey(a)].level,
                          ![a].streak = ladder[LadderKey(a)].streak]
    /\ UNCHANGED <<rows, asked, ops, history>>

NewState(a) ==
    LET l == act[a].level IN
    CASE act[a].op = "approve" -> [level |-> l, streak |-> act[a].streak + 1]
      [] act[a].op = "promote" -> [level |-> IF l < L4 THEN l + 1 ELSE L4, streak |-> 0]
      [] OTHER -> [level |-> IF l > 0 THEN l - 1 ELSE 0, streak |-> 0]

\* Put the row.  The approval that makes the count reach the threshold is
\* ledgered as promotion_suggested; nothing is promoted.
Save(a, row) ==
    /\ At(a, "save")
    /\ ladder' = [ladder EXCEPT ![LadderKey(a)] = row]
    /\ suggested' = IF act[a].op = "approve" /\ row.streak = Threshold
                      THEN suggested \cup {LadderKey(a)} ELSE suggested
    /\ earned' = [earned EXCEPT ![LadderKey(a)] =
                    IF act[a].op = "approve" THEN @ + 1 ELSE 0]
    /\ Return(a)
    /\ UNCHANGED <<pend, token, windows, tainted, asked, ops, decided, approvedVia,
                   runs, halted>>

\* Defect: Promote forgets the ceiling.
BugNoCeiling(a) ==
    Save(a, IF act[a].op = "promote" THEN [level |-> act[a].level + 1, streak |-> 0]
                                     ELSE NewState(a))
\* Defect: the approval that reaches the threshold promotes by itself.
BugAutoPromote(a) ==
    Save(a, IF act[a].op = "approve" /\ act[a].streak + 1 = Threshold
              THEN [level |-> act[a].level + 1, streak |-> 0] ELSE NewState(a))
\* Defect: a demotion keeps the count.
BugKeepStreak(a) ==
    Save(a, IF act[a].op = "approve" THEN NewState(a)
                                     ELSE [NewState(a) EXCEPT !.streak = act[a].streak])

\* saveState of Approve's count, of Promote, or of demote.
SaveState(a) == Save(a, NewState(a))

-----------------------------------------------------------------------------
(* ConsumeToken. *)

\* Defect: the token is read, compared and only then marked, whatever it was.
BugSpendAny(a) ==
    /\ At(a, "spend")
    /\ token' = [token EXCEPT ![Req(a)] = "used"]
    /\ runs' = IF act[a].via = "match" THEN [runs EXCEPT ![Req(a)] = @ + 1] ELSE runs
    /\ IF act[a].via = "match" THEN Return(a) ELSE Goto(a, "fail")
    /\ UNCHANGED <<ladder, pend, windows, tainted, asked, ops, decided, approvedVia,
                   suggested, earned, halted>>

\* The UPDATE burns an unspent token, right or wrong; a matching unexpired
\* one authorises the run.
SpendToken(a) ==
    LET ok == token[Req(a)] = "live" /\ act[a].via = "match" IN
    /\ At(a, "spend")
    /\ token' = IF Unspent(Req(a)) THEN [token EXCEPT ![Req(a)] = "used"] ELSE token
    /\ runs' = IF ok THEN [runs EXCEPT ![Req(a)] = @ + 1] ELSE runs
    /\ IF ok THEN Return(a) ELSE Goto(a, "fail")
    /\ UNCHANGED <<ladder, pend, windows, tainted, asked, ops, decided, approvedVia,
                   suggested, earned, halted>>

\* failFromHash: demote, unless the halt key revoked the token.
FailFromHash(a) ==
    /\ At(a, "fail")
    /\ IF token[Req(a)] = "revoked" THEN Return(a) ELSE Goto(a, "load")
    /\ UNCHANGED <<rows, asked, ops, history>>

-----------------------------------------------------------------------------
(* TriggerUndo and SweepExpiredUndoWindows. *)

OpenOf(t) == {i \in 1..Len(windows) : windows[i].task = t /\ IsOpen(windows[i])}

\* GetOpenUndoWindowByTrace: the window opened last; its deadline decides.
FindUndo(a) ==
    /\ At(a, "find")
    /\ \/ /\ OpenOf(Task[Req(a)]) = {}
          /\ Return(a)
       \/ \E i \in OpenOf(Task[Req(a)]) :
             /\ \A j \in OpenOf(Task[Req(a)]) : j <= i
             /\ act' = [act EXCEPT ![a].todo = {i},
                           ![a].pc = IF windows[i].state = "late" THEN "lapse" ELSE "trigger"]
    /\ UNCHANGED <<rows, asked, ops, history>>

SetUndoWindowState(i, s) == windows' = [windows EXCEPT ![i].state = s]

\* Defect: the window stays open after its undo.
BugUndoAgain(a) ==
    /\ At(a, "trigger")
    /\ \E i \in act[a].todo : windows' = [windows EXCEPT ![i].undone = @ + 1]
    /\ Goto(a, "load")
    /\ UNCHANGED <<ladder, pend, token, tainted, asked, ops, history>>

\* The state is set whatever it is by now; then the class is demoted.
TriggerUndo(a) ==
    /\ At(a, "trigger")
    /\ \E i \in act[a].todo :
          windows' = [windows EXCEPT ![i].state = "triggered", ![i].undone = @ + 1]
    /\ Goto(a, "load")
    /\ UNCHANGED <<ladder, pend, token, tainted, asked, ops, history>>

LapseUndo(a) ==
    /\ At(a, "lapse")
    /\ \E i \in act[a].todo : SetUndoWindowState(i, "expired")
    /\ Return(a)
    /\ UNCHANGED <<ladder, pend, token, tainted, asked, ops, history>>

\* ListOpenUndoWindows and the deadline test.
SweepList(a) ==
    LET late == {i \in 1..Len(windows) : windows[i].state = "late"} IN
    /\ At(a, "list") /\ act[a].op = "sweep"
    /\ IF late = {} THEN Return(a)
                    ELSE act' = [act EXCEPT ![a].pc = "sweep", ![a].todo = late]
    /\ UNCHANGED <<rows, asked, ops, history>>

SweepOne(a) ==
    /\ At(a, "sweep")
    /\ \E i \in act[a].todo :
          /\ \A j \in act[a].todo : i <= j
          /\ SetUndoWindowState(i, "expired")
          /\ IF act[a].todo = {i} THEN Return(a)
                                  ELSE act' = [act EXCEPT ![a].todo = @ \ {i}]
    /\ UNCHANGED <<ladder, pend, token, tainted, asked, ops, history>>

-----------------------------------------------------------------------------
(* InvalidateApprovalsForTask. *)

HaltList(a) ==
    /\ At(a, "list") /\ act[a].op = "halt"
    /\ act' = [act EXCEPT ![a].pc = "invalidate",
                  ![a].todo = {r \in Requests : Task[r] = Task[Req(a)] /\ Unconsumed(r)}]
    /\ UNCHANGED <<rows, asked, ops, history>>

HaltConsume(a) ==
    /\ At(a, "invalidate")
    /\ \E r \in act[a].todo :
          /\ pend' = IF Unconsumed(r) THEN [pend EXCEPT ![r] = "consumed"] ELSE pend
          /\ decided' = IF Unconsumed(r) THEN [decided EXCEPT ![r] = @ \cup {"halt"}] ELSE decided
          /\ act' = [act EXCEPT ![a].todo = @ \ {r}]
    /\ UNCHANGED <<ladder, token, windows, tainted, asked, ops, approvedVia, runs,
                   suggested, earned, halted>>

\* Defect: pending approvals go, but tokens already minted stay.
BugKeepTokens(a) ==
    /\ At(a, "invalidate")
    /\ act[a].todo = {}
    /\ halted' = halted \cup {Task[Req(a)]}
    /\ Return(a)
    /\ UNCHANGED <<rows, asked, ops, decided, approvedVia, runs, suggested, earned>>

\* RevokeApprovalTokensByTask.
HaltRevoke(a) ==
    /\ At(a, "invalidate")
    /\ act[a].todo = {}
    /\ token' = [r \in Requests |-> IF Task[r] = Task[Req(a)] /\ Unspent(r)
                                      THEN "revoked" ELSE token[r]]
    /\ halted' = halted \cup {Task[Req(a)]}
    /\ Return(a)
    /\ UNCHANGED <<ladder, pend, windows, tainted, asked, ops, decided, approvedVia,
                   runs, suggested, earned>>

-----------------------------------------------------------------------------
(* The clock, and taint raised while other operations run. *)

PendingExpires(r) ==
    /\ pend[r] = "open"
    /\ pend' = [pend EXCEPT ![r] = "expired"]
    /\ UNCHANGED <<ladder, token, windows, tainted, act, asked, ops, history>>

TokenExpires(r) ==
    /\ token[r] = "live"
    /\ token' = [token EXCEPT ![r] = "expired"]
    /\ UNCHANGED <<ladder, pend, windows, tainted, act, asked, ops, history>>

WindowLapses(i) ==
    /\ windows[i].state = "open"
    /\ SetUndoWindowState(i, "late")
    /\ UNCHANGED <<ladder, pend, token, tainted, act, asked, ops, history>>

\* Tracker.Raise: there is no way back to clean.
RaiseTaint(t) ==
    /\ t \notin tainted
    /\ tainted' = tainted \cup {t}
    /\ UNCHANGED <<ladder, pend, token, windows, act, asked, ops, history>>

Step(a) ==
    \/ CheckTaint(a) \/ CheckLadder(a) \/ MintPendingApproval(a) \/ MintToken(a)
    \/ FindWindow(a) \/ InsertWindow(a)
    \/ GetPending(a) \/ ConsumePending(a) \/ LoadState(a) \/ SaveState(a)
    \/ SpendToken(a) \/ FailFromHash(a)
    \/ FindUndo(a) \/ TriggerUndo(a) \/ LapseUndo(a) \/ SweepList(a) \/ SweepOne(a)
    \/ HaltList(a) \/ HaltConsume(a) \/ HaltRevoke(a)

Next ==
    \/ \E a \in Actors : \/ Step(a)
                         \/ \E op \in Ops, r \in Requests, via \in Vias : Begin(a, op, r, via)
    \/ \E r \in Requests : PendingExpires(r) \/ TokenExpires(r)
    \/ \E i \in 1..Len(windows) : WindowLapses(i)
    \/ \E t \in Tasks : RaiseTaint(t)

Spec == Init /\ [][Next]_vars

-----------------------------------------------------------------------------
TypeOK ==
    /\ ladder \in [Classes -> [level : 0..L4, streak : Nat]]
    /\ pend \in [Requests -> {"none", "open", "expired", "consumed"}]
    /\ token \in [Requests -> {"none", "live", "expired", "used", "revoked"}]
    /\ windows \in Seq([task : Tasks, class : Classes,
                        state : {"open", "late", "triggered", "expired"}, undone : Nat])
    /\ tainted \subseteq Tasks
    /\ act \in [Actors -> [pc : Pcs, op : Ops \cup {"none"}, req : Requests \cup {NoRequest},
                           via : Vias, level : 0..L4, streak : Nat,
                           todo : SUBSET (Requests \cup Nat)]]
    /\ asked \subseteq Requests
    /\ ops \in 0..MaxOps
    /\ decided \in [Requests -> SUBSET {"approve", "deny", "halt"}]
    /\ approvedVia \in [Requests -> Vias]
    /\ runs \in [Requests -> Nat]
    /\ suggested \subseteq Classes
    /\ earned \in [Classes -> Nat]
    /\ halted \subseteq Tasks

\* An approval is decided once: of an Approve, a Deny and a halt that race for
\* the same id, from any surface, one takes effect.
DecidedOnce == \A r \in Requests : Cardinality(decided[r]) <= 1

\* A token of a W3 call exists only after a local approval with the typed word,
\* at whatever ladder level and however the level changes meanwhile.
W3NeedsTypedApproval ==
    \A r \in Requests : Class[r] = "W3" /\ token[r] # "none" => approvedVia[r] = "typed"

\* A request executes at most once, and never after it was denied or its
\* pending approval was invalidated by the halt key.
ExecutesOnce ==
    \A r \in Requests : runs[r] > 0 => runs[r] = 1 /\ decided[r] \subseteq {"approve"}

\* halt.go: "a diff approved before the halt must not authorize anything after
\* it, and now cannot".
HaltBinds == \A r \in Requests : Task[r] \in halted => ~Unspent(r)

\* engine.go: "the level itself never changes here; only `kahya autonomy
\* promote` changes it" (upwards): no other operation raises a level.
RaisedByPromotion ==
    \A c \in Classes : ladder'[c].level > ladder[c].level =>
       \E a \in Actors : At(a, "save") /\ act[a].op = "promote" /\ act'[a].pc = "idle"

\* The same as a property of a behaviour.
OnlyPromoteRaises == [][RaisedByPromotion]_vars

\* HANDOFF: "20 consecutive approvals + 0 denials" make kahya suggest a
\* promotion: none of them came before a denial, an undo or a promotion.
SuggestionIsEarned ==
    \A c \in suggested' \ suggested : earned'[c] >= Threshold

\* queries.sql: "a retry must never leave multiple simultaneously-open undo
\* windows for the same action".
OneOpenWindow ==
    \A i, j \in 1..Len(windows) :
        IsOpen(windows[i]) /\ IsOpen(windows[j])
          /\ windows[i].task = windows[j].task /\ windows[i].class = windows[j].class
        => i = j

\* An action is undone, and its class demoted for it, once.
UndoneOnce == \A i \in 1..Len(windows) : windows[i].undone <= 1

\* When operations do not overlap, a halt binds what was approved before it and
\* an action has one undo window, undone once.
SerialDecisionsBind == HaltBinds /\ OneOpenWindow /\ UndoneOnce

\* When operations do not overlap, a level rises by promotion only and a
\* promotion is suggested only when it was earned.
LadderIsEarned == [][RaisedByPromotion /\ SuggestionIsEarned]_vars
=============================================================================
