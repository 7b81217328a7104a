------------------------------ MODULE ToolGate ------------------------------
(***************************************************************************)
(* The way of a tool call from the model to its effect: the worker's       *)
(* can_use_tool hook (worker/kahya_worker/hooks.py), the kahya-mcp bridge, *)
(* the daemon's policyGateMiddleware (internal/server/mcp.go) and, for the *)
(* file, shell and script tools, their own gate (internal/server/fs.go,    *)
(* mcp/osascript/runner.go).  The hook's check is only an early refusal;   *)
(* the call is decided again on the daemon's side, by exactly one of the   *)
(* two gates, while the user changes the ladder, a read taints the session *)
(* and the bridge gives up waiting.                                        *)
(*                                                                         *)
(* What Check and ConsumeToken do with their rows is module Approvals;     *)
(* here they are the two reads and the one write they make for a call.     *)
(***************************************************************************)
EXTENDS Integers, FiniteSets

CONSTANTS GateCalls,    \* tool calls of one task
          NoCall, Gone

ASSUME ToolGateAssumption ==
    NoCall \notin GateCalls /\ Gone \notin GateCalls \cup {NoCall}

\* One tool of each class, and of each of the two gates, in policy.yaml.
ToolClass == [memory_search |-> "R", memory_write |-> "W1", applescript_run |-> "W2",
              mail_send |-> "W3"]
GateTools == DOMAIN ToolClass

\* Tools whose own server checks and spends: the middleware lets them pass.
BugOwnedTools == {}
OwnedTools == {"applescript_run"}

ChecksItself == {"applescript_run"}

VARIABLES tool,       \* the tool each call names
          stage,      \* where each call is
          answer,     \* what the worker was told of it
          decidedBy,  \* the gates that let it pass
          spent,      \* tokens spent for it
          effects,    \* how often it ran
          relaying,   \* the call the bridge waits for, NoCall, or Gone
          auto,       \* classes the ladder lets through
          known,      \* the session's row is stored
          dirty,      \* the session is tainted
          denyAll,    \* policy.yaml could not be loaded at boot
          enteredDirty \* history: calls relayed when the session was tainted

ClassOfCall(c) == ToolClass[tool[c]]

gateVars == <<tool, stage, answer, decidedBy, spent, effects, relaying, auto, known, dirty,
              denyAll, enteredDirty>>

Stages == {"idle", "hook", "send", "gate", "taint", "ladder", "spend", "run", "ran", "end"}

GateInit ==
    /\ tool = [c \in GateCalls |-> "memory_search"]
    /\ stage = [c \in GateCalls |-> "idle"]
    /\ answer = [c \in GateCalls |-> "none"]
    /\ decidedBy = [c \in GateCalls |-> {}]
    /\ spent = [c \in GateCalls |-> 0]
    /\ effects = [c \in GateCalls |-> 0]
    /\ relaying = NoCall
    /\ auto = {"R"}
    /\ known = FALSE /\ dirty = FALSE
    /\ denyAll \in BOOLEAN
    /\ enteredDirty = {}

Move(c, from, to) == stage[c] = from /\ stage' = [stage EXCEPT ![c] = to]

-----------------------------------------------------------------------------
(* The worker.                                                             *)

\* The worker asks its hook first; another client of the bridge does not, and
\* the daemon does not rely on it.
Ask(c, t) ==
    /\ Move(c, "idle", "hook") \/ Move(c, "idle", "send")
    /\ tool' = [tool EXCEPT ![c] = t]
    /\ UNCHANGED <<answer, decidedBy, spent, effects, relaying, auto, known, dirty,
                   denyAll, enteredDirty>>

\* Check's verdict on the state it finds; anything but R needs a stored,
\* untainted session, and W3 always needs an approval.
WouldAllow(c) ==
    /\ ~ denyAll
    /\ ClassOfCall(c) # "R" => known /\ ~ dirty
    /\ ClassOfCall(c) \in auto \ {"W3"}

Told(c, what) == answer' = [answer EXCEPT ![c] = what]

\* can_use_tool: everything but a clean "allow" is a refusal, a time-out and an
\* unreadable answer too.
CanUseTool(c) ==
    /\ \/ WouldAllow(c) /\ Move(c, "hook", "send") /\ UNCHANGED answer
       \/ Move(c, "hook", "end") /\ Told(c, "denied")
    /\ UNCHANGED <<tool, decidedBy, spent, effects, relaying, auto, known, dirty,
                   denyAll, enteredDirty>>

-----------------------------------------------------------------------------
(* The bridge.                                                             *)

\* One line at a time: relay, wait for the answer, read the next line.
Relay(c) ==
    /\ relaying = NoCall
    /\ Move(c, "send", "gate")
    /\ relaying' = c
    /\ enteredDirty' = IF dirty THEN enteredDirty \cup {c} ELSE enteredDirty
    /\ UNCHANGED <<tool, answer, decidedBy, spent, effects, auto, known, dirty,
                   denyAll>>

\* After a bridge that has exited nothing is relayed any more.
NoBridge(c) ==
    /\ relaying = Gone
    /\ Move(c, "send", "end") /\ Told(c, "failed")
    /\ UNCHANGED <<tool, decidedBy, spent, effects, relaying, auto, known, dirty,
                   denyAll, enteredDirty>>

\* writeTransportError: the worker is told that the call failed, not that it was
\* refused.
BugTransportError == "denied"
TransportError == "failed"

\* requestTimeout, after which the bridge exits.
BugTimeoutDue(c) == relaying = c /\ stage[c] \notin {"run", "ran"}
TimeoutDue(c) == relaying = c

RequestTimeout(c) ==
    /\ TimeoutDue(c)
    /\ relaying' = Gone
    /\ Told(c, TransportError)
    /\ UNCHANGED <<tool, stage, decidedBy, spent, effects, auto, known, dirty, denyAll,
                   enteredDirty>>

Waiting(c) == relaying = c

-----------------------------------------------------------------------------
(* The daemon.                                                             *)

\* The worker hears of a refusal or of a result only while its bridge waits.
Answered(c, what) ==
    /\ stage' = [stage EXCEPT ![c] = "end"]
    /\ answer' = IF Waiting(c) THEN [answer EXCEPT ![c] = what] ELSE answer
    /\ relaying' = IF Waiting(c) THEN NoCall ELSE relaying

\* The middleware, then the tool's own server: both ask denyAll first, and a
\* tool's server also looks at its arguments (deny globs, the script scan).
Enter(c) ==
    /\ stage[c] = "gate"
    /\ \/ ~ denyAll /\ Move(c, "gate", "taint") /\ UNCHANGED <<answer, relaying>>
       \/ /\ denyAll \/ tool[c] \in OwnedTools
          /\ Answered(c, "denied")
    /\ UNCHANGED <<tool, decidedBy, spent, effects, auto, known, dirty, denyAll,
                   enteredDirty>>

Gate(c) ==
    IF tool[c] \in OwnedTools \/ decidedBy[c] # {} THEN "own" ELSE "middleware"

\* denyIfTainted on the session found from the task or trace, never on one the
\* caller names; no session found is a refusal.
BugSessionClean(c) == ~ known \/ ~ dirty
SessionClean(c) == known /\ ~ dirty

CheckSession(c) ==
    /\ stage[c] = "taint"
    /\ IF ClassOfCall(c) # "R" /\ ~ SessionClean(c)
         THEN Answered(c, "denied")
         ELSE Move(c, "taint", "ladder") /\ UNCHANGED <<answer, relaying>>
    /\ UNCHANGED <<tool, decidedBy, spent, effects, auto, known, dirty, denyAll,
                   enteredDirty>>

\* The ladder: allowed with a token, or a pending approval and a refusal.
CheckAutonomy(c) ==
    /\ stage[c] = "ladder"
    /\ IF ClassOfCall(c) \in auto \ {"W3"}
         THEN /\ Move(c, "ladder", "spend")
              /\ decidedBy' = [decidedBy EXCEPT ![c] = @ \cup {Gate(c)}]
              /\ UNCHANGED <<answer, relaying>>
         ELSE Answered(c, "denied") /\ UNCHANGED decidedBy
    /\ UNCHANGED <<tool, spent, effects, auto, known, dirty, denyAll, enteredDirty>>

\* ConsumeToken, which fails on a token a halt has taken back; R has none.
\* Then the tool's handler runs, which for a tool of its own server is the gate.
Spend(c) ==
    /\ stage[c] = "spend"
    /\ \/ /\ Move(c, "spend", IF tool[c] \in ChecksItself /\ "own" \notin decidedBy[c]
                                THEN "gate" ELSE "run")
          /\ spent' = [spent EXCEPT ![c] = @ + (IF ClassOfCall(c) = "R" THEN 0 ELSE 1)]
          /\ UNCHANGED <<answer, relaying>>
       \/ /\ ClassOfCall(c) # "R"
          /\ Answered(c, "denied")
          /\ UNCHANGED spent
    /\ UNCHANGED <<tool, decidedBy, effects, auto, known, dirty, denyAll, enteredDirty>>

\* The effect, however long it takes.
BugRunTool(c) ==
    /\ Move(c, "run", IF effects[c] = 0 THEN "run" ELSE "ran")
    /\ effects' = [effects EXCEPT ![c] = @ + 1]
    /\ UNCHANGED <<tool, answer, decidedBy, spent, relaying, auto, known, dirty,
                   denyAll, enteredDirty>>
RunTool(c) ==
    /\ Move(c, "run", "ran")
    /\ effects' = [effects EXCEPT ![c] = @ + 1]
    /\ UNCHANGED <<tool, answer, decidedBy, spent, relaying, auto, known, dirty,
                   denyAll, enteredDirty>>

Reply(c) ==
    /\ stage[c] = "ran"
    /\ Answered(c, "done")
    /\ UNCHANGED <<tool, decidedBy, spent, effects, auto, known, dirty, denyAll,
                   enteredDirty>>

\* The request of a bridge that hung up is cancelled: the call may stop at its
\* next database step, or go on.
Abandoned(c) ==
    /\ stage[c] \in {"gate", "taint", "ladder", "spend"} /\ ~ Waiting(c)
    /\ stage' = [stage EXCEPT ![c] = "end"]
    /\ UNCHANGED <<tool, answer, decidedBy, spent, effects, relaying, auto, known,
                   dirty, denyAll, enteredDirty>>

-----------------------------------------------------------------------------
(* Meanwhile.                                                              *)

\* `kahya autonomy promote`, or a refusal or undo that takes levels away; the
\* tools move together.
MoveLadder ==
    /\ auto' = IF auto = {"R"} THEN {"R", "W1", "W2", "W3"} ELSE {"R"}
    /\ UNCHANGED <<tool, stage, answer, decidedBy, spent, effects, relaying, known,
                   dirty, denyAll, enteredDirty>>

\* The worker's first line stores the session's id on the task row.
StoreSession ==
    /\ ~ known /\ known' = TRUE
    /\ UNCHANGED <<tool, stage, answer, decidedBy, spent, effects, relaying, auto,
                   dirty, denyAll, enteredDirty>>

\* A read of an untrusted source raises the session's taint.
RaiseSession ==
    /\ ~ dirty /\ dirty' = TRUE
    /\ UNCHANGED <<tool, stage, answer, decidedBy, spent, effects, relaying, auto,
                   known, denyAll, enteredDirty>>

CallStep(c) ==
    \/ CanUseTool(c) \/ Relay(c) \/ NoBridge(c) \/ Enter(c) \/ CheckSession(c)
    \/ CheckAutonomy(c) \/ Spend(c) \/ Reply(c)

GateNext ==
    \/ \E c \in GateCalls :
          \/ \E t \in GateTools : Ask(c, t)
          \/ CallStep(c) \/ RunTool(c) \/ RequestTimeout(c) \/ Abandoned(c)
    \/ MoveLadder \/ StoreSession \/ RaiseSession

-----------------------------------------------------------------------------
(* Properties.                                                             *)

GateTypeOK ==
    /\ tool \in [GateCalls -> GateTools]
    /\ stage \in [GateCalls -> Stages]
    /\ answer \in [GateCalls -> {"none", "denied", "failed", "done"}]
    /\ effects \in [GateCalls -> 0..1]
    /\ relaying \in GateCalls \cup {NoCall, Gone}

\* What ran was let through by one gate on the daemon's side, not by the hook
\* alone and not by two, and has spent one token unless it only reads; nothing
\* runs without a policy, and never a W3 tool (mcp.go:194-200, 346-348).
GatedExactlyOnce ==
    \A c \in GateCalls : effects[c] > 0 =>
        /\ Cardinality(decidedBy[c]) = 1
        /\ spent[c] = IF ClassOfCall(c) = "R" THEN 0 ELSE 1
        /\ ~ denyAll /\ ClassOfCall(c) # "W3"

\* A call that reaches the daemon from a tainted session has no effect, even
\* when the session became tainted after the hook said yes, and even when the
\* session's row is stored only later (mcp.go:212-222).
TaintedHasNoEffect ==
    \A c \in enteredDirty : ClassOfCall(c) # "R" => effects[c] = 0

\* A worker that is told "denied" can rely on it that nothing happened, and
\* "done" that it did; only a bridge that gave up leaves it in doubt.
AnswersAreTrue ==
    \A c \in GateCalls :
        /\ answer[c] = "denied" => effects[c] = 0
        /\ answer[c] = "done" => effects[c] = 1

\* Every call of the worker is answered, also when the tool hangs and when the
\* bridge has gone (kahya-mcp/main.go:61-65).
EveryCallAnswered ==
    \A c \in GateCalls : stage[c] \in {"hook", "send"} ~> answer[c] # "none"

\* The safety part: a tool call is decided by one gate and no more, has no
\* effect from a tainted session, and is answered truly.
CallsPassOneGate == GatedExactlyOnce /\ TaintedHasNoEffect /\ AnswersAreTrue

\* Calls are gated and answered truly, whatever times out on the way, and
\* every one is answered.
CallsAreGated == [](GateTypeOK /\ CallsPassOneGate) /\ EveryCallAnswered
=============================================================================
