--------------------------- MODULE WorkerSession ---------------------------
(***************************************************************************)
(* One worker process and the daemon that reads it: the Python worker      *)
(* (worker/kahya_worker/__main__.py) prints protocol lines on its stdout,  *)
(* spawn.Run (kahyad/internal/spawn/spawn.go) parses them in a goroutine   *)
(* of its own, waits for the process or for its context, kills the process *)
(* group and gives the pipes a bounded time to drain; the caller makes a   *)
(* row, a ledger event and an answer of what Run returns (server/task.go,  *)
(* and in the same way server/stt.go, reader/cloud_model.go and the two    *)
(* worker.go of the briefing and the consolidation).                       *)
(***************************************************************************)
EXTENDS Integers, Sequences

CONSTANT MaxDeltas \* bound: text blocks of an answer

ASSUME SessionAssumption == MaxDeltas \in Nat

VARIABLES
    mode,     \* Envelope.Mode: chat, reader or stt
    wpc,      \* where the worker process is
    usedTool, \* any_tool_use
    printed,  \* history: text blocks printed
    said,     \* history: the last terminal line printed
    audio,    \* the recording of an stt session
    accepted, \* whether the worker's parse of its envelope succeeds
    pipe,     \* lines in the stdout pipe
    holder,   \* a detached descendant holds the pipe's write end
    readEnd,  \* whether the daemon's end is open
    outcome,  \* what the parser has recorded
    parsing,  \* whether the parser goroutine runs
    joined,   \* text blocks the caller has received
    ctxDone,
    runPc,    \* where spawn.Run is
    returned, \* the status it returned
    sessionRow, \* tasks.session_id is the worker's
    tier,     \* session_taint of the worker's session
    row,      \* tasks.state
    told      \* the last event of the caller's stream

workerVars == <<mode, wpc, usedTool, printed, said, audio, accepted>>
streamVars == <<outcome, parsing, joined, sessionRow, tier>>
runVars == <<readEnd, ctxDone, runPc, returned>>
callerVars == <<row, told>>
wsVars == <<workerVars, pipe, holder, streamVars, runVars, callerVars>>

WsInit ==
    /\ mode \in {"chat", "reader", "stt"}
    /\ wpc = "none" /\ usedTool = FALSE /\ printed = 0 /\ said = "none"
    /\ audio \in IF mode = "stt" THEN {"inTmp", "elsewhere"} ELSE {"none"}
    /\ accepted = TRUE
    /\ pipe = <<>> /\ holder = FALSE /\ readEnd = TRUE
    /\ outcome = [status |-> "none", saw |-> FALSE]
    /\ parsing = FALSE /\ joined = 0 /\ ctxDone = FALSE
    /\ runPc = "none" /\ returned = "none"
    /\ sessionRow = FALSE /\ tier = "none"
    /\ row = "running" /\ told = "none"

----------------------------------------------------------------------------
(* The worker.                                                             *)

Terminal == {"result", "error", "cloud_unreachable"}

\* _print_protocol_line.
PrintLine(line) ==
    /\ pipe' = Append(pipe, line)
    /\ said' = IF line \in Terminal THEN line ELSE said
    /\ printed' = IF line = "delta" THEN printed + 1 ELSE printed

Quiet == UNCHANGED <<pipe, said, printed>>

\* Envelope: a field is there or not; the session id may also be blank.
Envelopes == [mode : {"chat", "reader", "stt"}, known : BOOLEAN, resume : BOOLEAN,
              session : {"null", "blank", "id"}, schema : BOOLEAN, path : BOOLEAN]

\* Defect: the session of a resume may be blank.
BugValidate(e) ==
    /\ e.known
    /\ e.resume => e.session # "null"
    /\ e.mode = "reader" => e.schema
    /\ e.mode = "stt" => e.path

\* Envelope.Validate, before the process is started.
Validate(e) ==
    /\ e.known
    /\ e.resume => e.session = "id"
    /\ e.mode = "reader" => e.schema
    /\ e.mode = "stt" => e.path

\* The worker's own check of the same object.
ParseEnvelope(e) ==
    /\ e.known
    /\ ~ (e.resume /\ e.session \in {"null", "blank"})
    /\ ~ (e.mode = "reader" /\ ~ e.schema)
    /\ ~ (e.mode = "stt" /\ ~ e.path)

\* _check_real_key_leak and _check_credential_env: no line is printed.
EnvInvalid ==
    /\ wpc = "boot" /\ wpc' = "exit"
    /\ Quiet /\ UNCHANGED <<mode, usedTool, audio, accepted>>

Main ==
    /\ wpc = "boot"
    /\ IF accepted THEN wpc' = mode /\ Quiet
                   ELSE wpc' = "exit" /\ PrintLine("error")
    /\ UNCHANGED <<mode, usedTool, audio, accepted>>

\* _run_session, a message of the model: its session id first, then a text
\* block or a tool call.
SessionMessage ==
    /\ wpc = "chat" /\ wpc' = "answer"
    /\ PrintLine("session")
    /\ UNCHANGED <<mode, usedTool, audio, accepted>>

TextBlock ==
    /\ wpc = "answer" /\ printed < MaxDeltas
    /\ PrintLine("delta")
    /\ UNCHANGED <<mode, wpc, usedTool, audio, accepted>>

ToolUse ==
    /\ wpc = "answer" /\ usedTool' = TRUE
    /\ Quiet /\ UNCHANGED <<mode, wpc, audio, accepted>>

\* _run_reader_session: text, and a result.
ReaderMessage ==
    /\ wpc = "reader"
    /\ \/ printed < MaxDeltas /\ PrintLine("delta") /\ UNCHANGED wpc
       \/ PrintLine("error") /\ wpc' = "failing"
       \/ Quiet /\ wpc' = "closing"
    /\ UNCHANGED <<mode, usedTool, audio, accepted>>

\* A ResultMessage with is_error: the line is printed and the return leaves
\* through the client's __aexit__.
ResultError ==
    /\ wpc = "answer"
    /\ wpc' = "failing"
    /\ PrintLine("error")
    /\ UNCHANGED <<mode, usedTool, audio, accepted>>

ResultOK ==
    /\ wpc = "answer"
    /\ wpc' = "closing"
    /\ Quiet /\ UNCHANGED <<mode, usedTool, audio, accepted>>

\* The except clause, which also sees what __aexit__ raises: one line more.
SDKRaises ==
    /\ wpc \in {"chat", "reader", "answer", "failing", "closing"}
    /\ wpc' = "exit"
    /\ \E line \in {"error", "cloud_unreachable"} : PrintLine(line)
    /\ UNCHANGED <<mode, usedTool, audio, accepted>>

Failed ==
    /\ wpc = "failing" /\ wpc' = "exit"
    /\ Quiet /\ UNCHANGED <<mode, usedTool, audio, accepted>>

\* _is_clarification_turn: no tool, and the answer ends with a question.
Clarify ==
    /\ wpc = "closing" /\ mode = "chat" /\ ~ usedTool /\ printed > 0
    /\ wpc' = "asked"
    /\ PrintLine("clarification_turn")
    /\ UNCHANGED <<mode, usedTool, audio, accepted>>

TaskDone ==
    /\ wpc \in {"closing", "asked", "transcribed"} /\ wpc' = "exit"
    /\ PrintLine("result")
    /\ UNCHANGED <<mode, usedTool, audio, accepted>>

\* _run_stt_only: the recording is deleted first, if it lies in the daemon's
\* own directory and can be.
Transcribe ==
    /\ wpc = "stt"
    /\ audio' \in IF audio = "inTmp" THEN {"deleted", "inTmp"} ELSE {audio}
    /\ \/ wpc' = "exit" /\ PrintLine("error")
       \/ wpc' = "transcribed" /\ PrintLine("delta")
    /\ UNCHANGED <<mode, usedTool, accepted>>

Exited ==
    /\ wpc = "exit" /\ wpc' = "gone"
    /\ Quiet /\ UNCHANGED <<mode, usedTool, audio, accepted>>

\* The process dies where it is.
WorkerDies ==
    /\ wpc \notin {"none", "gone"} /\ wpc' = "gone"
    /\ Quiet /\ UNCHANGED <<mode, usedTool, audio, accepted>>

WorkerStep ==
    /\ \/ EnvInvalid \/ Main \/ SessionMessage \/ TextBlock \/ ToolUse
       \/ ReaderMessage \/ ResultError \/ ResultOK
       \/ SDKRaises \/ Failed \/ Clarify \/ TaskDone \/ Transcribe \/ Exited
       \/ WorkerDies
    /\ UNCHANGED <<holder, streamVars, runVars, callerVars>>

\* A descendant leaves the process group with the pipe still open, or ends.
Detach ==
    /\ wpc \in {"answer", "closing"} /\ ~ holder /\ holder' = TRUE
    /\ UNCHANGED <<workerVars, pipe, streamVars, runVars, callerVars>>

HolderEnds ==
    /\ holder /\ holder' = FALSE
    /\ UNCHANGED <<workerVars, pipe, streamVars, runVars, callerVars>>

----------------------------------------------------------------------------
(* The parser goroutine, with the callbacks it makes.                      *)

\* Defect: the line's type is taken for the status.
BugStatusOf(line) == line

StatusOf(line) == IF line = "result" THEN "ok" ELSE line

\* Defect: the row is written whatever there is.
BugInsertClean(t) == "clean"

\* InsertSessionTaintClean: a plain insert, refused over any row.
InsertClean(t) == IF t = "none" THEN "clean" ELSE t

\* OnSession: session id and clean row in one transaction, or neither, when
\* the insert is refused or the database fails.
PersistSessionStarted ==
    \/ /\ tier' = InsertClean(tier)
       /\ sessionRow' = (tier' # tier)
    \/ UNCHANGED <<tier, sessionRow>>

\* Defect: a block replaces the one before it.
BugJoin(n, line) == IF line = "delta" THEN 1 ELSE n

\* OnDelta: the caller appends the block.
Join(n, line) == IF line = "delta" THEN n + 1 ELSE n

ParseLine ==
    /\ parsing /\ readEnd /\ pipe # <<>>
    /\ pipe' = Tail(pipe)
    /\ LET line == Head(pipe)
       IN /\ outcome' = IF line \in Terminal
                          THEN [status |-> StatusOf(line), saw |-> TRUE] ELSE outcome
          /\ joined' = Join(joined, line)
          /\ IF line = "session" THEN PersistSessionStarted
                                 ELSE UNCHANGED <<tier, sessionRow>>
    /\ UNCHANGED <<workerVars, holder, parsing, runVars, callerVars>>

\* End of file needs every write end closed; a closed read end is an error.
ParserEnds ==
    /\ parsing
    /\ ~ readEnd \/ (pipe = <<>> /\ wpc = "gone" /\ ~ holder)
    /\ parsing' = FALSE
    /\ UNCHANGED <<workerVars, pipe, holder, outcome, joined, sessionRow, tier,
                   runVars, callerVars>>

\* Content from outside reaches the session: Raise upserts.
Raise ==
    /\ tier # "tainted" /\ wpc # "none" /\ tier' = "tainted"
    /\ UNCHANGED <<workerVars, pipe, holder, outcome, parsing, joined, sessionRow,
                   runVars, callerVars>>

----------------------------------------------------------------------------
(* spawn.Run.                                                              *)

RunReturn(status) == runPc' = "returned" /\ returned' = status

\* The process is started, given its envelope and read; or the envelope is
\* refused, or there is no process.
RunStart ==
    /\ runPc = "none"
    /\ \/ /\ \E e \in Envelopes :
               e.mode = mode /\ Validate(e) /\ accepted' = ParseEnvelope(e)
          /\ wpc' = "boot" /\ parsing' = TRUE /\ runPc' = "wait"
          /\ UNCHANGED returned
       \/ /\ RunReturn("spawn_error")
          /\ UNCHANGED <<wpc, parsing, accepted>>
    /\ UNCHANGED <<mode, usedTool, printed, said, audio, pipe, holder, outcome,
                   joined, sessionRow, tier, readEnd, ctxDone, callerVars>>

\* The caller's deadline, or its client has gone.
CtxDone ==
    /\ runPc = "wait" /\ ~ ctxDone /\ ctxDone' = TRUE
    /\ UNCHANGED <<workerVars, pipe, holder, streamVars, readEnd, runPc, returned,
                   callerVars>>

\* waitErrCh: both scanners have ended, then the process has.
Waited == ~ parsing /\ wpc = "gone"

\* Defect: the branch that ends the wait decides.
BugFinalizeOutcome(onNoTerminal) ==
    IF outcome.saw /\ onNoTerminal = "error" THEN outcome.status ELSE onNoTerminal

FinalizeOutcome(onNoTerminal) == IF outcome.saw THEN outcome.status ELSE onNoTerminal

RunWaited ==
    /\ runPc = "wait" /\ Waited
    /\ RunReturn(FinalizeOutcome("error"))
    /\ UNCHANGED <<workerVars, pipe, holder, streamVars, readEnd, ctxDone, callerVars>>

\* SIGKILL to the group; what left the group stays.
KillGroup ==
    /\ runPc = "wait" /\ ctxDone
    /\ runPc' = "drain" /\ wpc' = "gone"
    /\ UNCHANGED <<mode, usedTool, printed, said, audio, accepted, pipe, holder,
                   streamVars, readEnd, ctxDone, returned, callerVars>>

\* Defect: the pipes are left to their writers.
BugReadEndAfter == TRUE

ReadEndAfter == FALSE

\* drainGrace passes, which a pipe nobody holds does not take: it is read to
\* its end in less.
DrainGrace ==
    /\ runPc = "drain" /\ holder /\ pipe = <<>>
    /\ runPc' = "reclaim" /\ readEnd' = ReadEndAfter
    /\ UNCHANGED <<workerVars, pipe, holder, streamVars, ctxDone, returned, callerVars>>

AwaitExitBounded ==
    /\ runPc \in {"drain", "reclaim"} /\ Waited
    /\ RunReturn(FinalizeOutcome("timeout"))
    /\ UNCHANGED <<workerVars, pipe, holder, streamVars, readEnd, ctxDone, callerVars>>

----------------------------------------------------------------------------
(* The caller.                                                             *)

\* The forward proxy pauses the task while its worker runs.
PauseBudget ==
    /\ mode = "chat" /\ wpc = "answer" /\ row = "running"
    /\ row' = "paused_budget"
    /\ UNCHANGED <<workerVars, pipe, holder, streamVars, runVars, told>>

\* mapTaskOutcome.
FinalState(status) ==
    CASE status = "ok" -> "done"
      [] status = "cloud_unreachable" -> "waiting_retry"
      [] OTHER -> "error"

\* handleTask's last writes; a budget pause is written over.
FinishTask ==
    /\ runPc = "returned" /\ told = "none" /\ mode = "chat"
    /\ row' = FinalState(returned)
    /\ told' = IF returned = "ok" THEN "result" ELSE "error"
    /\ UNCHANGED <<workerVars, pipe, holder, streamVars, runVars>>

\* WorkerCloudModel.Read: the joined text, or an error.
FinishRead ==
    /\ runPc = "returned" /\ told = "none" /\ mode = "reader"
    /\ told' = IF returned = "ok" THEN "result" ELSE "error"
    /\ UNCHANGED <<workerVars, pipe, holder, streamVars, runVars, row>>

\* transcribeAudioLocally: likewise.
FinishTranscript ==
    /\ runPc = "returned" /\ told = "none" /\ mode = "stt"
    /\ told' = IF returned = "ok" THEN "result" ELSE "error"
    /\ UNCHANGED <<workerVars, pipe, holder, streamVars, runVars, row>>

ParserStep == ParseLine \/ ParserEnds
RunStep == RunWaited \/ KillGroup \/ DrainGrace \/ AwaitExitBounded

WsNext ==
    \/ WorkerStep \/ Detach \/ HolderEnds
    \/ ParserStep \/ Raise
    \/ RunStart \/ CtxDone \/ RunStep
    \/ PauseBudget \/ FinishTask \/ FinishRead \/ FinishTranscript

----------------------------------------------------------------------------

WsTypeOK ==
    /\ printed \in 0 .. MaxDeltas + 1 /\ joined \in 0 .. printed
    /\ said \in Terminal \cup {"none"}
    /\ outcome \in [status : {"none", "ok", "error", "cloud_unreachable"}, saw : BOOLEAN]
    /\ returned \in {"none", "ok", "error", "cloud_unreachable", "timeout", "spawn_error"}
    /\ tier \in {"none", "clean", "tainted"}
    /\ row \in {"running", "paused_budget", "done", "waiting_retry", "error"}

(* The two languages agree about the envelope: what the daemon validates,  *)
(* the worker never refuses.                                               *)
WorkerTakesWhatIsSent == wpc # "none" => accepted

(* What Run returns is what the worker said: a verdict it has printed is   *)
(* never relabelled by a deadline that comes while it exits, and a worker  *)
(* that printed none has failed or timed out.                              *)
OutcomeIsWhatWasSaid ==
    runPc = "returned" /\ returned # "spawn_error" =>
        IF said = "none" THEN returned \in {"error", "timeout"}
        ELSE returned = (IF said = "result" THEN "ok" ELSE said)

(* An answer is whole: a caller told ok has every block the worker         *)
(* printed, though a goroutine of its own reads them.                      *)
WholeAnswer == returned = "ok" => joined = printed

(* A session that has seen content from outside never becomes clean again, *)
(* whichever of the raise and the session's first line comes first.        *)
TaintOnlyRises == [][tier = "tainted" => tier' = "tainted"]_wsVars

(* Run returns once its context is done, even if a descendant that left    *)
(* the process group keeps the pipe open for ever.                         *)
RunReturns == ctxDone ~> runPc = "returned"

\* What the daemon makes of a worker is what the worker said: the whole answer,
\* its verdict, its taint, and all of it within bounded time.
SessionTellsTheTruth ==
    /\ [](WsTypeOK /\ WorkerTakesWhatIsSent /\ OutcomeIsWhatWasSaid /\ WholeAnswer)
    /\ TaintOnlyRises /\ RunReturns
=============================================================================
