------------------------------ MODULE MCTools ------------------------------
(***************************************************************************)
(* The daemon's marks on the machine, for TLC: files with their undo, the  *)
(* tools' processes, the local model's server process, the worker process  *)
(* of a task and the gates its tool calls pass.  They share no state; part *)
(* says whose behaviour it is.                                             *)
(***************************************************************************)
EXTENDS FsTools, ToolRuns, ModelServer, WorkerSession, ToolGate

MCFsTrace == [c \in FsCalls |-> c]
MCFsTask == [c \in FsCalls |-> 1]
MCRunTask == [c \in Runs |-> 1]

VARIABLE part

ToolsInit ==
    /\ part \in {"files", "processes", "model", "worker", "gate"}
    /\ FsInit
    /\ ToolInit
    /\ ModelInit
    /\ WsInit
    /\ GateInit
    /\ part # "worker" => mode = "chat"
    /\ part # "gate" => ~ denyAll

ToolsNext ==
    \/ part = "files" /\ FsNext /\ UNCHANGED <<part, toolVars, modelVars, wsVars, gateVars>>
    \/ part = "processes" /\ ToolNext /\ UNCHANGED <<part, fsVars, modelVars, wsVars, gateVars>>
    \/ part = "model" /\ ModelNext /\ UNCHANGED <<part, fsVars, toolVars, wsVars, gateVars>>
    \/ part = "worker" /\ WsNext /\ UNCHANGED <<part, fsVars, toolVars, modelVars, gateVars>>
    \/ part = "gate" /\ GateNext /\ UNCHANGED <<part, fsVars, toolVars, modelVars, wsVars>>

\* A call's own steps are a goroutine's, and its deadline is a timer; a
\* watcher and the idle monitor are goroutines, which sleep with timers; so
\* are a worker's parser and the Run that waits for it, a request's handler and
\* the bridge's time-out.  How long a tool itself takes is not assumed.
ToolsSpec ==
    /\ ToolsInit /\ [][ToolsNext]_<<part, fsVars, toolVars, modelVars, wsVars, gateVars>>
    /\ \A c \in Runs : WF_toolVars(part = "processes" /\ ToolStep(c))
    /\ \A c \in Children : WF_modelVars(part = "model" /\ Watch(c))
    /\ WF_modelVars(part = "model" /\ MonitorStep)
    /\ WF_wsVars(part = "worker" /\ ParserStep)
    /\ WF_wsVars(part = "worker" /\ RunStep)
    /\ \A c \in GateCalls : /\ WF_gateVars(part = "gate" /\ CallStep(c))
                           /\ WF_gateVars(part = "gate" /\ RequestTimeout(c))
=============================================================================
