------------------------------ MODULE ToolRuns ------------------------------
(***************************************************************************)
(* The tools that start a process: a script in a container (mcp/shell/     *)
(* runner.go, egress_network.go), a narrow set of host commands            *)
(* (hostexec.go), AppleScript, JXA and shortcuts (mcp/osascript).  Calls   *)
(* run side by side and share the docker network, its firewall rule and    *)
(* its sidecar; the virtual machine under docker and the daemon may        *)
(* restart.                                                                *)
(***************************************************************************)
EXTENDS Naturals, FiniteSets

CONSTANTS Runs,
          RunTask,   \* [Runs -> task ids]: the label of the container
          WorkdirRoots, \* shell_workdir_roots, {} for none
          MaxVm      \* restarts of the virtual machine

ASSUME ToolRunsAssumption == MaxVm \in Nat

NoRun == [pc |-> "idle", kind |-> "none", net |-> FALSE, vm |-> 0, out |-> "none"]

VARIABLES
    runCall,    \* each call
    egNet,      \* does the network kahya-egress exist
    dropRule,   \* is the gateway of the network firewalled
    sidecar,    \* kahya-egress-fwd: "none", "running", "bridged"
    proxyTokens,\* calls whose proxy token is registered
    procs,      \* the process or container of a call
    killer,     \* KillLabeled: the containers it still has to kill
    vm          \* starts of the virtual machine
toolVars == <<runCall, egNet, dropRule, sidecar, proxyTokens, procs, killer, vm>>
dockerVars == <<egNet, dropRule, sidecar, vm>>

ToolInit ==
    /\ runCall = [c \in Runs |-> NoRun]
    /\ egNet = FALSE /\ dropRule = FALSE /\ sidecar = "none"
    /\ proxyTokens = {}
    /\ procs = [c \in Runs |-> "none"]
    /\ killer = {}
    /\ vm = 0

RunAt(c, pc) == runCall[c].pc = pc
GoTo(c, pc) == runCall' = [runCall EXCEPT ![c].pc = pc]

\* Defect: the token is released where the container ran, not on every return.
BugReturn(c, out) ==
    /\ runCall' = [runCall EXCEPT ![c].pc = "ended", ![c].out = out]
    /\ proxyTokens' = IF out = "refused" THEN proxyTokens ELSE proxyTokens \ {c}

\* Every return runs the deferred Release.
Return(c, out) ==
    /\ runCall' = [runCall EXCEPT ![c].pc = "ended", ![c].out = out]
    /\ proxyTokens' = proxyTokens \ {c}

\* A docker or iptables command fails, the call with it.
CommandFails(c) == Return(c, "refused") /\ UNCHANGED <<dockerVars, procs, killer>>

-----------------------------------------------------------------------------
(* Arguments. *)

Workdirs == {"project", "temp", "denied", "above_home", "sensitive", "system", "missing"}
HostCommands == {"git_read", "git_other", "git_flag", "ls", "ls_flag", "other"}
Scripts == {"plain", "too_large", "control_chars", "shell_shaped"}
ShortcutNames == {"named", "empty"}

\* validateWorkdir, then the deny globs: configured roots replace the rules.
WorkdirAccepted(dir) ==
    /\ dir # "missing"
    /\ IF WorkdirRoots # {} THEN dir \in WorkdirRoots
       ELSE dir \notin {"above_home", "sensitive"} /\ (dir = "temp" \/ dir # "system")
    /\ dir # "denied"

\* HostExec.validate: git with four subcommands and no flag, ls and stat.
HostAccepted(cmd) == cmd \in {"git_read", "ls"}

\* Scan.
ScriptAccepted(script) == script \notin {"too_large", "control_chars", "shell_shaped"}

\* A call whose input is refused ends before anything else is asked.
Begin(c, kind, net, accepted, first) ==
    /\ RunAt(c, "idle")
    /\ runCall' = [runCall EXCEPT ![c] =
          [NoRun EXCEPT !.kind = kind, !.net = net, !.pc = IF accepted THEN first ELSE "ended",
                        !.out = IF accepted THEN "none" ELSE "refused"]]
    /\ UNCHANGED <<dockerVars, proxyTokens, procs, killer>>

RunDocker(c, net, dir) == Begin(c, "docker", net, WorkdirAccepted(dir), IF net THEN "network" ELSE "health")
HandleHostExec(c, cmd) == Begin(c, "host", FALSE, HostAccepted(cmd), "policy")
RunScript(c, script) == Begin(c, "script", FALSE, ScriptAccepted(script), "policy")
RunShortcut(c, name) == Begin(c, "shortcut", FALSE, name # "empty", "policy")

-----------------------------------------------------------------------------
(* Ensure, with docker commands of other calls between its own. *)

\* Defect: the network is taken to exist.
BugEnsureNetwork(c) ==
    /\ RunAt(c, "network")
    /\ GoTo(c, "rule")
    /\ UNCHANGED <<dockerVars, proxyTokens, procs, killer>>

\* ensureNetwork: inspected first.
EnsureNetwork(c) ==
    /\ RunAt(c, "network")
    /\ GoTo(c, IF egNet THEN "rule" ELSE "create")
    /\ UNCHANGED <<dockerVars, proxyTokens, procs, killer>>

\* docker refuses a second network of the same name.
CreateNetwork(c) ==
    /\ RunAt(c, "create")
    /\ \/ ~egNet /\ egNet' = TRUE /\ GoTo(c, "rule") /\ UNCHANGED <<dropRule, sidecar, vm, proxyTokens, procs, killer>>
       \/ CommandFails(c)

\* Defect: a network that is there already is taken to be firewalled.
BugIsolation(c) ==
    /\ RunAt(c, "rule")
    /\ dropRule' = (dropRule \/ sidecar = "none")
    /\ runCall' = [runCall EXCEPT ![c].pc = "sidecar", ![c].vm = vm]
    /\ UNCHANGED <<egNet, sidecar, vm, proxyTokens, procs, killer>>

\* ensureGatewayIsolation: looked up every time, the rule does not outlive the machine.
EnsureGatewayIsolation(c) ==
    /\ RunAt(c, "rule")
    /\ \/ /\ dropRule' = TRUE
          /\ runCall' = [runCall EXCEPT ![c].pc = "sidecar", ![c].vm = vm]
          /\ UNCHANGED <<egNet, sidecar, vm, proxyTokens, procs, killer>>
       \/ CommandFails(c)

EnsureSidecar(c) ==
    /\ RunAt(c, "sidecar")
    /\ GoTo(c, IF sidecar = "none" THEN "rm" ELSE "verify")
    /\ UNCHANGED <<dockerVars, proxyTokens, procs, killer>>

\* docker rm -f, its outcome ignored.
RemoveStaleSidecar(c) ==
    /\ RunAt(c, "rm")
    /\ sidecar' \in {sidecar, "none"}
    /\ GoTo(c, "run")
    /\ UNCHANGED <<egNet, dropRule, vm, proxyTokens, procs, killer>>

RunSidecar(c) ==
    /\ RunAt(c, "run")
    /\ \/ sidecar = "none" /\ sidecar' = "running" /\ GoTo(c, "bridge")
          /\ UNCHANGED <<egNet, dropRule, vm, proxyTokens, procs, killer>>
       \/ CommandFails(c)

ConnectBridge(c) ==
    /\ RunAt(c, "bridge")
    /\ \/ sidecar = "running" /\ sidecar' = "bridged" /\ GoTo(c, "verify")
          /\ UNCHANGED <<egNet, dropRule, vm, proxyTokens, procs, killer>>
       \/ CommandFails(c)

\* verifyHostDockerInternalReachable, then the token of the call is registered.
VerifyAndRegister(c) ==
    /\ RunAt(c, "verify")
    /\ \/ /\ sidecar # "none"
          /\ proxyTokens' = proxyTokens \cup {c}
          /\ GoTo(c, "health")
          /\ UNCHANGED <<dockerVars, procs, killer>>
       \/ CommandFails(c)

-----------------------------------------------------------------------------
(* From the checks to the process. *)

\* Healthy, and the digest of the image is the pinned one.
CheckDocker(c) ==
    /\ RunAt(c, "health")
    /\ \/ GoTo(c, "policy") /\ UNCHANGED <<dockerVars, proxyTokens, procs, killer>>
       \/ CommandFails(c)

\* Check and ConsumeToken.
CheckPolicy(c) ==
    /\ RunAt(c, "policy")
    /\ \/ GoTo(c, "launch") /\ UNCHANGED <<dockerVars, proxyTokens, procs, killer>>
       \/ CommandFails(c)

Launch(c) ==
    /\ RunAt(c, "launch")
    /\ \/ /\ procs' = [procs EXCEPT ![c] = "running"]
          /\ GoTo(c, "wait")
          /\ UNCHANGED <<dockerVars, proxyTokens, killer>>
       \/ CommandFails(c)

ProcessEnds(c) ==
    /\ procs[c] = "running"
    /\ procs' = [procs EXCEPT ![c] = "gone"]
    /\ UNCHANGED <<runCall, dockerVars, proxyTokens, killer>>

Finish(c) ==
    /\ RunAt(c, "wait")
    /\ procs[c] = "gone"
    /\ Return(c, "done")
    /\ UNCHANGED <<dockerVars, procs, killer>>

\* Defect: the deadline ends the wait and leaves the process group alone.
BugTimeout(c) ==
    /\ RunAt(c, "wait")
    /\ runCall[c].kind # "host"
    /\ Return(c, "timeout")
    /\ UNCHANGED <<dockerVars, procs, killer>>

\* Defect: only containers have a deadline.
BugDeadline(c) ==
    /\ RunAt(c, "wait")
    /\ runCall[c].kind = "docker"
    /\ GoTo(c, "kill")
    /\ UNCHANGED <<dockerVars, proxyTokens, procs, killer>>

\* The deadline: a process group is killed and reaped; of a container only the
\* client is gone.  Host commands have no deadline.
Timeout(c) ==
    /\ RunAt(c, "wait")
    /\ runCall[c].kind # "host"
    /\ IF runCall[c].kind = "docker" THEN GoTo(c, "kill") /\ UNCHANGED <<proxyTokens, procs>>
       ELSE Return(c, "timeout") /\ procs' = [procs EXCEPT ![c] = "gone"]
    /\ UNCHANGED <<dockerVars, killer>>

\* docker kill, its outcome ignored.
KillContainer(c) ==
    /\ RunAt(c, "kill")
    /\ \/ procs' = [procs EXCEPT ![c] = "gone"] /\ Return(c, "timeout")
       \/ UNCHANGED procs /\ Return(c, "kill_failed")
    /\ UNCHANGED <<dockerVars, killer>>

\* The caller hangs up: what is not a container dies with the call.
Cancel(c) ==
    /\ RunAt(c, "wait")
    /\ Return(c, "cancelled")
    /\ procs' = IF runCall[c].kind = "docker" THEN procs ELSE [procs EXCEPT ![c] = "gone"]
    /\ UNCHANGED <<dockerVars, killer>>

-----------------------------------------------------------------------------
(* Halting a task, restarts. *)

Containers(k) == {c \in Runs : runCall[c].kind = "docker" /\ RunTask[c] = k /\ procs[c] = "running"}

\* KillLabeled: lists the running containers of the task,
KillLabeled(k) ==
    /\ killer = {}
    /\ Containers(k) # {}
    /\ killer' = Containers(k)
    /\ UNCHANGED <<runCall, dockerVars, proxyTokens, procs>>

\* and kills them one by one, errors ignored.
KillListed(c) ==
    /\ c \in killer
    /\ killer' = killer \ {c}
    /\ procs' \in {procs, [procs EXCEPT ![c] = "gone"]}
    /\ UNCHANGED <<runCall, dockerVars, proxyTokens>>

\* The machine restarts: containers end, the rule is lost, the network stays
\* and the sidecar is started again.
VmRestart ==
    /\ vm < MaxVm
    /\ vm' = vm + 1
    /\ dropRule' = FALSE
    /\ procs' = [c \in Runs |-> IF runCall[c].kind = "docker" /\ procs[c] = "running" THEN "gone" ELSE procs[c]]
    /\ UNCHANGED <<runCall, egNet, sidecar, proxyTokens, killer>>

\* The daemon restarts: its calls and tokens are gone, processes are not.
ToolsRestart ==
    /\ runCall' = [c \in Runs |-> IF runCall[c].pc \in {"idle", "ended"} THEN runCall[c]
                                  ELSE [runCall[c] EXCEPT !.pc = "ended", !.out = "lost"]]
    /\ proxyTokens' = {}
    /\ killer' = {}
    /\ UNCHANGED <<dockerVars, procs>>

ToolStep(c) ==
    \/ EnsureNetwork(c) \/ CreateNetwork(c) \/ EnsureGatewayIsolation(c) \/ EnsureSidecar(c)
    \/ RemoveStaleSidecar(c) \/ RunSidecar(c) \/ ConnectBridge(c) \/ VerifyAndRegister(c)
    \/ CheckDocker(c) \/ CheckPolicy(c) \/ Launch(c) \/ Finish(c) \/ Timeout(c) \/ KillContainer(c)

ToolNext ==
    \/ \E c \in Runs :
          \/ \E net \in BOOLEAN, dir \in Workdirs : RunDocker(c, net, dir)
          \/ \E cmd \in HostCommands : HandleHostExec(c, cmd)
          \/ \E script \in Scripts : RunScript(c, script)
          \/ \E name \in ShortcutNames : RunShortcut(c, name)
          \/ ToolStep(c)
          \/ ProcessEnds(c) \/ Cancel(c) \/ KillListed(c)
    \/ \E c \in Runs : KillLabeled(RunTask[c])
    \/ VmRestart \/ ToolsRestart

-----------------------------------------------------------------------------
ToolTypeOK ==
    /\ proxyTokens \subseteq Runs /\ killer \subseteq Runs
    /\ sidecar \in {"none", "running", "bridged"}
    /\ sidecar # "none" => egNet
    /\ \A c \in Runs : procs[c] # "none" => runCall[c].pc \in {"wait", "kill", "ended"}

\* A container on the shared network runs behind the firewall rule, whichever
\* call made the network and however often the machine restarted since (a
\* restart between the check and the start of the container excepted).
NetworkedBehindRule ==
    \A c \in Runs : procs[c] = "running" /\ runCall[c].net /\ runCall[c].vm = vm => dropRule

\* A proxy token lives no longer than its call, on every way out of it: a
\* container that outlives its call has lost its way to the proxy.
TokensOnlyInFlight == \A c \in proxyTokens : runCall[c].pc # "ended"

\* When a call has returned its process is gone, except where docker kill
\* failed, the caller hung up on a container or the daemon died.
NothingLeftRunning ==
    \A c \in Runs : runCall[c].pc = "ended" /\ procs[c] = "running" =>
       \/ runCall[c].out = "lost"
       \/ runCall[c].kind = "docker" /\ runCall[c].out \in {"kill_failed", "cancelled"}

\* A call comes back, whatever its script does: everything but the process
\* itself goes on, and there is a deadline (not for host commands).
CallsComeBack ==
    \A c \in Runs : runCall[c].pc # "idle" /\ runCall[c].kind # "host" ~> runCall[c].pc = "ended"

\* The safety part: a container with network is behind the firewall rule, a
\* proxy token lives as long as its call, a call that has returned leaves
\* nothing running.
RunsAreKept == NetworkedBehindRule /\ TokensOnlyInFlight /\ NothingLeftRunning

\* The process tools' promise: runs are kept, and every call with a deadline
\* returns.
RunsAreConfined == [](ToolTypeOK /\ RunsAreKept) /\ CallsComeBack
=============================================================================
