------------------------------- MODULE Daemon -------------------------------
(***************************************************************************)
(* The life of the daemon's process (kahyad/main.go run,                   *)
(* internal/server/server.go): the startup lock, the database, the egress  *)
(* port, the boot scan, the ticks, the background goroutines, the socket,  *)
(* and the way all of these are let go.  Several processes are there at    *)
(* once: launchd (KeepAlive) or the user starts one while another is       *)
(* still closing down, and each may be killed at any step.                 *)
(***************************************************************************)
EXTENDS FiniteSets

CONSTANTS Daemons,      \* processes that may be started, again and again
          NoDaemon

ASSUME DaemonsAssumption == NoDaemon \notin Daemons /\ IsFiniteSet(Daemons)

VARIABLES at,           \* at[d]: where run() of process d is
          lock,         \* the process that holds the flock
          open,         \* processes with brain.db open
          port,         \* the process that listens on the egress port
          sock,         \* the process that bound the socket path, alive or not
          listening,    \* processes whose listener is open
          ticking,      \* processes whose cron starts ticks
          tick,         \* processes with a tick in flight
          bg,           \* bg[d]: background goroutines of d that still run
          cancelled     \* processes whose ctx is cancelled

daemonVars == <<at, lock, open, port, sock, listening, ticking, tick, bg, cancelled>>

Goroutines == {"reindex", "sweeper", "bot"}

\* run() goes through "lock", "open", "migrate", "wire", "port", "scan", "ticks",
\* "spawn", "probe", "listen" and "serve"; "drain" and "unlock" are Shutdown,
\* and the rest is what main does after srv.Run or on an early return.
Closing == {"unlock", "stop", "join", "push", "stopTicks", "closePort", "closeDB", "exit"}

DaemonInit ==
    /\ at = [d \in Daemons |-> "off"]
    /\ lock = NoDaemon /\ port = NoDaemon /\ sock = NoDaemon
    /\ open = {} /\ listening = {} /\ ticking = {} /\ tick = {} /\ cancelled = {}
    /\ bg = [d \in Daemons |-> {}]

Go(d, from, to) == at[d] = from /\ at' = [at EXCEPT ![d] = to]

-----------------------------------------------------------------------------
(* Start-up.                                                               *)

\* launchd or the user starts the process; config, log and policy are read.
Boot(d) ==
    /\ Go(d, "off", "lock")
    /\ UNCHANGED <<lock, open, port, sock, listening, ticking, tick, bg, cancelled>>

\* AcquireStartupLock: a non-blocking flock; who does not get it exits.
BugOpenFirst(d) ==
    /\ Go(d, "lock", "open")
    /\ lock' = IF lock = NoDaemon THEN d ELSE lock
    /\ UNCHANGED <<open, port, sock, listening, ticking, tick, bg, cancelled>>
AcquireStartupLock(d) ==
    /\ Go(d, "lock", IF lock = NoDaemon THEN "open" ELSE "exit")
    /\ lock' = IF lock = NoDaemon THEN d ELSE lock
    /\ UNCHANGED <<open, port, sock, listening, ticking, tick, bg, cancelled>>

OpenStore(d) ==
    /\ Go(d, "open", "migrate")
    /\ open' = open \cup {d}
    /\ UNCHANGED <<lock, port, sock, listening, ticking, tick, bg, cancelled>>

\* Migrations and feature checks; a failure closes the database and returns.
Migrate(d) ==
    /\ \/ Go(d, "migrate", "wire")
       \/ Go(d, "migrate", "closeDB")
    /\ UNCHANGED <<lock, open, port, sock, listening, ticking, tick, bg, cancelled>>

\* The components are built; a missing home directory, an unreadable egress
\* list or a ledger that cannot be replayed makes run() return.
Wire(d) ==
    /\ \/ Go(d, "wire", "port")
       \/ Go(d, "wire", "closeDB")
    /\ UNCHANGED <<lock, open, port, sock, listening, ticking, tick, bg, cancelled>>

\* egressProxy.Start: fails while another process listens on the port.
StartEgress(d) ==
    /\ Go(d, "port", IF port = NoDaemon THEN "scan" ELSE "closeDB")
    /\ port' = IF port = NoDaemon THEN d ELSE port
    /\ UNCHANGED <<lock, open, sock, listening, ticking, tick, bg, cancelled>>

\* The boot resume scan and the boot anchor push.
BootScan(d) ==
    /\ Go(d, "scan", "ticks")
    /\ UNCHANGED <<lock, open, port, sock, listening, ticking, tick, bg, cancelled>>

StartTicks(d) ==
    /\ Go(d, "ticks", "spawn")
    /\ ticking' = ticking \cup {d}
    /\ UNCHANGED <<lock, open, port, sock, listening, tick, bg, cancelled>>

\* From here on a signal cancels ctx instead of killing the process.
SpawnBackground(d) ==
    /\ Go(d, "spawn", "probe")
    /\ bg' = [bg EXCEPT ![d] = Goroutines]
    /\ UNCHANGED <<lock, open, port, sock, listening, ticking, tick, cancelled>>

\* Whether a daemon answers /health on the path.
probeHealth == sock \in listening

\* prepareListener: a socket path that nobody answers on is removed; one that
\* is answered on makes the process give its lock up and leave.
ProbeSocket(d) ==
    /\ IF probeHealth
         THEN Go(d, "probe", "stop") /\ lock' = NoDaemon /\ UNCHANGED sock
         ELSE Go(d, "probe", "listen") /\ sock' = NoDaemon /\ UNCHANGED lock
    /\ UNCHANGED <<open, port, listening, ticking, tick, bg, cancelled>>

\* net.Listen and chmod; a failure gives the lock up.
Listen(d) ==
    /\ \/ /\ Go(d, "listen", IF sock = NoDaemon THEN "serve" ELSE "stop")
          /\ sock' = IF sock = NoDaemon THEN d ELSE sock
          /\ listening' = IF sock = NoDaemon THEN listening \cup {d} ELSE listening
          /\ lock' = IF sock = NoDaemon THEN lock ELSE NoDaemon
       \/ /\ Go(d, "listen", "stop")
          /\ lock' = NoDaemon
          /\ UNCHANGED <<sock, listening>>
    /\ UNCHANGED <<open, port, ticking, tick, bg, cancelled>>

-----------------------------------------------------------------------------
(* Running.                                                                *)

TickStart(d) ==
    /\ d \in ticking
    /\ tick' = tick \cup {d}
    /\ UNCHANGED <<at, lock, open, port, sock, listening, ticking, bg, cancelled>>

TickEnd(d) ==
    /\ d \in tick
    /\ tick' = tick \ {d}
    /\ UNCHANGED <<at, lock, open, port, sock, listening, ticking, bg, cancelled>>

\* The reindex comes to its end; the sweeper and the bot only when cancelled.
GoroutineEnds(d, g) ==
    /\ g \in bg[d]
    /\ g = "reindex" \/ d \in cancelled
    /\ bg' = [bg EXCEPT ![d] = @ \ {g}]
    /\ UNCHANGED <<at, lock, open, port, sock, listening, ticking, tick, cancelled>>

\* SIGTERM while ctx is registered; main's own stop() unregisters it.
Signal(d) ==
    /\ at[d] \in {"probe", "listen", "serve"}
    /\ cancelled' = cancelled \cup {d}
    /\ UNCHANGED <<at, lock, open, port, sock, listening, ticking, tick, bg>>

\* Serve returns an error: Run returns it without Shutdown, so the lock stays;
\* http.Server.Serve closes its listener, which unlinks the path.
ServeFails(d) ==
    /\ Go(d, "serve", "stop")
    /\ listening' = listening \ {d}
    /\ sock' = NoDaemon
    /\ UNCHANGED <<lock, open, port, ticking, tick, bg, cancelled>>

\* Killed: the system takes the lock, the port and the database back, the
\* socket path stays.
Killed(d) ==
    /\ at[d] # "off"
    /\ at' = [at EXCEPT ![d] = "off"]
    /\ lock' = IF lock = d THEN NoDaemon ELSE lock
    /\ port' = IF port = d THEN NoDaemon ELSE port
    /\ open' = open \ {d} /\ listening' = listening \ {d}
    /\ ticking' = ticking \ {d} /\ tick' = tick \ {d} /\ cancelled' = cancelled \ {d}
    /\ bg' = [bg EXCEPT ![d] = {}]
    /\ UNCHANGED sock

-----------------------------------------------------------------------------
(* Closing down.                                                           *)

\* Run sees ctx done and calls Shutdown; http.Shutdown closes the listener
\* first, which unlinks the path, and waits a bounded time for the handlers.
CloseListener(d) ==
    /\ d \in cancelled
    /\ Go(d, "serve", "drain")
    /\ listening' = listening \ {d}
    /\ sock' = NoDaemon
    /\ UNCHANGED <<lock, open, port, ticking, tick, bg, cancelled>>

\* os.Remove of the path, whoever bound it, and only then the flock.
RemoveThenUnlock(d) ==
    \/ /\ Go(d, "drain", "unlock")
       /\ sock' = NoDaemon
       /\ UNCHANGED <<lock, open, port, listening, ticking, tick, bg, cancelled>>
    \/ /\ Go(d, "unlock", "stop")
       /\ lock' = NoDaemon
       /\ UNCHANGED <<sock, open, port, listening, ticking, tick, bg, cancelled>>

\* stop(): ctx is cancelled however Run returned.
BugStop(d) ==
    /\ Go(d, "stop", "join")
    /\ UNCHANGED <<lock, open, port, sock, listening, ticking, tick, bg, cancelled>>
Stop(d) ==
    /\ Go(d, "stop", "join")
    /\ cancelled' = cancelled \cup {d}
    /\ UNCHANGED <<lock, open, port, sock, listening, ticking, tick, bg>>

BugJoined(d) == TRUE
Joined(d) == bg[d] = {}

\* The three WaitGroups.
Join(d) ==
    /\ Joined(d)
    /\ Go(d, "join", "push")
    /\ UNCHANGED <<lock, open, port, sock, listening, ticking, tick, bg, cancelled>>

\* The last anchor push; the model servers are stopped.
LastPush(d) ==
    /\ Go(d, "push", "stopTicks")
    /\ UNCHANGED <<lock, open, port, sock, listening, ticking, tick, bg, cancelled>>

\* Deferred calls, last one first: StopTicks starts no more ticks and waits
\* for the ones in flight, then the egress proxy, then the database.
BugDeferred(d) ==
    \/ /\ Go(d, "stopTicks", "closePort")
       /\ port' = NoDaemon
       /\ UNCHANGED <<lock, open, sock, listening, ticking, tick, bg, cancelled>>
    \/ /\ at[d] = "closePort" /\ d \in ticking
       /\ ticking' = ticking \ {d}
       /\ UNCHANGED <<at, port, lock, open, sock, listening, tick, bg, cancelled>>
    \/ /\ d \notin ticking \cup tick
       /\ Go(d, "closePort", "closeDB")
       /\ UNCHANGED <<port, lock, open, sock, listening, ticking, tick, bg, cancelled>>
DeferredCloses(d) ==
    \/ /\ at[d] = "stopTicks" /\ d \in ticking
       /\ ticking' = ticking \ {d}
       /\ UNCHANGED <<at, port, lock, open, sock, listening, tick, bg, cancelled>>
    \/ /\ d \notin ticking \cup tick
       /\ Go(d, "stopTicks", "closePort")
       /\ UNCHANGED <<port, lock, open, sock, listening, ticking, tick, bg, cancelled>>
    \/ /\ Go(d, "closePort", "closeDB")
       /\ port' = NoDaemon
       /\ UNCHANGED <<lock, open, sock, listening, ticking, tick, bg, cancelled>>

\* st.Close: checkpoint, then close.
CloseStore(d) ==
    /\ Go(d, "closeDB", "exit")
    /\ open' = open \ {d}
    /\ UNCHANGED <<lock, port, sock, listening, ticking, tick, bg, cancelled>>

\* The process ends; a lock it still held goes with it.
BugExit(d) ==
    /\ Go(d, "exit", "off")
    /\ lock' = IF lock = d THEN NoDaemon ELSE lock
    /\ cancelled' = cancelled \ {d}
    /\ sock' = NoDaemon
    /\ UNCHANGED <<open, port, listening, ticking, tick, bg>>
Exit(d) ==
    /\ Go(d, "exit", "off")
    /\ lock' = IF lock = d THEN NoDaemon ELSE lock
    /\ cancelled' = cancelled \ {d}
    /\ UNCHANGED <<open, port, sock, listening, ticking, tick, bg>>

CloseStep(d) ==
    \/ CloseListener(d) \/ RemoveThenUnlock(d) \/ Stop(d) \/ Join(d) \/ LastPush(d)
    \/ DeferredCloses(d) \/ CloseStore(d) \/ Exit(d)
    \/ \E g \in Goroutines : GoroutineEnds(d, g)

DaemonNext ==
    \E d \in Daemons :
        \/ Boot(d) \/ AcquireStartupLock(d) \/ OpenStore(d) \/ Migrate(d) \/ Wire(d)
        \/ StartEgress(d) \/ BootScan(d) \/ StartTicks(d) \/ SpawnBackground(d)
        \/ ProbeSocket(d) \/ Listen(d)
        \/ TickStart(d) \/ TickEnd(d) \/ Signal(d) \/ ServeFails(d) \/ Killed(d)
        \/ CloseStep(d)

-----------------------------------------------------------------------------
(* Properties.                                                             *)

\* A daemon that serves is reached through the socket path: no other process,
\* starting up or closing down, has unlinked or taken it (server.go:539-545).
ServesAlone == \A d \in listening : sock = d

\* From its boot scan until its ticks have stopped a daemon is alone: none of
\* the ticks, goroutines and pushes of another process runs (the scan would
\* otherwise requeue tasks that process is still dispatching).  The startup
\* lock is let go long before that; it is the egress port, closed after the
\* ticks, that keeps the next process out (main.go:815, 819, 1150).
Alone(d) == at[d] \in {"scan", "ticks", "spawn", "probe", "listen", "serve"}
ScansAlone ==
    \A d, e \in Daemons :
        d # e /\ Alone(d) =>
            /\ ~ Alone(e)
            /\ e \notin ticking \cup tick /\ bg[e] = {}
            /\ at[e] \notin {"join", "push"}

\* brain.db is open in two processes only while one of them is closing down,
\* or has failed to start and is about to close it (server.go:505-509).
OneOpener ==
    \A d, e \in open : d # e => at[d] \in Closing \/ at[e] \in Closing

\* What a process still runs finds its database open: goroutines are joined
\* and ticks stopped before st.Close (main.go:1174-1190).
NoUseAfterClose ==
    \A d \in Daemons : d \in ticking \cup tick \/ bg[d] # {} => d \in open

\* A process that was told to stop, or whose server failed, ends: the join
\* waits for goroutines that see ctx cancelled however Run returned
\* (main.go:1233-1242).
ClosingEnds ==
    \A d \in Daemons : at[d] \in {"drain", "unlock", "stop"} ~> at[d] = "off"

\* The safety part: starting and closing processes do not meet.  One serves, one
\* scans, and one opens the database at its start.
DaemonsApart == ServesAlone /\ ScansAlone /\ OneOpener

\* Processes are apart, none uses the database closed, and one that closes down
\* comes to its end.
OneDaemonAtATime == [](DaemonsApart /\ NoUseAfterClose) /\ ClosingEnds
=============================================================================
