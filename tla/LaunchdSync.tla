---------------------------- MODULE LaunchdSync ----------------------------
(***************************************************************************)
(* Sync of kahyad/internal/scheduler/launchd.go: the property lists on     *)
(* disk, and what launchd has loaded, brought in line with the configured  *)
(* jobs at every boot and by kahyad -sync-jobs.  A list whose content is   *)
(* unchanged is left alone, without a call to launchctl.  Sync stops at    *)
(* the first bootstrap that fails, and may be cut off anywhere.            *)
(***************************************************************************)
EXTENDS Integers, FiniteSets

CONSTANTS
    SyncJobs,       \* job names
    MaxSchedule,    \* bound: schedules a job may be given, 1 .. MaxSchedule
    MaxSyncs        \* bound: runs of Sync

ASSUME LaunchdAssumption == MaxSchedule \in Nat \ {0} /\ MaxSyncs \in Nat

Absent == 0
Schedules == Absent .. MaxSchedule

VARIABLES
    want,       \* the configuration: per job its schedule, or Absent
    plist,      \* per job the schedule its file on disk says, or Absent
    loaded,     \* per job the schedule launchd runs it by, or Absent
    syncAt,     \* where Sync is
    pending,    \* jobs the loop has still to visit
    current,    \* the job whose file was just written
    failedLoad, \* jobs whose bootstrap failed or was cut off
    syncs

launchdVars == <<want, plist, loaded, syncAt, pending, current, failedLoad, syncs>>

LaunchdInit ==
    /\ want \in [SyncJobs -> Schedules]
    /\ plist = [j \in SyncJobs |-> Absent]
    /\ loaded = [j \in SyncJobs |-> Absent]
    /\ syncAt = "idle"
    /\ pending = {}
    /\ current \in SyncJobs
    /\ failedLoad = {}
    /\ syncs = 0

\* The user edits the configuration; it is read when Sync starts.
EditConfig ==
    /\ syncAt \in {"idle", "done"}
    /\ \E j \in SyncJobs : \E v \in Schedules \ {want[j]} :
         want' = [want EXCEPT ![j] = v]
    /\ syncAt' = "idle"
    /\ UNCHANGED <<plist, loaded, pending, current, failedLoad, syncs>>

StartSync ==
    /\ syncAt \in {"idle", "done"} /\ syncs < MaxSyncs
    /\ syncAt' = "install"
    /\ pending' = {j \in SyncJobs : want[j] # Absent}
    /\ syncs' = syncs + 1
    /\ UNCHANGED <<want, plist, loaded, current, failedLoad>>

\* Defect: a file that is there is taken to be current.
BugSameContent(j) == plist[j] # Absent

\* string(existing) == rendered.
SameContent(j) == plist[j] = want[j]

\* One turn of the first loop up to WriteFile.
InstallJob ==
    /\ syncAt = "install"
    /\ \E j \in pending :
         /\ pending' = pending \ {j}
         /\ IF SameContent(j)
              THEN UNCHANGED <<plist, syncAt, current>>
              ELSE /\ plist' = [plist EXCEPT ![j] = want[j]]
                   /\ current' = j
                   /\ syncAt' = "bootstrap"
    /\ UNCHANGED <<want, loaded, failedLoad, syncs>>

\* bootout, whose error is ignored, then bootstrap, whose error ends Sync.
Bootstrap ==
    /\ syncAt = "bootstrap"
    /\ \/ /\ loaded' = [loaded EXCEPT ![current] = plist[current]]
          /\ failedLoad' = failedLoad \ {current}
          /\ syncAt' = "install"
          /\ UNCHANGED pending
       \/ /\ \E v \in {Absent, loaded[current]} :
               loaded' = [loaded EXCEPT ![current] = v]
          /\ failedLoad' = failedLoad \cup {current}
          /\ syncAt' = "idle"
          /\ pending' = {}
    /\ UNCHANGED <<want, plist, current, syncs>>

\* The lists of this shape whose job is not configured any more.
Stale == {j \in SyncJobs : plist[j] # Absent /\ want[j] = Absent}

\* One turn of the second loop: bootout, best effort, and the file removed.
RemoveStale ==
    /\ syncAt = "install" /\ pending = {}
    /\ \E j \in Stale :
         /\ plist' = [plist EXCEPT ![j] = Absent]
         /\ \/ /\ loaded' = [loaded EXCEPT ![j] = Absent]
               /\ failedLoad' = failedLoad \ {j}
            \/ /\ loaded[j] # Absent
               /\ failedLoad' = failedLoad \cup {j}
               /\ UNCHANGED loaded
    /\ UNCHANGED <<want, syncAt, pending, current, syncs>>

SyncReturns ==
    /\ syncAt = "install" /\ pending = {} /\ Stale = {}
    /\ syncAt' = "done"
    /\ UNCHANGED <<want, plist, loaded, pending, current, failedLoad, syncs>>

\* The process is killed; what is on disk and in launchd stays.
SyncCut ==
    /\ syncAt \in {"install", "bootstrap"}
    /\ failedLoad' = IF syncAt = "bootstrap" THEN failedLoad \cup {current}
                                             ELSE failedLoad
    /\ syncAt' = "idle"
    /\ pending' = {}
    /\ UNCHANGED <<want, plist, loaded, current, syncs>>

LaunchdNext ==
    \/ EditConfig \/ StartSync \/ InstallJob \/ Bootstrap
    \/ RemoveStale \/ SyncReturns \/ SyncCut

----------------------------------------------------------------------------

(* "the set of LaunchAgents on disk (and bootstrapped) exactly matches     *)
(* jobs": when Sync has returned nil the files are the configuration's,    *)
(* whatever earlier runs left, and every job runs by its file, except one  *)
(* whose load failed or was cut off after its file was written: the        *)
(* unchanged file is skipped from then on.                                 *)
SyncInstalls ==
    syncAt = "done" =>
        \A j \in SyncJobs :
            /\ plist[j] = want[j]
            /\ loaded[j] = want[j] \/ j \in failedLoad
=============================================================================
