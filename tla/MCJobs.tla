------------------------------- MODULE MCJobs -------------------------------
(***************************************************************************)
(* The daemon's scheduled work and its chat, for TLC.  The components      *)
(* share no state; part says whose behaviour it is, so that the states of  *)
(* the run are the sum of theirs.                                          *)
(***************************************************************************)
EXTENDS Scheduler, LaunchdSync, Backup, Ritual, Anchor, Telegram, Daemon

MCJobOf == [t \in Triggers |-> CASE t \in {1, 2} -> "morning"
                                 [] t = 3 -> "push"]
MCJobConfig == [j \in {"morning", "push", "gone"} |->
                  CASE j = "morning" -> "morning-briefing"
                    [] j = "push" -> "memory-push"
                    [] j = "gone" -> "no-such-handler"]
MCProvenance == [f \in RitualFacts |-> CASE f = 1 -> <<"plain", "secret">>
                                         [] f = 2 -> <<"unknown", "plain">>
                                         [] f = 3 -> <<"plain">>
                                         [] f = 4 -> <<"unknown">>]
MCDistance == [f \in RitualFacts |-> IF f = 3 THEN 2 ELSE 1]
MCClassOf == [c \in Cards |-> CASE c = 1 -> "W1" [] c = 2 -> "W2" [] OTHER -> "W3"]

VARIABLE part

PartVars == <<jobVars, launchdVars, backupVars, ritualVars, anchorVars, telegramVars,
              daemonVars>>

MCJobsInit ==
    /\ part \in {"jobs", "launchd", "backup", "ritual", "anchor", "chat", "daemon"}
    /\ JobsInit /\ BackupInit /\ RitualInit /\ AnchorInit /\ TelegramInit /\ DaemonInit
    /\ LaunchdInit
    /\ part # "launchd" => \A j \in SyncJobs : want[j] = Absent /\ current = "nightly"

MCJobsNext ==
    \/ /\ part = "jobs" /\ JobsNext
       /\ UNCHANGED <<part, launchdVars, backupVars, ritualVars, anchorVars, telegramVars, daemonVars>>
    \/ /\ part = "launchd" /\ LaunchdNext
       /\ UNCHANGED <<part, jobVars, backupVars, ritualVars, anchorVars, telegramVars, daemonVars>>
    \/ /\ part = "backup" /\ BackupNext
       /\ UNCHANGED <<part, jobVars, launchdVars, ritualVars, anchorVars, telegramVars, daemonVars>>
    \/ /\ part = "ritual" /\ RitualNext
       /\ UNCHANGED <<part, jobVars, launchdVars, backupVars, anchorVars, telegramVars, daemonVars>>
    \/ /\ part = "anchor" /\ AnchorNext
       /\ UNCHANGED <<part, jobVars, launchdVars, backupVars, ritualVars, telegramVars, daemonVars>>
    \/ /\ part = "chat" /\ TelegramNext
       /\ UNCHANGED <<part, jobVars, launchdVars, backupVars, ritualVars, anchorVars, daemonVars>>
    \/ /\ part = "daemon" /\ DaemonNext
       /\ UNCHANGED <<part, jobVars, launchdVars, backupVars, ritualVars, anchorVars, telegramVars>>

\* A trigger's goroutine runs to its end, the anchor's tick comes again, and a
\* process that closes down goes on while its ticks in flight end.
MCJobsSpec ==
    /\ MCJobsInit /\ [][MCJobsNext]_<<part, PartVars>>
    /\ \A t \in Triggers : WF_jobVars(part = "jobs" /\ JobStep(t))
    /\ WF_anchorVars(part = "anchor" /\ PushStep)
    /\ \A d \in Daemons : /\ WF_daemonVars(part = "daemon" /\ CloseStep(d))
                         /\ WF_daemonVars(part = "daemon" /\ TickEnd(d))

\* Jobs on disk and snapshots: a sync that ended installed what is configured,
\* a snapshot is a whole database, and pruning keeps the newest ones.
HousekeepingIsSafe ==
    [](SyncInstalls /\ SnapshotsAreWhole) /\ NewestSnapshotsStay
=============================================================================
