------------------------------- MODULE Backup -------------------------------
(***************************************************************************)
(* The nightly snapshot (kahyad/internal/backup/backup.go): VACUUM INTO a  *)
(* staging file, an integrity check of it, a rename over the day's         *)
(* snapshot, a ledger row, and pruning to the newest few.  The scheduler   *)
(* runs one at a time; it may fail or be cut off after any step, and be    *)
(* run again on the same day.                                              *)
(***************************************************************************)
EXTENDS Integers, FiniteSets, FiniteSetsExt

CONSTANTS
    MaxDay,             \* bound: days of a behaviour
    Retention,          \* retentionCount
    MaxBackupRuns       \* bound: runs on one day

ASSUME BackupAssumption ==
    MaxDay \in Nat \ {0} /\ Retention \in Nat \ {0} /\ MaxBackupRuns \in Nat

NoFile == "none"

VARIABLES
    today,
    snapshots,  \* per day: brain-<day>.db
    staging,    \* brain-<today>.db.staging
    backupAt,   \* where Snapshotter.Run is
    recorded,   \* days with a backup.completed row
    backupRuns  \* runs begun today

backupVars == <<today, snapshots, staging, backupAt, recorded, backupRuns>>

Kept(s) == {d \in DOMAIN s : s[d] # NoFile}

BackupInit ==
    /\ today = 1
    /\ snapshots = [d \in 1 .. MaxDay |-> NoFile]
    /\ staging = NoFile
    /\ backupAt = "idle"
    /\ recorded = {}
    /\ backupRuns = 0

\* The date is in the staging name: yesterday's is left where it is and
\* matches no snapshot's name.
NextDay ==
    /\ today < MaxDay /\ backupAt = "idle"
    /\ today' = today + 1
    /\ staging' = NoFile
    /\ backupRuns' = 0
    /\ UNCHANGED <<snapshots, backupAt, recorded>>

\* A run begins by removing a staging file an earlier one left.
RemoveStaleStaging ==
    /\ backupAt = "idle" /\ backupRuns < MaxBackupRuns
    /\ backupRuns' = backupRuns + 1
    /\ staging' = NoFile
    /\ backupAt' = "vacuum"
    /\ UNCHANGED <<today, snapshots, recorded>>

\* VACUUM INTO begins a file that is incomplete until it returns.
Vacuum ==
    /\ backupAt = "vacuum"
    /\ staging' = "partial"
    /\ backupAt' = "vacuuming"
    /\ UNCHANGED <<today, snapshots, recorded, backupRuns>>

VacuumDone ==
    /\ backupAt = "vacuuming"
    /\ staging' \in {"good", "corrupt"}
    /\ backupAt' = "verify"
    /\ UNCHANGED <<today, snapshots, recorded, backupRuns>>

\* Defect: any answer of the pragma will do.
BugIntegrityOK(file) == file # "partial"

\* PRAGMA integrity_check said "ok".
IntegrityOK(file) == file = "good"

Verify ==
    /\ backupAt = "verify" /\ IntegrityOK(staging)
    /\ backupAt' = "rename"
    /\ UNCHANGED <<today, snapshots, staging, recorded, backupRuns>>

Rename ==
    /\ backupAt = "rename"
    /\ snapshots' = [snapshots EXCEPT ![today] = staging]
    /\ staging' = NoFile
    /\ backupAt' = "ledger"
    /\ UNCHANGED <<today, recorded, backupRuns>>

\* backup.completed; when it cannot be written the run ends unpruned.
LedgerCompleted ==
    /\ backupAt = "ledger"
    /\ \/ recorded' = recorded \cup {today} /\ backupAt' = "prune"
       \/ UNCHANGED recorded /\ backupAt' = "idle"
    /\ UNCHANGED <<today, snapshots, staging, backupRuns>>

\* Defect: the names are sorted the other way round.
BugPruned ==
    {d \in Kept(snapshots) :
        Cardinality({x \in Kept(snapshots) : x < d}) >= Retention}

\* Newest first, all after the first retentionCount.
Pruned ==
    {d \in Kept(snapshots) :
        Cardinality({x \in Kept(snapshots) : x > d}) >= Retention}

Prune ==
    /\ backupAt = "prune"
    /\ \E failed \in SUBSET Pruned :
         snapshots' = [d \in DOMAIN snapshots |->
                         IF d \in Pruned \ failed THEN NoFile ELSE snapshots[d]]
    /\ backupAt' = "idle"
    /\ UNCHANGED <<today, staging, recorded, backupRuns>>

\* fail: the staging file goes, the day's earlier snapshot never does.
Fail ==
    /\ backupAt \in {"vacuum", "vacuuming", "verify", "rename"}
    /\ staging' = NoFile
    /\ backupAt' = "idle"
    /\ UNCHANGED <<today, snapshots, recorded, backupRuns>>

\* The daemon dies under the run: whatever is on disk stays.
BackupCut ==
    /\ backupAt # "idle"
    /\ backupAt' = "idle"
    /\ UNCHANGED <<today, snapshots, staging, recorded, backupRuns>>

BackupNext ==
    \/ NextDay \/ RemoveStaleStaging \/ Vacuum \/ VacuumDone \/ Verify
    \/ Rename \/ LedgerCompleted \/ Prune \/ Fail \/ BackupCut

----------------------------------------------------------------------------

(* Whatever a run was cut off by, every file with a snapshot's name is a   *)
(* whole database that passed its check: a restore never meets a partial   *)
(* one.                                                                    *)
SnapshotsAreWhole == \A d \in Kept(snapshots) : snapshots[d] = "good"

(* No step, failing run or repeated run takes away a snapshot that is      *)
(* among the newest retentionCount, and the newest recorded one is always  *)
(* there.                                                                  *)
NewestSnapshotsStay ==
    [][/\ \A d \in Kept(snapshots) \ Kept(snapshots') :
            Cardinality({x \in Kept(snapshots') : x > d}) >= Retention
       /\ recorded' # {} => Max(recorded') \in Kept(snapshots')]_backupVars
=============================================================================
