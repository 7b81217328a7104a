------------------------------- MODULE Anchor -------------------------------
(***************************************************************************)
(* The ledger with its running digest (kahyad/internal/store/db.go,        *)
(* ledgerdigest) and its external anchor (kahyad/internal/anchor): the     *)
(* digest is written, line by line, to a repository the daemon cannot      *)
(* rewrite, and kahya ledger verify recomputes it from the first event and *)
(* compares.                                                               *)
(*                                                                         *)
(* A digest is modelled as the sequence of payloads it was computed over:  *)
(* two digests are equal exactly when what they hash is.                   *)
(***************************************************************************)
EXTENDS Integers, Sequences, SequencesExt

CONSTANTS
    MaxEvents,          \* bound: rows of events
    MaxGitFailures,     \* bound: failing git commands
    MaxAnchorCrashes,   \* bound
    MaxVerifies,        \* bound: runs of kahya ledger verify
    MayRewrite          \* whether a behaviour may rewrite an event

ASSUME AnchorAssumption ==
    /\ MaxEvents \in Nat /\ MaxGitFailures \in Nat
    /\ MaxAnchorCrashes \in Nat /\ MaxVerifies \in Nat
    /\ MayRewrite \in BOOLEAN

VARIABLES
    events,     \* the payloads, by event id
    digestRow,  \* ledger_digest_state: [last, digest]
    anchorLog,  \* anchor_log: [event, digest, status]
    tree,       \* anchors.log in the working tree, Absent before the clone
    commits,    \* the lines of it that are committed
    remote,     \* the lines of it at the remote
    pushAt,     \* where Pusher.Run is
    pushLine,   \* the row it pushes, an index into anchorLog
    verifyAt,   \* where Verifier.Verify is
    verified,   \* what it has read: [events, dirty]
    verdict,    \* of the last finished verify
    rewritten,  \* the lowest rewritten event id, 0 for none
    anchorFaults \* [git, crash, verify] counts

dbVars == <<events, digestRow, anchorLog, rewritten>>
repoVars == <<tree, commits, remote>>
pushVars == <<pushAt, pushLine>>
verifyVars == <<verifyAt, verified, verdict>>
anchorVars == <<dbVars, repoVars, pushVars, verifyVars, anchorFaults>>

NothingRead == [events |-> <<>>, dirty |-> FALSE]

AnchorInit ==
    /\ events = <<>>
    /\ digestRow = [last |-> 0, digest |-> <<>>]
    /\ anchorLog = <<>>
    /\ tree = <<>> /\ commits = <<>> /\ remote = <<>>
    /\ pushAt = "idle" /\ pushLine = 0
    /\ verifyAt = "idle" /\ verified = NothingRead /\ verdict = "none"
    /\ rewritten = 0
    /\ anchorFaults = [git |-> 0, crash |-> 0, verify |-> 0]

----------------------------------------------------------------------------
(* The ledger.                                                             *)

\* Defect: the digest is chained from the recomputed events, as a check
\* would, so that a rewritten event is silently taken over.
BugNextDigest(digest, payload) == Append(events, payload)

\* ledgerdigest.Next: the previous digest and the new event's payload.
NextDigest(digest, payload) == Append(digest, payload)

\* InsertEventWithDigest: the event and the digest in one transaction.
InsertEventWithDigest(payload) ==
    /\ events' = Append(events, payload)
    /\ digestRow' = [last |-> Len(events) + 1,
                     digest |-> NextDigest(digestRow.digest, payload)]

\* A row the anchor's own steps ledger, as long as the bound leaves room.
LedgerRow(payload) ==
    IF Len(events) < MaxEvents THEN InsertEventWithDigest(payload)
                               ELSE UNCHANGED <<events, digestRow>>

\* Anything the daemon ledgers.
LogEvent ==
    /\ Len(events) < MaxEvents
    /\ InsertEventWithDigest("logged")
    /\ UNCHANGED <<anchorLog, rewritten, repoVars, pushVars, verifyVars,
                   anchorFaults>>

\* Someone rewrites a row of the database file behind the daemon's back:
\* what verify is there to notice.
Rewrite ==
    /\ MayRewrite /\ rewritten = 0
    /\ \E i \in DOMAIN events :
         /\ events' = [events EXCEPT ![i] = "rewritten"]
         /\ rewritten' = i
    /\ UNCHANGED <<digestRow, anchorLog, repoVars, pushVars, verifyVars,
                   anchorFaults>>

----------------------------------------------------------------------------
(* Pusher.Run, at startup, on a tick and at shutdown.                      *)

LineOf(row) == <<row.event, row.digest>>

\* Defect: a row an earlier run could not push is not taken up again.
BugStillPending == FALSE

StillPending == anchorLog # <<>> /\ Last(anchorLog).status = "pending"

\* claimPendingRow: the latest row again while it is pending, nothing when
\* the ledger has not moved, else a new row for the digest just read.
ClaimPendingRow ==
    /\ pushAt = "idle"
    /\ digestRow.last > 0
    /\ LET new == [event |-> digestRow.last, digest |-> digestRow.digest,
                   status |-> "pending"]
       IN IF StillPending
            THEN UNCHANGED anchorLog
            ELSE /\ ~ (anchorLog # <<>> /\ Last(anchorLog).event = digestRow.last)
                 /\ anchorLog' = Append(anchorLog, new)
    /\ pushLine' = Len(anchorLog')
    /\ pushAt' = "clone"
    /\ UNCHANGED <<events, digestRow, rewritten, repoVars, verifyVars,
                   anchorFaults>>

\* ensureClone: a clone, or a fast-forward pull of what only this daemon
\* writes.
EnsureClone ==
    /\ pushAt = "clone"
    /\ pushAt' = "append"
    /\ UNCHANGED <<dbVars, repoVars, pushLine, verifyVars, anchorFaults>>

AppendAnchorLine ==
    /\ pushAt = "append"
    /\ tree' = Append(tree, LineOf(anchorLog[pushLine]))
    /\ pushAt' = "commit"
    /\ UNCHANGED <<dbVars, commits, remote, pushLine, verifyVars, anchorFaults>>

GitCommit ==
    /\ pushAt = "commit"
    /\ commits' = tree
    /\ pushAt' = "push"
    /\ UNCHANGED <<dbVars, tree, remote, pushLine, verifyVars, anchorFaults>>

\* Defect: the push's result is not looked at.
BugGitPush == remote' \in {remote, commits}

GitPushed == remote' = commits

GitPush ==
    /\ pushAt = "push"
    /\ GitPushed
    /\ pushAt' = "mark"
    /\ UNCHANGED <<dbVars, tree, commits, pushLine, verifyVars, anchorFaults>>

\* MarkAnchorPushed, and the row that says so: an event like any other.
MarkPushed ==
    /\ pushAt = "mark"
    /\ anchorLog' = [anchorLog EXCEPT ![pushLine].status = "pushed"]
    /\ pushAt' = "idle"
    /\ LedgerRow("anchored")
    /\ UNCHANGED <<rewritten, repoVars, pushLine, verifyVars, anchorFaults>>

\* A git command, the deploy key or the mark fails: the row stays pending
\* for a later run, checkStalePending may raise its alarm about it, and a
\* verify ends in an error.
GitFails ==
    /\ anchorFaults.git < MaxGitFailures
    /\ anchorFaults' = [anchorFaults EXCEPT !.git = @ + 1]
    /\ \/ /\ pushAt \in {"clone", "append", "commit", "push", "mark"}
          /\ pushAt' = "idle"
          /\ LedgerRow("stale") \/ UNCHANGED <<events, digestRow>>
          /\ UNCHANGED verifyAt
       \/ /\ verifyAt = "remote"
          /\ verifyAt' = "idle"
          /\ UNCHANGED <<events, digestRow, pushAt>>
    /\ UNCHANGED <<anchorLog, rewritten, repoVars, pushLine, verified, verdict>>

AnchorCrash ==
    /\ anchorFaults.crash < MaxAnchorCrashes
    /\ anchorFaults' = [anchorFaults EXCEPT !.crash = @ + 1]
    /\ pushAt' = "idle" /\ verifyAt' = "idle"
    /\ UNCHANGED <<dbVars, repoVars, pushLine, verified, verdict>>

----------------------------------------------------------------------------
(* Verifier.Verify.                                                        *)

\* ListAllEvents.
ReadEvents ==
    /\ verifyAt = "idle" /\ anchorFaults.verify < MaxVerifies
    /\ verified' = [events |-> events, dirty |-> rewritten # 0
                        /\ \E i \in DOMAIN anchorLog : anchorLog[i].event >= rewritten]
    /\ verifyAt' = "rows"
    /\ anchorFaults' = [anchorFaults EXCEPT !.verify = @ + 1]
    /\ UNCHANGED <<dbVars, repoVars, pushVars, verdict>>

\* Defect: only the first checkpoint is compared.
BugChecked(row) == row = anchorLog[1] /\ row.event <= Len(verified.events)

\* A checkpoint is compared when its event was read: one made since then is
\* not.
Checked(row) == row.event <= Len(verified.events)

\* The chain recomputed over what was read, against every checkpoint.
RowsMatch ==
    \A i \in DOMAIN anchorLog :
        Checked(anchorLog[i]) =>
            anchorLog[i].digest = SubSeq(verified.events, 1, anchorLog[i].event)

\* mismatch: the verdict, and the alarm's row.
Mismatch == verdict' = "mismatch" /\ LedgerRow("mismatch")

CheckRows ==
    /\ verifyAt = "rows"
    /\ \/ /\ RowsMatch
          /\ verifyAt' = "remote"
          /\ UNCHANGED <<events, digestRow, verdict>>
       \/ /\ ~ RowsMatch
          /\ verifyAt' = "idle"
          /\ Mismatch
    /\ UNCHANGED <<anchorLog, rewritten, repoVars, pushVars, verified, anchorFaults>>

\* checkRemote: the last line of the log, as the working tree has it after a
\* pull, against the latest row.
RemoteMatches ==
    tree # <<>> /\ anchorLog # <<>> => Last(tree) = LineOf(Last(anchorLog))

CheckRemote ==
    /\ verifyAt = "remote"
    /\ \/ RemoteMatches /\ verdict' = "ok" /\ UNCHANGED <<events, digestRow>>
       \/ ~ RemoteMatches /\ Mismatch
    /\ verifyAt' = "idle"
    /\ UNCHANGED <<anchorLog, rewritten, repoVars, pushVars, verified, anchorFaults>>

PushStep ==
    \/ ClaimPendingRow \/ EnsureClone \/ AppendAnchorLine \/ GitCommit
    \/ GitPush \/ MarkPushed

AnchorNext ==
    \/ LogEvent \/ Rewrite
    \/ PushStep \/ GitFails \/ AnchorCrash
    \/ ReadEvents \/ CheckRows \/ CheckRemote

----------------------------------------------------------------------------

(* Every checkpoint holds the digest of the ledger as it was when its last *)
(* event was written, however events, pushes, failures and restarts        *)
(* interleave: without a rewrite the recomputed chain passes through every *)
(* one of them, and the stored digest stays ahead of a rewrite.            *)
CheckpointsAreHistory ==
    /\ \A i \in DOMAIN anchorLog :
         \A k \in 1 .. anchorLog[i].event : anchorLog[i].digest[k] # "rewritten"
    /\ rewritten = 0 =>
         \A i \in DOMAIN anchorLog :
            anchorLog[i].digest = SubSeq(events, 1, anchorLog[i].event)

(* A row is marked pushed only when its line is at the remote, whatever    *)
(* failed or crashed on the way: a row the daemon believes anchored is.    *)
PushedIsAtRemote ==
    \A i \in DOMAIN anchorLog :
        anchorLog[i].status = "pushed" =>
            \E k \in DOMAIN remote : remote[k] = LineOf(anchorLog[i])

(* A verify that began after an anchored event was rewritten never says    *)
(* the ledger is good.                                                     *)
RewriteIsReported ==
    [][verdict' = "ok" /\ verifyAt' = "idle" /\ verifyAt = "remote"
         => ~ verified.dirty]_anchorVars

(* A claimed row reaches the remote and is marked, however often git fails *)
(* first, as long as it does not fail forever.                             *)
PendingIsPushed ==
    \A i \in 1 .. MaxEvents :
        (i \in DOMAIN anchorLog /\ anchorLog[i].status = "pending")
            ~> (i \in DOMAIN anchorLog /\ anchorLog[i].status = "pushed")

(* anchor.go:18 "any mismatch means the local ledger was rewritten after   *)
(* being anchored (tampering)".                                            *)
MismatchMeansRewritten == verdict = "mismatch" => rewritten # 0

AnchorSpec ==
    AnchorInit /\ [][AnchorNext]_anchorVars /\ WF_anchorVars(PushStep)

\* The anchor's promise: every checkpoint is a true digest of the ledger's
\* past, what is marked pushed is at the remote, what is pending gets there,
\* and a rewritten ledger is reported.
LedgerIsAnchored ==
    /\ [](CheckpointsAreHistory /\ PushedIsAtRemote)
    /\ RewriteIsReported /\ PendingIsPushed
=============================================================================
