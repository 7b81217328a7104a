--------------------------- MODULE Consolidation ---------------------------
(***************************************************************************)
(* The markdown repository and everybody who writes to it: the user, the   *)
(* memory tools (mcp/memory/server.go) and the nightly consolidation       *)
(* (consolidation/consolidation.go, state.go, git.go, userlines.go).  A    *)
(* run, an approval or rejection of the pending suggestion, and the user   *)
(* interleave without a lock; any git command or ledger write may fail and *)
(* the daemon may die between two of them.                                 *)
(*                                                                         *)
(* A file is a set of passages; git compares and merges them one by one.   *)
(* What a run keeps of a file whose lines the user touched is the subject  *)
(* of UserEditWins; here a touched passage is kept.                        *)
(***************************************************************************)
EXTENDS Naturals, Sequences, FiniteSets

CONSTANTS Passages, Files, FileOf,
          NoteOf,          \* the passage memory_write adds to a file
          NoBranch, NoBase,
          AutoCommit,      \* consolidation.auto_commit
          NotesOnDirty,    \* memory tools touch files the user has open edits in
          MaxDays, MaxRuns, MaxEdits, MaxNotes, MaxCrashes

ASSUME ConsolidationAssumption ==
    /\ FileOf \in [Passages -> Files]
    /\ NoteOf \in [Files -> Passages]
    /\ AutoCommit \in BOOLEAN /\ NotesOnDirty \in BOOLEAN
    /\ {MaxDays, MaxRuns, MaxEdits, MaxNotes, MaxCrashes} \subseteq Nat /\ MaxDays > 0

Texts == [by : {"old", "user", "note", "gone", "kahya"}, run : 0..MaxRuns]
Contents == [Passages -> Texts]

\* No branch is not a branch, and no base is not a tree.
ASSUME NothingAssumption ==
    NoBranch \notin [base : Nat, from : Contents, text : Contents] /\ NoBase \notin Contents

Text(by, n) == [by |-> by, run |-> n]

VARIABLES
    main,      \* the tip of main
    version,   \* commits on main
    work,      \* the checked-out files
    dayBase,   \* main before the first commit of the user today
    branches,  \* kahya/consolidation-<day>
    pendings,  \* consolidation.pending events, in order
    resolved,  \* traces with an approved, rejected or superseded event
    run,       \* the nightly run
    dec,       \* the approve or reject request
    today, ranOn, \* the day, and the day of the last run
    runs, edits, notes, crashes,
    consent,   \* history: traces the user approved or the gate let through
    retold     \* history: passages a memory tool wrote or took away

consVars == <<main, version, work, dayBase, branches, pendings, resolved, run, dec, today,
              ranOn, runs, edits, notes, crashes, consent, retold>>
repoVars == <<main, version, work, dayBase>>
ledgerVars == <<pendings, resolved>>
countVars == <<today, ranOn, runs, edits, notes, crashes, retold>>

IdleRun == [pc |-> "idle", trace |-> 0, touched |-> {}, read |-> [x \in Passages |-> Text("old", 0)],
            old |-> 0]
IdleDec == [pc |-> "idle", op |-> "none", trace |-> 0, day |-> 0]

ConsInit ==
    /\ main = [x \in Passages |-> Text("old", 0)]
    /\ version = 0
    /\ work = main
    /\ dayBase = NoBase
    /\ branches = [d \in 1..MaxDays |-> NoBranch]
    /\ pendings = <<>>
    /\ resolved = {}
    /\ run = IdleRun
    /\ dec = IdleDec
    /\ today = 1 /\ ranOn = 0
    /\ runs = 0 /\ edits = 0 /\ notes = 0 /\ crashes = 0
    /\ consent = {} /\ retold = {}

PassagesOf(f) == {x \in Passages : FileOf[x] = f}
IsDirty(f) == \E x \in PassagesOf(f) : work[x] # main[x]

\* FindPending: the last pending event, unless it is resolved (0 for none).
FindPending ==
    IF pendings = <<>> THEN 0
    ELSE LET p == pendings[Len(pendings)] IN IF p.trace \in resolved THEN 0 ELSE Len(pendings)

-----------------------------------------------------------------------------
(* The user and the memory tools. *)

UserEdit(x) ==
    /\ edits < MaxEdits
    /\ work' = [work EXCEPT ![x] = Text("user", runs)]
    /\ edits' = edits + 1
    /\ UNCHANGED <<main, version, dayBase, branches, ledgerVars, run, dec, today, ranOn, runs, notes, crashes, consent, retold>>

\* HandleWrite and HandleForget: the text is changed on disk and the file,
\* with whatever else is in it, committed with the daemon as the author; a
\* failed commit puts the file back.
MemoryTool(f, changed, by) ==
    /\ notes < MaxNotes
    /\ NotesOnDirty \/ ~IsDirty(f)
    /\ notes' = notes + 1
    /\ work' = [x \in Passages |-> IF x \in changed THEN Text(by, 0) ELSE work[x]]
    /\ main' = [x \in Passages |-> IF x \in PassagesOf(f) THEN work'[x] ELSE main[x]]
    /\ version' = version + 1
    /\ retold' = retold \cup changed
    /\ UNCHANGED <<dayBase, branches, ledgerVars, run, dec, today, ranOn, runs, edits, crashes, consent>>

HandleWrite(f) == MemoryTool(f, {NoteOf[f]}, "note")

\* A section is cut out of the file; a whole file is moved to the trash.
HandleForget(f) ==
    \E changed \in {{NoteOf[f]}, PassagesOf(f)} :
       /\ \A x \in changed : work[x].by # "gone"
       /\ MemoryTool(f, changed, "gone")

NextDay ==
    /\ run.pc = "idle"
    /\ today < MaxDays
    /\ today' = today + 1
    /\ dayBase' = NoBase
    /\ UNCHANGED <<main, version, work, branches, ledgerVars, run, dec, ranOn, runs, edits, notes, crashes, consent, retold>>

-----------------------------------------------------------------------------
(* The nightly run. *)

RunTo(pc) == run' = [run EXCEPT !.pc = pc]

\* Any step may fail and end the run where it is.
RunFails ==
    /\ run.pc \notin {"idle", "cleanup"}
    /\ RunTo(IF run.pc \in {"sessions", "commit"} THEN "cleanup" ELSE "idle")
    /\ UNCHANGED <<repoVars, branches, ledgerVars, dec, countVars, consent>>

\* Once a day, at 03:00: what the user left uncommitted becomes a commit of
\* the user, or the run is over.
StartRun ==
    /\ run.pc = "idle"
    /\ runs < MaxRuns
    /\ ranOn < today
    /\ ranOn' = today
    /\ runs' = runs + 1
    /\ \/ /\ run' = [IdleRun EXCEPT !.pc = "touched", !.trace = runs + 1]
          /\ IF work = main THEN UNCHANGED repoVars
             ELSE /\ main' = work
                  /\ version' = version + 1
                  /\ dayBase' = IF dayBase = NoBase THEN main ELSE dayBase
                  /\ UNCHANGED work
       \/ run' = IdleRun /\ UNCHANGED repoVars
    /\ UNCHANGED <<branches, ledgerVars, dec, today, edits, notes, crashes, consent, retold>>

\* Defect: only the lines of the commit just made count.
BugTouched == {}

\* ComputeUserTouchedLines: from before today's first user commit to HEAD.
ComputeUserTouchedLines ==
    IF dayBase = NoBase THEN {} ELSE {x \in Passages : main[x] # dayBase[x]}

TouchedLines ==
    /\ run.pc = "touched"
    /\ run' = [run EXCEPT !.touched = ComputeUserTouchedLines, !.old = FindPending,
                          !.pc = IF FindPending = 0 THEN "read" ELSE "supersede"]
    /\ UNCHANGED <<repoVars, branches, ledgerVars, dec, countVars, consent>>

DropBranch(d) == branches' \in {branches, [branches EXCEPT ![d] = NoBranch]}

\* Defect: the old suggestion is taken down without a ledger row.
BugSupersede ==
    /\ run.pc = "supersede"
    /\ DropBranch(pendings[run.old].day)
    /\ RunTo("read")
    /\ UNCHANGED <<repoVars, ledgerVars, dec, countVars, consent>>

\* supersede: the branch goes, or stays behind with a warning; the ledger row
\* must be written.
Supersede ==
    /\ run.pc = "supersede"
    /\ DropBranch(pendings[run.old].day)
    /\ resolved' = resolved \cup {pendings[run.old].trace}
    /\ RunTo("read")
    /\ UNCHANGED <<repoVars, pendings, dec, countVars, consent>>

\* readMemoryFiles and PartitionByLane.
ReadMemoryFiles ==
    /\ run.pc = "read"
    /\ run' = [run EXCEPT !.read = work, !.pc = "worktree"]
    /\ UNCHANGED <<repoVars, branches, ledgerVars, dec, countVars, consent>>

\* git worktree add -b refuses a branch that exists.
CreateWorktree ==
    /\ run.pc = "worktree"
    /\ branches[today] = NoBranch
    /\ branches' = [branches EXCEPT ![today] = [base |-> version, from |-> main, text |-> main]]
    /\ RunTo("sessions")
    /\ UNCHANGED <<repoVars, ledgerVars, dec, countVars, consent>>

\* The sessions rewrite some passages, of the lanes that answered; a file is
\* written whole where something other than a touched passage changed.
Consolidate(rewritten) ==
    /\ run.pc = "sessions"
    /\ LET kept == rewritten \ run.touched
           file(x) == \E y \in kept : FileOf[y] = FileOf[x]
       IN branches' = [branches EXCEPT ![today].text = [x \in Passages |->
              CASE x \in kept -> Text("kahya", run.trace)
                [] x \notin kept /\ file(x) -> run.read[x]
                [] OTHER -> branches[today].from[x]]]
    /\ RunTo("commit")
    /\ UNCHANGED <<repoVars, ledgerVars, dec, countVars, consent>>

CleanupWorktree ==
    /\ run.pc = "cleanup"
    /\ DropBranch(today)
    /\ run' = IdleRun
    /\ UNCHANGED <<repoVars, ledgerVars, dec, countVars, consent>>

\* Defect: the rewrite is committed in the user's checkout, not the worktree.
BugCommitInPlace ==
    /\ run.pc = "commit"
    /\ branches[today] # NoBranch
    /\ work' = branches[today].text
    /\ main' = work'
    /\ version' = version + 1
    /\ RunTo("pending")
    /\ UNCHANGED <<dayBase, branches, ledgerVars, dec, countVars, consent>>

\* CommitAll, then autoCommitAllowed; without a change nothing is committed.
CommitSuggestion ==
    /\ run.pc = "commit"
    /\ IF branches[today] = NoBranch \/ branches[today].text = branches[today].from
       THEN RunTo("cleanup") /\ UNCHANGED <<dec, consent>>
       ELSE \/ RunTo("pending") /\ UNCHANGED <<dec, consent>>
            \/ /\ AutoCommit
               /\ dec.pc = "idle"
               /\ dec' = [pc |-> "rebase", op |-> "auto", trace |-> run.trace, day |-> today]
               /\ consent' = consent \cup {run.trace}
               /\ run' = IdleRun
    /\ UNCHANGED <<repoVars, branches, ledgerVars, countVars>>

\* The ledger row of the suggestion, whose failure is only logged.
LedgerPending ==
    /\ run.pc = "pending"
    /\ pendings' \in {pendings, Append(pendings, [trace |-> run.trace, day |-> today])}
    /\ run' = IdleRun
    /\ UNCHANGED <<repoVars, branches, resolved, dec, countVars, consent>>

-----------------------------------------------------------------------------
(* Approve and Reject. *)

DecTo(pc) == dec' = [dec EXCEPT !.pc = pc]

DecFails ==
    /\ dec.pc # "idle"
    /\ dec' = IdleDec
    /\ UNCHANGED <<repoVars, branches, ledgerVars, run, countVars, consent>>

Approve ==
    /\ dec.pc = "idle"
    /\ FindPending # 0
    /\ LET p == pendings[FindPending]
       IN /\ dec' = [pc |-> "rebase", op |-> "approve", trace |-> p.trace, day |-> p.day]
          /\ consent' = consent \cup {p.trace}
    /\ UNCHANGED <<repoVars, branches, ledgerVars, run, countVars>>

\* Reject is over when the branch is gone and the row written.
Reject ==
    /\ dec.pc = "idle"
    /\ FindPending # 0
    /\ LET p == pendings[FindPending]
       IN /\ branches[p.day] # NoBranch
          /\ branches' = [branches EXCEPT ![p.day] = NoBranch]
          /\ resolved' \in {resolved, resolved \cup {p.trace}}
    /\ UNCHANGED <<repoVars, pendings, run, dec, countVars, consent>>

\* Git refuses to merge two changes of one passage.
Conflicts(b) ==
    \E x \in Passages : b.text[x] # b.from[x] /\ main[x] # b.from[x] /\ main[x] # b.text[x]

\* Defect: only the passages of the branch survive.
BugRebased(b) ==
    [base |-> version, from |-> main,
     text |-> [x \in {y \in Passages : b.text[y] # b.from[y]} |-> b.text[x]]]

\* The branch's changes on top of main as it is now.
Rebased(b) ==
    [base |-> version, from |-> main,
     text |-> [x \in Passages |-> IF b.text[x] # b.from[x] THEN b.text[x] ELSE main[x]]]

\* Defect: a conflict is settled for the branch.
BugRebase ==
    /\ dec.pc = "rebase"
    /\ branches[dec.day] # NoBranch
    /\ branches' = [branches EXCEPT ![dec.day] = Rebased(@)]
    /\ DecTo("merge")
    /\ UNCHANGED <<repoVars, ledgerVars, run, countVars, consent>>

RebaseWorktreeOnto ==
    /\ dec.pc = "rebase"
    /\ branches[dec.day] # NoBranch
    /\ ~Conflicts(branches[dec.day])
    /\ branches' = [branches EXCEPT ![dec.day] = Rebased(@)]
    /\ DecTo("merge")
    /\ UNCHANGED <<repoVars, ledgerVars, run, countVars, consent>>

\* Files a fast-forward would write over.
Overwritten(b) == {f \in Files : IsDirty(f) /\ \E x \in PassagesOf(f) : b.text[x] # main[x]}

\* git merge --ff-only: main must not have moved, and uncommitted changes
\* must not be in the way.
MergeFastForwardOnly ==
    /\ dec.pc = "merge"
    /\ LET b == branches[dec.day]
       IN /\ b # NoBranch
          /\ b.base = version
          /\ Overwritten(b) = {}
          /\ work' = [x \in Passages |-> IF b.text[x] # main[x] THEN b.text[x] ELSE work[x]]
          /\ main' = b.text
          /\ version' = IF b.text = main THEN version ELSE version + 1
    /\ DecTo("delete")
    /\ UNCHANGED <<dayBase, branches, ledgerVars, run, countVars, consent>>

DeleteBranch ==
    /\ dec.pc = "delete"
    /\ DropBranch(dec.day)
    /\ DecTo("ledger")
    /\ UNCHANGED <<repoVars, ledgerVars, run, countVars, consent>>

\* LedgerApproved, whose failure is only logged; then reindex and push.
LedgerApproved ==
    /\ dec.pc = "ledger"
    /\ resolved' \in {resolved, resolved \cup {dec.trace}}
    /\ dec' = IdleDec
    /\ UNCHANGED <<repoVars, branches, pendings, run, countVars, consent>>

ConsCrash ==
    /\ crashes < MaxCrashes
    /\ run.pc # "idle" \/ dec.pc # "idle"
    /\ crashes' = crashes + 1
    /\ run' = IdleRun
    /\ dec' = IdleDec
    /\ UNCHANGED <<repoVars, branches, ledgerVars, today, ranOn, runs, edits, notes, consent, retold>>

RunStep ==
    \/ StartRun \/ TouchedLines \/ Supersede \/ ReadMemoryFiles \/ CreateWorktree
    \/ \E rewritten \in SUBSET Passages : Consolidate(rewritten)
    \/ CommitSuggestion \/ LedgerPending \/ CleanupWorktree \/ RunFails

DecStep ==
    \/ Approve \/ Reject \/ RebaseWorktreeOnto \/ MergeFastForwardOnly \/ DeleteBranch
    \/ LedgerApproved \/ DecFails

ConsNext ==
    \/ \E x \in Passages : UserEdit(x)
    \/ \E f \in Files : HandleWrite(f) \/ HandleForget(f)
    \/ NextDay \/ RunStep \/ DecStep \/ ConsCrash

-----------------------------------------------------------------------------
ConsTypeOK ==
    /\ {main, work, run.read} \subseteq Contents
    /\ dayBase # NoBase => dayBase \in Contents
    /\ \A d \in 1..MaxDays : branches[d] # NoBranch =>
          /\ branches[d].text \in Contents /\ branches[d].from \in Contents
          /\ branches[d].base <= version
    /\ resolved \subseteq 1..runs
    /\ run.touched \subseteq Passages

\* The user's edits win: whatever the interleaving of edits, runs, approvals,
\* failures and crashes, the text of a run is never put over something the
\* user wrote after the run before it, in main or on disk.  This is about
\* passages no memory tool ever wrote or took away: what a tool forgets, a
\* suggestion made before can bring back under a later run.
KeepsUserEdits ==
    [][\A x \in Passages \ retold' :
          /\ main'[x] # main[x] /\ main'[x].by = "kahya" =>
                main[x].by # "user" \/ main[x].run + 1 < main'[x].run
          /\ work'[x] # work[x] /\ work'[x].by = "kahya" =>
                work[x].by # "user" \/ work[x].run + 1 < work'[x].run]_consVars

\* A suggestion does not disappear behind a newer one: all but the last are
\* approved, rejected or superseded in the ledger.
OnePending ==
    \A i \in 1..Len(pendings) : i < Len(pendings) => pendings[i].trace \in resolved

\* What lands on main is a suggestion the user approved or the gate let
\* through, never one that is merely pending, was rejected or superseded
\* before, or was left behind by a crash.
LandsWithConsent ==
    \A x \in Passages : main[x].by = "kahya" => main[x].run \in consent

\* The nightly run's promise: nothing lands without consent, no suggestion
\* disappears behind another, and what the user wrote today stays.
ConsolidationAsksFirst ==
    [](ConsTypeOK /\ OnePending /\ LandsWithConsent) /\ KeepsUserEdits
=============================================================================
