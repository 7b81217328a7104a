------------------------------ MODULE Receipts ------------------------------
(***************************************************************************)
(* The tool-call journal of one task: kahyad/internal/task/receipts.go and *)
(* the statements of the resume scan (resume.go) that write tool_calls.    *)
(*                                                                         *)
(* A caller is one in-flight Receipts.Execute: an HTTP handler goroutine   *)
(* of kahyad, which outlives the worker that asked for it (HandleDevStub   *)
(* runs Execute on context.Background()).  Each database statement is one  *)
(* step.  brain.db has ONE connection (store/db.go), so while a caller's   *)
(* transaction is open nobody else's statement runs: tx is its holder.     *)
(***************************************************************************)
EXTENDS Naturals, FiniteSets

CONSTANTS Keys,        \* (task_id, tool_name, args_hash) triples of the task
          Callers,     \* goroutines that may be inside Execute
          NoCaller,    \* "nobody": the mutex is free, no transaction is open
          MaxRows,     \* bound: rows tool_calls may hold
          MaxCrashes   \* bound: daemon crashes

ASSUME ReceiptsAssumption ==
    /\ Keys # {}
    /\ NoCaller \notin Callers
    /\ MaxRows \in Nat
    /\ MaxCrashes \in Nat

VARIABLES
    status,     \* tool_calls.status by row id ("absent": not inserted yet)
    rowKey,     \* the (task, tool, args) triple of each row
    nrows,      \* the last id AUTOINCREMENT handed out
    lock,       \* keyedMutexes: the caller holding each key's mutex
    tx,         \* the caller whose transaction holds the only connection
    pc, key, id, \* each caller's position in Execute, its key, its row id
    scan,       \* the resume scan: the row it listed, 0 when it is idle
    live,       \* LiveRegistry: a worker of the task is registered
    orphan,     \* a worker a dead kahyad left behind still runs, unregistered
    crashes,
    committed,  \* history: effects committed together with a receipt
    lost        \* history: committed receipts later overwritten

vars == <<status, rowKey, nrows, lock, tx, pc, key, id, scan, live, orphan,
          crashes, committed, lost>>
journal == <<status, rowKey, nrows>>
history == <<committed, lost>>
system == <<scan, live, orphan, crashes>>

RowId == 1..MaxRows
Receiptless == {"intent", "executing"}
Live == Receiptless \cup {"receipt"}   \* WHERE of idx_tool_calls_live_unique
Statuses == Live \cup {"absent", "failed"}

Outside == {"idle", "lock"}            \* before the keyed mutex is taken
Owning == {"mark", "begin", "effect", "commit", "fail"}  \* owns a row
Steps == Outside \cup {"replay", "claim"} \cup Owning

Init ==
    /\ status = [i \in RowId |-> "absent"]
    /\ rowKey = [i \in RowId |-> CHOOSE k \in Keys : TRUE]
    /\ nrows = 0
    /\ lock = [k \in Keys |-> NoCaller]
    /\ tx = NoCaller
    /\ pc = [p \in Callers |-> "idle"]
    /\ key = [p \in Callers |-> CHOOSE k \in Keys : TRUE]
    /\ id = [p \in Callers |-> 0]
    /\ scan = 0
    /\ live = TRUE
    /\ orphan = FALSE
    /\ crashes = 0
    /\ committed = [k \in Keys |-> 0]
    /\ lost = [k \in Keys |-> 0]

-----------------------------------------------------------------------------
(* What Execute's steps are made of. *)

RowsOf(k) == {i \in RowId : status[i] # "absent" /\ rowKey[i] = k}

\* GetReceiptToolCall finds a row: the stored result is returned instead.
HasReceipt(k) == \E i \in RowsOf(k) : status[i] = "receipt"

\* A row already holds the key's slot of the partial unique index.
SlotTaken(k) == \E i \in RowsOf(k) : status[i] \in Live

\* A statement outside a transaction waits for the only connection.
ConnFree == tx = NoCaller

\* Execute returns; the deferred unlock releases the key's mutex.
Return(p) ==
    /\ pc' = [pc EXCEPT ![p] = "idle"]
    /\ lock' = [lock EXCEPT ![key[p]] = NoCaller]

\* The worker asks for a side effect of class W1, W2 or W3 (a class-R call
\* is refused before anything is touched).
Call(p, k) ==
    /\ live \/ orphan
    /\ pc[p] = "idle"
    /\ nrows + Cardinality({q \in Callers : pc[q] # "idle"}) < MaxRows
    /\ pc' = [pc EXCEPT ![p] = "lock"]
    /\ key' = [key EXCEPT ![p] = k]
    /\ UNCHANGED <<journal, history, lock, tx, id, system>>

\* Defect: no keyed mutex, so callers of one key run Execute side by side.
BugLockFree(p) ==
    /\ pc[p] = "lock"
    /\ lock' = [lock EXCEPT ![key[p]] = p]
    /\ pc' = [pc EXCEPT ![p] = "replay"]
    /\ UNCHANGED <<journal, history, tx, key, id, system>>

\* r.locks.Lock(toolCallKey(...)): one caller per key at a time.
Lock(p) ==
    /\ pc[p] = "lock"
    /\ lock[key[p]] = NoCaller
    /\ lock' = [lock EXCEPT ![key[p]] = p]
    /\ pc' = [pc EXCEPT ![p] = "replay"]
    /\ UNCHANGED <<journal, history, tx, key, id, system>>

\* checkReplay: return the stored receipt, or go on to a real attempt.
CheckReplay(p) ==
    /\ pc[p] = "replay"
    /\ ConnFree
    /\ IF HasReceipt(key[p])
         THEN Return(p)
         ELSE pc' = [pc EXCEPT ![p] = "claim"] /\ UNCHANGED lock
    /\ UNCHANGED <<journal, history, tx, key, id, system>>

\* claimIntent: the insert wins the key's slot of the unique index.
ClaimIntent(p) ==
    /\ pc[p] = "claim"
    /\ ConnFree
    /\ ~SlotTaken(key[p])
    /\ nrows < MaxRows
    /\ nrows' = nrows + 1
    /\ status' = [status EXCEPT ![nrows + 1] = "intent"]
    /\ rowKey' = [rowKey EXCEPT ![nrows + 1] = key[p]]
    /\ id' = [id EXCEPT ![p] = nrows + 1]
    /\ pc' = [pc EXCEPT ![p] = "mark"]
    /\ UNCHANGED <<history, lock, tx, key, system>>

\* claimIntent: the index refuses the row, and either the holder turns out
\* to have a receipt (replayed) or the backoff loop ends in
\* ErrToolCallClaimTimeout.  An iteration that finds the slot still taken
\* and loops changes nothing, so it is a stuttering step.
ClaimRefused(p) ==
    /\ pc[p] = "claim"
    /\ ConnFree
    /\ SlotTaken(key[p])
    /\ Return(p)
    /\ UNCHANGED <<journal, history, tx, key, id, system>>

\* Defect: a status string the schema does not know.
BugMarkRunning(p) ==
    /\ pc[p] = "mark"
    /\ ConnFree
    /\ status' = [status EXCEPT ![id[p]] = "running"]
    /\ pc' = [pc EXCEPT ![p] = "begin"]
    /\ UNCHANGED <<rowKey, nrows, history, lock, tx, key, id, system>>

\* MarkToolCallExecuting is by id only.  If the row lost its slot to another
\* live row of the key meanwhile, the index refuses the update and Execute
\* returns the error (as in DBError).
MarkExecuting(p) ==
    /\ pc[p] = "mark"
    /\ ConnFree
    /\ ~\E i \in RowsOf(key[p]) \ {id[p]} : status[i] \in Live
    /\ status' = [status EXCEPT ![id[p]] = "executing"]
    /\ pc' = [pc EXCEPT ![p] = "begin"]
    /\ UNCHANGED <<rowKey, nrows, history, lock, tx, key, id, system>>

\* BeginTx takes the only connection for the whole effect.
BeginTx(p) ==
    /\ pc[p] = "begin"
    /\ ConnFree
    /\ tx' = p
    /\ pc' = [pc EXCEPT ![p] = "effect"]
    /\ UNCHANGED <<journal, history, lock, key, id, system>>

\* effect(ctx, tx) succeeded and the receipt is marshalled.
EffectDone(p) ==
    /\ pc[p] = "effect"
    /\ pc' = [pc EXCEPT ![p] = "commit"]
    /\ UNCHANGED <<journal, history, lock, tx, key, id, system>>

\* Defect: failAndReturn runs before the rollback gave the connection back.
BugRollbackKeepsConn(p) ==
    /\ pc[p] \in {"effect", "commit"}
    /\ pc' = [pc EXCEPT ![p] = "fail"]
    /\ UNCHANGED <<journal, history, lock, tx, key, id, system>>

\* effect, the marshalling, MarkToolCallReceipt or Commit failed: the
\* transaction is rolled back, which frees the connection that
\* failAndReturn's own update then needs.
Rollback(p) ==
    /\ pc[p] \in {"effect", "commit"}
    /\ tx' = NoCaller
    /\ pc' = [pc EXCEPT ![p] = "fail"]
    /\ UNCHANGED <<journal, history, lock, key, id, system>>

\* Defect: the effect commits in a transaction without the receipt.
BugCommitNoReceipt(p) ==
    /\ pc[p] = "commit"
    /\ committed' = [committed EXCEPT ![key[p]] = @ + 1]
    /\ tx' = NoCaller
    /\ Return(p)
    /\ UNCHANGED <<journal, lost, key, id, system>>

\* Defect: an error after a successful commit still goes to failAndReturn.
BugCommitThenFail(p) ==
    /\ pc[p] = "commit"
    /\ status' = [status EXCEPT ![id[p]] = "receipt"]
    /\ committed' = [committed EXCEPT ![key[p]] = @ + 1]
    /\ tx' = NoCaller
    /\ pc' = [pc EXCEPT ![p] = "fail"]
    /\ UNCHANGED <<rowKey, nrows, lost, lock, key, id, system>>

\* MarkToolCallReceipt (by id, whatever the row says now) and Commit.
Commit(p) ==
    /\ pc[p] = "commit"
    /\ status' = [status EXCEPT ![id[p]] = "receipt"]
    /\ committed' = [committed EXCEPT ![key[p]] = @ + 1]
    /\ tx' = NoCaller
    /\ Return(p)
    /\ UNCHANGED <<rowKey, nrows, lost, key, id, system>>

\* failAndReturn: MarkToolCallFailed outside any transaction.
FailAndReturn(p) ==
    /\ pc[p] = "fail"
    /\ ConnFree
    /\ status' = [status EXCEPT ![id[p]] = "failed"]
    /\ Return(p)
    /\ UNCHANGED <<rowKey, nrows, history, tx, key, id, system>>

\* Any of Execute's statements outside the transaction errs: Execute returns
\* and leaves the row as it is (an intent or executing row stays behind).
DBError(p) ==
    /\ pc[p] \in {"replay", "claim", "mark", "begin", "fail"}
    /\ ConnFree
    /\ Return(p)
    /\ UNCHANGED <<journal, history, tx, key, id, system>>

-----------------------------------------------------------------------------
(* The rest of the system, as far as it touches this task's journal. *)

\* The worker exits, is killed or times out; handlers it started go on.
WorkerExit ==
    /\ live
    /\ live' = FALSE
    /\ UNCHANGED <<journal, history, lock, tx, pc, key, id, scan, orphan, crashes>>

OrphanExit ==
    /\ orphan
    /\ orphan' = FALSE
    /\ UNCHANGED <<journal, history, lock, tx, pc, key, id, scan, live, crashes>>

\* The dispatcher (or `kahya task resolve --retry`) starts the next worker.
Respawn ==
    /\ ~live
    /\ live' = TRUE
    /\ UNCHANGED <<journal, history, lock, tx, pc, key, id, scan, orphan, crashes>>

\* Resume.ProcessTask on a task that is not live: ListReceiptlessToolCalls,
\* most recent first; only rows[0] is looked at.
ScanList ==
    /\ scan = 0
    /\ ~live
    /\ ConnFree
    /\ \E i \in RowId :
          /\ status[i] \in Receiptless
          /\ \A j \in RowId : status[j] \in Receiptless => j <= i
          /\ scan' = i
    /\ UNCHANGED <<journal, history, lock, tx, pc, key, id, live, orphan, crashes>>

\* MarkToolCallFailed on the listed row: by id, not guarded by the status the
\* row has by now.
ScanMark ==
    /\ scan # 0
    /\ ConnFree
    /\ status' = [status EXCEPT ![scan] = "failed"]
    /\ lost' = IF status[scan] = "receipt"
                 THEN [lost EXCEPT ![rowKey[scan]] = @ + 1] ELSE lost
    /\ scan' = 0
    /\ UNCHANGED <<rowKey, nrows, committed, lock, tx, pc, key, id, live, orphan, crashes>>

\* kahyad dies: goroutines, mutexes, the scan and the open transaction go;
\* brain.db keeps what was committed.  The worker is in a process group of
\* its own and survives, unknown to the next kahyad's LiveRegistry.
Crash ==
    /\ crashes < MaxCrashes
    /\ crashes' = crashes + 1
    /\ pc' = [p \in Callers |-> "idle"]
    /\ lock' = [k \in Keys |-> NoCaller]
    /\ tx' = NoCaller
    /\ scan' = 0
    /\ live' = FALSE
    /\ orphan' = (orphan \/ live)
    /\ UNCHANGED <<journal, history, key, id>>

Execute(p) ==
    \/ Lock(p) \/ CheckReplay(p) \/ ClaimIntent(p) \/ ClaimRefused(p)
    \/ MarkExecuting(p) \/ BeginTx(p) \/ EffectDone(p) \/ Rollback(p)
    \/ Commit(p) \/ FailAndReturn(p) \/ DBError(p)

Next ==
    \/ \E p \in Callers : Execute(p) \/ \E k \in Keys : Call(p, k)
    \/ WorkerExit \/ OrphanExit \/ Respawn \/ ScanList \/ ScanMark \/ Crash

Spec == Init /\ [][Next]_vars

\* Execute's goroutine keeps running; Go's mutex hands over to a waiter and
\* database/sql serves queued connection requests, so neither the mutex nor
\* the connection starves a caller (strong fairness).
FairSpec == Spec /\ \A p \in Callers : SF_vars(Execute(p)) /\ SF_vars(ScanMark)
-----------------------------------------------------------------------------
TypeOK ==
    /\ status \in [RowId -> Statuses]
    /\ rowKey \in [RowId -> Keys]
    /\ nrows \in 0..MaxRows
    /\ lock \in [Keys -> Callers \cup {NoCaller}]
    /\ tx \in Callers \cup {NoCaller}
    /\ pc \in [Callers -> Steps]
    /\ key \in [Callers -> Keys]
    /\ id \in [Callers -> 0..MaxRows]
    /\ scan \in 0..MaxRows
    /\ live \in BOOLEAN
    /\ orphan \in BOOLEAN
    /\ crashes \in 0..MaxCrashes
    /\ committed \in [Keys -> Nat]
    /\ lost \in [Keys -> Nat]

\* While Execute owns a row, no other row of its key is live: its later
\* by-id updates can neither hit the unique index nor revive a second live
\* row, whatever the resume scan and earlier, interrupted attempts left.
OwnerHoldsSlot ==
    \A p \in Callers : pc[p] \in Owning =>
        \A i \in RowsOf(key[p]) \ {id[p]} : status[i] = "failed"

\* The effect of a key is committed at most once for each receipt that was
\* not overwritten: as long as its receipt stands, a repeated call (after a
\* crash, a respawn, a second worker) replays it and never runs it again.
OncePerReceipt ==
    \A k \in Keys :
        committed[k] = lost[k] + (IF HasReceipt(k) THEN 1 ELSE 0)

\* A committed receipt is only ever lost to the resume scan's unguarded
\* MarkToolCallFailed; no path of Execute, crash included, undoes one.
ReceiptLostOnlyToScan ==
    [][\A i \in RowId : status[i] = "receipt" /\ status'[i] # "receipt" =>
          scan = i]_vars

\* Execute always returns: the keyed mutex and the single connection, held
\* across the effect, never wait for each other.
ExecuteReturns == \A p \in Callers : pc[p] # "idle" ~> pc[p] = "idle"

\* receipts.go: the receipt lookup "makes a resumed task double-execution-safe".
NoDoubleExecution == \A k \in Keys : committed[k] <= 1
=============================================================================
