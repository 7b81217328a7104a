---------------------------- MODULE ReceiptsProof ----------------------------
(***************************************************************************)
(* For any number of callers, keys, rows and crashes: the journal's type   *)
(* invariant, the ownership of a key's slot of the unique index, and the   *)
(* replay guarantee OncePerReceipt.                                        *)
(***************************************************************************)
EXTENDS Receipts, TLAPS

\* A caller past the mutex holds it: two callers inside have different keys.
MutexHeld == \A p \in Callers : pc[p] \notin Outside => lock[key[p]] = p

\* Rows are inserted in id order.
RowsAllocated == \A i \in RowId : i > nrows => status[i] = "absent"

\* An owned row is its owner's, inserted, and has no receipt yet.
RowOwned ==
    \A p \in Callers : pc[p] \in Owning =>
        /\ id[p] \in 1..nrows
        /\ rowKey[id[p]] = key[p]
        /\ status[id[p]] \in Receiptless \cup {"failed"}

\* idx_tool_calls_live_unique is never violated by a by-id update.
OneLiveRow ==
    \A i, j \in RowId :
        /\ status[i] \in Live
        /\ status[j] \in Live
        /\ rowKey[i] = rowKey[j]
        => i = j

ScanInserted == scan <= nrows

IInv ==
    /\ TypeOK
    /\ MutexHeld
    /\ RowsAllocated
    /\ RowOwned
    /\ OwnerHoldsSlot
    /\ OneLiveRow
    /\ ScanInserted
    /\ OncePerReceipt

\* Type correctness, the first conjunct of the inductive invariant: every
\* step of Execute, of the scan and of the environment keeps it.
LEMMA TypeStep == TypeOK /\ RowOwned /\ [Next]_vars => TypeOK'
<1> SUFFICES ASSUME TypeOK, RowOwned, [Next]_vars PROVE TypeOK'
  OBVIOUS
<1> USE ReceiptsAssumption DEF TypeOK, RowId, Statuses, Live, Receiptless, Steps,
        Outside, Owning, journal, history, system
<1>1. ASSUME NEW p \in Callers, NEW k \in Keys, Call(p, k) PROVE TypeOK'
  BY <1>1 DEF Call
<1>2. ASSUME NEW p \in Callers, Execute(p) PROVE TypeOK'
  <2>1. CASE Lock(p) BY <2>1 DEF Lock
  <2>2. CASE CheckReplay(p) BY <2>2 DEF CheckReplay, Return
  <2>3. CASE ClaimIntent(p)
    <3>1. nrows + 1 \in RowId /\ nrows' \in 0..MaxRows
      BY <2>3 DEF ClaimIntent
    <3>2. status' \in [RowId -> Statuses] /\ rowKey' \in [RowId -> Keys]
      BY <2>3, <3>1 DEF ClaimIntent
    <3>3. pc' \in [Callers -> Steps] /\ id' \in [Callers -> 0..MaxRows]
      BY <2>3, <3>1 DEF ClaimIntent
    <3> QED BY <2>3, <3>1, <3>2, <3>3 DEF ClaimIntent
  <2>4. CASE ClaimRefused(p) BY <2>4 DEF ClaimRefused, Return
  <2>5. CASE MarkExecuting(p) BY <2>5 DEF MarkExecuting
  <2>6. CASE BeginTx(p) BY <2>6 DEF BeginTx
  <2>7. CASE EffectDone(p) BY <2>7 DEF EffectDone
  <2>8. CASE Rollback(p) BY <2>8 DEF Rollback
  <2>9. CASE Commit(p)
    <3>1. status' \in [RowId -> Statuses]
      BY <2>9 DEF Commit
    <3>2. committed' \in [Keys -> Nat]
      BY <2>9 DEF Commit
    <3>3. pc' \in [Callers -> Steps] /\ lock' \in [Keys -> Callers \cup {NoCaller}]
      BY <2>9 DEF Commit, Return
    <3> QED BY <2>9, <3>1, <3>2, <3>3 DEF Commit
  <2>10. CASE FailAndReturn(p) BY <2>10 DEF FailAndReturn, Return
  <2>11. CASE DBError(p) BY <2>11 DEF DBError, Return
  <2> QED BY <1>2, <2>1, <2>2, <2>3, <2>4, <2>5, <2>6, <2>7, <2>8, <2>9, <2>10,
             <2>11 DEF Execute
<1>3. CASE WorkerExit BY <1>3 DEF WorkerExit
<1>4. CASE OrphanExit BY <1>4 DEF OrphanExit
<1>5. CASE Respawn BY <1>5 DEF Respawn
<1>6. CASE ScanList BY <1>6 DEF ScanList
<1>7. CASE ScanMark
  <2>1. scan \in RowId /\ scan' \in 0..MaxRows
    BY <1>7 DEF ScanMark
  <2>2. status' \in [RowId -> Statuses]
    BY <1>7, <2>1 DEF ScanMark
  <2>3. CASE status[scan] = "receipt"
    <3>1. rowKey[scan] \in Keys BY <2>1
    <3>2. lost' = [lost EXCEPT ![rowKey[scan]] = lost[rowKey[scan]] + 1]
      BY <1>7, <2>3 DEF ScanMark
    <3>3. lost' \in [Keys -> Nat] BY <3>1, <3>2
    <3> QED BY <1>7, <2>1, <2>2, <3>3 DEF ScanMark
  <2>4. CASE status[scan] # "receipt"
    <3>1. lost' = lost BY <1>7, <2>4 DEF ScanMark
    <3> QED BY <1>7, <2>1, <2>2, <3>1 DEF ScanMark
  <2> QED BY <2>3, <2>4
<1>8. CASE Crash
  <2>1. orphan' \in BOOLEAN /\ live' \in BOOLEAN
    BY <1>8, Zenon DEF Crash
  <2>2. crashes' \in 0..MaxCrashes /\ tx' \in Callers \cup {NoCaller}
    BY <1>8 DEF Crash
  <2>3. pc' \in [Callers -> Steps] /\ lock' \in [Keys -> Callers \cup {NoCaller}]
    BY <1>8 DEF Crash
  <2> QED BY <1>8, <2>1, <2>2, <2>3 DEF Crash
<1>9. CASE UNCHANGED vars BY <1>9 DEF vars
<1> QED BY <1>1, <1>2, <1>3, <1>4, <1>5, <1>6, <1>7, <1>8, <1>9 DEF Next
\* A step that keeps the rows, each caller's key and row, and the counters
\* keeps the facts about rows; only a caller that enters Owning needs care,
\* and none of these steps lets one enter.
LEMMA SameRows ==
    ASSUME IInv, TypeOK', UNCHANGED <<journal, history, key, id>>,
           scan' \in {0, scan},
           \A p \in Callers : pc'[p] \in Owning => pc[p] \in Owning,
           MutexHeld'
    PROVE  IInv'
<1> USE DEF IInv, journal, history
<1>1. RowsAllocated' /\ OneLiveRow'
  BY DEF RowsAllocated, OneLiveRow
<1>2. RowOwned' BY DEF RowOwned
<1>3. OwnerHoldsSlot' BY DEF OwnerHoldsSlot, RowsOf
<1>4. ScanInserted' BY DEF ScanInserted, TypeOK
<1>5. OncePerReceipt' BY DEF OncePerReceipt, HasReceipt, RowsOf
<1> QED BY <1>1, <1>2, <1>3, <1>4, <1>5

\* Releasing a key's mutex leaves every other caller's alone.
LEMMA ReturnKeepsMutex ==
    ASSUME TypeOK, MutexHeld, NEW p \in Callers, Return(p), UNCHANGED key,
           pc[p] \notin Outside
    PROVE  /\ MutexHeld'
           /\ pc'[p] \notin Owning
           /\ \A q \in Callers \ {p} : pc'[q] = pc[q]
BY ReceiptsAssumption DEF TypeOK, MutexHeld, Return, Owning, Outside

\* Overwriting one inserted row's status with a non-live status.
LEMMA FailRow ==
    ASSUME IInv, TypeOK', NEW r \in RowId, r <= nrows,
           status' = [status EXCEPT ![r] = "failed"],
           UNCHANGED <<rowKey, nrows, committed, key, id>>,
           scan' \in {0, scan},
           \A p \in Callers : pc'[p] \in Owning => pc[p] \in Owning,
           MutexHeld',
           OncePerReceipt'
    PROVE  IInv'
<1> USE DEF IInv
<1>0. \A i \in RowId : status'[i] = IF i = r THEN "failed" ELSE status[i]
  BY DEF TypeOK
<1>1. RowsAllocated' BY <1>0 DEF RowsAllocated, TypeOK, RowId
<1>2. OneLiveRow' BY <1>0 DEF OneLiveRow, Live, Receiptless
<1>3. RowOwned' BY <1>0 DEF RowOwned, RowId, TypeOK, Receiptless
<1>4. OwnerHoldsSlot'
  BY <1>0 DEF OwnerHoldsSlot, RowsOf, RowOwned, RowId, TypeOK
<1>5. ScanInserted' BY DEF ScanInserted, TypeOK
<1> QED BY <1>1, <1>2, <1>3, <1>4, <1>5

\* The row a caller owns may become executing again: no other row of its key
\* is live, so the unique index still holds.
LEMMA MarkStep ==
    ASSUME IInv, TypeOK', NEW p \in Callers, MarkExecuting(p)
    PROVE  IInv'
<1> USE DEF IInv
<1>0. /\ pc[p] \in Owning /\ pc[p] \notin Outside
      /\ id[p] \in RowId
      /\ \A i \in RowId : status'[i] = IF i = id[p] THEN "executing" ELSE status[i]
      /\ UNCHANGED <<rowKey, nrows, history, lock, key, id, scan>>
      /\ pc' = [pc EXCEPT ![p] = "begin"]
  BY DEF MarkExecuting, TypeOK, RowOwned, Owning, Outside, RowId, system
<1>1. MutexHeld' BY <1>0 DEF MutexHeld, TypeOK, Outside
<1>2. RowsAllocated' BY <1>0 DEF RowsAllocated, RowOwned, TypeOK, RowId
<1>3. RowOwned'
  <2>1. \A q \in Callers : pc'[q] \in Owning => pc[q] \in Owning
    BY <1>0 DEF TypeOK
  <2>2. \A i \in RowId : status[i] \in Receiptless \cup {"failed"}
                        => status'[i] \in Receiptless \cup {"failed"}
    BY <1>0 DEF Receiptless
  <2>3. \A i \in 1..nrows : i \in RowId
    BY ReceiptsAssumption DEF RowId, TypeOK
  <2> QED BY <1>0, <2>1, <2>2, <2>3 DEF RowOwned
<1>4. OwnerHoldsSlot'
  <2> SUFFICES ASSUME NEW q \in Callers, pc'[q] \in Owning,
                      NEW i \in RowsOf(key[q])', i # id[q]
               PROVE  status'[i] = "failed"
    BY <1>0 DEF OwnerHoldsSlot
  <2>1. pc[q] \in Owning BY <1>0 DEF TypeOK
  <2>2. i # id[p]
    <3>1. SUFFICES ASSUME i = id[p] PROVE FALSE OBVIOUS
    <3>2. key[q] = key[p] BY <1>0, <3>1 DEF RowsOf, RowOwned
    <3>3. q # p BY <3>1
    <3>4. lock[key[p]] = p /\ lock[key[q]] = q
      BY <1>0, <2>1 DEF MutexHeld, Owning, Outside
    <3> QED BY <3>2, <3>3, <3>4
  <2>3. i \in RowsOf(key[q]) /\ status'[i] = status[i]
    BY <1>0, <2>2 DEF RowsOf
  <2>4. status[i] = "failed" BY <2>1, <2>3 DEF OwnerHoldsSlot
  <2> QED BY <2>3, <2>4
<1>5. OneLiveRow'
  <2>1. \A i \in RowId \ {id[p]} : rowKey[i] = key[p] => status[i] \notin Live
    BY <1>0 DEF OwnerHoldsSlot, RowsOf, Live, Receiptless
  <2>2. rowKey[id[p]] = key[p] BY <1>0 DEF RowOwned
  <2> QED BY <1>0, <2>1, <2>2 DEF OneLiveRow
<1>6. ScanInserted' BY <1>0 DEF ScanInserted
<1>7. OncePerReceipt'
  <2>1. status[id[p]] # "receipt" /\ status[id[p]] # "absent"
    BY <1>0 DEF RowOwned, Receiptless
  <2>2. \A k \in Keys : HasReceipt(k)' <=> HasReceipt(k)
    BY <1>0, <2>1 DEF HasReceipt, RowsOf
  <2> QED BY <1>0, <2>2 DEF OncePerReceipt, history
<1> QED BY <1>1, <1>2, <1>3, <1>4, <1>5, <1>6, <1>7
\* A new row takes the free slot of its key.
LEMMA ClaimStep ==
    ASSUME IInv, TypeOK', NEW p \in Callers, ClaimIntent(p)
    PROVE  IInv'
<1> USE DEF IInv
<1>0. /\ nrows + 1 \in RowId
      /\ \A i \in RowId : status'[i] = IF i = nrows + 1 THEN "intent" ELSE status[i]
      /\ \A i \in RowId : rowKey'[i] = IF i = nrows + 1 THEN key[p] ELSE rowKey[i]
      /\ \A q \in Callers : id'[q] = IF q = p THEN nrows + 1 ELSE id[q]
      /\ \A q \in Callers : pc'[q] = IF q = p THEN "mark" ELSE pc[q]
      /\ nrows' = nrows + 1
      /\ UNCHANGED <<history, lock, key, scan>>
  BY ReceiptsAssumption DEF ClaimIntent, TypeOK, RowId, system
<1>1. MutexHeld' BY <1>0 DEF MutexHeld, Outside, ClaimIntent
<1>2. RowsAllocated' BY <1>0 DEF RowsAllocated, RowId, TypeOK
<1>3. status[nrows + 1] = "absent"
  BY <1>0 DEF RowsAllocated, RowId, TypeOK
<1>4. \A i \in RowId : i # nrows + 1 /\ rowKey[i] = key[p] => status[i] \notin Live
  BY <1>0 DEF ClaimIntent, SlotTaken, RowsOf, Live, Receiptless
<1>5. RowOwned'
  <2> SUFFICES ASSUME NEW q \in Callers, pc'[q] \in Owning
               PROVE  /\ id'[q] \in 1..nrows'
                      /\ rowKey'[id'[q]] = key'[q]
                      /\ status'[id'[q]] \in Receiptless \cup {"failed"}
    BY DEF RowOwned
  <2>1. CASE q = p
    <3>1. id'[q] = nrows + 1 /\ nrows + 1 \in 1..nrows'
      BY <1>0, <2>1, ReceiptsAssumption DEF TypeOK, RowId
    <3> QED BY <1>0, <2>1, <3>1 DEF Receiptless
  <2>2. CASE q # p
    <3>1. pc[q] \in Owning BY <1>0, <2>2
    <3>2. id[q] \in 1..nrows /\ id[q] \in RowId /\ id[q] # nrows + 1
      BY <3>1, ReceiptsAssumption DEF RowOwned, RowId, TypeOK
    <3> QED BY <1>0, <2>2, <3>1, <3>2, ReceiptsAssumption
            DEF RowOwned, Receiptless, TypeOK
  <2> QED BY <2>1, <2>2
<1>6. OwnerHoldsSlot'
  <2> SUFFICES ASSUME NEW q \in Callers, pc'[q] \in Owning,
                      NEW i \in RowId, status'[i] # "absent",
                      rowKey'[i] = key[q], i # id'[q]
               PROVE  status'[i] = "failed"
    BY <1>0 DEF OwnerHoldsSlot, RowsOf
  <2>1. CASE q = p
    <3>1. i # nrows + 1 /\ status'[i] = status[i] /\ rowKey[i] = key[p]
      BY <1>0, <2>1
    <3>2. status[i] \in Statuses /\ status[i] \notin Live BY <1>4, <3>1 DEF TypeOK
    <3> QED BY <3>1, <3>2 DEF Statuses, Live
  <2>2. CASE q # p
    <3>1. pc[q] \in Owning BY <1>0, <2>2
    <3>2. key[q] # key[p]
      BY <1>0, <2>2, <3>1 DEF MutexHeld, Owning, Outside, ClaimIntent
    <3>3. i # nrows + 1 /\ status'[i] = status[i] /\ rowKey[i] = key[q]
      BY <1>0, <3>2
    <3>4. i \in RowsOf(key[q]) \ {id[q]} BY <1>0, <2>2, <3>3 DEF RowsOf
    <3> QED BY <3>1, <3>3, <3>4 DEF OwnerHoldsSlot
  <2> QED BY <2>1, <2>2
<1>7. OneLiveRow' BY <1>0, <1>4 DEF OneLiveRow
<1>8. ScanInserted' BY <1>0, ReceiptsAssumption DEF ScanInserted, TypeOK
<1>9. OncePerReceipt'
  <2>1. \A k \in Keys : HasReceipt(k)' <=> HasReceipt(k)
    BY <1>0, <1>3 DEF HasReceipt, RowsOf
  <2> QED BY <1>0, <2>1 DEF OncePerReceipt, history
<1> QED BY <1>1, <1>2, <1>5, <1>6, <1>7, <1>8, <1>9

\* The commit turns the owner's row, the only row of its key that is not
\* failed and not a receipt itself, into the key's one receipt.
LEMMA CommitStep ==
    ASSUME IInv, TypeOK', NEW p \in Callers, Commit(p)
    PROVE  IInv'
<1> USE DEF IInv
<1>0. /\ pc[p] \in Owning /\ pc[p] \notin Outside
      /\ id[p] \in RowId
      /\ id[p] <= nrows
      /\ \A i \in RowId : status'[i] = IF i = id[p] THEN "receipt" ELSE status[i]
      /\ \A k \in Keys : committed'[k] = IF k = key[p] THEN committed[k] + 1
                                         ELSE committed[k]
      /\ UNCHANGED <<rowKey, nrows, lost, key, id, scan>>
      /\ Return(p)
  BY ReceiptsAssumption DEF Commit, TypeOK, RowOwned, Owning, Outside, RowId, system
<1>1. /\ MutexHeld'
      /\ pc'[p] \notin Owning
      /\ \A q \in Callers \ {p} : pc'[q] = pc[q]
  BY <1>0, ReturnKeepsMutex
<1>2. RowsAllocated' BY <1>0 DEF RowsAllocated, RowId, TypeOK
<1>3. \A q \in Callers : pc'[q] \in Owning =>
         pc[q] \in Owning /\ key[q] # key[p]
  BY <1>0, <1>1 DEF MutexHeld, Owning, Outside
<1>4. rowKey[id[p]] = key[p] /\ status[id[p]] \notin {"receipt", "absent"}
  BY <1>0 DEF RowOwned, Receiptless
<1>5. RowOwned'
  <2> SUFFICES ASSUME NEW q \in Callers, pc'[q] \in Owning
               PROVE  /\ id[q] \in 1..nrows
                      /\ rowKey[id[q]] = key[q]
                      /\ status'[id[q]] \in Receiptless \cup {"failed"}
    BY <1>0 DEF RowOwned
  <2>1. pc[q] \in Owning /\ key[q] # key[p] BY <1>3
  <2>2. id[q] \in RowId /\ id[q] # id[p]
    BY <1>4, <2>1, ReceiptsAssumption DEF RowOwned, RowId, TypeOK
  <2> QED BY <1>0, <2>1, <2>2 DEF RowOwned
<1>6. OwnerHoldsSlot'
  <2> SUFFICES ASSUME NEW q \in Callers, pc'[q] \in Owning,
                      NEW i \in RowId, status'[i] # "absent",
                      rowKey[i] = key[q], i # id[q]
               PROVE  status'[i] = "failed"
    BY <1>0 DEF OwnerHoldsSlot, RowsOf
  <2>1. i # id[p] /\ status'[i] = status[i] BY <1>0, <1>3, <1>4
  <2>2. i \in RowsOf(key[q]) \ {id[q]} BY <2>1 DEF RowsOf
  <2> QED BY <1>3, <2>1, <2>2 DEF OwnerHoldsSlot
<1>7. \A i \in RowId \ {id[p]} : rowKey[i] = key[p] => status[i] \notin Live
  BY <1>0 DEF OwnerHoldsSlot, RowsOf, Live, Receiptless
<1>8. OneLiveRow' BY <1>0, <1>4, <1>7 DEF OneLiveRow
<1>9. ScanInserted' BY <1>0 DEF ScanInserted
<1>10. OncePerReceipt'
  <2>1. ~HasReceipt(key[p])
    BY <1>4, <1>7 DEF HasReceipt, RowsOf, Live
  <2>2. HasReceipt(key[p])' BY <1>0, <1>4 DEF HasReceipt, RowsOf
  <2>3. \A k \in Keys : k # key[p] => (HasReceipt(k)' <=> HasReceipt(k))
    BY <1>0, <1>4 DEF HasReceipt, RowsOf
  <2>4. key[p] \in Keys BY DEF TypeOK
  <2> QED BY <1>0, <2>1, <2>2, <2>3, <2>4 DEF OncePerReceipt, TypeOK
<1> QED BY <1>1, <1>2, <1>5, <1>6, <1>8, <1>9, <1>10
\* The initial states satisfy the inductive invariant: no rows, no callers.
LEMMA InitInv == Init => IInv
<1> SUFFICES ASSUME Init PROVE IInv
  OBVIOUS
<1> USE ReceiptsAssumption DEF Init
<1>0. (CHOOSE k \in Keys : TRUE) \in Keys OBVIOUS
<1>1. TypeOK
  <2>1. status \in [RowId -> Statuses] /\ rowKey \in [RowId -> Keys]
    BY <1>0 DEF Statuses
  <2>2. pc \in [Callers -> Steps] /\ key \in [Callers -> Keys]
    BY <1>0 DEF Steps, Outside
  <2>3. lock \in [Keys -> Callers \cup {NoCaller}] /\ tx \in Callers \cup {NoCaller}
    OBVIOUS
  <2>4. live \in BOOLEAN /\ orphan \in BOOLEAN OBVIOUS
  <2>5. nrows \in 0..MaxRows /\ scan \in 0..MaxRows /\ crashes \in 0..MaxCrashes
    OBVIOUS
  <2>6. /\ id \in [Callers -> 0..MaxRows]
        /\ committed \in [Keys -> Nat] /\ lost \in [Keys -> Nat]
    OBVIOUS
  <2> QED BY <2>1, <2>2, <2>3, <2>4, <2>5, <2>6 DEF TypeOK
<1>2. MutexHeld /\ RowsAllocated /\ RowOwned /\ OwnerHoldsSlot /\ OneLiveRow
  BY DEF MutexHeld, RowsAllocated, RowOwned, OwnerHoldsSlot, OneLiveRow, Owning,
         Outside, Live, Receiptless
<1>3. ScanInserted BY DEF ScanInserted
<1>4. OncePerReceipt BY DEF OncePerReceipt, HasReceipt, RowsOf
<1> QED BY <1>1, <1>2, <1>3, <1>4 DEF IInv

\* Every step of the journal keeps the inductive invariant.
LEMMA NextInv == IInv /\ [Next]_vars => IInv'
<1> SUFFICES ASSUME IInv, [Next]_vars PROVE IInv'
  OBVIOUS
<1>t. TypeOK' BY TypeStep DEF IInv
<1>i. TypeOK /\ MutexHeld BY DEF IInv
<1>r. RowOwned BY DEF IInv
<1>a. RowsAllocated BY DEF IInv
<1>o. OneLiveRow BY DEF IInv
<1>c. OncePerReceipt BY DEF IInv
<1>1. ASSUME NEW p \in Callers, NEW k \in Keys, Call(p, k) PROVE IInv'
  <2>1. pc' = [pc EXCEPT ![p] = "lock"] /\ key' = [key EXCEPT ![p] = k]
        /\ UNCHANGED <<journal, history, lock, id, scan>> /\ pc[p] = "idle"
    BY <1>1 DEF Call, system
  <2>2. MutexHeld' BY <1>i, <2>1 DEF MutexHeld, TypeOK, Outside
  <2>3. \A q \in Callers : pc'[q] \in Owning => q # p /\ pc[q] \in Owning /\ key'[q] = key[q]
    BY <1>i, <2>1 DEF TypeOK, Owning
  <2>4. RowOwned' BY <2>1, <2>3 DEF IInv, RowOwned, journal
  <2>5. OwnerHoldsSlot' BY <2>1, <2>3 DEF IInv, OwnerHoldsSlot, RowsOf, journal
  <2>6. OncePerReceipt' BY <2>1 DEF IInv, OncePerReceipt, HasReceipt, RowsOf, journal, history
  <2> QED BY <1>t, <2>1, <2>2, <2>4, <2>5, <2>6
          DEF IInv, RowsAllocated, OneLiveRow, ScanInserted, journal
<1>2. ASSUME NEW p \in Callers, Execute(p) PROVE IInv'
  <2>1. CASE Lock(p)
    <3>1. MutexHeld'
      BY <1>i, <2>1, ReceiptsAssumption DEF Lock, MutexHeld, TypeOK, Outside
    <3> QED BY <1>i, <1>t, <2>1, <3>1, SameRows DEF Lock, system, Owning, TypeOK
  <2>2. CASE CheckReplay(p)
    <3>1. CASE HasReceipt(key[p])
      <4>1. Return(p) /\ UNCHANGED <<journal, history, key, id, scan>> /\ pc[p] \notin Outside
        BY <2>2, <3>1 DEF CheckReplay, system, Outside
      <4> QED BY <1>i, <1>t, <4>1, ReturnKeepsMutex, SameRows
    <3>2. CASE ~HasReceipt(key[p])
      <4>1. MutexHeld' BY <1>i, <2>2, <3>2 DEF CheckReplay, MutexHeld, TypeOK, Outside
      <4> QED BY <1>i, <1>t, <2>2, <3>2, <4>1, SameRows DEF CheckReplay, system, Owning, TypeOK
    <3> QED BY <3>1, <3>2
  <2>3. CASE ClaimIntent(p) BY <1>t, <2>3, ClaimStep
  <2>4. CASE ClaimRefused(p)
    <3>1. Return(p) /\ UNCHANGED <<journal, history, key, id, scan>> /\ pc[p] \notin Outside
      BY <2>4 DEF ClaimRefused, system, Outside
    <3> QED BY <1>i, <1>t, <3>1, ReturnKeepsMutex, SameRows
  <2>5. CASE MarkExecuting(p) BY <1>t, <2>5, MarkStep
  <2>6. CASE BeginTx(p)
    <3>1. MutexHeld' BY <1>i, <2>6 DEF BeginTx, MutexHeld, TypeOK, Outside
    <3> QED BY <1>i, <1>t, <2>6, <3>1, SameRows DEF BeginTx, system, Owning, TypeOK
  <2>7. CASE EffectDone(p)
    <3>1. MutexHeld' BY <1>i, <2>7 DEF EffectDone, MutexHeld, TypeOK, Outside
    <3> QED BY <1>i, <1>t, <2>7, <3>1, SameRows DEF EffectDone, system, Owning, TypeOK
  <2>8. CASE Rollback(p)
    <3>1. MutexHeld' BY <1>i, <2>8 DEF Rollback, MutexHeld, TypeOK, Outside
    <3> QED BY <1>i, <1>t, <2>8, <3>1, SameRows DEF Rollback, system, Owning, TypeOK
  <2>9. CASE Commit(p) BY <1>t, <2>9, CommitStep
  <2>10. CASE FailAndReturn(p)
    <3>1. /\ Return(p)
          /\ status' = [status EXCEPT ![id[p]] = "failed"]
          /\ UNCHANGED <<rowKey, nrows, history, key, id, scan>>
          /\ pc[p] \in Owning /\ pc[p] \notin Outside
      BY <2>10 DEF FailAndReturn, system, Outside, Owning
    <3>2. /\ id[p] \in RowId /\ id[p] <= nrows
          /\ status[id[p]] # "receipt" /\ status[id[p]] # "absent"
      <4>1. id[p] \in 1..nrows /\ status[id[p]] \in Receiptless \cup {"failed"}
        BY <1>r, <3>1 DEF RowOwned
      <4>2. nrows \in 0..MaxRows BY <1>i DEF TypeOK
      <4>3. id[p] \in RowId /\ id[p] <= nrows
        BY <4>1, <4>2, ReceiptsAssumption DEF RowId
      <4> QED BY <4>1, <4>3 DEF Receiptless
    <3>3. /\ MutexHeld'
          /\ \A q \in Callers : pc'[q] \in Owning => pc[q] \in Owning
      BY <1>i, <3>1, ReturnKeepsMutex
    <3>4. \A k \in Keys : HasReceipt(k)' <=> HasReceipt(k)
      BY <1>i, <3>1, <3>2 DEF HasReceipt, RowsOf, TypeOK
    <3>5. OncePerReceipt' BY <3>1, <3>4 DEF IInv, OncePerReceipt, history
    <3> QED BY <1>t, <3>1, <3>2, <3>3, <3>5, FailRow DEF history
  <2>11. CASE DBError(p)
    <3>1. Return(p) /\ UNCHANGED <<journal, history, key, id, scan>> /\ pc[p] \notin Outside
      BY <2>11 DEF DBError, system, Outside
    <3> QED BY <1>i, <1>t, <3>1, ReturnKeepsMutex, SameRows
  <2> QED BY <1>2, <2>1, <2>2, <2>3, <2>4, <2>5, <2>6, <2>7, <2>8, <2>9, <2>10,
             <2>11 DEF Execute
<1>3. CASE WorkerExit \/ OrphanExit \/ Respawn
  <2>1. UNCHANGED <<journal, history, lock, pc, key, id, scan>>
    BY <1>3 DEF WorkerExit, OrphanExit, Respawn
  <2>2. MutexHeld' BY <1>i, <2>1 DEF MutexHeld
  <2> QED BY <1>t, <2>1, <2>2, SameRows
<1>6. CASE ScanList
  <2>1. /\ UNCHANGED <<journal, history, lock, pc, key, id>>
        /\ scan' \in RowId /\ status[scan'] \in Receiptless
    BY <1>6 DEF ScanList
  <2>2. scan' <= nrows
    <3>1. status[scan'] # "absent" BY <2>1 DEF Receiptless
    <3> QED BY <1>i, <1>a, <2>1, <3>1, ReceiptsAssumption DEF RowsAllocated, RowId, TypeOK
  <2> QED BY <1>t, <2>1, <2>2 DEF IInv, MutexHeld, RowsAllocated, RowOwned, OwnerHoldsSlot,
             RowsOf, OneLiveRow, ScanInserted, OncePerReceipt, HasReceipt, journal, history
<1>7. CASE ScanMark
  <2>1. /\ UNCHANGED <<rowKey, nrows, committed, lock, pc, key, id>>
        /\ status' = [status EXCEPT ![scan] = "failed"]
        /\ scan' = 0
        /\ scan \in RowId /\ scan <= nrows
    BY <1>7, <1>i, ReceiptsAssumption DEF ScanMark, IInv, ScanInserted, RowId, TypeOK
  <2>2. MutexHeld' BY <1>i, <2>1 DEF MutexHeld
  <2>3. OncePerReceipt'
    <3>1. CASE status[scan] = "receipt"
      <4>0. PICK r \in Keys : r = rowKey[scan] BY <1>i, <2>1 DEF TypeOK
      <4>1. \A k \in Keys : lost'[k] = IF k = r THEN lost[k] + 1 ELSE lost[k]
        BY <1>7, <1>i, <2>1, <3>1, <4>0 DEF ScanMark, TypeOK
      <4>2. HasReceipt(r) BY <2>1, <3>1, <4>0 DEF HasReceipt, RowsOf
      <4>3. ~HasReceipt(r)'
        <5>1. \A i \in RowId \ {scan} : rowKey[i] = r => status[i] # "receipt"
          BY <1>o, <2>1, <3>1, <4>0 DEF OneLiveRow, Live
        <5>2. \A i \in RowId : status'[i] = "receipt" => i # scan /\ status[i] = "receipt"
          BY <1>i, <2>1 DEF TypeOK
        <5> QED BY <2>1, <5>1, <5>2 DEF HasReceipt, RowsOf
      <4>4. \A k \in Keys : k # r => (HasReceipt(k)' <=> HasReceipt(k))
        BY <1>i, <2>1, <4>0 DEF HasReceipt, RowsOf, TypeOK
      <4>6. committed' = committed /\ lost \in [Keys -> Nat] BY <1>i, <2>1 DEF TypeOK
      <4> QED BY <1>c, <4>1, <4>2, <4>3, <4>4, <4>6 DEF OncePerReceipt
    <3>2. CASE status[scan] # "receipt"
      <4>1. lost' = lost BY <1>7, <3>2 DEF ScanMark
      <4>2. \A k \in Keys : HasReceipt(k)' <=> HasReceipt(k)
        BY <1>i, <2>1, <3>2 DEF HasReceipt, RowsOf, TypeOK
      <4> QED BY <2>1, <4>1, <4>2 DEF IInv, OncePerReceipt
    <3> QED BY <3>1, <3>2
  <2> QED BY <1>t, <2>1, <2>2, <2>3, FailRow
<1>8. CASE Crash
  <2>1. /\ UNCHANGED <<journal, history, key, id>> /\ scan' = 0
        /\ pc' = [q \in Callers |-> "idle"]
    BY <1>8 DEF Crash
  <2>2. MutexHeld' BY <2>1 DEF MutexHeld, Outside
  <2> QED BY <1>t, <2>1, <2>2, SameRows DEF Owning
<1>9. CASE UNCHANGED vars
  <2>1. UNCHANGED <<journal, history, lock, pc, key, id, scan>>
    BY <1>9 DEF vars, journal, history
  <2>2. MutexHeld' BY <1>i, <2>1 DEF MutexHeld
  <2> QED BY <1>t, <2>1, <2>2, SameRows
<1> QED BY <1>1, <1>2, <1>3, <1>6, <1>7, <1>8, <1>9 DEF Next

\* The inductive invariant holds in every reachable state.
THEOREM InductiveInvariant == Spec => []IInv
BY InitInv, NextInv, PTL DEF Spec

\* Type correctness of the journal, its callers and the scan.
THEOREM TypeCorrect == Spec => []TypeOK
BY InductiveInvariant, PTL DEF IInv

\* A caller between claimIntent and its return shares its key's slot with no
\* other live row, whatever crashes and the scan did before.
THEOREM SlotOwned == Spec => []OwnerHoldsSlot
BY InductiveInvariant, PTL DEF IInv

\* Replay: an effect is committed again only after its receipt was overwritten.
THEOREM EffectOncePerReceipt == Spec => []OncePerReceipt
BY InductiveInvariant, PTL DEF IInv

\* Only the resume scan's unguarded MarkToolCallFailed can overwrite a receipt.
THEOREM OnlyScanLosesReceipt == Spec => ReceiptLostOnlyToScan
<1> DEFINE A == \A i \in RowId : status[i] = "receipt" /\ status'[i] # "receipt" => scan = i
<1>1. IInv /\ [Next]_vars => [A]_vars
  <2> SUFFICES ASSUME IInv, Next PROVE A
    BY DEF vars
  <2>0. TypeOK /\ RowOwned /\ RowsAllocated BY DEF IInv
  <2>1. ASSUME NEW p \in Callers, Execute(p) PROVE A
    <3>1. CASE ClaimIntent(p)
      BY <2>0, <3>1, ReceiptsAssumption DEF ClaimIntent, TypeOK, RowsAllocated, RowId
    <3>2. CASE MarkExecuting(p)
      BY <2>0, <3>2 DEF MarkExecuting, TypeOK, RowOwned, Owning, Receiptless
    <3>3. CASE Commit(p) BY <2>0, <3>3 DEF Commit, TypeOK
    <3>4. CASE FailAndReturn(p)
      BY <2>0, <3>4 DEF FailAndReturn, TypeOK, RowOwned, Owning, Receiptless
    <3> QED BY <2>1, <3>1, <3>2, <3>3, <3>4 DEF Execute, Lock, CheckReplay, ClaimRefused,
               BeginTx, EffectDone, Rollback, DBError, journal
  <2>2. CASE ScanMark BY <2>0, <2>2 DEF ScanMark, TypeOK
  <2>3. ASSUME NEW p \in Callers, NEW k \in Keys, Call(p, k) PROVE A
    BY <2>3 DEF Call, journal
  <2> QED BY <2>1, <2>2, <2>3 DEF Next, WorkerExit, OrphanExit, Respawn, ScanList, Crash, journal
<1> QED BY <1>1, InductiveInvariant, PTL DEF Spec, ReceiptLostOnlyToScan
=============================================================================
