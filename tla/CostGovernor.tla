---------------------------- MODULE CostGovernor ----------------------------
(***************************************************************************)
(* The Anthropic proxy of a task and the cost governor all proxies share   *)
(* (anthproxy/proxy.go, governor.go, retry.go).  A call is admitted against *)
(* the task's token ceiling and the day's and the month's budget, holds a  *)
(* reservation of its estimate while it is forwarded with inline retries,  *)
(* and is settled when its response body has been read.  Calls of several  *)
(* tasks are in flight at once; the governor's mutex makes one check, one  *)
(* record and one release atomic, and nothing more.                        *)
(*                                                                         *)
(* A call is one request of a worker.  Its price is its token count, or    *)
(* nothing for a model without a price row; the estimate is never below    *)
(* the usage, which is what estimateRequestLocked is written to achieve.   *)
(***************************************************************************)
EXTENDS Integers, FiniteSets, Sums

CONSTANTS Calls, CloudTasks, CallTask,
          Estimate,         \* tokens estimateRequestLocked reserves for a call
          Unpriced,         \* calls of a model PriceFor does not know
          TaskTokenCeiling, DailyBudget, MonthlyBudget,
          DowngradeAt, Alarm80At,  \* spend at which the two warnings are due
          MinCacheCalls,    \* minCallsForCacheHitAlarm
          MaxInline,        \* inline attempts of one call
          Keychain,         \* CredentialModeKeychain
          DaysPerMonth,
          MaxDay, MaxBoots  \* bounds: the last day, restarts

ASSUME GovernorAssumption ==
    /\ IsFiniteSet(Calls)   \* a daemon serves finitely many requests
    /\ CallTask \in [Calls -> CloudTasks]
    /\ Estimate \in [Calls -> Nat]
    /\ Unpriced \subseteq Calls
    /\ {TaskTokenCeiling, DailyBudget, MonthlyBudget, DowngradeAt, Alarm80At} \subseteq Nat
    /\ {MinCacheCalls, MaxInline, DaysPerMonth} \subseteq Nat \ {0}
    /\ Keychain \in BOOLEAN
    /\ {MaxDay, MaxBoots} \subseteq Nat

Days == 0..MaxDay
MonthOf(d) == d \div DaysPerMonth
Months == {MonthOf(d) : d \in Days}
AlarmKinds == {"downgrade", "alarm80", "alarm100", "cache"}
Usd(c, tokens) == IF c \in Unpriced THEN 0 ELSE tokens

VARIABLES
    perTask, daily, monthly,           \* completed totals, in memory
    reserved,                          \* reservations: call -> day, or -1
    resTask, resDay, resMonth,         \* the three reserved pools
    today,
    call,                              \* the calls
    modelCalls,                        \* ledgered model_call events
    warned,                            \* proxies that warned about the keychain
    boots,
    admitted,                          \* history: day of admission, or -1
    alarms,                            \* history: alarms of this daemon's life
    hooks                              \* history: parking and failure callbacks

govTotals == <<perTask, daily, monthly>>
govPools == <<reserved, resTask, resDay, resMonth>>
govVars == <<govTotals, govPools, today, call, modelCalls, warned, boots, admitted,
             alarms, hooks>>

NoAgg == [usd |-> 0, calls |-> 0, logged |-> {}]

GovInit ==
    /\ perTask = [t \in CloudTasks |-> 0]
    /\ daily = [d \in Days |-> NoAgg]
    /\ monthly = [m \in Months |-> 0]
    /\ reserved = [c \in Calls |-> -1]
    /\ resTask = [t \in CloudTasks |-> 0]
    /\ resDay = [d \in Days |-> 0]
    /\ resMonth = [m \in Months |-> 0]
    /\ today = 0
    /\ call = [c \in Calls |-> [pc |-> "new", attempt |-> 0, usage |-> 0, failed |-> FALSE]]
    /\ modelCalls = {}
    /\ warned = {}
    /\ boots = 0
    /\ admitted = [c \in Calls |-> -1]
    /\ alarms = [d \in Days |-> [k \in AlarmKinds |-> 0]]
    /\ hooks = [c \in Calls |-> {}]

CallAt(c, pc) == call[c].pc = pc
CallGoto(c, pc) == call' = [call EXCEPT ![c].pc = pc]

-----------------------------------------------------------------------------
(* ServeHTTP up to the admission. *)

\* A request without the proxy's token, refused by the egress gate, or whose
\* body cannot be read is answered before the governor sees it.
ServeRefused(c) ==
    /\ CallAt(c, "new")
    /\ CallGoto(c, "done")
    /\ UNCHANGED <<govTotals, govPools, today, modelCalls, warned, boots, admitted, alarms, hooks>>

EstUsd(c) == Usd(c, Estimate[c])

\* Defect: calls in flight are not counted against the limits.
BugLimitsIgnoreReserved(c) ==
    /\ perTask[CallTask[c]] + Estimate[c] <= TaskTokenCeiling
    /\ daily[today].usd + EstUsd(c) <= DailyBudget
    /\ monthly[MonthOf(today)] + EstUsd(c) <= MonthlyBudget

\* Defect: what the day has already cost is not counted.
BugDayCountsInFlightOnly(c) ==
    /\ perTask[CallTask[c]] + resTask[CallTask[c]] + Estimate[c] <= TaskTokenCeiling
    /\ resDay[today] + EstUsd(c) <= DailyBudget
    /\ monthly[MonthOf(today)] + resMonth[MonthOf(today)] + EstUsd(c) <= MonthlyBudget

\* The three limits, each on completed + reserved + estimate.
WithinLimits(c) ==
    /\ perTask[CallTask[c]] + resTask[CallTask[c]] + Estimate[c] <= TaskTokenCeiling
    /\ daily[today].usd + resDay[today] + EstUsd(c) <= DailyBudget
    /\ monthly[MonthOf(today)] + resMonth[MonthOf(today)] + EstUsd(c) <= MonthlyBudget

ReserveLocked(c) ==
    /\ reserved' = [reserved EXCEPT ![c] = today]
    /\ resTask' = [resTask EXCEPT ![CallTask[c]] = @ + Estimate[c]]
    /\ resDay' = [resDay EXCEPT ![today] = @ + EstUsd(c)]
    /\ resMonth' = [resMonth EXCEPT ![MonthOf(today)] = @ + EstUsd(c)]

CheckBeforeForward(c) ==
    /\ CallAt(c, "new")
    /\ WithinLimits(c)
    /\ ReserveLocked(c)
    /\ admitted' = [admitted EXCEPT ![c] = today]
    /\ CallGoto(c, IF Keychain THEN "credential" ELSE "send")
    /\ UNCHANGED <<govTotals, today, modelCalls, warned, boots, alarms, hooks>>

\* onBudgetBlocked parks the task until a person raises the budget.
BudgetBlocked(c) ==
    /\ CallAt(c, "new")
    /\ ~WithinLimits(c)
    /\ hooks' = [hooks EXCEPT ![c] = @ \cup {"paused"}]
    /\ CallGoto(c, "done")
    /\ UNCHANGED <<govTotals, govPools, today, modelCalls, warned, boots, admitted, alarms>>

\* The credential is read per request; an unreadable keychain is reported once
\* per proxy and the call answered with 503.
UpstreamAuth(c) ==
    /\ CallAt(c, "credential")
    /\ \/ CallGoto(c, "send") /\ UNCHANGED <<warned, hooks>>
       \/ /\ CallGoto(c, "release")
          /\ warned' = warned \cup {CallTask[c]}
          /\ hooks' = IF CallTask[c] \in warned THEN hooks
                      ELSE [hooks EXCEPT ![c] = @ \cup {"keychain"}]
    /\ UNCHANGED <<govTotals, govPools, today, modelCalls, boots, admitted, alarms>>

-----------------------------------------------------------------------------
(* The upstream call. *)

\* Defect: the loop ends one attempt early.
BugExhaustedEarly(n) == n + 1 >= MaxInline

\* The loop of RoundTrip ends without an answer after the nth attempt.
RetriesExhausted(n) == n >= MaxInline

\* Classify: an answer, a failure worth another attempt (429, 5xx, overload,
\* a broken connection), a status that is not, a transport error that is not.
Outcomes == {"ok", "retryable", "status", "transport"}

\* handleUpstreamError: the callback of a call that got no answer.
UpstreamErrorHook(outcome, n) ==
    CASE outcome = "retryable" /\ RetriesExhausted(n) -> {"unreachable"}
      [] outcome = "transport" -> {"failed"}
      [] OTHER -> {}

\* One attempt of RoundTrip, as Classify sees its outcome.  A retryable
\* failure is tried again until MaxInline; then the task is parked
\* (onCloudUnreachable).  A transport error that is not retryable fails the
\* task; a 4xx status keeps its body and is dealt with when that is read.
RoundTrip(c) ==
    /\ CallAt(c, "send")
    /\ \E outcome \in Outcomes :
          LET n == call[c].attempt + 1 IN
          /\ call' = [call EXCEPT ![c] =
                        [@ EXCEPT !.attempt = n,
                                  !.failed = outcome = "status",
                                  !.pc = CASE outcome \in {"ok", "status"} -> "stream"
                                           [] outcome = "retryable" /\ ~RetriesExhausted(n) -> "send"
                                           [] OTHER -> "release"]]
          /\ hooks' = [hooks EXCEPT ![c] = @ \cup UpstreamErrorHook(outcome, n)]
    /\ UNCHANGED <<govTotals, govPools, today, modelCalls, warned, boots, admitted, alarms>>

\* Defect: the month's pool is not given back.
BugReleaseKeepsMonth(c) ==
    IF reserved[c] = -1 THEN UNCHANGED govPools
    ELSE /\ reserved' = [reserved EXCEPT ![c] = -1]
         /\ resTask' = [resTask EXCEPT ![CallTask[c]] = @ - Estimate[c]]
         /\ resDay' = [resDay EXCEPT ![reserved[c]] = @ - EstUsd(c)]
         /\ UNCHANGED resMonth

\* Defect: an id that was released before is taken off the task's pool again.
BugReleaseTwice(c) ==
    /\ reserved' = [reserved EXCEPT ![c] = -1]
    /\ resTask' = [resTask EXCEPT ![CallTask[c]] = @ - Estimate[c]]
    /\ resDay' = [d \in Days |-> IF d = reserved[c] THEN resDay[d] - EstUsd(c) ELSE resDay[d]]
    /\ resMonth' = [m \in Months |-> IF reserved[c] # -1 /\ m = MonthOf(reserved[c])
                                       THEN resMonth[m] - EstUsd(c) ELSE resMonth[m]]

\* releaseLocked: an id that is not there (any more) is ignored.
ReleaseLocked(c) ==
    IF reserved[c] = -1 THEN UNCHANGED govPools
    ELSE /\ reserved' = [reserved EXCEPT ![c] = -1]
         /\ resTask' = [resTask EXCEPT ![CallTask[c]] = @ - Estimate[c]]
         /\ resDay' = [resDay EXCEPT ![reserved[c]] = @ - EstUsd(c)]
         /\ resMonth' = [resMonth EXCEPT ![MonthOf(reserved[c])] = @ - EstUsd(c)]

\* The warnings due once the day's total is usd after n calls.
Due(usd, n, cacheLow) ==
    (IF usd >= DowngradeAt THEN {"downgrade"} ELSE {})
      \cup (IF usd >= Alarm80At THEN {"alarm80"} ELSE {})
      \cup (IF usd >= DailyBudget THEN {"alarm100"} ELSE {})
      \cup (IF n >= MinCacheCalls /\ cacheLow THEN {"cache"} ELSE {})

\* Defect: the mark is forgotten.
BugNotMarked(d, fire) == daily[d].logged

\* A warning that fires is marked on the day's aggregate.
MarkLogged(d, fire) == daily[d].logged \cup fire

\* Defect: the task is charged its estimate.
BugRecordEstimate(c, used, fire) ==
    /\ perTask' = [perTask EXCEPT ![CallTask[c]] = @ + Estimate[c]]
    /\ daily' = [daily EXCEPT ![today] =
                    [usd |-> @.usd + Usd(c, used), calls |-> @.calls + 1,
                     logged |-> MarkLogged(today, fire)]]
    /\ monthly' = [monthly EXCEPT ![MonthOf(today)] = @ + Usd(c, used)]

\* recordLocked, and the marks of the warnings that fire with it.
RecordLocked(c, used, fire) ==
    /\ perTask' = [perTask EXCEPT ![CallTask[c]] = @ + used]
    /\ daily' = [daily EXCEPT ![today] =
                    [usd |-> @.usd + Usd(c, used), calls |-> @.calls + 1,
                     logged |-> MarkLogged(today, fire)]]
    /\ monthly' = [monthly EXCEPT ![MonthOf(today)] = @ + Usd(c, used)]

\* RecordUsage under the mutex: the reservation is replaced by what was used,
\* on the day it is now, and the warnings of that day fire once.  A body that
\* ends in an error counts the usage seen so far.
RecordUsage(c) ==
    /\ CallAt(c, "stream")
    /\ \E used \in 0..Estimate[c], cacheLow \in BOOLEAN :
          LET fire == Due(daily[today].usd + Usd(c, used), daily[today].calls + 1, cacheLow)
                        \ daily[today].logged
          IN /\ ReleaseLocked(c)
             /\ RecordLocked(c, used, fire)
             /\ alarms' = [alarms EXCEPT ![today] =
                             [k \in AlarmKinds |-> @[k] + IF k \in fire THEN 1 ELSE 0]]
             /\ call' = [call EXCEPT ![c] = [@ EXCEPT !.pc = "ledger", !.usage = used]]
    /\ UNCHANGED <<today, modelCalls, warned, boots, admitted, hooks>>

\* The end of wrapResponseBody's onDone: a 4xx that is not retryable fails the
\* task, after its usage was recorded.
NonRetryableHook(c) == IF call[c].failed THEN {"failed"} ELSE {}

\* After the mutex: the model_call event, stamped by the ledger with its own
\* clock, then the hook.
LedgerModelCall(c) ==
    /\ CallAt(c, "ledger")
    /\ modelCalls' = modelCalls \cup {[call |-> c, day |-> today, usage |-> call[c].usage]}
    /\ hooks' = [hooks EXCEPT ![c] = @ \cup NonRetryableHook(c)]
    /\ CallGoto(c, "release")
    /\ UNCHANGED <<govTotals, govPools, today, warned, boots, admitted, alarms>>

\* The worker hangs up while the response is copied: the body is closed
\* without a last Read, so onDone never runs.
StreamAborted(c) ==
    /\ CallAt(c, "stream")
    /\ CallGoto(c, "release")
    /\ UNCHANGED <<govTotals, govPools, today, modelCalls, warned, boots, admitted, alarms, hooks>>

\* Defect: nothing is released when ServeHTTP returns.
BugNoRelease(c) ==
    /\ CallAt(c, "release")
    /\ CallGoto(c, "done")
    /\ UNCHANGED <<govTotals, govPools, today, modelCalls, warned, boots, admitted, alarms, hooks>>

\* The deferred ReleaseReservation, on every way out of ServeHTTP.
ReleaseReservation(c) ==
    /\ CallAt(c, "release")
    /\ ReleaseLocked(c)
    /\ CallGoto(c, "done")
    /\ UNCHANGED <<govTotals, today, modelCalls, warned, boots, admitted, alarms, hooks>>

-----------------------------------------------------------------------------
NextDay ==
    /\ today < MaxDay
    /\ today' = today + 1
    /\ UNCHANGED <<govTotals, govPools, call, modelCalls, warned, boots, admitted, alarms, hooks>>

SumOf(S, Val(_)) == SumOn([x \in S |-> Val(x)], S)

\* The totals Boot replays from the ledger.
Booted(ms) ==
    [perTask |-> [t \in CloudTasks |->
        SumOf({m \in ms : CallTask[m.call] = t}, LAMBDA m : m.usage)],
     daily |-> [d \in Days |->
        [usd |-> SumOf({m \in ms : m.day = d}, LAMBDA m : Usd(m.call, m.usage)),
         calls |-> Cardinality({m \in ms : m.day = d}), logged |-> {}]],
     monthly |-> [x \in Months |->
        SumOf({m \in ms : MonthOf(m.day) = x}, LAMBDA m : Usd(m.call, m.usage))]]

\* The daemon dies and boots: totals come back from the ledger, reservations
\* and the flags of the warnings do not, and calls in flight are gone.
GovBoot ==
    /\ boots < MaxBoots
    /\ boots' = boots + 1
    /\ LET b == Booted(modelCalls) IN
          perTask' = b.perTask /\ daily' = b.daily /\ monthly' = b.monthly
    /\ reserved' = [c \in Calls |-> -1]
    /\ resTask' = [t \in CloudTasks |-> 0]
    /\ resDay' = [d \in Days |-> 0]
    /\ resMonth' = [m \in Months |-> 0]
    /\ warned' = {}
    /\ call' = [c \in Calls |-> IF CallAt(c, "new") THEN call[c] ELSE [call[c] EXCEPT !.pc = "done"]]
    /\ alarms' = [d \in Days |-> [k \in AlarmKinds |-> 0]]
    /\ UNCHANGED <<today, modelCalls, admitted, hooks>>

CallStep(c) ==
    \/ ServeRefused(c) \/ CheckBeforeForward(c) \/ BudgetBlocked(c) \/ UpstreamAuth(c)
    \/ RoundTrip(c) \/ RecordUsage(c) \/ LedgerModelCall(c) \/ StreamAborted(c)
    \/ ReleaseReservation(c)

GovNext == (\E c \in Calls : CallStep(c)) \/ NextDay \/ GovBoot

\* Each call is served by a goroutine of its own; upstream answers or fails.
GovFairness == \A c \in Calls : WF_govVars(CallStep(c))
GovSpec == GovInit /\ [][GovNext]_govVars /\ GovFairness

-----------------------------------------------------------------------------
GovTypeOK ==
    /\ perTask \in [CloudTasks -> Nat]
    /\ daily \in [Days -> [usd : Nat, calls : Nat, logged : SUBSET AlarmKinds]]
    /\ monthly \in [Months -> Nat]
    /\ reserved \in [Calls -> Days \cup {-1}]
    /\ resTask \in [CloudTasks -> Nat]
    /\ resDay \in [Days -> Nat]
    /\ resMonth \in [Months -> Nat]
    /\ today \in Days
    /\ call \in [Calls -> [pc : {"new", "credential", "send", "stream", "ledger", "release", "done"},
                           attempt : 0..MaxInline, usage : Nat, failed : BOOLEAN]]
    /\ modelCalls \subseteq [call : Calls, day : Days, usage : Nat]
    /\ warned \subseteq CloudTasks
    /\ boots \in 0..MaxBoots
    /\ admitted \in [Calls -> Days \cup {-1}]
    /\ alarms \in [Days -> [AlarmKinds -> Nat]]
    /\ hooks \in [Calls -> SUBSET {"paused", "keychain", "unreachable", "failed"}]

\* The pools are the sum of the outstanding reservations, although every call
\* is released twice (by RecordUsage and by the deferred call) and may be
\* released on a later day than it was reserved on.
PoolsMatchReservations ==
    LET Held == {c \in Calls : reserved[c] # -1} IN
    /\ \A t \in CloudTasks :
          resTask[t] = SumOf({c \in Held : CallTask[c] = t}, LAMBDA c : Estimate[c])
    /\ \A d \in Days : resDay[d] = SumOf({c \in Held : reserved[c] = d}, EstUsd)
    /\ \A m \in Months :
          resMonth[m] = SumOf({c \in Held : MonthOf(reserved[c]) = m}, EstUsd)

\* No interleaving of calls takes a task past its ceiling, counting what is
\* still in flight at its estimate.
TaskCeilingHolds ==
    \A t \in CloudTasks : perTask[t] + resTask[t] <= TaskTokenCeiling

\* What the calls admitted on a day have cost, or may still cost, stays within
\* that day's budget: whatever day they are settled on, and across restarts
\* as far as the ledger can tell.
DayBudgetHolds ==
    \A d \in Days :
       SumOf({c \in Calls : admitted[c] = d /\ reserved[c] # -1}, EstUsd)
       + SumOf({m \in modelCalls : admitted[m.call] = d /\ reserved[m.call] = -1},
               LAMBDA m : Usd(m.call, m.usage)) <= DailyBudget

\* A restart loses no spend that was ledgered and invents none: the totals in
\* memory are those of the ledger and of the calls on their way to it.
MemoryAgreesWithLedger ==
    LET b == Booted(modelCalls) IN
    /\ \A t \in CloudTasks :
          perTask[t] = b.perTask[t]
             + SumOf({c \in Calls : CallAt(c, "ledger") /\ CallTask[c] = t}, LAMBDA c : call[c].usage)
    /\ SumOf(Days, LAMBDA d : daily[d].usd) =
          SumOf(Days, LAMBDA d : b.daily[d].usd)
             + SumOf({c \in Calls : CallAt(c, "ledger")}, LAMBDA c : Usd(c, call[c].usage))

\* However many calls cross a threshold, its warning is raised once a day in
\* one life of the daemon.
WarnedOncePerDay == \A d \in Days, k \in AlarmKinds : alarms[d][k] <= 1

\* A task is parked or failed on account of a call at most once, and a call
\* parked as unreachable was tried to the last attempt and billed nothing.
OneVerdictPerCall ==
    \A c \in Calls :
       /\ Cardinality(hooks[c]) <= 1
       /\ "unreachable" \in hooks[c] =>
             call[c].attempt = MaxInline /\ \A m \in modelCalls : m.call # c

\* Every reservation is given back: an aborted or failed call does not hold
\* budget for ever.
ReservationsDrain == \A c \in Calls : (reserved[c] # -1) ~> (reserved[c] = -1)

\* The safety part: however calls, retries, day changes and restarts
\* interleave, reservations and totals agree, no ceiling or budget is passed by
\* admitted work, and the user is told once.
SpendAddsUp ==
    /\ PoolsMatchReservations
    /\ TaskCeilingHolds /\ DayBudgetHolds
    /\ MemoryAgreesWithLedger
    /\ WarnedOncePerDay /\ OneVerdictPerCall

\* The governor's promise: spend adds up, and nothing stays reserved for ever.
SpendIsAccounted == [](GovTypeOK /\ SpendAddsUp) /\ ReservationsDrain
=============================================================================
