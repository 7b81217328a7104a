----------------------------- MODULE EgressGate -----------------------------
(***************************************************************************)
(* The egress gate and the forward proxy behind it (egress/gate.go,        *)
(* proxy.go, budget.go, host.go, sensitive.go, proxy_session.go): every    *)
(* connection of a container or of the Anthropic proxy is checked against  *)
(* the allowlist and the host's daily byte budget, its name is resolved    *)
(* once and the checked address is the one dialled, and what it carried is *)
(* metered when it ends.  Connections run concurrently; Check and          *)
(* MeterUsage hold the gate's mutex, the rest of a connection does not.    *)
(*                                                                         *)
(* A host name is given in one of several spellings; addresses are only    *)
(* told apart as public or private.                                        *)
(***************************************************************************)
EXTENDS Integers, FiniteSets, Sums

CONSTANTS Conns, Sessions, Spellings, Hosts, NoHost, NoSession,
          ConnSession, \* the session whose proxy token it presents
          Canonical,   \* host of each spelling, NoHost for one that is invalid
          Allowed,     \* hosts the policy lists for the port asked for
          Literal,     \* hosts that are private address literals
          ByteBudget, MaxBytes, LastDay, MaxDaemons

ASSUME EgressAssumption ==
    /\ NoHost \notin Hosts /\ NoSession \notin Sessions
    /\ ConnSession \in [Conns -> Sessions]
    /\ Canonical \in [Spellings -> Hosts \cup {NoHost}]
    /\ Allowed \subseteq Hosts /\ Literal \subseteq Hosts
    /\ {ByteBudget, MaxBytes, LastDay, MaxDaemons} \subseteq Nat
    /\ IsFiniteSet(Conns)

VARIABLES
    budget,      \* egress_budget: bytes per host and day
    sensitive,   \* SensitiveTracker, in memory
    proxyTokens, \* ProxySessionRegistry: sessions whose token is registered
    conn,        \* the connections
    egressDay,
    daemons,
    verdict      \* history: what the gate ledgered about each connection

egVars == <<budget, sensitive, proxyTokens, conn, egressDay, daemons, verdict>>

\* "model" is a request of the Anthropic proxy, which asks through its hook.
Kinds == {"connect", "plain", "model"}
NewConn == [pc |-> "new", host |-> NoHost, checked |-> 0, addr |-> "none",
            up |-> 0, down |-> 0, sides |-> {"up", "down"}, metered |-> FALSE]

EgressInit ==
    /\ budget = [h \in Hosts |-> [d \in 0..LastDay |-> 0]]
    /\ sensitive = {}
    /\ proxyTokens = {}
    /\ conn = [c \in Conns |-> NewConn]
    /\ egressDay = 0
    /\ daemons = 0
    /\ verdict = [c \in Conns |-> "none"]

HostOf(c) == conn[c].host
ConnAt(c, pc) == conn[c].pc = pc

CanonicalizeHost(name) == Canonical[name]

\* Defect: an entry without ports, or a private address, matches anything.
BugAllowAny(h) == h # NoHost

MatchAllowlist(h) == h \in Allowed

\* SQLBudget.Add on the current day.
BudgetAdd(h, n) == budget' = [budget EXCEPT ![h][egressDay] = @ + n]

\* Defect: the request itself is left out of the comparison.
BugOverBudget(h, n) == budget[h][egressDay] > ByteBudget

OverBudget(h, n) == budget[h][egressDay] + n > ByteBudget

-----------------------------------------------------------------------------
\* A spawn registers its proxy token and releases it when the worker is gone.
Register(s) ==
    /\ s \notin proxyTokens
    /\ proxyTokens' = proxyTokens \cup {s}
    /\ UNCHANGED <<budget, sensitive, conn, egressDay, daemons, verdict>>

Release(s) ==
    /\ s \in proxyTokens
    /\ proxyTokens' = proxyTokens \ {s}
    /\ UNCHANGED <<budget, sensitive, conn, egressDay, daemons, verdict>>

\* A read of the secret lane marks the session for as long as the daemon lives.
MarkSensitiveRead(s) ==
    /\ s \notin sensitive
    /\ sensitive' = sensitive \cup {s}
    /\ UNCHANGED <<budget, proxyTokens, conn, egressDay, daemons, verdict>>

\* sessionForRequest: a token nobody registered means an anonymous session;
\* the hook of the Anthropic proxy names its session itself.
SessionForRequest(c, kind) ==
    IF kind = "model" \/ ConnSession[c] \in proxyTokens
    THEN ConnSession[c] ELSE NoSession

\* Defect: the length of a chunked body, -1, is used as it is.
BugUnclamped(kind, n) == IF kind = "connect" THEN 0 ELSE n

\* What Check adds to the budget before any byte has moved: the announced
\* length, nothing for a tunnel or a body of unknown length (-1).
Announced(kind, n) == IF kind = "connect" \/ n < 0 THEN 0 ELSE n

\* Check, the caller's handling of its answer included: an error of the budget
\* store refuses the connection.
Check(c) ==
    /\ ConnAt(c, "new")
    /\ \E name \in Spellings, kind \in Kinds, n \in -1..MaxBytes, dbError \in BOOLEAN :
          LET h == CanonicalizeHost(name)
              s == SessionForRequest(c, kind)
              a == Announced(kind, n)
              rule == CASE h = NoHost -> "allowlist"
                        [] h # NoHost /\ ~MatchAllowlist(h) ->
                              IF s \in sensitive THEN "sensitive" ELSE "allowlist"
                        [] h # NoHost /\ MatchAllowlist(h) /\ dbError -> "error"
                        [] h # NoHost /\ MatchAllowlist(h) /\ ~dbError ->
                              IF OverBudget(h, a) THEN "budget" ELSE "allowed"
          IN /\ verdict' = [verdict EXCEPT ![c] = rule]
             /\ IF rule = "allowed" THEN BudgetAdd(h, a) ELSE UNCHANGED budget
             /\ conn' = [conn EXCEPT ![c] =
                  IF rule # "allowed" THEN [@ EXCEPT !.pc = "refused"]
                  ELSE [@ EXCEPT !.host = h, !.checked = a,
                                 !.pc = IF kind = "model" THEN "forwarded" ELSE "resolve"]]
    /\ UNCHANGED <<sensitive, proxyTokens, egressDay, daemons>>

\* Defect: the check passes if any of the addresses is public.
BugPinAny(c, addrs) == addrs # {} /\ (HostOf(c) \in Literal \/ "public" \in addrs)

\* resolveAndPin: a literal is dialled as it is; of a name, every address the
\* resolver returns must be public.
PinOK(c, addrs) == HostOf(c) \in Literal \/ (addrs # {} /\ "private" \notin addrs)

ResolveAndPin(c) ==
    /\ ConnAt(c, "resolve")
    /\ \E addrs \in SUBSET {"public", "private"} :
          IF PinOK(c, addrs)
          THEN /\ \E a \in IF HostOf(c) \in Literal THEN {"private"} ELSE addrs :
                     conn' = [conn EXCEPT ![c].pc = "dial", ![c].addr = a]
               /\ UNCHANGED verdict
          ELSE /\ conn' = [conn EXCEPT ![c].pc = "refused"]
               /\ verdict' = [verdict EXCEPT ![c] = "dns_rebind"]
    /\ UNCHANGED <<budget, sensitive, proxyTokens, egressDay, daemons>>

\* The pinned address is dialled; both copies start.
Dial(c) ==
    /\ ConnAt(c, "dial")
    /\ \/ conn' = [conn EXCEPT ![c].pc = "open"]
       \/ conn' = [conn EXCEPT ![c].pc = "failed"]
    /\ UNCHANGED <<budget, sensitive, proxyTokens, egressDay, daemons, verdict>>

\* One side is copied to its end.  The tunnel outlives the first side: nothing
\* closes the other connection until both copies have returned.
CopySide(c, side) ==
    /\ ConnAt(c, "open")
    /\ side \in conn[c].sides
    /\ \E n \in 0..MaxBytes :
          conn' = [conn EXCEPT ![c] =
             IF side = "up" THEN [@ EXCEPT !.up = n, !.sides = conn[c].sides \ {"up"}]
                            ELSE [@ EXCEPT !.down = n, !.sides = conn[c].sides \ {"down"}]]
    /\ UNCHANGED <<budget, sensitive, proxyTokens, egressDay, daemons, verdict>>

\* Defect: only what came back is metered.
BugCarriedDown(c) == conn[c].down

Carried(c) == conn[c].up + conn[c].down

\* MeterUsage, on the day the connection ends; a store error is logged and the
\* bytes are lost to the budget.
MeterUsage(c) ==
    /\ ConnAt(c, "open")
    /\ conn[c].sides = {}
    /\ \/ BudgetAdd(HostOf(c), Carried(c)) /\ conn' = [conn EXCEPT ![c].pc = "ended", ![c].metered = TRUE]
       \/ UNCHANGED budget /\ conn' = [conn EXCEPT ![c].pc = "ended"]
    /\ UNCHANGED <<sensitive, proxyTokens, egressDay, daemons, verdict>>

NextEgressDay ==
    /\ egressDay < LastDay
    /\ egressDay' = egressDay + 1
    /\ UNCHANGED <<budget, sensitive, proxyTokens, conn, daemons, verdict>>

\* A restart forgets the marks and the tokens and drops the connections.
EgressRestart ==
    /\ daemons < MaxDaemons
    /\ daemons' = daemons + 1
    /\ sensitive' = {}
    /\ proxyTokens' = {}
    /\ conn' = [c \in Conns |-> IF ConnAt(c, "new") THEN conn[c] ELSE [conn[c] EXCEPT !.pc = "failed"]]
    /\ UNCHANGED <<budget, egressDay, verdict>>

EgressNext ==
    \/ \E c \in Conns : \/ Check(c) \/ ResolveAndPin(c) \/ Dial(c) \/ MeterUsage(c)
                        \/ \E side \in {"up", "down"} : CopySide(c, side)
    \/ \E s \in Sessions : Register(s) \/ Release(s) \/ MarkSensitiveRead(s)
    \/ NextEgressDay
    \/ EgressRestart

-----------------------------------------------------------------------------
EgressTypeOK ==
    /\ budget \in [Hosts -> [0..LastDay -> Nat]]
    /\ sensitive \subseteq Sessions
    /\ proxyTokens \subseteq Sessions
    /\ conn \in [Conns ->
          [pc : {"new", "refused", "forwarded", "resolve", "dial", "open", "failed", "ended"},
           host : Hosts \cup {NoHost}, checked : 0..MaxBytes,
           addr : {"none", "public", "private"}, up : 0..MaxBytes, down : 0..MaxBytes,
           sides : SUBSET {"up", "down"}, metered : BOOLEAN]]
    /\ egressDay \in 0..LastDay
    /\ daemons \in 0..MaxDaemons
    /\ verdict \in [Conns -> {"none", "allowed", "allowlist", "sensitive", "budget", "error", "dns_rebind"}]

TotalBytes(h) == SumOn(budget[h], 0..LastDay)

\* What each connection to h is known to have carried.
CarriedTo(h) ==
    [c \in Conns |-> IF HostOf(c) # h THEN 0
                     ELSE IF conn[c].metered THEN conn[c].up + conn[c].down
                     ELSE IF verdict[c] = "allowed" THEN conn[c].checked ELSE 0]

\* The budget never counts less than what went through: bytes the gate let
\* pass and bytes of metered tunnels are all on the host, under any spelling
\* of its name and whatever the day they are booked on.
NothingUncounted ==
    \A h \in Hosts : TotalBytes(h) >= SumOn(CarriedTo(h), Conns)

\* Requests that announce their size are admitted within the day's budget of
\* their host, however they interleave: what the gate itself lets through in
\* one day is bounded; only tunnels, whose size is known at the end, go over.
AdmittedWithinBudget ==
    \A h \in Hosts :
       (\A c \in Conns : HostOf(c) = h => ~conn[c].metered)
          => \A d \in 0..LastDay : budget[h][d] <= ByteBudget

\* No connection leaves for an address that was not checked: an open tunnel
\* has an allowlisted host and a public address, unless the policy names the
\* private literal itself.
DialsOnlyChecked ==
    \A c \in Conns : conn[c].pc \in {"open", "ended"} =>
       /\ verdict[c] = "allowed" /\ HostOf(c) \in Allowed
       /\ conn[c].addr = "public" \/ HostOf(c) \in Literal

\* The gate's promise: a connection goes only where it was checked to go, and
\* what it carries is on its host's budget, whatever runs beside it.
EgressIsAccounted ==
    EgressTypeOK /\ NothingUncounted /\ AdmittedWithinBudget /\ DialsOnlyChecked
=============================================================================
