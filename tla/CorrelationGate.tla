--------------------------- MODULE CorrelationGate ---------------------------
(***************************************************************************)
(* correlation-gate/src/gate.py: the gate a trading engine asks before it  *)
(* places an order, with the exposure arithmetic of basket.py and          *)
(* directional.py it decides by.                                           *)
(*                                                                         *)
(* Every signal is evaluated by a thread of its own; eval[s] is where that *)
(* thread is, and afterwards what became of the trade.  gate.py holds one  *)
(* RLock over every operation, except for the check of _state at the head  *)
(* of evaluate() and the error handler of synchronize_with_engine().       *)
(* A provider call is two steps, the moment the broker's positions are     *)
(* taken and the moment they arrive, and any other actor may run between   *)
(* them.                                                                   *)
(*                                                                         *)
(* The broker and the engine are not in the repository; they are modelled  *)
(* by what the gate's documentation asks of its caller.                    *)
(***************************************************************************)
EXTENDS Integers, FiniteSets

CONSTANTS
  Signals,          \* the trades the engine may want to make
  Currencies,       \* MAJOR_CURRENCIES
  Info,             \* a signal's base, quote, direction, units, broker price
  Opened,           \* the trades open when the gate is created
  Limits,           \* GateConfig.get_thresholds_for_currency
  SpotPrices,       \* the XAU_USD prices update_spot_prices may bring
  CacheAge,         \* the 5.0 of _should_refresh
  FetchTimeout,     \* position_fetch_timeout_seconds
  PendingTimeout,   \* pending_timeout_seconds
  MaxFetch,         \* bound: how long a provider call may stay unanswered
  MaxTime,          \* bound: when the clock stops
  Careful           \* TRUE: the engine confirms a trade once the gate has seen
                    \* it; FALSE: right after executing it, as gate.py shows

TradeInfo == [base : STRING, quote : STRING, dir : {"LONG", "SHORT"},
              units : Nat, price : Nat]
LimitInfo == [hardCount : Nat, hardNet : Nat, hardGross : Nat,
              softCount : Nat, softNet : Nat, softGross : Nat]

ASSUME GateAssumption ==
  /\ Info \in [Signals -> TradeInfo]
  /\ \A s \in Signals : Info[s].base # Info[s].quote
  /\ Opened \subseteq Signals
  /\ Signals \cap {"free", "initialize", "refresh"} = {}
  /\ Limits \in [Currencies -> LimitInfo]
  /\ SpotPrices \subseteq Nat \ {0}
  /\ CacheAge \in Nat /\ PendingTimeout \in Nat /\ MaxTime \in Nat
  /\ FetchTimeout \in Nat /\ MaxFetch \in Nat
  /\ Careful \in BOOLEAN

VARIABLES
  state,            \* _state
  lock,             \* who holds _lock: a signal's thread, an operation, none
  positions,        \* _positions, the cached open positions
  fetchedAt,        \* _last_fetch, Never before the first one
  pending,          \* _pending: signal -> expires_at
  spot,             \* _spot_prices["XAU_USD"], 0 while absent
  eval,             \* per signal, where its evaluation or its trade is
  reply,            \* the provider call in progress, NoReply when none
  broker,           \* external: the positions open at the broker
  clock             \* seconds, in the unit of the three timeouts

gateVars == <<state, lock, positions, fetchedAt, pending, spot, reply>>
vars == <<gateVars, eval, broker, clock>>

Free == "free"
Never == -1
NoReply == [from |-> Never, seen |-> {}]

Starting == {"INITIALIZING", "SYNCHRONIZING"}
Allowed == {"ALLOW", "SOFT_WARNING"}
InProvider == {"fetching", "timedout"}
Evaluating == {"checking", "waiting"} \cup InProvider
EvalStates == {"idle", "HARD_BLOCK", "opened", "executed", "confirmed", "lost"}
                \cup Evaluating \cup Allowed

-----------------------------------------------------------------------------
(* directional.py and basket.py: what a set of trades exposes a currency to *)

\* parse_directional_exposure: LONG a pair is LONG its base, SHORT its quote
Affected(s) == {Info[s].base, Info[s].quote}
Side(s, c) == IF (Info[s].dir = "LONG") <=> (c = Info[s].base)
              THEN "LONG" ELSE "SHORT"

\* _validate_signal: both currencies are known
Valid(s) == Affected(s) \subseteq Currencies

\* calculate_usd_notional: gold at spot, a USD base at face value, the rest
\* at the price of the position
Notional(s, price) ==
  Info[s].units * (IF Info[s].base = "USD" THEN 1
                   ELSE IF Info[s].base = "XAU" /\ spot # 0 THEN spot
                   ELSE price)

\* The prices the gate may come to value a trade at, and the least of them.
GatePrices(s) == IF Info[s].base = "USD" THEN {1}
                 ELSE {1, Info[s].price} \cup (IF Info[s].base = "XAU" THEN SpotPrices ELSE {})
LeastValue(s) ==
  Info[s].units * (CHOOSE p \in GatePrices(s) : \A q \in GatePrices(s) : p <= q)

\* A book is a set of <<signal, kind>>: an open position is valued at the
\* broker's price, a pending or projected one at the placeholder 1.0, and a
\* trade that is both open and pending is in it twice.  "least" is the book
\* the properties value.
Open(S) == {<<s, "open">> : s \in S}
Projected(S) == {<<s, "pending">> : s \in S}
Least(S) == {<<s, "least">> : s \in S}
Value(e) == IF e[2] = "least" THEN LeastValue(e[1])
            ELSE Notional(e[1], IF e[2] = "open" THEN Info[e[1]].price ELSE 1)

On(book, c, side) == {e \in book : c \in Affected(e[1]) /\ Side(e[1], c) = side}

\* the sum of the values of a book, as the number of dollars in it
Dollars(e) == {e} \X (1 .. Value(e))
Worth(book) == Cardinality(UNION {Dollars(e) : e \in book})

Distance(a, b) == IF a >= b THEN a - b ELSE b - a
NetCount(book, c) == Distance(Cardinality(On(book, c, "LONG")),
                              Cardinality(On(book, c, "SHORT")))
NetNotional(book, c) == Distance(Worth(On(book, c, "LONG")),
                                 Worth(On(book, c, "SHORT")))
GrossNotional(book, c) == Worth(On(book, c, "LONG")) + Worth(On(book, c, "SHORT"))

HardBlocked(book, c) ==
  \/ NetCount(book, c) >= Limits[c].hardCount
  \/ NetNotional(book, c) >= Limits[c].hardNet
  \/ GrossNotional(book, c) >= Limits[c].hardGross

SoftWarned(book, c) ==
  \/ NetCount(book, c) >= Limits[c].softCount
  \/ NetNotional(book, c) >= Limits[c].softNet
  \/ GrossNotional(book, c) >= Limits[c].softGross

\* _evaluate_thresholds over the currencies the signal touches
Verdict(s, book) ==
  IF \E c \in Affected(s) : HardBlocked(book, c) THEN "HARD_BLOCK"
  ELSE IF \E c \in Affected(s) : SoftWarned(book, c) THEN "SOFT_WARNING"
  ELSE "ALLOW"

-----------------------------------------------------------------------------
Init ==
  /\ state = "INITIALIZING"
  /\ lock = Free
  /\ positions = {}
  /\ fetchedAt = Never
  /\ pending = [s \in {} |-> 0]
  /\ spot = 0
  /\ eval = [s \in Signals |-> IF s \in Opened THEN "opened" ELSE "idle"]
  /\ reply = NoReply
  /\ broker = Opened
  /\ clock = 0

-----------------------------------------------------------------------------
(* The provider, called with the lock held *)

CallProvider(who) ==
  /\ lock = Free
  /\ lock' = who
  /\ reply' = [from |-> clock, seen |-> broker]

ProviderReturns(who) ==
  /\ lock = who
  /\ lock' = Free
  /\ reply' = NoReply

StorePositions ==
  /\ positions' = reply.seen
  /\ fetchedAt' = clock

-----------------------------------------------------------------------------
(* initialize() and refresh_positions() *)

InitializeBegin ==
  /\ CallProvider("initialize")
  /\ state' = "SYNCHRONIZING"
  /\ UNCHANGED <<positions, fetchedAt, pending, spot, eval, broker, clock>>

InitializeOk ==
  /\ ProviderReturns("initialize")
  /\ StorePositions
  /\ state' = "READY"
  /\ UNCHANGED <<pending, spot, eval, broker, clock>>

InitializeFails ==
  /\ ProviderReturns("initialize")
  /\ state' = "FAILED"
  /\ UNCHANGED <<positions, fetchedAt, pending, spot, eval, broker, clock>>

RefreshBegin ==
  /\ CallProvider("refresh")
  /\ UNCHANGED <<state, positions, fetchedAt, pending, spot, eval, broker, clock>>

RefreshOk ==
  /\ ProviderReturns("refresh")
  /\ StorePositions
  /\ UNCHANGED <<state, pending, spot, eval, broker, clock>>

\* a slip in RefreshFails: the time of the fetch is noted before its result
RefreshFailsStamped ==
  /\ ProviderReturns("refresh")
  /\ state' = IF state = "READY" THEN "DEGRADED" ELSE state
  /\ fetchedAt' = clock
  /\ UNCHANGED <<positions, pending, spot, eval, broker, clock>>

RefreshFails ==
  /\ ProviderReturns("refresh")
  /\ state' = IF state = "READY" THEN "DEGRADED" ELSE state
  /\ UNCHANGED <<positions, fetchedAt, pending, spot, eval, broker, clock>>

-----------------------------------------------------------------------------
(* evaluate() *)

ShouldRefresh == fetchedAt = Never \/ clock - fetchedAt > CacheAge
Expired(s) == clock > pending[s]
Live == {s \in DOMAIN pending : ~Expired(s)}

FailClosed(s) == eval' = [eval EXCEPT ![s] = "HARD_BLOCK"]

\* a slip in ProjectedBook: pending signals are left out
BookWithoutPending(s, cached) == Open(cached) \cup Projected({s})

\* what the thresholds are compared with: the cached positions, the signal,
\* and every pending signal that has not expired
ProjectedBook(s, cached) == Open(cached) \cup Projected(Live \cup {s})

\* _register_pending, with the purge that every projection begins with
Register(s) ==
  pending' = [t \in Live \cup {s} |->
                IF t = s THEN clock + PendingTimeout ELSE pending[t]]
Purge == pending' = [t \in Live |-> pending[t]]

\* the part of evaluate() that runs on positions in hand; the caller of this
\* operator takes care of the lock
Decide(s, cached) ==
  LET verdict == Verdict(s, ProjectedBook(s, cached))
  IN  \/ /\ Info[s].base = "XAU" /\ spot = 0
         /\ FailClosed(s)
         /\ UNCHANGED pending
      \/ /\ ~(Info[s].base = "XAU" /\ spot = 0)
         /\ eval' = [eval EXCEPT ![s] = verdict]
         /\ IF verdict = "HARD_BLOCK" THEN Purge ELSE Register(s)

\* _state is read once for each state that refuses, without the lock.  As
\* INITIALIZING never comes back, the first two reads might as well be one;
\* before the third the state may change again.
EvalEnter(s) ==
  /\ eval[s] \in {"idle", "HARD_BLOCK"}
  /\ state \notin Starting
  /\ eval' = [eval EXCEPT ![s] = "checking"]
  /\ UNCHANGED <<gateVars, broker, clock>>

EvalRefused(s) ==
  /\ \/ eval[s] \in {"idle", "HARD_BLOCK"} /\ state \in Starting
     \/ eval[s] = "checking" /\ state = "FAILED"
  /\ FailClosed(s)
  /\ UNCHANGED <<gateVars, broker, clock>>

EvalInvalid(s) ==
  /\ eval[s] = "checking"
  /\ state # "FAILED"
  /\ ~Valid(s)
  /\ FailClosed(s)
  /\ UNCHANGED <<gateVars, broker, clock>>

EvalChecked(s) ==
  /\ eval[s] = "checking"
  /\ state # "FAILED"
  /\ Valid(s)
  /\ eval' = [eval EXCEPT ![s] = "waiting"]
  /\ UNCHANGED <<gateVars, broker, clock>>

\* a slip in EvalLockTimeout: acquire() is called without a timeout
EvalLockWaits(s) ==
  /\ eval[s] = "waiting"
  /\ lock # Free
  /\ FALSE
  /\ UNCHANGED vars

EvalLockTimeout(s) ==
  /\ eval[s] = "waiting"
  /\ lock # Free
  /\ FailClosed(s)
  /\ UNCHANGED <<gateVars, broker, clock>>

EvalCached(s) ==
  /\ eval[s] = "waiting"
  /\ lock = Free
  /\ ~ShouldRefresh
  /\ Decide(s, positions)
  /\ UNCHANGED <<state, lock, positions, fetchedAt, spot, reply, broker, clock>>

EvalFetch(s) ==
  /\ eval[s] = "waiting"
  /\ ShouldRefresh
  /\ CallProvider(s)
  /\ eval' = [eval EXCEPT ![s] = "fetching"]
  /\ UNCHANGED <<state, positions, fetchedAt, pending, spot, broker, clock>>

EvalFetched(s) ==
  /\ eval[s] = "fetching"
  /\ ProviderReturns(s)
  /\ StorePositions
  /\ Decide(s, reply.seen)
  /\ UNCHANGED <<state, spot, broker, clock>>

EvalFetchError(s) ==
  /\ eval[s] = "fetching"
  /\ ProviderReturns(s)
  /\ FailClosed(s)
  /\ UNCHANGED <<state, positions, fetchedAt, pending, spot, broker, clock>>

\* future.result() gives up, but leaving the executor's with block waits for
\* the worker, with the lock held
EvalFetchTimeout(s) ==
  /\ eval[s] = "fetching"
  /\ clock - reply.from >= FetchTimeout
  /\ eval' = [eval EXCEPT ![s] = "timedout"]
  /\ UNCHANGED <<gateVars, broker, clock>>

EvalLateReturn(s) ==
  /\ eval[s] = "timedout"
  /\ ProviderReturns(s)
  /\ FailClosed(s)
  /\ UNCHANGED <<state, positions, fetchedAt, pending, spot, broker, clock>>

-----------------------------------------------------------------------------
(* The other operations, each of them one critical section *)

Forget(S) == pending' = [t \in DOMAIN pending \ S |-> pending[t]]

\* confirm_execution.  The documented engine confirms a trade as soon as it
\* has executed it; a careful one waits until the gate's positions show it.
ConfirmExecution(s) ==
  /\ lock = Free
  /\ eval[s] = "executed"
  /\ Careful => s \in positions
  /\ Forget({s})
  /\ eval' = [eval EXCEPT ![s] = "confirmed"]
  /\ UNCHANGED <<state, lock, positions, fetchedAt, spot, reply, broker, clock>>

CancelPending(s) ==
  /\ lock = Free
  /\ eval[s] \in Allowed
  /\ Forget({s})
  /\ eval' = [eval EXCEPT ![s] = "idle"]
  /\ UNCHANGED <<state, lock, positions, fetchedAt, spot, reply, broker, clock>>

UpdateSpotPrices(price) ==
  /\ lock = Free
  /\ spot' = price
  /\ UNCHANGED <<state, lock, positions, fetchedAt, pending, reply, eval, broker, clock>>

\* synchronize_with_engine at engine startup: no evaluation is in flight, and
\* the list holds what the engine still knows of
EngineKnows == {s \in Signals : eval[s] \in Allowed \cup {"opened", "executed"}}
InFlight == \E s \in Signals : eval[s] \in Evaluating

Synchronize ==
  /\ lock = Free
  /\ ~InFlight
  /\ Forget(DOMAIN pending \ EngineKnows)
  /\ UNCHANGED <<state, lock, positions, fetchedAt, spot, reply, eval, broker, clock>>

\* an argument that is no list of identifiers raises, and the handler runs
\* after the lock has been left, when another thread may have taken it
SynchronizeFails ==
  /\ state' = "FAILED"
  /\ UNCHANGED <<lock, positions, fetchedAt, pending, spot, reply, eval, broker, clock>>

-----------------------------------------------------------------------------
(* External: the engine, the broker and time *)

\* The engine is prompt: it places the order while the gate will still count
\* its pending entry for as long as the cache may lag behind the broker.
Execute(s) ==
  /\ eval[s] \in Allowed
  /\ s \in DOMAIN pending /\ clock <= pending[s] - CacheAge - MaxFetch
  /\ eval' = [eval EXCEPT ![s] = "executed"]
  /\ broker' = broker \cup {s}
  /\ UNCHANGED <<gateVars, clock>>

Close(s) ==
  /\ s \in broker
  /\ broker' = broker \ {s}
  /\ UNCHANGED <<gateVars, eval, clock>>

\* the engine restarts and has lost an order it had not placed
EngineForgets(s) ==
  /\ eval[s] \in Allowed
  /\ eval' = [eval EXCEPT ![s] = "lost"]
  /\ UNCHANGED <<gateVars, broker, clock>>

Tick ==
  /\ clock < MaxTime
  /\ reply # NoReply => clock - reply.from < MaxFetch
  /\ clock' = clock + 1
  /\ UNCHANGED <<gateVars, eval, broker>>

-----------------------------------------------------------------------------
\* what the gate's own threads do without an answer from the provider
EvalStep(s) ==
  \/ EvalEnter(s) \/ EvalRefused(s) \/ EvalInvalid(s) \/ EvalChecked(s)
  \/ EvalLockTimeout(s) \/ EvalCached(s) \/ EvalFetch(s) \/ EvalFetchTimeout(s)

\* the return of a provider call, with what the caller does with it
EvalReturn(s) == EvalFetched(s) \/ EvalFetchError(s) \/ EvalLateReturn(s)

EngineStep(s) ==
  \/ ConfirmExecution(s) \/ CancelPending(s)
  \/ Execute(s) \/ Close(s) \/ EngineForgets(s)

Next ==
  \/ InitializeBegin \/ InitializeOk \/ InitializeFails
  \/ RefreshBegin \/ RefreshOk \/ RefreshFails
  \/ \E s \in Signals : EvalStep(s) \/ EvalReturn(s) \/ EngineStep(s)
  \/ \E p \in SpotPrices : UpdateSpotPrices(p)
  \/ Synchronize \/ SynchronizeFails
  \/ Tick

Spec == Init /\ [][Next]_vars

\* A thread that may run runs, and a provider call returns or raises some day.
FairSpec == Spec /\ \A s \in Signals \ Opened : WF_vars(EvalStep(s)) /\ WF_vars(EvalReturn(s))

-----------------------------------------------------------------------------
\* Types, and who owns the lock: it is held exactly while a provider call is
\* out, by the thread that made the call, and every way out of evaluate(),
\* initialize() and refresh_positions() gives it back (gate.py, the finally of
\* evaluate and the with blocks).
GateTypeOK ==
  /\ state \in Starting \cup {"READY", "DEGRADED", "FAILED"}
  /\ lock \in Signals \cup {Free, "initialize", "refresh"}
  /\ positions \subseteq Signals
  /\ fetchedAt \in {Never} \cup 0..MaxTime
  /\ DOMAIN pending \subseteq Signals
  /\ \A s \in DOMAIN pending : pending[s] \in 0..(MaxTime + PendingTimeout)
  /\ spot \in {0} \cup SpotPrices
  /\ eval \in [Signals -> EvalStates]
  /\ reply \in [from : {Never} \cup 0..MaxTime, seen : SUBSET Signals]
  /\ broker \subseteq Signals
  /\ clock \in 0..MaxTime
  /\ reply = NoReply <=> lock = Free
  /\ state = "SYNCHRONIZING" => lock = "initialize"
  /\ \A s \in Signals : lock = s <=> eval[s] \in InProvider

\* What is traded in one direction only has all its trades on one side.
OneSided(c) == \A s, t \in Signals :
                 c \in Affected(s) \cap Affected(t) => Side(s, c) = Side(t, c)
CountBelow(c) == NetCount(Open(broker), c) < Limits[c].hardCount
GrossBelow(c) == GrossNotional(Least(broker), c) < Limits[c].hardGross

\* README.md:77-79 and :13, gate.py:420-424: evaluate, execute, confirm, and the
\* count of a currency that is traded in one direction stays under its limit.
OneSidedCurrencies == {c \in Currencies : OneSided(c)}
CountsHold == \A c \in OneSidedCurrencies : CountBelow(c)

\* The point of the gate: what is open at the broker stays under the hard
\* limits whatever evaluations run at once, however late the provider answers
\* and however stale the cache is.  Signals evaluated together see each other
\* as pending (gate.py _include_pending_in_projection), and a trade leaves that
\* list only once the cached positions have it.  Two limits are promised: the
\* count of every currency that is only ever traded in one direction, and the
\* gross notional of every currency with each trade at the least price the gate
\* may value it at.  The gross at the market's prices is not: a trade is let
\* through at the placeholder 1.0 (gate.py:345, 789), and gold moves later.
LimitsHold == CountsHold /\ \A c \in Currencies : GrossBelow(c)

\* A trade the gate let through is never unaccounted for (gate.py
\* _get_positions_safe, _purge_expired_pending, confirm_execution): while it is
\* open at the broker it is cached, or pending and counted, or the cache is so
\* old that the next evaluation fetches before it decides.
Accounted ==
  \A s \in broker : s \in positions \/ s \in Live \/ ShouldRefresh

\* Why Accounted holds.  A trade the cache does not have is pending until the
\* cache is too old to be used, and one that the fetch now out has missed is
\* pending until that fetch, however late, has come back and grown old.
Covered(s, until) == s \in DOMAIN pending /\ pending[s] >= until
Timely ==
  /\ fetchedAt <= clock
  /\ lock # Free => /\ reply.from \in 0..clock
                    /\ clock - reply.from <= MaxFetch
Lifecycle ==
  \A s \in broker :
    /\ eval[s] \in {"opened", "executed", "confirmed"}
    /\ eval[s] = "confirmed" => /\ s \in positions
                                /\ lock # Free => s \in reply.seen
CacheCovered ==
  \A s \in broker \ positions :
    fetchedAt # Never => Covered(s, fetchedAt + CacheAge)
FetchCovered ==
  lock # Free => \A s \in broker \ reply.seen :
                   Covered(s, reply.from + MaxFetch + CacheAge)
GateInv == GateTypeOK /\ Timely /\ Lifecycle /\ CacheCovered /\ FetchCovered

\* Every evaluation returns a decision: nobody waits for the lock for ever,
\* and a thread that went to the provider comes back when the provider does.
EvaluateReturns ==
  \A s \in Signals \ Opened :
    eval[s] \in Evaluating ~> eval[s] \in {"HARD_BLOCK"} \cup Allowed
=============================================================================
