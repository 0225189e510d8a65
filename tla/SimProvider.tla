---------------------------- MODULE SimProvider ----------------------------
(***************************************************************************)
(* SimulatorPositionProvider and InMemoryPortfolioAccessor of the gate's   *)
(* providers/simulator.py, with the PositionCache of providers/cache.py.   *)
(*                                                                         *)
(* The accessor notifies its listeners while it holds its lock, and the    *)
(* provider reads the accessor while it holds its own: a step is what a    *)
(* thread does between two acquisitions of a lock.  Both locks are         *)
(* re-entrant.  The cache's lock is held for one operation.                *)
(***************************************************************************)
EXTENDS Naturals, FiniteSets

CONSTANTS SimThreads,    \* threads that call the provider or the accessor
          SimPositions,  \* positions of the simulator
          Subscribers,   \* subscriptions that may be made
          MaxSimCalls    \* bound on the calls made

VARIABLES portfolio,     \* InMemoryPortfolioAccessor._positions
          listener,      \* the provider listens to the accessor
          accessor_lock, \* owner of the accessor's lock
          provider_lock, \* owner of the provider's lock
          sim_cache,     \* PositionCache: positions and whether they are stale
          injected,      \* _injected_positions
          callbacks,     \* _change_callbacks, the keys of _subscriptions too
          sim_call,      \* each thread's call
          raced,         \* history: a fetch was between its read and its store when the cache was cleared
          sim_calls

simVars == <<portfolio, listener, accessor_lock, provider_lock, sim_cache, injected, callbacks,
             sim_call, raced, sim_calls>>

Nobody == "nobody"

ASSUME SimAssumption == Nobody \notin SimThreads

Nothing == {}          \* None, where an optional value is a set of at most one
NoCache == [positions |-> Nothing, stale |-> FALSE]
Mock == {"mock"}       \* positions that are injected
NoCall == [at |-> "none"]

SimInit ==
  /\ portfolio = {} /\ listener = FALSE /\ accessor_lock = Nobody /\ provider_lock = Nobody
  /\ sim_cache = NoCache /\ injected = Nothing /\ callbacks = {}
  /\ sim_call = [t \in SimThreads |-> NoCall]
  /\ raced = FALSE /\ sim_calls = 0

Free(lock, t) == lock \in {Nobody, t}

\* PositionCache.get, as far as fetch_positions uses it.
CacheFresh == sim_cache.positions # Nothing /\ ~sim_cache.stale

\* The time to live of the cache passes.
CacheExpires ==
  /\ CacheFresh /\ sim_cache' = [sim_cache EXCEPT !.stale = TRUE]
  /\ UNCHANGED <<portfolio, listener, accessor_lock, provider_lock, injected, callbacks,
                 sim_call, raced, sim_calls>>

Begins(t) == sim_call[t].at = "none" /\ sim_calls < MaxSimCalls /\ sim_calls' = sim_calls + 1
At(t, call) == sim_call' = [sim_call EXCEPT ![t] = call]

-----------------------------------------------------------------------------
\* fetch_positions, called by a user or by the notification of a change.  A
\* call carries the callbacks to notify in "of", none if it is a user's.

FetchBegins(t) ==
  /\ Begins(t) /\ At(t, [at |-> "fetch", of |-> Nothing])
  /\ UNCHANGED <<portfolio, listener, accessor_lock, provider_lock, sim_cache, injected, callbacks,
                 raced>>

\* To a user, or back to the notification, which still holds the accessor.
Returned(t, positions) ==
  At(t, IF sim_call[t].of = Nothing THEN NoCall
        ELSE [at |-> "tell", of |-> sim_call[t].of, positions |-> positions])

\* Injected positions come first, then those of a fresh cache.
FetchKnown(t) ==
  /\ sim_call[t].at = "fetch" /\ Free(provider_lock, t)
  /\ injected # Nothing \/ CacheFresh
  /\ \E positions \in (IF injected # Nothing THEN injected ELSE sim_cache.positions) :
       Returned(t, positions)
  /\ UNCHANGED <<portfolio, listener, accessor_lock, provider_lock, sim_cache, injected, callbacks,
                 raced, sim_calls>>

FetchLocks(t) ==
  /\ sim_call[t].at = "fetch" /\ Free(provider_lock, t)
  /\ injected = Nothing /\ ~CacheFresh
  /\ provider_lock' = t
  /\ At(t, [at |-> "read", of |-> sim_call[t].of])
  /\ UNCHANGED <<portfolio, listener, accessor_lock, sim_cache, injected, callbacks, raced,
                 sim_calls>>

\* get_open_positions
FetchReads(t) ==
  /\ sim_call[t].at = "read" /\ Free(accessor_lock, t)
  /\ At(t, [at |-> "store", of |-> sim_call[t].of, positions |-> portfolio])
  /\ UNCHANGED <<portfolio, listener, accessor_lock, provider_lock, sim_cache, injected, callbacks,
                 raced, sim_calls>>

\* Mutant: the lock is kept when the fetch is over.
UnlockedNever(t) == provider_lock

Unlocked(t) == Nobody

FetchStores(t) ==
  /\ sim_call[t].at = "store"
  /\ sim_cache' = [positions |-> {sim_call[t].positions}, stale |-> FALSE]
  /\ provider_lock' = Unlocked(t)
  /\ Returned(t, sim_call[t].positions)
  /\ UNCHANGED <<portfolio, listener, accessor_lock, injected, callbacks, raced, sim_calls>>

-----------------------------------------------------------------------------
\* add_position and remove_position

ChangeBegins(t, p) ==
  /\ Begins(t) /\ accessor_lock = Nobody
  /\ portfolio' = IF p \in portfolio THEN portfolio \ {p} ELSE portfolio \cup {p}
  /\ IF listener THEN accessor_lock' = t /\ At(t, [at |-> "changed"])
     ELSE UNCHANGED <<accessor_lock, sim_call>>
  /\ UNCHANGED <<listener, provider_lock, sim_cache, injected, callbacks, raced>>

\* Mutant: the cache is left as it is.
InvalidatedNot == sim_cache

Invalidated == NoCache

\* _on_position_change clears the cache ...
ChangeInvalidates(t) ==
  /\ sim_call[t].at = "changed"
  /\ sim_cache' = Invalidated
  /\ raced' = \E u \in SimThreads : sim_call[u].at = "store"
  /\ At(t, [at |-> "invalidated"])
  /\ UNCHANGED <<portfolio, listener, accessor_lock, provider_lock, injected, callbacks,
                 sim_calls>>

\* ... takes the callbacks and fetches ...
ChangeNotifies(t) ==
  /\ sim_call[t].at = "invalidated" /\ Free(provider_lock, t)
  /\ At(t, [at |-> "fetch", of |-> {callbacks}])
  /\ UNCHANGED <<portfolio, listener, accessor_lock, provider_lock, sim_cache, injected, callbacks,
                 raced, sim_calls>>

\* ... and calls them.
ChangeTells(t) ==
  /\ sim_call[t].at = "tell"
  /\ accessor_lock' = Nobody
  /\ At(t, NoCall)
  /\ UNCHANGED <<portfolio, listener, provider_lock, sim_cache, injected, callbacks, raced,
                 sim_calls>>

-----------------------------------------------------------------------------
\* subscribe_changes: the first subscriber has the provider listen.
SubscribeBegins(t, s) ==
  /\ Begins(t) /\ provider_lock = Nobody /\ s \notin callbacks
  /\ callbacks' = callbacks \cup {s}
  /\ IF callbacks = {} THEN provider_lock' = t /\ At(t, [at |-> "listen"])
     ELSE UNCHANGED <<provider_lock, sim_call>>
  /\ UNCHANGED <<portfolio, listener, accessor_lock, sim_cache, injected, raced>>

SubscribeListens(t) ==
  /\ sim_call[t].at = "listen" /\ Free(accessor_lock, t)
  /\ listener' = TRUE /\ provider_lock' = Nobody
  /\ At(t, NoCall)
  /\ UNCHANGED <<portfolio, accessor_lock, sim_cache, injected, callbacks, raced, sim_calls>>

\* unsubscribe_changes: the last one has the provider stop.
LastOne(s) == callbacks = {s}

UnsubscribeBegins(t, s) ==
  /\ Begins(t) /\ provider_lock = Nobody /\ s \in callbacks
  /\ callbacks' = callbacks \ {s}
  /\ IF LastOne(s) THEN provider_lock' = t /\ At(t, [at |-> "unlisten"])
     ELSE UNCHANGED <<provider_lock, sim_call>>
  /\ UNCHANGED <<portfolio, listener, accessor_lock, sim_cache, injected, raced>>

UnsubscribeStops(t) ==
  /\ sim_call[t].at = "unlisten" /\ Free(accessor_lock, t)
  /\ listener' = FALSE /\ provider_lock' = Nobody
  /\ At(t, NoCall)
  /\ UNCHANGED <<portfolio, accessor_lock, sim_cache, injected, callbacks, raced, sim_calls>>

\* inject_positions and clear_injection
Inject(t) ==
  /\ Begins(t) /\ provider_lock = Nobody
  /\ injected' = IF injected = Nothing THEN {Mock} ELSE Nothing
  /\ UNCHANGED <<portfolio, listener, accessor_lock, provider_lock, sim_cache, callbacks, sim_call,
                 raced>>

Continues(t) ==
  \/ FetchKnown(t) \/ FetchLocks(t) \/ FetchReads(t) \/ FetchStores(t)
  \/ ChangeInvalidates(t) \/ ChangeNotifies(t) \/ ChangeTells(t)
  \/ SubscribeListens(t) \/ UnsubscribeStops(t)

SimNext ==
  \/ CacheExpires
  \/ \E t \in SimThreads :
       \/ Continues(t) \/ FetchBegins(t) \/ Inject(t)
       \/ \E p \in SimPositions : ChangeBegins(t, p)
       \/ \E s \in Subscribers : SubscribeBegins(t, s) \/ UnsubscribeBegins(t, s)

SimSpec == SimInit /\ [][SimNext]_simVars

SimFairness == \A t \in SimThreads : WF_simVars(Continues(t))

-----------------------------------------------------------------------------
WaitsForAccessor(t) == sim_call[t].at \in {"read", "listen", "unlisten"} /\ ~Free(accessor_lock, t)
WaitsForProvider(t) == sim_call[t].at \in {"invalidated", "fetch"} /\ ~Free(provider_lock, t)

\* A notification waits for the provider's lock, whose owner waits for the
\* accessor's.
LockCycle ==
  \E t, u \in SimThreads : /\ accessor_lock = t /\ WaitsForProvider(t)
                           /\ provider_lock = u /\ WaitsForAccessor(u)

\* The provider is thread-safe: no call waits for one that waits for it.
NoLockCycle == ~LockCycle

\* Every call ends, except when a notification and a call that holds the
\* provider's lock wait for each other; there is no other way to get stuck.
SimCallsEnd == \A t \in SimThreads : (sim_call[t].at # "none") ~> (sim_call[t].at = "none" \/ LockCycle)

\* A subscriber is told the portfolio as it is at that moment, whatever the
\* cache held and whoever fetches at the same time, unless positions are
\* injected or a fetch stored, after the cache was cleared, what it had read
\* before the change.
ToldCurrent ==
  \A t \in SimThreads :
    sim_call[t].at = "tell" =>
      sim_call[t].positions \in {portfolio, Mock} \/ raced

\* The provider listens exactly while somebody is subscribed, in whatever
\* order subscriptions come and go.
ListensWhileSubscribed ==
  (\A t \in SimThreads : sim_call[t].at \notin {"listen", "unlisten"}) =>
    (listener <=> callbacks # {})
=============================================================================
