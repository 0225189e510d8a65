--------------------------- MODULE BrokerProvider ---------------------------
(***************************************************************************)
(* OandaPositionProvider of the gate's providers/oanda.py with its         *)
(* PositionCache, and the FallbackPositionProvider of                      *)
(* providers/fallback.py over it.                                          *)
(*                                                                         *)
(* The OANDA provider holds no lock: callers of it overlap between its     *)
(* look at the cache, its requests and its store.  The fallback provider   *)
(* holds its lock through a whole fetch.  A list of positions is the       *)
(* moment at which the broker read the account.                            *)
(***************************************************************************)
EXTENDS Integers, FiniteSets, Sequences, FiniteSetsExt

CONSTANTS Callers,           \* threads that fetch
          Ttl,               \* cache_ttl_seconds
          RequestTimeout,    \* request_timeout_seconds
          MaxRetries,        \* max_retries
          FailureThreshold,  \* failure_threshold
          RecoveryInterval,  \* recovery_interval_seconds
          MaxClock,          \* bound on the time
          MaxFetches         \* bound on the fetches

ASSUME BrokerAssumption ==
  Ttl \in Nat /\ RequestTimeout \in Nat /\ FailureThreshold \in Nat /\ RecoveryInterval \in Nat

VARIABLES clock,
          oanda_cache,       \* PositionCache of the provider
          http,              \* each caller's call of OandaPositionProvider.fetch_positions
          wrapped,           \* calls go through the fallback provider
          fallback_call,     \* the call that holds the fallback provider's lock
          using_fallback, primary_failures, last_primary_attempt,
          streak,            \* history: primary fetches that failed since one succeeded
          primary_started,   \* history: when the primary was last asked
          fetches

brokerVars == <<clock, oanda_cache, http, wrapped, fallback_call, using_fallback, primary_failures,
                last_primary_attempt, streak, primary_started, fetches>>
fallbackVars == <<fallback_call, using_fallback, primary_failures, last_primary_attempt, streak,
                  primary_started>>

Never == -1
Empty == [positions |-> Never, fetch_time |-> Never]
Idle == [at |-> "none"]
NoFallbackCall == [at |-> "none"]

BrokerInit ==
  /\ clock = 0 /\ oanda_cache = Empty /\ http = [c \in Callers |-> Idle]
  /\ wrapped \in BOOLEAN /\ fallback_call = NoFallbackCall
  /\ using_fallback = FALSE /\ primary_failures = 0 /\ last_primary_attempt = Never
  /\ streak = 0 /\ primary_started = Never /\ fetches = 0

\* Time passes; a request is over when its timeout has passed.
BrokerTick ==
  /\ clock < MaxClock
  /\ \A c \in Callers : http[c].at = "request" => clock < http[c].sent + RequestTimeout
  /\ clock' = clock + 1
  /\ UNCHANGED <<oanda_cache, http, wrapped, fallbackVars, fetches>>

HttpAt(c, call) == http' = [http EXCEPT ![c] = call]
Returns(c, positions, failed) == 
  [at |-> "returned", positions |-> positions, failed |-> failed, age |-> clock - positions]
Raises(c) == [at |-> "raised"]

-----------------------------------------------------------------------------
\* OandaPositionProvider

\* PositionCache._is_stale
OandaStale(cache) == cache = Empty \/ clock - cache.fetch_time > Ttl

Request(c, attempt, cached) ==
  [at |-> "request", sent |-> clock, attempt |-> attempt, cached |-> cached, read |-> Never]

\* The cache answers or the API is asked.
StartFetch(c) ==
  IF OandaStale(oanda_cache) THEN Request(c, 0, oanda_cache)
  ELSE Returns(c, oanda_cache.positions, FALSE)

\* The broker reads the account.
Serve(c) ==
  /\ http[c].at = "request" /\ http[c].read = Never
  /\ HttpAt(c, [http[c] EXCEPT !.read = clock])
  /\ UNCHANGED <<clock, oanda_cache, wrapped, fallbackVars, fetches>>

\* Nothing is stored after a failure.
StoredAfter(c) == oanda_cache

\* An error that is neither authentication nor rate limit: the positions
\* that were cached when the call began are returned, however old.
GivesUp(c) ==
  IF http[c].cached # Empty
  THEN HttpAt(c, Returns(c, http[c].cached.positions, TRUE)) /\ oanda_cache' = StoredAfter(c)
  ELSE HttpAt(c, Raises(c)) /\ UNCHANGED oanda_cache

\* Status 200
AnswerOk(c) ==
  /\ http[c].at = "request" /\ http[c].read # Never
  /\ oanda_cache' = [positions |-> http[c].read, fetch_time |-> clock]
  /\ HttpAt(c, Returns(c, http[c].read, FALSE))
  /\ UNCHANGED <<clock, wrapped, fallbackVars, fetches>>

\* 401, 403 and 429
AnswerRefused(c) ==
  /\ http[c].at = "request"
  /\ HttpAt(c, Raises(c))
  /\ UNCHANGED <<clock, oanda_cache, wrapped, fallbackVars, fetches>>

\* Another status, or a body that cannot be parsed.
AnswerOdd(c) ==
  /\ http[c].at = "request"
  /\ GivesUp(c)
  /\ UNCHANGED <<clock, wrapped, fallbackVars, fetches>>

\* 5xx, a lost connection or a timeout: wait and retry, at most MaxRetries
\* times.
AnswerFails(c) ==
  /\ http[c].at = "request"
  /\ IF http[c].attempt < MaxRetries
     THEN /\ HttpAt(c, [at |-> "sleep", until |-> clock + 2 ^ http[c].attempt,
                        attempt |-> http[c].attempt, cached |-> http[c].cached])
          /\ UNCHANGED oanda_cache
     ELSE GivesUp(c)
  /\ UNCHANGED <<clock, wrapped, fallbackVars, fetches>>

Retry(c) ==
  /\ http[c].at = "sleep" /\ clock >= http[c].until
  /\ HttpAt(c, Request(c, http[c].attempt + 1, http[c].cached))
  /\ UNCHANGED <<clock, oanda_cache, wrapped, fallbackVars, fetches>>

\* A caller without the fallback provider, and the end of its call.
FetchOanda(c) ==
  /\ ~wrapped /\ http[c].at = "none" /\ fetches < MaxFetches
  /\ HttpAt(c, StartFetch(c)) /\ fetches' = fetches + 1
  /\ UNCHANGED <<clock, oanda_cache, wrapped, fallbackVars>>
FetchEnds(c) ==
  /\ ~wrapped /\ http[c].at \in {"returned", "raised"}
  /\ HttpAt(c, Idle)
  /\ UNCHANGED <<clock, oanda_cache, wrapped, fallbackVars, fetches>>

\* invalidate_cache
InvalidateCache ==
  /\ oanda_cache # Empty /\ fetches < MaxFetches
  /\ oanda_cache' = Empty /\ fetches' = fetches + 1
  /\ UNCHANGED <<clock, http, wrapped, fallbackVars>>

OandaSteps(c) ==
  \/ Serve(c) \/ AnswerOk(c) \/ AnswerRefused(c) \/ AnswerOdd(c) \/ AnswerFails(c)
  \/ Retry(c) \/ FetchEnds(c)

-----------------------------------------------------------------------------
\* FallbackPositionProvider, with the OANDA provider as primary

should_try_recovery ==
  last_primary_attempt = Never \/ clock - last_primary_attempt >= RecoveryInterval

\* The primary is asked, to recover it or for its positions.
AskPrimary(c, why) ==
  /\ HttpAt(c, StartFetch(c))
  /\ fallback_call' = [at |-> why, by |-> c]
  /\ primary_started' = clock

\* Mutant: an attempt to recover leaves no trace.
RecoveryAttemptUnmarked == last_primary_attempt

RecoveryAttempt == clock

\* fetch_positions takes the lock.
FetchWrapped(c) ==
  /\ wrapped /\ fallback_call.at = "none" /\ fetches < MaxFetches
  /\ fetches' = fetches + 1
  /\ IF ~using_fallback THEN AskPrimary(c, "fetch") /\ UNCHANGED last_primary_attempt
     ELSE IF should_try_recovery
          THEN AskPrimary(c, "recover") /\ last_primary_attempt' = RecoveryAttempt
          ELSE /\ fallback_call' = [at |-> "fallback", by |-> c]
               /\ UNCHANGED <<http, primary_started, last_primary_attempt>>
  /\ UNCHANGED <<clock, oanda_cache, wrapped, using_fallback, primary_failures, streak>>

\* The primary is back: it is asked again for its positions.
Recovered(c) ==
  /\ fallback_call = [at |-> "recover", by |-> c] /\ http[c].at = "returned"
  /\ using_fallback' = FALSE /\ primary_failures' = 0
  /\ streak' = 0
  /\ AskPrimary(c, "fetch")
  /\ UNCHANGED <<clock, oanda_cache, wrapped, last_primary_attempt, fetches>>

NotRecovered(c) ==
  /\ fallback_call = [at |-> "recover", by |-> c] /\ http[c].at = "raised"
  /\ HttpAt(c, Idle) /\ fallback_call' = [at |-> "fallback", by |-> c]
  /\ streak' = streak + 1
  /\ UNCHANGED <<clock, oanda_cache, wrapped, using_fallback, primary_failures,
                 last_primary_attempt, primary_started, fetches>>

PrimaryReturned(c) ==
  /\ fallback_call = [at |-> "fetch", by |-> c] /\ http[c].at = "returned"
  /\ primary_failures' = 0 /\ streak' = 0
  /\ HttpAt(c, Idle) /\ fallback_call' = NoFallbackCall
  /\ UNCHANGED <<clock, oanda_cache, wrapped, using_fallback, last_primary_attempt,
                 primary_started, fetches>>

\* At the threshold the fallback takes over.
PrimaryRaised(c) ==
  /\ fallback_call = [at |-> "fetch", by |-> c] /\ http[c].at = "raised"
  /\ primary_failures' = primary_failures + 1 /\ streak' = streak + 1
  /\ IF primary_failures' >= FailureThreshold
     THEN using_fallback' = TRUE /\ last_primary_attempt' = clock
     ELSE UNCHANGED <<using_fallback, last_primary_attempt>>
  /\ HttpAt(c, Idle) /\ fallback_call' = [at |-> "fallback", by |-> c]
  /\ UNCHANGED <<clock, oanda_cache, wrapped, primary_started, fetches>>

\* The fallback provider returns or raises, and the lock is released.
FallbackAnswers ==
  /\ fallback_call.at = "fallback" /\ fallback_call' = NoFallbackCall
  /\ UNCHANGED <<clock, oanda_cache, http, wrapped, using_fallback, primary_failures,
                 last_primary_attempt, streak, primary_started, fetches>>

force_fallback ==
  /\ wrapped /\ fallback_call.at = "none" /\ ~using_fallback
  /\ using_fallback' = TRUE /\ last_primary_attempt' = clock
  /\ UNCHANGED <<clock, oanda_cache, http, wrapped, fallback_call, primary_failures, streak,
                 primary_started, fetches>>

force_primary ==
  /\ wrapped /\ fallback_call.at = "none" /\ using_fallback
  /\ using_fallback' = FALSE /\ primary_failures' = 0
  /\ streak' = 0
  /\ UNCHANGED <<clock, oanda_cache, http, wrapped, fallback_call, last_primary_attempt,
                 primary_started, fetches>>

FallbackSteps(c) == Recovered(c) \/ NotRecovered(c) \/ PrimaryReturned(c) \/ PrimaryRaised(c)

BrokerNext ==
  \/ BrokerTick \/ InvalidateCache \/ FallbackAnswers \/ force_fallback \/ force_primary
  \/ \E c \in Callers : FetchOanda(c) \/ FetchWrapped(c) \/ OandaSteps(c) \/ FallbackSteps(c)

BrokerSpec == BrokerInit /\ [][BrokerNext]_brokerVars

-----------------------------------------------------------------------------
\* fetch_positions returns positions older than a cached answer may be and its
\* request may have taken only if this very call failed to get an answer,
\* whichever callers store over each other's answers and whenever the cache is
\* cleared.
FreshOrFailed ==
  \A c \in Callers :
    http[c].at = "returned" => http[c].failed \/ http[c].age <= Ttl + RequestTimeout

\* A primary that failed FailureThreshold times running, whoever asked it, is
\* left alone for the recovery interval.
PrimarySpared ==
  [][(fallback_call' # fallback_call /\ fallback_call'.at \in {"fetch", "recover"}
      /\ streak >= FailureThreshold /\ streak' # 0) =>
       clock - primary_started >= RecoveryInterval]_brokerVars

-----------------------------------------------------------------------------
(***************************************************************************)
(* ProviderHealthMonitor of the gate's providers/health.py, for one        *)
(* provider.  A metric is whether the operation succeeded.                 *)
(***************************************************************************)

CONSTANTS WindowSize,   \* window_size
          MaxOutcomes   \* bound on the operations recorded

ASSUME HealthAssumption == WindowSize \in Nat \ {0}

VARIABLES metrics,   \* _metrics of the provider, a deque
          outcomes   \* history: all that was recorded

healthVars == <<metrics, outcomes>>

HealthInit == metrics = <<>> /\ outcomes = <<>>

\* record_success and record_failure: the oldest metric makes room.
Recorded(ok) == IF Len(metrics) = WindowSize THEN Append(Tail(metrics), ok) ELSE Append(metrics, ok)

RecordOutcome(ok) ==
  /\ Len(outcomes) < MaxOutcomes
  /\ metrics' = Recorded(ok) /\ outcomes' = Append(outcomes, ok)

Failures(s) == Cardinality({i \in DOMAIN s : ~s[i]})

\* Failures at the end.
Consecutive(s) == Max({0} \cup {k \in 1 .. Len(s) : \A i \in (Len(s) - k + 1) .. Len(s) : ~s[i]})

\* get_health, with an unhealthy_threshold of a half.
get_health(s) ==
  [is_healthy |-> s = <<>> \/ 2 * Failures(s) < Len(s),
   consecutive_failures |-> Consecutive(s),
   last_success |-> Max({0} \cup {i \in DOMAIN s : s[i]}),
   last_failure |-> Max({0} \cup {i \in DOMAIN s : ~s[i]})]

HealthNext == \E ok \in BOOLEAN : RecordOutcome(ok)

HealthSpec == HealthInit /\ [][HealthNext]_healthVars

-----------------------------------------------------------------------------
\* Health is that of the last operations: all failing is unhealthy, the run
\* of failures is the one since the last success, as far as the window reaches,
\* and it is none exactly if the last one succeeded; a provider is
\* unhealthy after more failures running than half of the window.
HealthOfRecent ==
  LET recent == SubSeq(outcomes, IF Len(outcomes) > WindowSize THEN Len(outcomes) - WindowSize + 1 ELSE 1,
                       Len(outcomes))
      h == get_health(metrics)
      trailing == Len(outcomes) - Max({0} \cup {i \in DOMAIN outcomes : outcomes[i]})
  IN  /\ metrics = recent
      /\ h.consecutive_failures = IF trailing > WindowSize THEN WindowSize ELSE trailing
      /\ h.consecutive_failures > 0 <=> h.last_failure > h.last_success
      /\ 2 * h.consecutive_failures >= WindowSize => ~h.is_healthy
=============================================================================
