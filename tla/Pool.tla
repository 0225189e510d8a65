-------------------------------- MODULE Pool --------------------------------
(***************************************************************************)
(* RedisPool of flash/src/publisher/pool.rs, over the deadpool pool it     *)
(* wraps: how a client gets a connection and gives it back, what the       *)
(* statistics say meanwhile, close, reset and the health status.           *)
(*                                                                         *)
(* get checks the flag, awaits the inner pool and counts afterwards; the   *)
(* drop of a PooledConnection counts first, and only then does the inner   *)
(* pool get the connection back.  Each is a step of its own.  The counts   *)
(* that only ever grow (created, recycled, executed commands) are left out. *)
(***************************************************************************)
EXTENDS Naturals, FiniteSets, Sequences

CONSTANTS PoolClients,
          MaxSize,            \* max_size
          MinIdle,            \* min_idle
          UnhealthyAfter,     \* failed health checks that make the pool Unhealthy (5)
          MaxFailures         \* bound on connection_failures and connection_timeouts

\* PoolConfig::validate, for the fields that matter here.
ValidPoolConfig == MaxSize \in Nat \ {0} /\ MinIdle \in Nat /\ MinIdle <= MaxSize

ASSUME PoolAssumption ==
  ValidPoolConfig /\ UnhealthyAfter \in Nat \ {0} /\ IsFiniteSet(PoolClients)

VARIABLES client,        \* what each client is doing
          inner_closed,  \* deadpool has been closed
          closed,        \* RedisPool::closed
          pstats,        \* PoolStats
          phealth,       \* PoolHealth
          pings          \* history: the results of the health checks since the last reset

poolVars == <<client, inner_closed, closed, pstats, phealth, pings>>

\* The phases of a client that has a connection of the inner pool.
HasConnection == {"granted", "holding", "counted", "dropping"}
Held == {c \in PoolClients : client[c].phase \in HasConnection}

Resting == [op |-> "none", phase |-> "idle", todo |-> <<>>, ok |-> TRUE, snap |-> 0]

\* PoolHealth::default.
NoHealth == [status |-> "Unknown", successes |-> 0, failures |-> 0]

\* PoolStats::default.
NoStats == [in_use |-> 0, idle |-> 0, failures |-> 0, timeouts |-> 0, peak |-> 0]

\* RedisPool::new: no connection exists yet.
PoolInit ==
  /\ client = [c \in PoolClients |-> Resting]
  /\ inner_closed = FALSE /\ closed = FALSE
  /\ pstats = NoStats
  /\ phealth = NoHealth /\ pings = <<>>

Step(c, phase) == client' = [client EXCEPT ![c].phase = phase]
Fail(c) == client' = [client EXCEPT ![c].phase = "settling", ![c].ok = FALSE]

\* get: PoolClosed if the flag is set.
GetClosed(c) ==
  /\ client[c].phase = "begun" /\ closed
  /\ Fail(c)
  /\ UNCHANGED <<inner_closed, closed, pstats, phealth, pings>>

GetChecked(c) ==
  /\ client[c].phase = "begun" /\ ~closed
  /\ Step(c, "checked")
  /\ UNCHANGED <<inner_closed, closed, pstats, phealth, pings>>

\* deadpool hands out at most MaxSize connections at a time, and none once
\* it has been closed.
Granted(c) ==
  /\ client[c].phase = "checked"
  /\ ~inner_closed /\ Cardinality(Held) < MaxSize
  /\ Step(c, "granted")
  /\ UNCHANGED <<inner_closed, closed, pstats, phealth, pings>>

\* AcquisitionFailed: closed, nothing free in time, or no connection to Redis.
GetFails(c) ==
  /\ client[c].phase = "checked"
  /\ pstats.failures < MaxFailures
  /\ pstats' = [pstats EXCEPT !.failures = @ + 1]
  /\ Fail(c)
  /\ UNCHANGED <<inner_closed, closed, phealth, pings>>

\* get_timeout gives up at the await.
GetTimesOut(c) ==
  /\ client[c].phase = "checked" /\ client[c].op = "get"
  /\ pstats.timeouts < MaxFailures
  /\ pstats' = [pstats EXCEPT !.timeouts = @ + 1]
  /\ Fail(c)
  /\ UNCHANGED <<inner_closed, closed, phealth, pings>>

MinusOne(n) == IF n > 0 THEN n - 1 ELSE 0

\* get, after the await.
GetCounted(c) ==
  /\ client[c].phase = "granted"
  /\ pstats' = [pstats EXCEPT !.in_use = @ + 1, !.idle = MinusOne(@),
                              !.peak = IF pstats.in_use + 1 > @ THEN pstats.in_use + 1 ELSE @]
  /\ Step(c, "holding")
  /\ UNCHANGED <<inner_closed, closed, phealth, pings>>

\* Mutant: a connection that comes back to a closed pool stays counted.
DropCountedClosed(c) ==
  /\ client[c].phase = "counted"
  /\ pstats' = [pstats EXCEPT !.idle = @ + 1, !.in_use = IF closed THEN @ ELSE MinusOne(@)]
  /\ Step(c, "dropping")
  /\ UNCHANGED <<inner_closed, closed, phealth, pings>>

\* Drop of a PooledConnection.
DropCounted(c) ==
  /\ client[c].phase = "counted"
  /\ pstats' = [pstats EXCEPT !.idle = @ + 1, !.in_use = MinusOne(@)]
  /\ Step(c, "dropping")
  /\ UNCHANGED <<inner_closed, closed, phealth, pings>>

\* The inner connection goes back to deadpool.
Returned(c) ==
  /\ client[c].phase = "dropping"
  /\ Step(c, "settling")
  /\ UNCHANGED <<inner_closed, closed, pstats, phealth, pings>>

\* health_check, once ping has returned.
HealthAfter(ok) ==
  IF ok THEN [status |-> "Healthy", successes |-> phealth.successes + 1, failures |-> 0]
  ELSE [status |-> IF phealth.failures + 1 >= UnhealthyAfter THEN "Unhealthy" ELSE "Degraded",
        successes |-> 0, failures |-> phealth.failures + 1]

close ==
  /\ ~closed
  /\ closed' = TRUE /\ inner_closed' = TRUE
  /\ UNCHANGED <<client, pstats, phealth, pings>>

\* reset closes the inner pool for good and opens the flag; connections that
\* are out are no longer counted.
reset_pool ==
  /\ closed' = FALSE /\ inner_closed' = TRUE
  /\ pstats' = [pstats EXCEPT !.idle = 0, !.in_use = 0]
  /\ phealth' = NoHealth /\ pings' = <<>>
  /\ UNCHANGED client

PoolStep(c) ==
  \/ GetClosed(c) \/ GetChecked(c) \/ Granted(c) \/ GetFails(c) \/ GetTimesOut(c)
  \/ GetCounted(c) \/ DropCounted(c) \/ Returned(c)

-----------------------------------------------------------------------------
\* The statistics never show more connections in use than are out, nor a
\* peak above max_size, although they are counted late on the way out and
\* early on the way back, and a reset forgets those that are out; with every
\* client at rest they show none, whichever of them failed where.
PoolCountsHold ==
  /\ pstats.in_use <= Cardinality(Held)
  /\ pstats.peak <= MaxSize
  /\ (\A c \in PoolClients : client[c] = Resting) => pstats.in_use = 0

\* The checks at the end of results that failed in a row.
Failing(results) == {n \in 1 .. Len(results) : \A i \in n .. Len(results) : ~results[i]}

\* The status is what the health checks since the last reset say, however
\* they overlap with each other and with close: Unhealthy once the last
\* UnhealthyAfter of them failed, Degraded if fewer did, Healthy after a
\* success, Unknown before the first.
HealthTruthful ==
  phealth.status = IF pings = <<>> THEN "Unknown"
                   ELSE IF Failing(pings) = {} THEN "Healthy"
                   ELSE IF Cardinality(Failing(pings)) >= UnhealthyAfter THEN "Unhealthy"
                   ELSE "Degraded"

\* The pool's gauge of connections in use and its health say what the
\* connections and the checks were, whichever calls overlap.
PoolSound == PoolCountsHold /\ HealthTruthful
=============================================================================
