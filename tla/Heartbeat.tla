----------------------------- MODULE Heartbeat -----------------------------
(***************************************************************************)
(* HeartbeatManager of flash/src/network/heartbeat.rs: the health of each  *)
(* connection from the pongs that came and the pongs that did not.         *)
(*                                                                         *)
(* record_pong and record_missed_pong release the entry between counting   *)
(* and writing the status, so each is two steps.  No ping task is spawned: *)
(* the callers report pongs and timeouts.  Instants are left out, and with *)
(* them is_stale and since_last_pong.                                      *)
(***************************************************************************)
EXTENDS Naturals

CONSTANTS Monitored,            \* the exchanges
          Reporters,            \* the threads that report
          DegradedThreshold, UnhealthyThreshold,
          Latencies,            \* round trips in microseconds
          MaxReports,           \* bound on pongs, and on missed pongs
          MaxPings              \* bound on pings

\* HeartbeatConfig::validate, for the part of the configuration that matters.
ValidHeartbeatConfig ==
  /\ DegradedThreshold \in Nat /\ UnhealthyThreshold \in Nat
  /\ UnhealthyThreshold >= DegradedThreshold

ASSUME HeartbeatAssumption ==
  ValidHeartbeatConfig /\ Latencies \subseteq Nat \ {0} /\ "none" \notin Monitored

HealthStatuses == {"Unknown", "Healthy", "Degraded", "Unhealthy"}

VARIABLES health,   \* health_states; an entry that does not exist has exists = FALSE
          report,   \* the report each thread is in the middle of
          torn,     \* history: reports about this exchange overlapped, and none
                    \* that settles its status has been made by itself since
          said      \* history: the statuses the counters stood for since the
                    \* status was last settled

hbVars == <<health, report, torn, said>>

\* HealthState::new.
NewHealth == [exists |-> TRUE, status |-> "Unknown", missed_pongs |-> 0,
              last_latency_us |-> 0, avg_latency_us |-> 0,
              total_pongs |-> 0, total_pings |-> 0, monitoring |-> FALSE]
NoReport == [op |-> "none", exchange |-> "none", old_status |-> "Unknown", missed |-> 0]

\* HeartbeatManager::new.
HeartbeatInit ==
  /\ health = [e \in Monitored |-> [NewHealth EXCEPT !.exists = FALSE]]
  /\ report = [r \in Reporters |-> NoReport]
  /\ torn = [e \in Monitored |-> FALSE]
  /\ said = [e \in Monitored |-> {"Unknown"}]

\* entry(exchange).or_insert_with(HealthState::new).
Entry(e) == [health[e] EXCEPT !.exists = TRUE]

InReport(e) == \E r \in Reporters : report[r].exchange = e

start_monitoring(e) ==
  /\ ~health[e].monitoring
  /\ health' = [health EXCEPT ![e] = [Entry(e) EXCEPT !.monitoring = TRUE]]
  /\ UNCHANGED <<report, torn, said>>

stop_monitoring(e) ==
  /\ health[e].exists /\ health[e].monitoring
  /\ health' = [health EXCEPT ![e].monitoring = FALSE]
  /\ UNCHANGED <<report, torn, said>>

\* Stops whatever is monitored.
hb_shutdown ==
  /\ health' = [e \in Monitored |-> [health[e] EXCEPT !.monitoring = FALSE]]
  /\ UNCHANGED <<report, torn, said>>

\* The ping is counted and nothing is sent.
force_ping(e) ==
  /\ health[e].exists
  /\ health[e].total_pings < MaxPings
  /\ health' = [health EXCEPT ![e].total_pings = @ + 1]
  /\ UNCHANGED <<report, torn, said>>

\* Exponential moving average with ALPHA = 0.2, truncated.
Average(old_avg, latency_us) ==
  IF old_avg = 0 THEN latency_us ELSE (4 * old_avg + latency_us) \div 5

\* What so many missed pongs in a row mean, after so many pongs.
StatusFor(missed, pongs) ==
  IF missed > 0 /\ missed >= UnhealthyThreshold THEN "Unhealthy"
  ELSE IF missed > 0 /\ missed >= DegradedThreshold THEN "Degraded"
  ELSE IF pongs > 0 THEN "Healthy" ELSE "Unknown"

\* The status is settled when no report about e is under way and none that
\* overlapped another is still unanswered by one that was made by itself.
Settled(e) == ~torn[e] /\ ~InReport(e)

\* said, once the counters of e have come to missed and pongs.
SaidWith(e, missed, pongs) ==
  [said EXCEPT ![e] =
     (IF Settled(e) THEN {StatusFor(health[e].missed_pongs, health[e].total_pongs)} ELSE @)
     \cup {StatusFor(missed, pongs)}]

\* record_pong_internal up to the release of the entry; a latency of zero
\* is no measurement.
PongBegin(r, e, latency_us) ==
  /\ report[r] = NoReport
  /\ health[e].total_pongs < MaxReports
  /\ LET s == Entry(e)
     IN  health' = [health EXCEPT ![e] =
           [s EXCEPT !.missed_pongs = 0, !.total_pongs = @ + 1,
                     !.last_latency_us = IF latency_us > 0 THEN latency_us ELSE @,
                     !.avg_latency_us = IF latency_us > 0 THEN Average(@, latency_us)
                                        ELSE @]]
  /\ report' = [report EXCEPT ![r] = [op |-> "pong", exchange |-> e,
                                      old_status |-> health[e].status, missed |-> 0]]
  /\ torn' = [torn EXCEPT ![e] = InReport(e)]
  /\ said' = SaidWith(e, 0, health[e].total_pongs + 1)

PongEnd(r) ==
  /\ report[r].op = "pong"
  /\ health' = [health EXCEPT ![report[r].exchange].status = "Healthy"]
  /\ report' = [report EXCEPT ![r] = NoReport]
  /\ UNCHANGED <<torn, said>>

\* record_missed_pong up to the release of the entry.  Made by itself it settles
\* the status from the degraded threshold on; below, it keeps the old one.
MissedBegin(r, e) ==
  /\ report[r] = NoReport
  /\ health[e].missed_pongs < MaxReports
  /\ health' = [health EXCEPT ![e] = [Entry(e) EXCEPT !.missed_pongs = @ + 1]]
  /\ report' = [report EXCEPT ![r] = [op |-> "missed", exchange |-> e,
                                      old_status |-> health[e].status,
                                      missed |-> health[e].missed_pongs + 1]]
  /\ torn' = [torn EXCEPT ![e] =
                InReport(e) \/ (@ /\ health[e].missed_pongs + 1 < DegradedThreshold)]
  /\ said' = SaidWith(e, health[e].missed_pongs + 1, health[e].total_pongs)

\* Mutant: the threshold is passed only by more missed pongs than it says.
NewStatusLate(old_status, missed) ==
  IF missed > UnhealthyThreshold THEN "Unhealthy"
  ELSE IF missed > DegradedThreshold THEN "Degraded"
  ELSE old_status

NewStatus(old_status, missed) ==
  IF missed >= UnhealthyThreshold THEN "Unhealthy"
  ELSE IF missed >= DegradedThreshold THEN "Degraded"
  ELSE old_status

MissedEnd(r) ==
  /\ report[r].op = "missed"
  /\ health' = [health EXCEPT ![report[r].exchange].status =
                  NewStatus(report[r].old_status, report[r].missed)]
  /\ report' = [report EXCEPT ![r] = NoReport]
  /\ UNCHANGED <<torn, said>>

HeartbeatNext ==
  \/ \E e \in Monitored : start_monitoring(e) \/ stop_monitoring(e) \/ force_ping(e)
  \/ hb_shutdown
  \/ \E r \in Reporters :
       \/ \E e \in Monitored :
            \/ \E latency_us \in Latencies \cup {0} : PongBegin(r, e, latency_us)
            \/ MissedBegin(r, e)
       \/ PongEnd(r) \/ MissedEnd(r)

HeartbeatSpec == HeartbeatInit /\ [][HeartbeatNext]_hbVars

\* health_status: Unknown if nothing was ever reported.
health_status(e) == IF health[e].exists THEN health[e].status ELSE "Unknown"

\* health_summary; a latency of zero is shown as none.
health_summary(e) ==
  LET shown(us) == IF us > 0 THEN {us} ELSE {}
  IN  [status |-> health_status(e), missed_pongs |-> health[e].missed_pongs,
       last_latency_us |-> shown(health[e].last_latency_us),
       avg_latency_us |-> shown(health[e].avg_latency_us)]

-----------------------------------------------------------------------------
\* health_status tells what the counters say when it is settled: unhealthy or
\* degraded from its threshold of missed pongs in a row on, else healthy once a
\* pong has come.  That does not depend on monitoring: an exchange that is not
\* or no longer monitored shows what was reported about it, although the
\* comments on health_status and on HealthStatus::Unknown (heartbeat.rs:711,
\* :94) say "Unknown if not monitoring".
HealthAgrees ==
  \A e \in Monitored :
    Settled(e) => health_status(e) = StatusFor(health[e].missed_pongs, health[e].total_pongs)

\* Overlapping reports may leave a healthy connection unhealthy and the other
\* way round, but what is shown then is a verdict the counters stood for at
\* some moment since the status was last settled: one of the reports that
\* overlapped wins, never an older one.
HealthRecent == \A e \in Monitored : health_status(e) \in said[e]

\* The latencies shown are ones that can be: none before the first
\* measurement, afterwards the average between the smallest and the largest
\* round trip, however truncation and overlapping reports went.
LatencyBounded ==
  \A e \in Monitored :
    LET summary == health_summary(e)
    IN  /\ summary.status \in HealthStatuses
        /\ summary.last_latency_us \subseteq Latencies
        /\ summary.last_latency_us = {} <=> summary.avg_latency_us = {}
        /\ \A avg \in summary.avg_latency_us :
             \E lo, hi \in Latencies : lo <= avg /\ avg <= hi

\* The health that the heartbeat monitor reports follows the pongs and missed
\* pongs reported to it: exactly while it is settled, within the reports that
\* overlap while it is not; and its latencies are possible ones.
HealthSound == HealthAgrees /\ HealthRecent /\ LatencyBounded
=============================================================================
