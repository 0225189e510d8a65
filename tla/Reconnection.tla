---------------------------- MODULE Reconnection ----------------------------
(***************************************************************************)
(* ReconnectionManager of flash/src/network/reconnect.rs: which exchanges  *)
(* are to be reconnected, the subscriptions to restore, and the sequence   *)
(* numbers by which lost messages are noticed.  No reconnection task       *)
(* exists: attempt, started_at and last_error are only ever cleared, and   *)
(* reconnect_now reports an event.  enable stores the flag and the status  *)
(* under two separate locks, so it is two steps; every other operation     *)
(* holds the entry throughout.                                             *)
(***************************************************************************)
EXTENDS Naturals, FiniteSets

CONSTANTS Venues,          \* the exchanges
          Managers,        \* the threads that call enable
          SequenceNumbers, \* the numbers an exchange may send
          MaxSubscriptions \* bound on the subscriptions registered

ASSUME ReconnectionAssumption == SequenceNumbers \subseteq Nat /\ MaxSubscriptions \in Nat

VARIABLES reconn,    \* states; an entry that does not exist has exists = FALSE
          enabling,  \* the exchange each thread is in the middle of enabling
          seen,      \* history: the numbers recorded since tracking began
          first,     \* history: the one it began with
          gaps       \* history: the gaps record_sequence returned since then

reconnVars == <<reconn, enabling, seen, first, gaps>>

\* ReconnectionStatus.  Only Idle and Disabled are ever assigned.
ReconnectionStatus ==
  {"Idle", "Reconnecting", "Waiting", "RestoringSubscriptions", "Failed", "Disabled"}

\* ReconnectionState::new.
NewState == [exists |-> TRUE, status |-> "Disabled", enabled |-> FALSE,
             subscriptions |-> 0, last_sequence |-> 0, sequence_initialized |-> FALSE]

\* ReconnectionManager::new.
ReconnectionInit ==
  /\ reconn = [v \in Venues |-> [NewState EXCEPT !.exists = FALSE]]
  /\ enabling = [m \in Managers |-> {}]
  /\ seen = [v \in Venues |-> {}]
  /\ first = [v \in Venues |-> 0]
  /\ gaps = [v \in Venues |-> {}]

\* entry(exchange).or_insert_with(ReconnectionState::new).
StateOf(v) == [reconn[v] EXCEPT !.exists = TRUE]

\* enable: the flag, then, with the entry locked anew, the status.
EnableFlag(m, v) ==
  /\ enabling[m] = {}
  /\ reconn' = [reconn EXCEPT ![v] = [StateOf(v) EXCEPT !.enabled = TRUE]]
  /\ enabling' = [enabling EXCEPT ![m] = {v}]
  /\ UNCHANGED <<seen, first, gaps>>

\* Mutant: new entries are made Idle instead, so that one that was made by
\* register_subscription stays Disabled.
EnableStatusOnce(m, v) ==
  /\ v \in enabling[m]
  /\ reconn' = [reconn EXCEPT ![v].status =
                  IF reconn[v].subscriptions = 0 THEN "Idle" ELSE @]
  /\ enabling' = [enabling EXCEPT ![m] = {}]
  /\ UNCHANGED <<seen, first, gaps>>

EnableStatus(m, v) ==
  /\ v \in enabling[m]
  /\ reconn' = [reconn EXCEPT ![v].status = IF @ = "Disabled" THEN "Idle" ELSE @]
  /\ enabling' = [enabling EXCEPT ![m] = {}]
  /\ UNCHANGED <<seen, first, gaps>>

disable(v) ==
  /\ reconn[v].exists
  /\ reconn' = [reconn EXCEPT ![v] = [reconn[v] EXCEPT !.enabled = FALSE,
                                                       !.status = "Disabled"]]
  /\ UNCHANGED <<enabling, seen, first, gaps>>

\* disable for every entry, one after the other; entries do not affect each
\* other, so that the states in between are those disable leads to.
shutdown ==
  /\ reconn' = [v \in Venues |->
                  IF reconn[v].exists
                  THEN [reconn[v] EXCEPT !.enabled = FALSE, !.status = "Disabled"]
                  ELSE reconn[v]]
  /\ UNCHANGED <<enabling, seen, first, gaps>>

register_subscription(v) ==
  /\ reconn[v].subscriptions < MaxSubscriptions
  /\ reconn' = [reconn EXCEPT ![v] = [StateOf(v) EXCEPT !.subscriptions = @ + 1]]
  /\ UNCHANGED <<enabling, seen, first, gaps>>

clear_subscriptions(v) ==
  /\ reconn[v].exists
  /\ reconn' = [reconn EXCEPT ![v].subscriptions = 0]
  /\ UNCHANGED <<enabling, seen, first, gaps>>

\* reconnect_now: an event, if the exchange is enabled; an error if not.
reconnect_now(v) == reconn[v].exists /\ reconn[v].enabled /\ UNCHANGED reconnVars

\* reset: also a disabled exchange becomes Idle.
reset(v) ==
  /\ reconn[v].exists
  /\ reconn' = [reconn EXCEPT ![v] = [reconn[v] EXCEPT !.status = "Idle",
                                        !.last_sequence = 0,
                                        !.sequence_initialized = FALSE]]
  /\ seen' = [seen EXCEPT ![v] = {}]
  /\ first' = [first EXCEPT ![v] = 0]
  /\ gaps' = [gaps EXCEPT ![v] = {}]
  /\ UNCHANGED enabling

\* Mutant: a single lost message is let pass.
IgnoresSmallGap(last, sequence) == sequence > last + 2

\* The condition under which record_sequence reports a gap.
IsGap(last, sequence) ==
  sequence # last + 1 /\ sequence # last /\ sequence > last

\* record_sequence: the first number is taken as it is; every later one,
\* also one that is older than the last, becomes the last.
record_sequence(v, sequence) ==
  LET s == StateOf(v)
      new == [s EXCEPT !.last_sequence = sequence, !.sequence_initialized = TRUE]
      gap == s.sequence_initialized /\ IsGap(s.last_sequence, sequence)
  IN  /\ reconn' = [reconn EXCEPT ![v] = new]
      /\ seen' = [seen EXCEPT ![v] = @ \cup {sequence}]
      /\ first' = [first EXCEPT ![v] = IF s.sequence_initialized THEN @ ELSE sequence]
      /\ gaps' = [gaps EXCEPT ![v] =
                    IF gap THEN @ \cup {[expected |-> s.last_sequence + 1,
                                         received |-> sequence]}
                    ELSE @]
      /\ UNCHANGED enabling

ReconnectionNext ==
  \/ \E v \in Venues :
       \/ \E m \in Managers : EnableFlag(m, v) \/ EnableStatus(m, v)
       \/ disable(v)
       \/ register_subscription(v) \/ clear_subscriptions(v) \/ reset(v)
       \/ reconnect_now(v)
       \/ \E sequence \in SequenceNumbers : record_sequence(v, sequence)
  \/ shutdown

ReconnectionSpec == ReconnectionInit /\ [][ReconnectionNext]_reconnVars

\* status: Disabled if the exchange has no entry.
status(v) == IF reconn[v].exists THEN reconn[v].status ELSE "Disabled"

-----------------------------------------------------------------------------
\* Every variable has its type.
ReconnTypeOK ==
  /\ reconn \in [Venues -> [exists : BOOLEAN, status : ReconnectionStatus, enabled : BOOLEAN,
                            subscriptions : Nat, last_sequence : Nat,
                            sequence_initialized : BOOLEAN]]
  /\ enabling \in [Managers -> {{}} \cup {{v} : v \in Venues}]
  /\ seen \in [Venues -> SUBSET Nat]
  /\ first \in [Venues -> Nat]
  /\ gaps \in [Venues -> SUBSET [expected : Nat, received : Nat]]

Covered(v, n) == \E g \in gaps[v] : g.expected <= n /\ n < g.received

\* No loss is passed over: every number between the first one recorded and
\* any later one was either recorded itself or lies in a gap that
\* record_sequence returned, however the messages were delayed, repeated or
\* lost, and although a late message moves last_sequence back.
NoSilentLoss ==
  \A v \in Venues : \A s \in seen[v] : \A n \in first[v]..s :
    n \in seen[v] \/ Covered(v, n)

\* An exchange is not reported as Disabled while it is enabled, whatever
\* enable, disable, reset and shutdown do at once, except between the two
\* steps of enable.
EnabledNotDisabled ==
  \A v \in Venues :
    reconn[v].enabled /\ status(v) = "Disabled" =>
      \E m \in Managers : v \in enabling[m]

\* What NoSilentLoss and EnabledNotDisabled rest on: only an entry that exists
\* is enabled, the last number is one that was recorded, and nothing is
\* recorded before tracking begins.
Tracked ==
  \A v \in Venues :
    /\ reconn[v].enabled => reconn[v].exists
    /\ reconn[v].sequence_initialized => reconn[v].last_sequence \in seen[v]
    /\ ~reconn[v].sequence_initialized => seen[v] = {} /\ gaps[v] = {}
    /\ reconn[v].sequence_initialized => first[v] \in seen[v]

\* All of the above, which is inductive.
ReconnInv == ReconnTypeOK /\ Tracked /\ NoSilentLoss /\ EnabledNotDisabled
=============================================================================
