--------------------------- MODULE NetworkProofs ---------------------------
(***************************************************************************)
(* Proofs about the network layer of flash, for any exchanges, threads and *)
(* limits.  Reconnection: record_sequence passes over no loss, and an      *)
(* enabled exchange is reported as Disabled only in the middle of enable.  *)
(* Heartbeat: the status agrees with the pongs unless reports overlapped,  *)
(* and the latencies shown are bounded by those measured.  Connector: no   *)
(* task runs on unowned, and the gauge does not hide a live connection.    *)
(***************************************************************************)
EXTENDS Connector, Heartbeat, Reconnection, SequenceTheorems, TLAPS

VenueEntry == [exists : BOOLEAN, status : ReconnectionStatus, enabled : BOOLEAN,
          subscriptions : Nat, last_sequence : Nat, sequence_initialized : BOOLEAN]

\* What the types say of one entry, in the form in which the steps need it.
LEMMA EntryTypes ==
  ASSUME ReconnTypeOK, NEW v \in Venues
  PROVE  reconn[v] \in VenueEntry /\ StateOf(v) \in VenueEntry
BY DEF ReconnTypeOK, VenueEntry, StateOf

\* An operation that leaves the sequence numbers of every entry alone keeps
\* NoSilentLoss, and Tracked as well if it enables only what exists.
LEMMA SequencesKept ==
  ASSUME Tracked, NoSilentLoss, UNCHANGED <<seen, first, gaps>>,
         \A v \in Venues :
           /\ reconn'[v].last_sequence = reconn[v].last_sequence
           /\ reconn'[v].sequence_initialized = reconn[v].sequence_initialized
           /\ reconn'[v].enabled => reconn'[v].exists
  PROVE  Tracked' /\ NoSilentLoss'
<1>1. Tracked'
  BY DEF Tracked
<1>2. NoSilentLoss'
  BY DEF NoSilentLoss, Covered
<1>3. QED
  BY <1>1, <1>2

\* Initially nothing is enabled and nothing has been recorded.
LEMMA ReconnInit == ReconnectionInit => ReconnInv
<1>1. SUFFICES ASSUME ReconnectionInit PROVE ReconnInv
  OBVIOUS
<1>2. ReconnTypeOK
  BY <1>1 DEF ReconnectionInit, ReconnTypeOK, NewState, ReconnectionStatus
<1>3. \A v \in Venues : ~reconn[v].enabled /\ ~reconn[v].sequence_initialized
  BY <1>1 DEF ReconnectionInit, NewState
<1>4. \A v \in Venues : seen[v] = {} /\ gaps[v] = {}
  BY <1>1 DEF ReconnectionInit
<1>5. Tracked /\ NoSilentLoss /\ EnabledNotDisabled
  BY <1>3, <1>4 DEF Tracked, NoSilentLoss, EnabledNotDisabled
<1>6. QED
  BY <1>2, <1>5 DEF ReconnInv

\* The first step of enable.
LEMMA EnableFlagKeeps ==
  ASSUME ReconnInv, NEW m \in Managers, NEW v \in Venues, EnableFlag(m, v)
  PROVE  ReconnInv'
<1>1. reconn[v] \in VenueEntry /\ StateOf(v) \in VenueEntry
  BY EntryTypes DEF ReconnInv
<1>2. [StateOf(v) EXCEPT !.enabled = TRUE] \in VenueEntry
  BY <1>1 DEF VenueEntry
<1>3. ReconnTypeOK'
  BY <1>2 DEF ReconnInv, ReconnTypeOK, EnableFlag, VenueEntry
<1>4. \A w \in Venues :
        reconn'[w] = IF w = v THEN [StateOf(v) EXCEPT !.enabled = TRUE] ELSE reconn[w]
  BY DEF EnableFlag, ReconnInv, ReconnTypeOK
<1>5. /\ reconn'[v].exists
      /\ reconn'[v].last_sequence = reconn[v].last_sequence
      /\ reconn'[v].sequence_initialized = reconn[v].sequence_initialized
  BY <1>1, <1>4 DEF StateOf, VenueEntry
<1>6. Tracked' /\ NoSilentLoss'
  <2>1. UNCHANGED <<seen, first, gaps>>
    BY DEF EnableFlag
  <2>2. \A w \in Venues : reconn'[w].enabled => reconn'[w].exists
    BY <1>4, <1>5 DEF ReconnInv, Tracked
  <2>3. QED
    BY <1>4, <1>5, <2>1, <2>2, SequencesKept DEF ReconnInv
<1>7. EnabledNotDisabled'
  <2>1. SUFFICES ASSUME NEW w \in Venues, reconn'[w].enabled, status(w)' = "Disabled"
                 PROVE  \E k \in Managers : w \in enabling'[k]
    BY DEF EnabledNotDisabled
  <2>2. \A k \in Managers : enabling'[k] = IF k = m THEN {v} ELSE enabling[k]
    BY DEF EnableFlag, ReconnInv, ReconnTypeOK
  <2>3. CASE w = v
    BY <2>2, <2>3
  <2>4. CASE w # v
    <3>1. reconn'[w] = reconn[w]
      BY <1>4, <2>4
    <3>2. PICK k \in Managers : w \in enabling[k]
      BY <2>1, <3>1 DEF ReconnInv, EnabledNotDisabled, status
    <3>3. k # m
      BY <3>2 DEF EnableFlag
    <3>4. QED
      BY <2>2, <3>2, <3>3
  <2>5. QED
    BY <2>3, <2>4
<1>8. QED
  BY <1>3, <1>6, <1>7 DEF ReconnInv

\* The second step of enable: the entry is locked anew, and another thread may
\* have disabled the exchange in between.
LEMMA EnableStatusKeeps ==
  ASSUME ReconnInv, NEW m \in Managers, NEW v \in Venues, EnableStatus(m, v)
  PROVE  ReconnInv'
<1>1. reconn[v] \in VenueEntry
  BY EntryTypes DEF ReconnInv
<1> DEFINE idle == IF reconn[v].status = "Disabled" THEN "Idle" ELSE reconn[v].status
<1>2. [reconn[v] EXCEPT !.status = idle] \in VenueEntry /\ idle # "Disabled"
  BY <1>1 DEF VenueEntry, ReconnectionStatus
<1>3. \A w \in Venues :
        reconn'[w] = IF w = v THEN [reconn[v] EXCEPT !.status = idle] ELSE reconn[w]
  BY DEF EnableStatus, ReconnInv, ReconnTypeOK
<1>4. reconn' \in [Venues -> VenueEntry]
  BY <1>2 DEF EnableStatus, ReconnInv, ReconnTypeOK, VenueEntry
<1> HIDE DEF idle
<1>5. ReconnTypeOK'
  BY <1>4 DEF ReconnInv, ReconnTypeOK, EnableStatus, VenueEntry
<1>6. Tracked' /\ NoSilentLoss'
  <2>1. UNCHANGED <<seen, first, gaps>>
    BY DEF EnableStatus
  <2>2. \A w \in Venues :
          /\ reconn'[w].last_sequence = reconn[w].last_sequence
          /\ reconn'[w].sequence_initialized = reconn[w].sequence_initialized
          /\ reconn'[w].enabled = reconn[w].enabled
          /\ reconn'[w].exists = reconn[w].exists
    BY <1>1, <1>3 DEF VenueEntry
  <2>3. \A w \in Venues : reconn'[w].enabled => reconn'[w].exists
    BY <2>2 DEF ReconnInv, Tracked
  <2>4. QED
    BY <2>1, <2>2, <2>3, SequencesKept DEF ReconnInv
<1>7. EnabledNotDisabled'
  <2>1. SUFFICES ASSUME NEW w \in Venues, reconn'[w].enabled, status(w)' = "Disabled"
                 PROVE  \E k \in Managers : w \in enabling'[k]
    BY DEF EnabledNotDisabled
  <2>2. w # v
    <3>1. SUFFICES ASSUME w = v PROVE FALSE
      OBVIOUS
    <3>2. reconn'[v].exists
      BY <1>6, <2>1, <3>1 DEF Tracked
    <3>3. reconn'[v].status = idle
      BY <1>1, <1>3 DEF VenueEntry
    <3>4. QED
      BY <1>2, <2>1, <3>1, <3>2, <3>3 DEF status
  <2>3. reconn'[w] = reconn[w]
    BY <1>3, <2>2
  <2>4. PICK k \in Managers : w \in enabling[k]
    BY <2>1, <2>3 DEF ReconnInv, EnabledNotDisabled, status
  <2>5. enabling[m] = {v}
    BY DEF EnableStatus, ReconnInv, ReconnTypeOK
  <2>6. k # m
    BY <2>2, <2>4, <2>5
  <2>7. QED
    BY <2>4, <2>6 DEF EnableStatus, ReconnInv, ReconnTypeOK
<1>8. QED
  BY <1>5, <1>6, <1>7 DEF ReconnInv

\* An operation that enables nothing and leaves the status of what stays
\* enabled alone, or makes it Idle, keeps EnabledNotDisabled.
LEMMA ReportKept ==
  ASSUME EnabledNotDisabled, Tracked', UNCHANGED enabling,
         \A v \in Venues : reconn'[v].enabled =>
           /\ reconn[v].enabled
           /\ reconn'[v].status = reconn[v].status \/ reconn'[v].status = "Idle"
  PROVE  EnabledNotDisabled'
<1>1. SUFFICES ASSUME NEW v \in Venues, reconn'[v].enabled, status(v)' = "Disabled"
               PROVE  \E m \in Managers : v \in enabling'[m]
  BY DEF EnabledNotDisabled
<1>2. reconn'[v].exists
  BY <1>1 DEF Tracked
<1>3. reconn'[v].status = "Disabled"
  BY <1>1, <1>2 DEF status
<1>4. reconn[v].enabled /\ status(v) = "Disabled"
  BY <1>1, <1>3 DEF status
<1>5. QED
  BY <1>4 DEF EnabledNotDisabled

\* One entry is replaced by one with the same sequence numbers that is
\* enabled only if the old one was.
LEMMA EntryReplaced ==
  ASSUME ReconnInv, NEW v \in Venues, NEW e \in VenueEntry,
         reconn' = [reconn EXCEPT ![v] = e],
         UNCHANGED <<enabling, seen, first, gaps>>,
         e.last_sequence = reconn[v].last_sequence,
         e.sequence_initialized = reconn[v].sequence_initialized,
         e.enabled => reconn[v].enabled /\ e.exists /\ e.status = reconn[v].status
  PROVE  ReconnInv'
<1>1. \A w \in Venues : reconn'[w] = IF w = v THEN e ELSE reconn[w]
  BY DEF ReconnInv, ReconnTypeOK
<1>2. ReconnTypeOK'
  BY DEF ReconnInv, ReconnTypeOK, VenueEntry
<1>3. \A w \in Venues : reconn'[w].enabled => reconn'[w].exists
  BY <1>1 DEF ReconnInv, Tracked
<1>4. Tracked' /\ NoSilentLoss'
  BY <1>1, <1>3, SequencesKept DEF ReconnInv
<1>5. EnabledNotDisabled'
  BY <1>1, <1>4, ReportKept DEF ReconnInv
<1>6. QED
  BY <1>2, <1>4, <1>5 DEF ReconnInv

\* disable, register_subscription and clear_subscriptions.
LEMMA EntryStepsKeep ==
  ASSUME ReconnInv, NEW v \in Venues,
         disable(v) \/ register_subscription(v) \/ clear_subscriptions(v)
  PROVE  ReconnInv'
<1>1. reconn[v] \in VenueEntry /\ StateOf(v) \in VenueEntry
  BY EntryTypes DEF ReconnInv
<1>2. CASE disable(v)
  <2> DEFINE e == [reconn[v] EXCEPT !.enabled = FALSE, !.status = "Disabled"]
  <2>1. /\ e \in VenueEntry /\ ~e.enabled
        /\ e.last_sequence = reconn[v].last_sequence
        /\ e.sequence_initialized = reconn[v].sequence_initialized
    BY <1>1 DEF VenueEntry, ReconnectionStatus
  <2>2. reconn' = [reconn EXCEPT ![v] = e] /\ UNCHANGED <<enabling, seen, first, gaps>>
    BY <1>2 DEF disable
  <2> HIDE DEF e
  <2>3. QED
    BY <2>1, <2>2, EntryReplaced
<1>3. CASE register_subscription(v)
  <2> DEFINE e == [StateOf(v) EXCEPT !.subscriptions = StateOf(v).subscriptions + 1]
  <2>1. /\ e \in VenueEntry /\ e.exists
        /\ e.last_sequence = reconn[v].last_sequence
        /\ e.sequence_initialized = reconn[v].sequence_initialized
        /\ e.enabled = reconn[v].enabled
        /\ e.status = reconn[v].status
    <3>1. /\ StateOf(v).exists
          /\ StateOf(v).last_sequence = reconn[v].last_sequence
          /\ StateOf(v).sequence_initialized = reconn[v].sequence_initialized
          /\ StateOf(v).enabled = reconn[v].enabled
          /\ StateOf(v).status = reconn[v].status
      BY <1>1 DEF VenueEntry, StateOf
    <3>2. QED
      BY <1>1, <3>1 DEF VenueEntry
  <2>2. reconn' = [reconn EXCEPT ![v] = e] /\ UNCHANGED <<enabling, seen, first, gaps>>
    BY <1>3 DEF register_subscription
  <2> HIDE DEF e
  <2>3. QED
    BY <2>1, <2>2, EntryReplaced
<1>4. CASE clear_subscriptions(v)
  <2> DEFINE e == [reconn[v] EXCEPT !.subscriptions = 0]
  <2>1. /\ e \in VenueEntry /\ e.exists = reconn[v].exists
        /\ e.last_sequence = reconn[v].last_sequence
        /\ e.sequence_initialized = reconn[v].sequence_initialized
        /\ e.enabled = reconn[v].enabled
        /\ e.status = reconn[v].status
    BY <1>1 DEF VenueEntry
  <2>2. reconn' = [reconn EXCEPT ![v] = e] /\ UNCHANGED <<enabling, seen, first, gaps>>
    BY <1>4 DEF clear_subscriptions
  <2> HIDE DEF e
  <2>3. QED
    BY <1>4, <2>1, <2>2, EntryReplaced DEF clear_subscriptions
<1>5. QED
  BY <1>2, <1>3, <1>4

\* shutdown disables every entry that exists.
LEMMA ShutdownKeeps == ReconnInv /\ shutdown => ReconnInv'
<1>1. SUFFICES ASSUME ReconnInv, shutdown PROVE ReconnInv'
  OBVIOUS
<1>2. ASSUME NEW v \in Venues
      PROVE  /\ reconn'[v] \in VenueEntry
             /\ reconn'[v].enabled => reconn[v].enabled /\ reconn'[v] = reconn[v]
             /\ reconn'[v].last_sequence = reconn[v].last_sequence
             /\ reconn'[v].sequence_initialized = reconn[v].sequence_initialized
  <2>1. reconn[v] \in VenueEntry
    BY <1>1, EntryTypes DEF ReconnInv
  <2>2. reconn'[v] = IF reconn[v].exists
                     THEN [reconn[v] EXCEPT !.enabled = FALSE, !.status = "Disabled"]
                     ELSE reconn[v]
    BY <1>1 DEF shutdown
  <2>3. QED
    BY <2>1, <2>2 DEF VenueEntry, ReconnectionStatus
<1>3. reconn' = [v \in Venues |-> reconn'[v]]
  BY <1>1 DEF shutdown
<1>4. ReconnTypeOK'
  BY <1>1, <1>2, <1>3 DEF ReconnInv, ReconnTypeOK, VenueEntry, shutdown
<1>5. UNCHANGED <<enabling, seen, first, gaps>>
  BY <1>1 DEF shutdown
<1>6. Tracked' /\ NoSilentLoss'
  BY <1>1, <1>2, <1>5, SequencesKept DEF ReconnInv, Tracked
<1>7. EnabledNotDisabled'
  BY <1>1, <1>2, <1>5, <1>6, ReportKept DEF ReconnInv
<1>8. QED
  BY <1>4, <1>6, <1>7 DEF ReconnInv

\* reset forgets what was recorded, and makes a disabled exchange Idle.
LEMMA ResetKeeps ==
  ASSUME ReconnInv, NEW v \in Venues, reset(v)
  PROVE  ReconnInv'
<1>1. reconn[v] \in VenueEntry
  BY EntryTypes DEF ReconnInv
<1> DEFINE e == [reconn[v] EXCEPT !.status = "Idle", !.last_sequence = 0,
                                  !.sequence_initialized = FALSE]
<1>2. /\ e \in VenueEntry /\ e.status = "Idle" /\ ~e.sequence_initialized
      /\ e.enabled = reconn[v].enabled /\ e.exists = reconn[v].exists
  BY <1>1 DEF VenueEntry, ReconnectionStatus
<1>3. reconn' = [reconn EXCEPT ![v] = e]
  BY DEF reset
<1> HIDE DEF e
<1>4. \A w \in Venues : reconn'[w] = IF w = v THEN e ELSE reconn[w]
  BY <1>3 DEF ReconnInv, ReconnTypeOK
<1>5. ReconnTypeOK'
  BY <1>2, <1>3 DEF ReconnInv, ReconnTypeOK, VenueEntry, reset
<1>6. \A w \in Venues :
        /\ seen'[w] = IF w = v THEN {} ELSE seen[w]
        /\ gaps'[w] = IF w = v THEN {} ELSE gaps[w]
        /\ first'[w] = IF w = v THEN 0 ELSE first[w]
  BY DEF ReconnInv, ReconnTypeOK, reset
<1>7. Tracked'
  BY <1>2, <1>4, <1>6 DEF ReconnInv, Tracked
<1>8. NoSilentLoss'
  BY <1>6 DEF ReconnInv, NoSilentLoss, Covered
<1>9. EnabledNotDisabled'
  <2>1. UNCHANGED enabling
    BY DEF reset
  <2>2. QED
    BY <1>2, <1>4, <1>7, <2>1, ReportKept DEF ReconnInv
<1>10. QED
  BY <1>5, <1>7, <1>8, <1>9 DEF ReconnInv

\* The heart of the matter: every number up to the one just recorded was
\* recorded, or lies in a gap that was returned.  Up to last_sequence this was
\* so before, because last_sequence itself was recorded; beyond it, a number
\* that is passed over is in the gap returned now.
LEMMA RecordKeeps ==
  ASSUME ReconnInv, NEW v \in Venues, NEW sequence \in SequenceNumbers,
         record_sequence(v, sequence)
  PROVE  ReconnInv'
<1> DEFINE s == StateOf(v)
           e == [s EXCEPT !.last_sequence = sequence, !.sequence_initialized = TRUE]
           gap == s.sequence_initialized /\ IsGap(s.last_sequence, sequence)
           hole == [expected |-> s.last_sequence + 1, received |-> sequence]
<1>1. sequence \in Nat
  BY ReconnectionAssumption
<1>2. s \in VenueEntry /\ reconn[v] \in VenueEntry
  BY EntryTypes DEF ReconnInv
<1>3. /\ s.exists /\ s.enabled = reconn[v].enabled /\ s.status = reconn[v].status
      /\ s.last_sequence = reconn[v].last_sequence
      /\ s.sequence_initialized = reconn[v].sequence_initialized
  BY <1>2 DEF StateOf, VenueEntry
<1>4. /\ reconn' = [reconn EXCEPT ![v] = e]
      /\ seen' = [seen EXCEPT ![v] = seen[v] \cup {sequence}]
      /\ first' = [first EXCEPT ![v] = IF s.sequence_initialized THEN first[v] ELSE sequence]
      /\ gaps' = [gaps EXCEPT ![v] = IF gap THEN gaps[v] \cup {hole} ELSE gaps[v]]
      /\ UNCHANGED enabling
  BY DEF record_sequence
<1> HIDE DEF s
<1>5. /\ e \in VenueEntry /\ e.last_sequence = sequence /\ e.sequence_initialized
      /\ e.exists /\ e.enabled = reconn[v].enabled /\ e.status = reconn[v].status
  BY <1>1, <1>2, <1>3 DEF VenueEntry
<1>6. hole \in [expected : Nat, received : Nat]
      /\ hole.expected = s.last_sequence + 1 /\ hole.received = sequence
  BY <1>1, <1>2 DEF VenueEntry
<1> HIDE DEF e, hole
<1>7. ReconnTypeOK'
  BY <1>1, <1>4, <1>5, <1>6 DEF ReconnInv, ReconnTypeOK, VenueEntry
<1>8. \A w \in Venues :
        /\ reconn'[w] = IF w = v THEN e ELSE reconn[w]
        /\ seen'[w] = IF w = v THEN seen[v] \cup {sequence} ELSE seen[w]
        /\ first'[w] = IF w = v /\ ~s.sequence_initialized THEN sequence ELSE first[w]
        /\ gaps'[w] = IF w = v /\ gap THEN gaps[v] \cup {hole} ELSE gaps[w]
  BY <1>4 DEF ReconnInv, ReconnTypeOK
<1>9. Tracked'
  BY <1>3, <1>5, <1>8 DEF ReconnInv, Tracked
<1>10. NoSilentLoss'
  <2>1. SUFFICES ASSUME NEW w \in Venues, NEW t \in seen'[w], NEW n \in first'[w]..t
                 PROVE  n \in seen'[w] \/ Covered(w, n)'
    BY DEF NoSilentLoss
  <2>2. seen[w] \subseteq seen'[w] /\ gaps[w] \subseteq gaps'[w]
    BY <1>8
  <2>3. CASE w # v
    <3>1. n \in seen[w] \/ Covered(w, n)
      BY <1>8, <2>1, <2>3 DEF ReconnInv, NoSilentLoss
    <3>2. QED
      BY <2>2, <3>1 DEF Covered
  <2>4. CASE w = v /\ ~s.sequence_initialized
    <3>1. seen'[v] = {sequence} /\ first'[v] = sequence
      BY <1>3, <1>8, <2>4 DEF ReconnInv, Tracked
    <3>2. QED
      BY <1>1, <2>1, <2>4, <3>1
  <2>5. CASE w = v /\ s.sequence_initialized
    <3> DEFINE last == s.last_sequence
    <3>1. /\ last \in Nat /\ last \in seen[v]
          /\ first'[v] = first[v] /\ first[v] \in Nat
          /\ t \in Nat /\ seen[v] \subseteq Nat
      BY <1>1, <1>2, <1>3, <1>8, <2>1, <2>5 DEF VenueEntry, ReconnInv, ReconnTypeOK, Tracked
    <3>2. n \in Nat /\ first[v] <= n /\ n <= t
      BY <2>1, <2>5, <3>1
    <3>3. ASSUME NEW k \in seen[v], n <= k PROVE n \in seen'[w] \/ Covered(w, n)'
      <4>1. n \in first[v]..k
        BY <3>1, <3>2, <3>3
      <4>2. n \in seen[v] \/ Covered(v, n)
        BY <4>1 DEF ReconnInv, NoSilentLoss
      <4>3. QED
        BY <2>2, <2>5, <4>2 DEF Covered
    <3>4. CASE t \in seen[v] \/ n <= last
      BY <3>1, <3>2, <3>3, <3>4
    <3>5. CASE t \notin seen[v] /\ n > last
      <4>1. t = sequence /\ sequence \in seen'[w]
        BY <1>8, <2>1, <2>5, <3>5
      <4>2. CASE n = sequence
        BY <4>1, <4>2
      <4>3. CASE n # sequence
        <5>1. n < sequence /\ last + 1 <= n
          BY <1>1, <3>1, <3>2, <3>5, <4>1, <4>3
        <5>2. gap
          BY <1>1, <2>5, <3>1, <3>2, <5>1 DEF IsGap
        <5>3. hole \in gaps'[w]
          BY <1>8, <2>5, <5>2
        <5>4. QED
          BY <1>6, <5>1, <5>3 DEF Covered
      <4>4. QED
        BY <4>2, <4>3
    <3>6. QED
      BY <3>1, <3>2, <3>4, <3>5
  <2>6. QED
    BY <2>3, <2>4, <2>5
<1>11. EnabledNotDisabled'
  BY <1>4, <1>5, <1>8, <1>9, ReportKept DEF ReconnInv
<1>12. QED
  BY <1>7, <1>9, <1>10, <1>11 DEF ReconnInv

\* Every step keeps the invariant.
LEMMA ReconnNext == ReconnInv /\ [ReconnectionNext]_reconnVars => ReconnInv'
<1>1. SUFFICES ASSUME ReconnInv, [ReconnectionNext]_reconnVars PROVE ReconnInv'
  OBVIOUS
<1>2. CASE UNCHANGED reconnVars
  BY <1>1, <1>2 DEF reconnVars, ReconnInv, ReconnTypeOK, Tracked, NoSilentLoss, Covered,
                    EnabledNotDisabled, status
<1>3. CASE shutdown
  BY <1>1, <1>3, ShutdownKeeps
<1>4. ASSUME NEW v \in Venues, NEW m \in Managers, EnableFlag(m, v) \/ EnableStatus(m, v)
      PROVE  ReconnInv'
  BY <1>1, <1>4, EnableFlagKeeps, EnableStatusKeeps
<1>5. ASSUME NEW v \in Venues,
             disable(v) \/ register_subscription(v) \/ clear_subscriptions(v)
      PROVE  ReconnInv'
  BY <1>1, <1>5, EntryStepsKeep
<1>6. ASSUME NEW v \in Venues, reset(v) PROVE ReconnInv'
  BY <1>1, <1>6, ResetKeeps
<1>7. ASSUME NEW v \in Venues, NEW sequence \in SequenceNumbers, record_sequence(v, sequence)
      PROVE  ReconnInv'
  BY <1>1, <1>7, RecordKeeps
<1>8. QED
  BY <1>1, <1>2, <1>3, <1>4, <1>5, <1>6, <1>7 DEF ReconnectionNext, reconnect_now

\* record_sequence lets no loss pass unnoticed, however messages are delayed,
\* repeated or lost, and an exchange that is enabled is reported as Disabled
\* only between the two steps of enable.
THEOREM LossesNoticed == ReconnectionSpec => []ReconnInv
BY ReconnInit, ReconnNext, PTL DEF ReconnectionSpec

-----------------------------------------------------------------------------
(***************************************************************************)
(* Heartbeat.  HealthInv is the inductive invariant: Sole says that reports *)
(* about an exchange have been torn as soon as there are two, Between what *)
(* the one report that is under way has left, and Latency how the average  *)
(* lies between the round trips.  SaidInv, on top of it, follows what may   *)
(* still be written while reports overlap.                                 *)
(***************************************************************************)

HealthState ==
  [exists : BOOLEAN, status : HealthStatuses, missed_pongs : Nat,
   last_latency_us : Latencies \cup {0}, avg_latency_us : Nat,
   total_pongs : Nat, total_pings : Nat, monitoring : BOOLEAN]

Report == [op : {"none", "pong", "missed"}, exchange : Monitored \cup {"none"},
           old_status : HealthStatuses, missed : Nat]

HealthTypeOK ==
  /\ health \in [Monitored -> HealthState]
  /\ report \in [Reporters -> Report]
  /\ torn \in [Monitored -> BOOLEAN]

\* A thread is in the middle of a report exactly if it has an exchange, and
\* an entry that nothing was reported about is as new.
Reported ==
  /\ \A r \in Reporters : report[r].op = "none" <=> report[r].exchange = "none"
  /\ \A e \in Monitored : ~health[e].exists =>
       /\ health[e].status = "Unknown"
       /\ \A r \in Reporters : report[r].exchange # e

Sole ==
  \A e \in Monitored : ~torn[e] =>
    \A r, q \in Reporters : report[r].exchange = e /\ report[q].exchange = e => r = q

Between ==
  \A r \in Reporters : \A e \in Monitored :
    report[r].exchange = e /\ ~torn[e] =>
      /\ report[r].op = "pong" => health[e].missed_pongs = 0 /\ health[e].total_pongs > 0
      /\ report[r].op = "missed" =>
           /\ health[e].missed_pongs > 0 /\ report[r].missed = health[e].missed_pongs
           /\ report[r].missed < DegradedThreshold =>
                report[r].old_status
                  = StatusFor(health[e].missed_pongs - 1, health[e].total_pongs)

\* The average of an entry is between two round trips, and there is one as
\* soon as there is a last round trip.
LatencyOf(s) ==
  /\ s.last_latency_us = 0 <=> s.avg_latency_us = 0
  /\ s.avg_latency_us # 0 =>
       \E lo, hi \in Latencies : lo <= s.avg_latency_us /\ s.avg_latency_us <= hi

Latency == \A e \in Monitored : LatencyOf(health[e])

HealthInv == HealthTypeOK /\ Reported /\ Sole /\ Between /\ Latency /\ HealthAgrees

\* The average that record_pong computes is between the old one and the new
\* round trip; truncation takes it no further down.
LEMMA AverageBetween ==
  ASSUME NEW a \in Nat \ {0}, NEW l \in Nat \ {0}
  PROVE  /\ Average(a, l) \in Nat \ {0}
         /\ a <= Average(a, l) \/ l <= Average(a, l)
         /\ Average(a, l) <= a \/ Average(a, l) <= l
BY DEF Average

\* The moving average stays between two round trips that were measured
\* (heartbeat.rs record_pong).
LEMMA AverageLatency ==
  ASSUME NEW s \in HealthState, LatencyOf(s), NEW l \in Latencies
  PROVE  /\ Average(s.avg_latency_us, l) \in Nat \ {0}
         /\ \E lo, hi \in Latencies : lo <= Average(s.avg_latency_us, l)
                                      /\ Average(s.avg_latency_us, l) <= hi
<1>1. l \in Nat \ {0} /\ s.avg_latency_us \in Nat
  BY HeartbeatAssumption DEF HealthState
<1>2. CASE s.avg_latency_us = 0
  <2>1. Average(s.avg_latency_us, l) = l
    BY <1>2 DEF Average
  <2>2. QED
    BY <1>1, <2>1
<1>3. CASE s.avg_latency_us # 0
  <2> DEFINE a == s.avg_latency_us
             b == Average(a, l)
  <2>1. PICK lo \in Latencies, hi \in Latencies : lo <= a /\ a <= hi
    BY <1>3 DEF LatencyOf
  <2>2. /\ a \in Nat \ {0} /\ lo \in Nat /\ hi \in Nat
    BY <1>1, <1>3, HeartbeatAssumption
  <2>3. b \in Nat \ {0} /\ (a <= b \/ l <= b) /\ (b <= a \/ b <= l)
    BY <1>1, <2>2, AverageBetween
  <2> HIDE DEF a, b
  <2>4. \E x \in Latencies : x <= b
    BY <1>1, <2>1, <2>2, <2>3
  <2>5. \E y \in Latencies : b <= y
    BY <1>1, <2>1, <2>2, <2>3
  <2>6. QED
    BY <2>3, <2>4, <2>5 DEF a, b
<1>4. QED
  BY <1>2, <1>3

\* A step that changes nothing that the status is about.
LEMMA HealthRests ==
  ASSUME HealthInv, health' \in [Monitored -> HealthState], UNCHANGED <<report, torn>>,
         \A e \in Monitored :
           /\ health'[e].status = health[e].status
           /\ health'[e].missed_pongs = health[e].missed_pongs
           /\ health'[e].total_pongs = health[e].total_pongs
           /\ health'[e].last_latency_us = health[e].last_latency_us
           /\ health'[e].avg_latency_us = health[e].avg_latency_us
           /\ health[e].exists => health'[e].exists
  PROVE  HealthInv'
<1>1. HealthTypeOK'
  BY DEF HealthInv, HealthTypeOK
<1>2. Reported' /\ Sole'
  BY DEF HealthInv, Reported, Sole
<1>3. Between'
  BY DEF HealthInv, Between
<1>4. Latency'
  BY DEF HealthInv, Latency, LatencyOf
<1>5. \A e \in Monitored : health_status(e)' = health_status(e)
  BY DEF HealthInv, Reported, health_status
<1>6. HealthAgrees'
  BY <1>5 DEF HealthInv, HealthAgrees, Settled, InReport
<1>7. QED
  BY <1>1, <1>2, <1>3, <1>4, <1>6 DEF HealthInv

\* What the monitoring calls change is none of it.
LEMMA MonitoringKeeps ==
  ASSUME HealthInv,
         \/ hb_shutdown
         \/ \E e \in Monitored : start_monitoring(e) \/ stop_monitoring(e) \/ force_ping(e)
  PROVE  HealthInv'
<1>1. \A e \in Monitored : health[e] \in HealthState
  BY DEF HealthInv, HealthTypeOK
<1>2. health \in [Monitored -> HealthState] /\ UNCHANGED <<report, torn>>
  BY DEF HealthInv, HealthTypeOK, hb_shutdown, start_monitoring, stop_monitoring, force_ping
<1>3. CASE hb_shutdown
  <2>1. \A e \in Monitored :
          /\ health'[e] = [health[e] EXCEPT !.monitoring = FALSE]
          /\ [health[e] EXCEPT !.monitoring = FALSE] \in HealthState
    BY <1>1, <1>3 DEF hb_shutdown, HealthState
  <2>2. health' \in [Monitored -> HealthState]
    BY <1>3, <2>1 DEF hb_shutdown
  <2>3. \A e \in Monitored :
          /\ health'[e].status = health[e].status
          /\ health'[e].missed_pongs = health[e].missed_pongs
          /\ health'[e].total_pongs = health[e].total_pongs
          /\ health'[e].last_latency_us = health[e].last_latency_us
          /\ health'[e].avg_latency_us = health[e].avg_latency_us
          /\ health[e].exists => health'[e].exists
    BY <1>1, <2>1 DEF HealthState
  <2>4. QED
    BY <1>2, <2>2, <2>3, HealthRests
<1>4. ASSUME NEW e \in Monitored, start_monitoring(e) \/ stop_monitoring(e) \/ force_ping(e)
      PROVE  HealthInv'
  <2>1. PICK s \in HealthState :
          /\ health' = [health EXCEPT ![e] = s]
          /\ s.status = health[e].status /\ s.missed_pongs = health[e].missed_pongs
          /\ s.total_pongs = health[e].total_pongs
          /\ s.last_latency_us = health[e].last_latency_us
          /\ s.avg_latency_us = health[e].avg_latency_us
          /\ health[e].exists => s.exists
    <3>1. CASE start_monitoring(e)
      <4> DEFINE s == [Entry(e) EXCEPT !.monitoring = TRUE]
      <4>1. health' = [health EXCEPT ![e] = s]
        BY <3>1 DEF start_monitoring
      <4>2. /\ s \in HealthState
            /\ s.status = health[e].status /\ s.missed_pongs = health[e].missed_pongs
            /\ s.total_pongs = health[e].total_pongs
            /\ s.last_latency_us = health[e].last_latency_us
            /\ s.avg_latency_us = health[e].avg_latency_us
            /\ s.exists = TRUE
        BY <1>1 DEF HealthState, Entry
      <4>3. QED
        BY <4>1, <4>2
    <3>2. CASE stop_monitoring(e)
      <4> DEFINE s == [health[e] EXCEPT !.monitoring = FALSE]
      <4>1. health' = [health EXCEPT ![e] = s]
        BY <3>2 DEF stop_monitoring
      <4>2. /\ s \in HealthState
            /\ s.status = health[e].status /\ s.missed_pongs = health[e].missed_pongs
            /\ s.total_pongs = health[e].total_pongs
            /\ s.last_latency_us = health[e].last_latency_us
            /\ s.avg_latency_us = health[e].avg_latency_us
            /\ s.exists = health[e].exists
        BY <1>1 DEF HealthState
      <4>3. QED
        BY <4>1, <4>2
    <3>3. CASE force_ping(e)
      <4> DEFINE s == [health[e] EXCEPT !.total_pings = health[e].total_pings + 1]
      <4>1. health' = [health EXCEPT ![e] = s]
        BY <3>3 DEF force_ping
      <4>2. /\ s \in HealthState
            /\ s.status = health[e].status /\ s.missed_pongs = health[e].missed_pongs
            /\ s.total_pongs = health[e].total_pongs
            /\ s.last_latency_us = health[e].last_latency_us
            /\ s.avg_latency_us = health[e].avg_latency_us
            /\ s.exists = health[e].exists
        BY <1>1 DEF HealthState
      <4>3. QED
        BY <4>1, <4>2
    <3>4. QED
      BY <1>4, <3>1, <3>2, <3>3
  <2>2. /\ health' \in [Monitored -> HealthState] /\ health'[e] = s
        /\ \A f \in Monitored \ {e} : health'[f] = health[f]
    BY <1>2, <2>1
  <2>3. QED
    BY <1>2, <2>1, <2>2, HealthRests
<1>5. QED
  BY <1>3, <1>4

\* A thread begins a report about e: from then on it is the only one, or the
\* reports are torn.
LEMMA ReportBegins ==
  ASSUME HealthInv, NEW r \in Reporters, NEW e \in Monitored, NEW new \in Report,
         report[r] = NoReport, report' = [report EXCEPT ![r] = new],
         new.exchange = e, new.op \in {"pong", "missed"},
         NEW s \in HealthState, health' = [health EXCEPT ![e] = s],
         s.status = health[e].status, s.exists = TRUE, LatencyOf(s),
         torn' \in [Monitored -> BOOLEAN], InReport(e) => torn'[e],
         \A f \in Monitored \ {e} : torn'[f] = torn[f],
         ~torn'[e] /\ new.op = "pong" => s.missed_pongs = 0 /\ s.total_pongs > 0,
         ~torn'[e] /\ new.op = "missed" =>
           /\ s.missed_pongs > 0 /\ new.missed = s.missed_pongs
           /\ new.missed < DegradedThreshold =>
                new.old_status = StatusFor(s.missed_pongs - 1, s.total_pongs)
  PROVE  HealthInv'
<1>1. /\ health' \in [Monitored -> HealthState] /\ health'[e] = s
      /\ \A f \in Monitored \ {e} : health'[f] = health[f]
  BY DEF HealthInv, HealthTypeOK
<1>2. /\ report' \in [Reporters -> Report] /\ report'[r] = new
      /\ \A q \in Reporters \ {r} : report'[q] = report[q]
  BY DEF HealthInv, HealthTypeOK
<1>3. e # "none" /\ \A f \in Monitored : f # "none"
  BY HeartbeatAssumption
<1>4. HealthTypeOK'
  BY <1>1, <1>2 DEF HealthTypeOK
<1>5. Reported'
  BY <1>1, <1>2, <1>3 DEF HealthInv, Reported
<1>6. ~torn'[e] => \A q \in Reporters \ {r} : report'[q].exchange # e
  BY <1>2 DEF InReport
<1>7. \A f \in Monitored \ {e} : \A q \in Reporters :
        report'[q].exchange = f <=> report[q].exchange = f
  BY <1>2, <1>3 DEF NoReport
<1>8. Sole'
  BY <1>6, <1>7 DEF HealthInv, Sole
<1>9. ASSUME NEW q \in Reporters, NEW f \in Monitored, report'[q].exchange = f, ~torn'[f]
      PROVE  /\ report'[q].op = "pong" => health'[f].missed_pongs = 0 /\ health'[f].total_pongs > 0
             /\ report'[q].op = "missed" =>
                  /\ health'[f].missed_pongs > 0 /\ report'[q].missed = health'[f].missed_pongs
                  /\ report'[q].missed < DegradedThreshold =>
                       report'[q].old_status
                         = StatusFor(health'[f].missed_pongs - 1, health'[f].total_pongs)
  <2>1. CASE f = e
    BY <1>1, <1>2, <1>6, <1>9, <2>1
  <2>2. CASE f # e
    <3>1. q # r /\ report'[q] = report[q] /\ health'[f] = health[f] /\ torn'[f] = torn[f]
      BY <1>1, <1>2, <1>9, <2>2
    <3>2. QED
      BY <1>9, <3>1 DEF HealthInv, Between
  <2>3. QED
    BY <2>1, <2>2
<1>10. Between'
  BY <1>9 DEF Between
<1>11. Latency'
  BY <1>1 DEF HealthInv, Latency
<1>12. InReport(e)'
  BY <1>2 DEF InReport
<1>13. \A f \in Monitored \ {e} : (InReport(f)' <=> InReport(f)) /\ health_status(f)' = health_status(f)
  BY <1>1, <1>7 DEF InReport, health_status
<1>14. HealthAgrees'
  BY <1>1, <1>12, <1>13 DEF HealthInv, HealthAgrees, Settled
<1>15. QED
  BY <1>4, <1>5, <1>8, <1>10, <1>11, <1>14 DEF HealthInv

\* A thread ends its report by writing the status.
LEMMA ReportEnds ==
  ASSUME HealthInv, NEW r \in Reporters, NEW st \in HealthStatuses,
         report[r].op # "none", report' = [report EXCEPT ![r] = NoReport],
         health' = [health EXCEPT ![report[r].exchange].status = st], UNCHANGED torn,
         ~torn[report[r].exchange] =>
           st = StatusFor(health[report[r].exchange].missed_pongs,
                          health[report[r].exchange].total_pongs)
  PROVE  HealthInv'
<1> DEFINE e == report[r].exchange
           s == [health[e] EXCEPT !.status = st]
<1>1. e \in Monitored /\ report \in [Reporters -> Report] /\ health \in [Monitored -> HealthState]
  <2>1. report[r] \in Report /\ e # "none"
    BY DEF HealthInv, HealthTypeOK, Reported
  <2>2. QED
    BY <2>1 DEF Report, HealthInv, HealthTypeOK
<1>2. /\ s \in HealthState /\ s.status = st /\ s.exists = health[e].exists
      /\ s.missed_pongs = health[e].missed_pongs /\ s.total_pongs = health[e].total_pongs
      /\ s.last_latency_us = health[e].last_latency_us
      /\ s.avg_latency_us = health[e].avg_latency_us
  BY <1>1 DEF HealthState
<1>3. health' = [health EXCEPT ![e] = s]
  OBVIOUS
<1> HIDE DEF s
<1>4. /\ health' \in [Monitored -> HealthState] /\ health'[e] = s
      /\ \A f \in Monitored \ {e} : health'[f] = health[f]
  BY <1>1, <1>2, <1>3
<1>5. NoReport \in Report /\ NoReport.exchange = "none" /\ NoReport.op = "none"
  BY DEF NoReport, Report, HealthStatuses
<1>6. /\ report' \in [Reporters -> Report] /\ report'[r] = NoReport
      /\ \A q \in Reporters \ {r} : report'[q] = report[q]
  BY <1>1, <1>5
<1>7. \A f \in Monitored : f # "none"
  BY HeartbeatAssumption
<1>8. HealthTypeOK'
  BY <1>4, <1>6 DEF HealthInv, HealthTypeOK
<1>9. Reported'
  <2>1. \A q \in Reporters : report'[q].op = "none" <=> report'[q].exchange = "none"
    BY <1>5, <1>6 DEF HealthInv, Reported
  <2>2. health[e].exists
    BY <1>1 DEF HealthInv, Reported
  <2>3. ASSUME NEW f \in Monitored, ~health'[f].exists
        PROVE  health'[f].status = "Unknown" /\ \A q \in Reporters : report'[q].exchange # f
    <3>1. f # e
      BY <1>2, <1>4, <2>2, <2>3
    <3>2. health'[f] = health[f]
      BY <1>4, <3>1
    <3>3. health[f].status = "Unknown" /\ \A q \in Reporters : report[q].exchange # f
      BY <2>3, <3>2 DEF HealthInv, Reported
    <3>4. QED
      BY <1>5, <1>6, <1>7, <3>2, <3>3
  <2>4. QED
    BY <2>1, <2>3 DEF Reported
<1>10. Sole'
  BY <1>5, <1>6, <1>7 DEF HealthInv, Sole
<1>11. \A f \in Monitored : health'[f].exists = health[f].exists
        /\ health'[f].missed_pongs = health[f].missed_pongs
        /\ health'[f].total_pongs = health[f].total_pongs
  BY <1>2, <1>4
<1>12. Between'
  BY <1>5, <1>6, <1>7, <1>11 DEF HealthInv, Between
<1>13. Latency'
  BY <1>2, <1>4 DEF HealthInv, Latency, LatencyOf
<1>14. ASSUME NEW f \in Monitored, ~torn[f], ~InReport(f)'
       PROVE  health_status(f)' = StatusFor(health'[f].missed_pongs, health'[f].total_pongs)
  <2>1. CASE f = e
    <3>1. health[e].exists
      BY <1>1 DEF HealthInv, Reported
    <3>2. QED
      BY <1>2, <1>4, <1>14, <2>1, <3>1 DEF health_status
  <2>2. CASE f # e
    <3>1. ~InReport(f)
      BY <1>6, <1>14, <2>2 DEF InReport
    <3>2. health_status(f)' = health_status(f)
      BY <1>4, <2>2 DEF health_status
    <3>3. QED
      BY <1>11, <1>14, <3>1, <3>2 DEF HealthInv, HealthAgrees, Settled
  <2>3. QED
    BY <2>1, <2>2
<1>15. HealthAgrees'
  BY <1>14 DEF HealthAgrees, Settled
<1>16. QED
  BY <1>8, <1>9, <1>10, <1>12, <1>13, <1>15 DEF HealthInv

\* The entry that or_insert_with finds or makes.
LEMMA EntryIs ==
  ASSUME HealthTypeOK, NEW e \in Monitored
  PROVE  /\ Entry(e) \in HealthState /\ Entry(e).exists = TRUE
         /\ Entry(e).status = health[e].status /\ Entry(e).missed_pongs = health[e].missed_pongs
         /\ Entry(e).total_pongs = health[e].total_pongs
         /\ Entry(e).last_latency_us = health[e].last_latency_us
         /\ Entry(e).avg_latency_us = health[e].avg_latency_us
<1>1. health[e] \in HealthState
  BY DEF HealthTypeOK
<1>2. QED
  BY <1>1 DEF HealthState, Entry

\* record_pong: the counters.
LEMMA PongBeginKeeps ==
  ASSUME HealthInv, NEW r \in Reporters, NEW e \in Monitored,
         NEW latency_us \in Latencies \cup {0}, PongBegin(r, e, latency_us)
  PROVE  HealthInv'
<1> DEFINE old == health[e]
           last == IF latency_us > 0 THEN latency_us ELSE old.last_latency_us
           avg == IF latency_us > 0 THEN Average(old.avg_latency_us, latency_us)
                  ELSE old.avg_latency_us
           s == [Entry(e) EXCEPT !.missed_pongs = 0, !.total_pongs = old.total_pongs + 1,
                                 !.last_latency_us = last, !.avg_latency_us = avg]
           new == [op |-> "pong", exchange |-> e, old_status |-> old.status, missed |-> 0]
<1>1. old \in HealthState /\ LatencyOf(old)
  BY DEF HealthInv, HealthTypeOK, Latency
<1>2. /\ report[r] = NoReport /\ report' = [report EXCEPT ![r] = new]
      /\ torn' = [torn EXCEPT ![e] = InReport(e)]
  BY DEF PongBegin
<1>3. health' = [health EXCEPT ![e] = s]
  <2>1. /\ Entry(e).total_pongs = old.total_pongs
        /\ Entry(e).last_latency_us = old.last_latency_us
        /\ Entry(e).avg_latency_us = old.avg_latency_us
    BY EntryIs DEF HealthInv
  <2>2. QED
    BY <2>1 DEF PongBegin
<1>4. latency_us \in Nat
  BY HeartbeatAssumption
<1>5. /\ last \in Latencies \cup {0} /\ avg \in Nat
      /\ last = 0 <=> avg = 0
      /\ avg # 0 => \E lo, hi \in Latencies : lo <= avg /\ avg <= hi
  <2>1. CASE latency_us > 0
    <3>1. latency_us \in Latencies
      BY <2>1
    <3>2. last = latency_us /\ avg = Average(old.avg_latency_us, latency_us)
      BY <2>1
    <3>3. /\ Average(old.avg_latency_us, latency_us) \in Nat \ {0}
          /\ \E lo, hi \in Latencies : lo <= Average(old.avg_latency_us, latency_us)
                                       /\ Average(old.avg_latency_us, latency_us) <= hi
      BY <1>1, <3>1, AverageLatency
    <3> HIDE DEF last, avg
    <3>4. QED
      BY <2>1, <3>1, <3>2, <3>3
  <2>2. CASE ~(latency_us > 0)
    BY <1>1, <2>2 DEF HealthState, LatencyOf
  <2>3. QED
    BY <2>1, <2>2
<1> HIDE DEF last, avg
<1>6. /\ s \in HealthState /\ s.status = old.status /\ s.exists = TRUE
      /\ s.missed_pongs = 0 /\ s.total_pongs > 0
      /\ s.last_latency_us = last /\ s.avg_latency_us = avg
  <2>1. old.total_pongs \in Nat
    BY <1>1 DEF HealthState
  <2>2. old.total_pongs + 1 \in Nat /\ old.total_pongs + 1 > 0
    BY <2>1
  <2> DEFINE pongs == old.total_pongs + 1
             en == Entry(e)
  <2>3. /\ en \in HealthState /\ en.exists = TRUE /\ en.status = old.status
        /\ s = [en EXCEPT !.missed_pongs = 0, !.total_pongs = pongs,
                          !.last_latency_us = last, !.avg_latency_us = avg]
    BY EntryIs DEF HealthInv
  <2> HIDE DEF pongs, en, s
  <2>4. /\ s \in HealthState /\ s.status = old.status /\ s.exists = TRUE
        /\ s.missed_pongs = 0 /\ s.total_pongs = pongs
        /\ s.last_latency_us = last /\ s.avg_latency_us = avg
    BY <1>5, <2>2, <2>3 DEF HealthState, pongs
  <2>5. QED
    BY <2>2, <2>4 DEF pongs
<1>7. new \in Report /\ new.exchange = e /\ new.op = "pong"
  BY <1>1 DEF Report, HealthState
<1>8. LatencyOf(s)
  BY <1>5, <1>6 DEF LatencyOf
<1>9. InReport(e) \in BOOLEAN
  BY DEF InReport
<1>10. /\ torn' \in [Monitored -> BOOLEAN] /\ torn'[e] = InReport(e)
       /\ \A f \in Monitored \ {e} : torn'[f] = torn[f]
  <2>1. torn \in [Monitored -> BOOLEAN]
    BY DEF HealthInv, HealthTypeOK
  <2>2. QED
    BY <1>2, <1>9, <2>1, Zenon
<1> HIDE DEF s, new
<1>11. QED
  BY <1>2, <1>3, <1>6, <1>7, <1>8, <1>10, ReportBegins

\* record_missed_pong: the counter.
LEMMA MissedBeginKeeps ==
  ASSUME HealthInv, NEW r \in Reporters, NEW e \in Monitored, MissedBegin(r, e)
  PROVE  HealthInv'
<1> DEFINE old == health[e]
           s == [Entry(e) EXCEPT !.missed_pongs = old.missed_pongs + 1]
           new == [op |-> "missed", exchange |-> e, old_status |-> old.status,
                   missed |-> old.missed_pongs + 1]
           still == InReport(e) \/ (torn[e] /\ old.missed_pongs + 1 < DegradedThreshold)
<1>1. old \in HealthState /\ LatencyOf(old)
  BY DEF HealthInv, HealthTypeOK, Latency
<1>2. /\ report[r] = NoReport /\ report' = [report EXCEPT ![r] = new]
      /\ torn' = [torn EXCEPT ![e] = still]
  BY DEF MissedBegin
<1>3. health' = [health EXCEPT ![e] = s]
  <2>1. Entry(e).missed_pongs = old.missed_pongs
    BY EntryIs DEF HealthInv
  <2>2. QED
    BY <2>1 DEF MissedBegin
<1>4. /\ s \in HealthState /\ s.status = old.status /\ s.exists = TRUE
      /\ s.missed_pongs = old.missed_pongs + 1 /\ s.total_pongs = old.total_pongs
      /\ s.last_latency_us = old.last_latency_us /\ s.avg_latency_us = old.avg_latency_us
  <2>1. old.missed_pongs + 1 \in Nat
    BY <1>1 DEF HealthState
  <2> DEFINE missed == old.missed_pongs + 1
             en == Entry(e)
  <2>2. /\ en \in HealthState /\ en.exists = TRUE /\ en.status = old.status
        /\ en.total_pongs = old.total_pongs /\ en.last_latency_us = old.last_latency_us
        /\ en.avg_latency_us = old.avg_latency_us
        /\ s = [en EXCEPT !.missed_pongs = missed]
    BY EntryIs DEF HealthInv
  <2> HIDE DEF missed, en, s
  <2>3. /\ s \in HealthState /\ s.status = old.status /\ s.exists = TRUE
        /\ s.missed_pongs = missed /\ s.total_pongs = old.total_pongs
        /\ s.last_latency_us = old.last_latency_us /\ s.avg_latency_us = old.avg_latency_us
    BY <2>1, <2>2 DEF HealthState, missed
  <2>4. QED
    BY <2>3 DEF missed
<1>5. /\ new \in Report /\ new.exchange = e /\ new.op = "missed"
      /\ new.missed = old.missed_pongs + 1 /\ new.old_status = old.status
  BY <1>1 DEF Report, HealthState
<1> HIDE DEF s, new
<1>6. LatencyOf(s)
  BY <1>1, <1>4 DEF LatencyOf
<1>7. torn \in [Monitored -> BOOLEAN] /\ still \in BOOLEAN
  <2>1. torn \in [Monitored -> BOOLEAN]
    BY DEF HealthInv, HealthTypeOK
  <2>2. still \in BOOLEAN
    BY DEF InReport
  <2>3. QED
    BY <2>1, <2>2
<1>8. /\ torn' \in [Monitored -> BOOLEAN] /\ torn'[e] = still
      /\ \A f \in Monitored \ {e} : torn'[f] = torn[f]
  BY <1>2, <1>7, Zenon
<1>9. ~torn'[e] =>
        /\ s.missed_pongs > 0 /\ new.missed = s.missed_pongs
        /\ new.missed < DegradedThreshold =>
             new.old_status = StatusFor(s.missed_pongs - 1, s.total_pongs)
  <2>1. s.missed_pongs > 0 /\ new.missed = s.missed_pongs
    BY <1>1, <1>4, <1>5 DEF HealthState
  <2> SUFFICES ASSUME ~torn'[e], new.missed < DegradedThreshold
               PROVE  new.old_status = StatusFor(s.missed_pongs - 1, s.total_pongs)
    BY <2>1
  <2>9. ~torn[e] /\ ~InReport(e)
    <3>1. ~still /\ old.missed_pongs + 1 < DegradedThreshold
      BY <1>5, <1>8
    <3>2. QED
      BY <3>1
  <2>2. health_status(e) = StatusFor(old.missed_pongs, old.total_pongs)
    BY <2>9 DEF HealthInv, HealthAgrees, Settled
  <2>3. health_status(e) = old.status
    BY DEF HealthInv, Reported, health_status
  <2>4. old.missed_pongs \in Nat /\ s.missed_pongs - 1 = old.missed_pongs
    BY <1>1, <1>4 DEF HealthState
  <2>6. StatusFor(s.missed_pongs - 1, s.total_pongs) = StatusFor(old.missed_pongs, old.total_pongs)
    BY <1>4, <2>4
  <2>7. QED
    BY <1>5, <2>2, <2>3, <2>6
<1>10. InReport(e) => torn'[e]
  BY <1>8, Zenon
<1>11. QED
  BY <1>2, <1>3, <1>4, <1>5, <1>6, <1>8, <1>9, <1>10, ReportBegins

\* The status is stored, by either report.
LEMMA EndKeeps ==
  ASSUME HealthInv, NEW r \in Reporters, PongEnd(r) \/ MissedEnd(r)
  PROVE  HealthInv'
<1> DEFINE e == report[r].exchange
<1>1. report[r].op \in {"pong", "missed"}
  BY DEF PongEnd, MissedEnd
<1>2. report[r] \in Report /\ e \in Monitored /\ health[e] \in HealthState
  <2>1. report[r] \in Report /\ e # "none"
    BY <1>1 DEF HealthInv, HealthTypeOK, Reported
  <2>2. e \in Monitored
    BY <2>1 DEF Report
  <2>3. QED
    BY <2>1, <2>2 DEF HealthInv, HealthTypeOK
<1>3. /\ DegradedThreshold \in Nat /\ UnhealthyThreshold \in Nat
      /\ UnhealthyThreshold >= DegradedThreshold
  BY HeartbeatAssumption DEF ValidHeartbeatConfig
<1>4. CASE PongEnd(r)
  <2>1. /\ report[r].op = "pong" /\ report' = [report EXCEPT ![r] = NoReport]
        /\ health' = [health EXCEPT ![report[r].exchange].status = "Healthy"] /\ UNCHANGED torn
    BY <1>4 DEF PongEnd
  <2>2. ~torn[e] => "Healthy" = StatusFor(health[e].missed_pongs, health[e].total_pongs)
    BY <1>2, <2>1 DEF HealthInv, Between, StatusFor
  <2>3. QED
    BY <2>1, <2>2, ReportEnds DEF HealthStatuses
<1>5. CASE MissedEnd(r)
  <2> DEFINE st == NewStatus(report[r].old_status, report[r].missed)
  <2>1. /\ report[r].op = "missed" /\ report' = [report EXCEPT ![r] = NoReport]
        /\ health' = [health EXCEPT ![report[r].exchange].status = st] /\ UNCHANGED torn
    BY <1>5 DEF MissedEnd
  <2>2. st \in HealthStatuses
    BY <1>2 DEF NewStatus, HealthStatuses, Report
  <2>3. ~torn[e] => st = StatusFor(health[e].missed_pongs, health[e].total_pongs)
    <3> SUFFICES ASSUME ~torn[e]
                 PROVE  st = StatusFor(health[e].missed_pongs, health[e].total_pongs)
      OBVIOUS
    <3>1. /\ health[e].missed_pongs > 0 /\ report[r].missed = health[e].missed_pongs
          /\ report[r].missed < DegradedThreshold =>
               report[r].old_status
                 = StatusFor(health[e].missed_pongs - 1, health[e].total_pongs)
      BY <1>2, <2>1 DEF HealthInv, Between
    <3>2. health[e].missed_pongs \in Nat /\ health[e].total_pongs \in Nat
      BY <1>2 DEF HealthState
    <3>3. QED
      BY <1>3, <3>1, <3>2 DEF NewStatus, StatusFor
  <2> HIDE DEF st
  <2>4. QED
    BY <2>1, <2>2, <2>3, ReportEnds
<1>6. QED
  BY <1>4, <1>5

\* Nothing has been reported.
LEMMA HealthInvInit == HeartbeatInit => HealthInv
<1> SUFFICES ASSUME HeartbeatInit PROVE HealthInv
  OBVIOUS
<1>1. HealthTypeOK
  BY DEF HeartbeatInit, HealthTypeOK, HealthState, NewHealth, HealthStatuses, Report, NoReport
<1>2. /\ \A r \in Reporters : report[r].exchange = "none" /\ report[r].op = "none"
      /\ \A e \in Monitored : e # "none"
  BY HeartbeatAssumption DEF HeartbeatInit, NoReport
<1>3. \A e \in Monitored :
        /\ health[e].exists = FALSE /\ health[e].status = "Unknown"
        /\ health[e].missed_pongs = 0 /\ health[e].total_pongs = 0
        /\ health[e].last_latency_us = 0 /\ health[e].avg_latency_us = 0
  BY DEF HeartbeatInit, NewHealth
<1>4. Reported /\ Sole /\ Between /\ Latency
  BY <1>2, <1>3 DEF Reported, Sole, Between, Latency, LatencyOf
<1>5. HealthAgrees
  BY <1>3 DEF HealthAgrees, StatusFor, health_status
<1>6. QED
  BY <1>1, <1>4, <1>5 DEF HealthInv

\* Every step of the monitor keeps the invariant.
LEMMA HealthInvStep == HealthInv /\ [HeartbeatNext]_hbVars => HealthInv'
<1> SUFFICES ASSUME HealthInv, [HeartbeatNext]_hbVars PROVE HealthInv'
  OBVIOUS
<1>1. CASE UNCHANGED hbVars
  <2>1. health' = health /\ UNCHANGED <<report, torn>>
    BY <1>1 DEF hbVars
  <2>2. QED
    BY <2>1, HealthRests DEF HealthInv, HealthTypeOK
<1>2. QED
  BY <1>1, MonitoringKeeps, PongBeginKeeps, MissedBeginKeeps, EndKeeps DEF HeartbeatNext

\* What a report that is under way is going to write.
Verdict(rep) ==
  IF rep.op = "pong" THEN "Healthy" ELSE NewStatus(rep.old_status, rep.missed)

\* SaidInv, on top of HealthInv: the status of an exchange, and what each report
\* about it is going to write, are among those the counters stood for.
SaidInv ==
  /\ said \in [Monitored -> SUBSET HealthStatuses]
  /\ \A e \in Monitored : health[e].status \in said[e]
  /\ \A r \in Reporters : \A e \in Monitored :
       report[r].exchange = e => Verdict(report[r]) \in said[e]

\* A report that begins adds its verdict, and takes none away that a report
\* under way is going to write.
LEMMA SaidBegins ==
  ASSUME HealthInv, SaidInv, NEW r \in Reporters, NEW e \in Monitored,
         NEW missed \in Nat, NEW pongs \in Nat, NEW new \in Report,
         said' = SaidWith(e, missed, pongs),
         report[r] = NoReport, report' = [report EXCEPT ![r] = new], new.exchange = e,
         \A f \in Monitored : health'[f].status = health[f].status,
         Verdict(new) \in {StatusFor(missed, pongs), health[e].status}
  PROVE  SaidInv'
<1> DEFINE since == IF Settled(e)
                    THEN {StatusFor(health[e].missed_pongs, health[e].total_pongs)} ELSE said[e]
           now == StatusFor(missed, pongs)
<1>1. /\ said \in [Monitored -> SUBSET HealthStatuses] /\ report \in [Reporters -> Report]
      /\ \A f \in Monitored : f # "none"
  BY HeartbeatAssumption DEF HealthInv, HealthTypeOK, SaidInv
<1>2. now \in HealthStatuses /\ since \subseteq HealthStatuses
  BY <1>1 DEF StatusFor, HealthStatuses
<1>3. health[e].status \in since
  <2>1. CASE Settled(e)
    <3>1. health_status(e) = StatusFor(health[e].missed_pongs, health[e].total_pongs)
      BY <2>1 DEF HealthInv, HealthAgrees
    <3>2. health_status(e) = health[e].status
      BY DEF HealthInv, Reported, health_status
    <3>3. QED
      BY <2>1, <3>1, <3>2
  <2>2. CASE ~Settled(e)
    BY <2>2 DEF SaidInv
  <2>3. QED
    BY <2>1, <2>2
<1>4. said' = [said EXCEPT ![e] = since \cup {now}]
  BY <1>1 DEF SaidWith
<1> HIDE DEF now
<1>5. ASSUME NEW q \in Reporters, report[q].exchange = e
      PROVE  Verdict(report[q]) \in since
  <2>1. ~Settled(e)
    BY <1>5 DEF Settled, InReport
  <2>2. QED
    BY <1>5, <2>1 DEF SaidInv
<1> HIDE DEF since
<1>6. /\ said' \in [Monitored -> SUBSET HealthStatuses] /\ said'[e] = since \cup {now}
      /\ \A f \in Monitored \ {e} : said'[f] = said[f]
  BY <1>1, <1>2, <1>4
<1>7. \A f \in Monitored : health'[f].status \in said'[f]
  BY <1>3, <1>6 DEF SaidInv
<1>8. ASSUME NEW q \in Reporters, NEW f \in Monitored, report'[q].exchange = f
      PROVE  Verdict(report'[q]) \in said'[f]
  <2>1. CASE q = r
    <3>1. report'[q] = new /\ f = e
      BY <1>1, <1>8, <2>1
    <3>2. QED
      BY <1>3, <1>6, <3>1 DEF now
  <2>2. CASE q # r
    <3>1. report'[q] = report[q] /\ report[q].exchange = f
      BY <1>1, <1>8, <2>2
    <3>2. CASE f = e
      BY <1>5, <1>6, <3>1, <3>2
    <3>3. CASE f # e
      BY <1>6, <3>1, <3>3 DEF SaidInv
    <3>4. QED
      BY <3>2, <3>3
  <2>3. QED
    BY <2>1, <2>2
<1>9. QED
  BY <1>6, <1>7, <1>8 DEF SaidInv

\* Both reports begin so: a pong stands for Healthy, and a missed pong for what
\* its count says or, below the degraded threshold, for the status there was.
LEMMA BeginSaid ==
  ASSUME HealthInv, SaidInv, NEW r \in Reporters, NEW e \in Monitored,
         \/ MissedBegin(r, e)
         \/ \E latency_us \in Latencies \cup {0} : PongBegin(r, e, latency_us)
  PROVE  SaidInv'
<1>1. health[e] \in HealthState /\ health \in [Monitored -> HealthState] /\ HealthTypeOK
  BY DEF HealthInv, HealthTypeOK
<1>2. health[e].missed_pongs \in Nat /\ health[e].total_pongs \in Nat
      /\ health[e].status \in HealthStatuses
  BY <1>1 DEF HealthState
<1>3. /\ DegradedThreshold \in Nat /\ UnhealthyThreshold \in Nat
      /\ UnhealthyThreshold >= DegradedThreshold
  BY HeartbeatAssumption DEF ValidHeartbeatConfig
<1>4. CASE MissedBegin(r, e)
  <2> DEFINE missed == health[e].missed_pongs + 1
             new == [op |-> "missed", exchange |-> e, old_status |-> health[e].status,
                     missed |-> missed]
             s == [Entry(e) EXCEPT !.missed_pongs = @ + 1]
  <2>1. /\ report[r] = NoReport /\ report' = [report EXCEPT ![r] = new]
        /\ said' = SaidWith(e, missed, health[e].total_pongs)
        /\ health' = [health EXCEPT ![e] = s]
    BY <1>4 DEF MissedBegin
  <2>2. missed \in Nat /\ missed > 0
    BY <1>2
  <2>3. new \in Report /\ new.exchange = e
    BY <1>2, <2>2 DEF Report
  <2>4. s.status = health[e].status
    BY <1>1, EntryIs DEF HealthState
  <2>5. \A f \in Monitored : health'[f].status = health[f].status
    <3> HIDE DEF s
    <3>1. QED
      BY <1>1, <2>1, <2>4
  <2>6. Verdict(new) \in {StatusFor(missed, health[e].total_pongs), health[e].status}
    <3>1. Verdict(new) = NewStatus(health[e].status, missed)
      BY DEF Verdict
    <3> HIDE DEF missed, new
    <3>2. QED
      BY <1>3, <2>2, <3>1 DEF NewStatus, StatusFor
  <2> HIDE DEF missed, new, s
  <2>7. QED
    BY <1>2, <2>1, <2>2, <2>3, <2>5, <2>6, SaidBegins
<1>5. CASE \E latency_us \in Latencies \cup {0} : PongBegin(r, e, latency_us)
  <2> DEFINE pongs == health[e].total_pongs + 1
             new == [op |-> "pong", exchange |-> e, old_status |-> health[e].status, missed |-> 0]
  <2>1. PICK latency_us \in Latencies \cup {0} : PongBegin(r, e, latency_us)
    BY <1>5
  <2>2. /\ report[r] = NoReport /\ report' = [report EXCEPT ![r] = new]
        /\ said' = SaidWith(e, 0, pongs)
    BY <2>1 DEF PongBegin
  <2>3. pongs \in Nat /\ pongs > 0
    BY <1>2
  <2>4. new \in Report /\ new.exchange = e
    BY <1>2 DEF Report
  <2>5. \A f \in Monitored : health'[f].status = health[f].status
    <3> DEFINE en == Entry(e)
               last == IF latency_us > 0 THEN latency_us ELSE en.last_latency_us
               avg == IF latency_us > 0 THEN Average(en.avg_latency_us, latency_us)
                      ELSE en.avg_latency_us
               s == [en EXCEPT !.missed_pongs = 0, !.total_pongs = en.total_pongs + 1,
                               !.last_latency_us = last, !.avg_latency_us = avg]
    <3>1. health' = [health EXCEPT ![e] = s]
      BY <2>1 DEF PongBegin
    <3>2. en \in HealthState /\ en.status = health[e].status
      BY <1>1, EntryIs
    <3> HIDE DEF en, last, avg
    <3>3. s.status = health[e].status
      BY <3>2 DEF HealthState
    <3> HIDE DEF s
    <3>4. QED
      BY <1>1, <3>1, <3>3
  <2>6. Verdict(new) = StatusFor(0, pongs)
    <3>1. Verdict(new) = "Healthy"
      BY DEF Verdict
    <3> HIDE DEF pongs, new
    <3>2. QED
      BY <2>3, <3>1 DEF StatusFor
  <2> HIDE DEF pongs, new
  <2>7. QED
    BY <2>2, <2>3, <2>4, <2>5, <2>6, SaidBegins
<1>6. QED
  BY <1>4, <1>5

\* A report ends with its verdict.
LEMMA EndSaid ==
  ASSUME HealthInv, SaidInv, NEW r \in Reporters, PongEnd(r) \/ MissedEnd(r)
  PROVE  SaidInv'
<1> DEFINE e == report[r].exchange
           st == Verdict(report[r])
<1>1. /\ report' = [report EXCEPT ![r] = NoReport] /\ said' = said
      /\ health' = [health EXCEPT ![e].status = st]
  BY DEF PongEnd, MissedEnd, Verdict
<1>2. report \in [Reporters -> Report] /\ health \in [Monitored -> HealthState]
      /\ \A f \in Monitored : f # "none"
  BY HeartbeatAssumption DEF HealthInv, HealthTypeOK
<1>3. e \in Monitored
  <2>1. report[r] \in Report /\ report[r].op # "none"
    BY <1>2 DEF PongEnd, MissedEnd
  <2>2. QED
    BY <2>1 DEF HealthInv, Reported, Report
<1>4. st \in said[e]
  BY <1>3 DEF SaidInv
<1> HIDE DEF st
<1>5. \A f \in Monitored :
        health'[f].status = IF f = e THEN st ELSE health[f].status
  BY <1>1, <1>2, <1>3 DEF HealthState
<1>6. \A q \in Reporters : report'[q] = IF q = r THEN NoReport ELSE report[q]
  BY <1>1, <1>2
<1>7. \A f \in Monitored : health'[f].status \in said'[f]
  BY <1>1, <1>4, <1>5 DEF SaidInv
<1>8. ASSUME NEW q \in Reporters, NEW f \in Monitored, report'[q].exchange = f
      PROVE  Verdict(report'[q]) \in said'[f]
  <2>1. report'[q] = report[q]
    BY <1>2, <1>6, <1>8 DEF NoReport
  <2>2. QED
    BY <1>1, <1>8, <2>1 DEF SaidInv
<1>9. QED
  BY <1>1, <1>7, <1>8 DEF SaidInv

\* The other calls change no status.
LEMMA MonitoringSaid ==
  ASSUME HealthInv, SaidInv,
         \/ hb_shutdown
         \/ \E e \in Monitored : start_monitoring(e) \/ stop_monitoring(e) \/ force_ping(e)
  PROVE  SaidInv'
<1>1. health \in [Monitored -> HealthState] /\ HealthTypeOK
  BY DEF HealthInv, HealthTypeOK
<1>2. UNCHANGED <<report, said>>
  BY DEF hb_shutdown, start_monitoring, stop_monitoring, force_ping
<1>3. \A f \in Monitored : health'[f].status = health[f].status
  <2>1. CASE hb_shutdown
    BY <1>1, <2>1 DEF hb_shutdown, HealthState
  <2>2. ASSUME NEW e \in Monitored, start_monitoring(e)
        PROVE  \A f \in Monitored : health'[f].status = health[f].status
    <3>1. Entry(e) \in HealthState /\ Entry(e).status = health[e].status
      BY <1>1, EntryIs
    <3>2. [Entry(e) EXCEPT !.monitoring = TRUE].status = health[e].status
      BY <3>1 DEF HealthState
    <3>3. QED
      BY <1>1, <2>2, <3>2 DEF start_monitoring
  <2>3. ASSUME NEW e \in Monitored, stop_monitoring(e) \/ force_ping(e)
        PROVE  \A f \in Monitored : health'[f].status = health[f].status
    BY <1>1, <2>3 DEF stop_monitoring, force_ping, HealthState
  <2>4. QED
    BY <2>1, <2>2, <2>3
<1>4. QED
  BY <1>2, <1>3 DEF SaidInv

LEMMA SaidInvInit == HeartbeatInit => SaidInv
<1> SUFFICES ASSUME HeartbeatInit PROVE SaidInv
  OBVIOUS
<1>1. /\ \A r \in Reporters : report[r].exchange = "none"
      /\ \A e \in Monitored : e # "none" /\ health[e].status = "Unknown" /\ said[e] = {"Unknown"}
  BY HeartbeatAssumption DEF HeartbeatInit, NoReport, NewHealth
<1>2. said \in [Monitored -> SUBSET HealthStatuses]
  BY DEF HeartbeatInit, HealthStatuses
<1>3. QED
  BY <1>1, <1>2 DEF SaidInv

LEMMA SaidInvStep == HealthInv /\ SaidInv /\ [HeartbeatNext]_hbVars => SaidInv'
<1> SUFFICES ASSUME HealthInv, SaidInv, [HeartbeatNext]_hbVars PROVE SaidInv'
  OBVIOUS
<1>1. CASE UNCHANGED hbVars
  BY <1>1 DEF hbVars, SaidInv
<1>2. QED
  BY <1>1, MonitoringSaid, BeginSaid, EndSaid DEF HeartbeatNext

\* health_status is what the missed pongs and the thresholds say when the status
\* is settled, and while and after reports about one exchange overlap it is a
\* verdict the counters stood for since it last was; the latencies shown are
\* ones that were measured or an average between two that were.  For any valid
\* HeartbeatConfig and any number of reporting threads (record_pong,
\* record_missed_pong, health_summary).
THEOREM HealthAlwaysSound == HeartbeatSpec => []HealthSound
<1>1. HealthInv /\ SaidInv => HealthSound
  <2>6. HealthInv /\ SaidInv => HealthAgrees /\ HealthRecent
    BY DEF HealthInv, SaidInv, HealthRecent, Reported, health_status
  <2> SUFFICES ASSUME HealthInv, NEW e \in Monitored
               PROVE  LET summary == health_summary(e)
                      IN  /\ summary.status \in HealthStatuses
                          /\ summary.last_latency_us \subseteq Latencies
                          /\ summary.last_latency_us = {} <=> summary.avg_latency_us = {}
                          /\ \A avg \in summary.avg_latency_us :
                               \E lo, hi \in Latencies : lo <= avg /\ avg <= hi
    BY <2>6 DEF HealthSound, LatencyBounded
  <2>1. health[e] \in HealthState /\ LatencyOf(health[e])
    BY DEF HealthInv, HealthTypeOK, Latency
  <2>2. health[e].last_latency_us \in Nat /\ health[e].avg_latency_us \in Nat
    <3>1. health[e].last_latency_us \in Latencies \cup {0} /\ health[e].avg_latency_us \in Nat
      BY <2>1 DEF HealthState
    <3>2. \A l \in Latencies \cup {0} : l \in Nat
      BY HeartbeatAssumption
    <3>3. QED
      BY <3>1, <3>2
  <2>3. health_summary(e).status \in HealthStatuses
    BY <2>1 DEF health_summary, health_status, HealthState, HealthStatuses
  <2>4. /\ health_summary(e).last_latency_us
             = IF health[e].last_latency_us > 0 THEN {health[e].last_latency_us} ELSE {}
        /\ health_summary(e).avg_latency_us
             = IF health[e].avg_latency_us > 0 THEN {health[e].avg_latency_us} ELSE {}
    BY DEF health_summary
  <2>5. QED
    BY <2>1, <2>2, <2>3, <2>4 DEF HealthState, LatencyOf
<1>2. QED
  BY <1>1, HealthInvInit, HealthInvStep, SaidInvInit, SaidInvStep, PTL DEF HeartbeatSpec

-----------------------------------------------------------------------------
(***************************************************************************)
(* Connector.  ConnInv is the inductive invariant.  As long as calls for   *)
(* an exchange have not clashed, OneCall and OneLive leave it one call     *)
(* other than sends and one running task, so that the end of a task or of  *)
(* a disconnect cannot take away the gauge of another connection (Shown).  *)
(***************************************************************************)

Task == [exchange : Exchanges, phase : {"select", "announce", "forward", "disconnected", "done"},
         out : Nat, received : Nat, shutdown : BOOLEAN]

Call == [op : {"idle", "connecting", "spawned", "inserted", "removing", "joining", "sending"},
         exchange : Exchanges \cup {"none"}, id : Nat, todo : SUBSET Exchanges]

ConnTypeOK ==
  /\ conns \in Seq(Task)
  /\ handle \in [Exchanges -> Nat]
  /\ call \in [Callers -> Call]
  /\ gauge \in [Exchanges -> BOOLEAN]
  /\ clash \in [Exchanges -> BOOLEAN]

\* A handle is that of a task of its exchange.
Owned == \A e \in Exchanges : handle[e] # 0 => handle[e] \in DOMAIN conns /\ conns[handle[e]].exchange = e

\* What a call is about.
CallKnown ==
  \A c \in Callers :
    /\ call[c].op \in {"idle", "removing"} <=> call[c].exchange = "none"
    /\ call[c].op = "spawned" =>
         call[c].id \in DOMAIN conns /\ conns[call[c].id].exchange = call[c].exchange
    /\ call[c].op = "sending" => call[c].id \in DOMAIN conns
    /\ call[c].op \notin {"removing", "joining"} => call[c].todo = {}

Claims(c) == call[c].todo \cup {call[c].exchange}

\* A call for e that is not a send.
CallsFor(c, e) == e \in Claims(c) /\ call[c].op # "sending"

OneCall ==
  \A e \in Exchanges : ~clash[e] =>
    \A c, d \in Callers : CallsFor(c, e) /\ CallsFor(d, e) => c = d

\* One task runs, and none while somebody connects.
OneLive ==
  \A e \in Exchanges : ~clash[e] =>
    /\ \A i, j \in LiveFor(e) : i = j
    /\ \A c \in Callers : call[c].op = "connecting" /\ call[c].exchange = e => LiveFor(e) = {}

\* Nobody has connected e while a disconnect of it waits for the task.
Gone ==
  \A e \in Exchanges : ~clash[e] =>
    \A c \in Callers : call[c].op = "joining" /\ call[c].exchange = e => handle[e] = 0

\* The gauge shows a running connection from the end of connect on.
Shown ==
  \A e \in Exchanges :
    /\ ~clash[e] /\ handle[e] # 0 /\ handle[e] \in LiveFor(e)
    /\ \A c \in Callers : ~(call[c].op = "inserted" /\ call[c].exchange = e)
    => gauge[e]

ConnInv ==
  ConnTypeOK /\ Owned /\ CallKnown /\ NoOrphan /\ OneCall /\ OneLive /\ Gone /\ Shown

\* The parts of the invariant, and what they say of single tasks and calls.
LEMMA ConnParts ==
  ASSUME ConnInv
  PROVE  /\ ConnTypeOK /\ Owned /\ CallKnown /\ NoOrphan /\ OneCall /\ OneLive /\ Gone /\ Shown
         /\ DOMAIN conns = 1 .. Len(conns) /\ Len(conns) \in Nat
         /\ \A id \in DOMAIN conns : conns[id] \in Task
         /\ \A c \in Callers : call[c] \in Call
<1>1. /\ ConnTypeOK /\ Owned /\ CallKnown /\ NoOrphan /\ OneCall /\ OneLive /\ Gone /\ Shown
  BY DEF ConnInv
<1>2. conns \in Seq(Task)
  BY <1>1 DEF ConnTypeOK
<1>3. /\ DOMAIN conns = 1 .. Len(conns) /\ Len(conns) \in Nat
      /\ conns \in [1 .. Len(conns) -> Task]
  BY <1>2, LenProperties
<1>4. QED
  BY <1>1, <1>3 DEF ConnTypeOK

\* One task changes.
LEMMA TaskReplaced ==
  ASSUME conns \in Seq(Task), NEW id \in DOMAIN conns, NEW t \in Task,
         conns' = [conns EXCEPT ![id] = t]
  PROVE  /\ conns' \in Seq(Task) /\ DOMAIN conns' = DOMAIN conns
         /\ conns'[id] = t /\ \A i \in DOMAIN conns \ {id} : conns'[i] = conns[i]
<1>1. DOMAIN conns = 1 .. Len(conns) /\ Len(conns) \in Nat
  BY LenProperties
<1>2. conns' \in Seq(Task)
  BY <1>1, ExceptSeq
<1>3. QED
  BY <1>2

\* A step of the tasks that takes nothing back: no task changes its exchange
\* or forgets its shutdown, and none runs again.
Onward ==
  /\ conns' \in Seq(Task) /\ DOMAIN conns' = DOMAIN conns
  /\ \A id \in DOMAIN conns :
       /\ conns'[id].exchange = conns[id].exchange
       /\ conns[id].shutdown => conns'[id].shutdown
       /\ conns'[id].phase # "done" => conns[id].phase # "done"

\* Tasks that only go on never come to life again.
LEMMA LiveShrinks ==
  ASSUME Onward
  PROVE  \A e \in Exchanges : LiveFor(e)' \subseteq LiveFor(e)
BY DEF Onward, LiveFor, Running

\* A task goes on, and neither the map nor the calls nor the gauge change.
LEMMA TasksGoOn ==
  ASSUME ConnInv, Onward, UNCHANGED <<handle, call, gauge, clash>>
  PROVE  ConnInv'
<1>1. \A e \in Exchanges : LiveFor(e)' \subseteq LiveFor(e)
  BY LiveShrinks
<1>2. ConnTypeOK'
  BY DEF ConnInv, ConnTypeOK, Onward
<1>3. Owned'
  BY DEF ConnInv, Owned, Onward
<1>4. CallKnown'
  BY DEF ConnInv, CallKnown, Onward
<1>5. NoOrphan'
  BY DEF ConnInv, NoOrphan, Onward, Running
<1>6. OneCall' /\ Gone'
  BY DEF ConnInv, OneCall, Gone, CallsFor, Claims
<1>7. OneLive'
  BY <1>1 DEF ConnInv, OneLive
<1>8. Shown'
  BY <1>1 DEF ConnInv, Shown
<1>9. QED
  BY <1>2, <1>3, <1>4, <1>5, <1>6, <1>7, <1>8 DEF ConnInv

\* The end of a task hides no other: it was the only one of its exchange.
LEMMA EndOfTask ==
  ASSUME ConnInv, NEW id \in DOMAIN conns, Running(id), TaskEnds(id),
         UNCHANGED <<handle, call, clash>>
  PROVE  ConnInv'
<1> DEFINE t == [conns[id] EXCEPT !.phase = "done", !.out = 0]
<1>0. conns \in Seq(Task) /\ conns[id] \in Task
  BY ConnParts DEF ConnTypeOK
<1>e. PICK e \in Exchanges : e = conns[id].exchange
  BY <1>0 DEF Task
<1>1. conns' = [conns EXCEPT ![id] = t] /\ gauge' = [gauge EXCEPT ![e] = FALSE]
  BY <1>e DEF TaskEnds
<1>2. /\ t \in Task /\ t.exchange = e /\ t.shutdown = conns[id].shutdown /\ t.phase = "done"
  BY <1>0, <1>e DEF Task
<1> HIDE DEF t
<1>3. /\ conns' \in Seq(Task) /\ DOMAIN conns' = DOMAIN conns
      /\ conns'[id] = t /\ \A i \in DOMAIN conns \ {id} : conns'[i] = conns[i]
  BY <1>0, <1>1, <1>2, TaskReplaced
<1>4. Onward
  BY <1>2, <1>3, <1>e DEF Onward
<1>5. \A f \in Exchanges : LiveFor(f)' \subseteq LiveFor(f)
  BY <1>4, LiveShrinks
<1>6. e \in Exchanges /\ id \in LiveFor(e) /\ id \notin LiveFor(e)'
  BY <1>2, <1>3, <1>e DEF LiveFor, Running
<1>7. /\ gauge' \in [Exchanges -> BOOLEAN]
      /\ \A f \in Exchanges \ {e} : gauge'[f] = gauge[f]
  <2>1. gauge \in [Exchanges -> BOOLEAN]
    BY DEF ConnInv, ConnTypeOK
  <2>2. QED
    BY <1>1, <2>1
<1>8. ConnTypeOK'
  BY <1>3, <1>7 DEF ConnInv, ConnTypeOK
<1>9. Owned' /\ CallKnown'
  BY <1>4 DEF ConnInv, Owned, CallKnown, Onward
<1>10. NoOrphan'
  BY <1>4 DEF ConnInv, NoOrphan, Onward, Running
<1>11. OneCall' /\ Gone'
  BY DEF ConnInv, OneCall, Gone, CallsFor, Claims
<1>12. OneLive'
  BY <1>5 DEF ConnInv, OneLive
<1>13. ASSUME NEW f \in Exchanges, ~clash[f], handle[f] # 0, handle[f] \in LiveFor(f)',
              \A c \in Callers : ~(call[c].op = "inserted" /\ call[c].exchange = f)
       PROVE  gauge'[f]
  <2>1. handle[f] \in LiveFor(f)
    BY <1>5, <1>13
  <2>2. f # e
    <3> SUFFICES ASSUME f = e PROVE FALSE
      OBVIOUS
    <3>1. handle[e] = id
      BY <1>6, <1>13, <2>1 DEF ConnInv, OneLive
    <3>2. handle[e] \in LiveFor(e)'
      BY <1>13
    <3>3. QED
      BY <1>6, <3>1, <3>2, Zenon
  <2>3. gauge[f]
    BY <1>13, <2>1 DEF ConnInv, Shown
  <2>4. gauge'[f] = gauge[f]
    BY <1>7, <2>2
  <2>5. QED
    BY <2>3, <2>4, Zenon
<1>14. Shown'
  BY <1>13 DEF Shown
<1>15. QED
  BY <1>8, <1>9, <1>10, <1>11, <1>12, <1>14 DEF ConnInv

\* A step of a connection's task.
LEMMA TaskStepKeeps ==
  ASSUME ConnInv, NEW id \in DOMAIN conns, TaskStep(id)
  PROVE  ConnInv'
<1>0. conns \in Seq(Task) /\ conns[id] \in Task
  BY ConnParts DEF ConnTypeOK
<1>1. ASSUME NEW t \in Task, conns' = [conns EXCEPT ![id] = t],
             t.exchange = conns[id].exchange, t.shutdown = conns[id].shutdown,
             conns[id].phase # "done", UNCHANGED <<handle, call, gauge, clash>>
      PROVE  ConnInv'
  <2>1. /\ conns' \in Seq(Task) /\ DOMAIN conns' = DOMAIN conns
        /\ conns'[id] = t /\ \A i \in DOMAIN conns \ {id} : conns'[i] = conns[i]
    BY <1>0, <1>1, TaskReplaced
  <2>2. Onward
    BY <1>1, <2>1 DEF Onward
  <2>3. QED
    BY <1>1, <2>2, TasksGoOn
<1>2. ASSUME NEW next \in {"announce", "forward", "select"}, TaskReceive(id, next)
      PROVE  ConnInv'
  <2> DEFINE n == conns[id].received + 1
             t == [conns[id] EXCEPT !.phase = next, !.received = n]
  <2>1. n \in Nat
    BY <1>0 DEF Task
  <2>2. /\ conns' = [conns EXCEPT ![id] = t] /\ conns[id].phase = "select"
        /\ UNCHANGED <<handle, call, gauge, clash>>
    BY <1>2 DEF TaskReceive
  <2> HIDE DEF n
  <2>3. t \in Task /\ t.exchange = conns[id].exchange /\ t.shutdown = conns[id].shutdown
    BY <1>0, <2>1 DEF Task
  <2> HIDE DEF t
  <2>4. QED
    BY <1>1, <2>2, <2>3
<1>3. ASSUME NEW p \in {"forward", "select", "disconnected"}, Phase(id, p), conns[id].phase # "done",
             UNCHANGED <<handle, call, gauge, clash>>
      PROVE  ConnInv'
  <2> DEFINE t == [conns[id] EXCEPT !.phase = p]
  <2>1. conns' = [conns EXCEPT ![id] = t]
    BY <1>3 DEF Phase
  <2>2. t \in Task /\ t.exchange = conns[id].exchange /\ t.shutdown = conns[id].shutdown
    BY <1>0 DEF Task
  <2> HIDE DEF t
  <2>3. QED
    BY <1>1, <1>3, <2>1, <2>2
<1>4. CASE TaskAnnounce(id) \/ TaskForward(id) \/ TaskRemoteEnd(id)
  BY <1>3, <1>4 DEF TaskAnnounce, TaskForward, TaskRemoteEnd
<1>5. CASE TaskWrite(id)
  <2> DEFINE n == conns[id].out - 1
             t == [conns[id] EXCEPT !.out = n]
  <2>1. n \in Nat
    BY <1>0, <1>5 DEF Task, TaskWrite
  <2>2. /\ conns' = [conns EXCEPT ![id] = t] /\ conns[id].phase = "select"
        /\ UNCHANGED <<handle, call, gauge, clash>>
    BY <1>5 DEF TaskWrite
  <2> HIDE DEF n
  <2>3. t \in Task /\ t.exchange = conns[id].exchange /\ t.shutdown = conns[id].shutdown
    BY <1>0, <2>1 DEF Task
  <2> HIDE DEF t
  <2>4. QED
    BY <1>1, <2>2, <2>3
<1>6. CASE TaskForwardFails(id) \/ TaskSaysDisconnected(id) \/ TaskWriteFails(id) \/ TaskShutdown(id)
  <2>1. Running(id) /\ TaskEnds(id) /\ UNCHANGED <<handle, call, clash>>
    BY <1>6 DEF TaskForwardFails, TaskSaysDisconnected, TaskWriteFails, TaskShutdown, Running
  <2>2. QED
    BY <2>1, EndOfTask
<1>7. QED
  BY <1>2, <1>4, <1>5, <1>6 DEF TaskStep

\* A call that was idle begins: connect, disconnect or send.
LEMMA CallBegins ==
  ASSUME ConnInv, NEW c \in Callers, NEW k \in Call, call[c] = Idle,
         call' = [call EXCEPT ![c] = k],
         k.op \in {"connecting", "removing", "sending"},
         k.op = "removing" <=> k.exchange = "none",
         k.op # "removing" => k.todo = {},
         k.op = "sending" => k.id \in DOMAIN conns,
         clash' \in [Exchanges -> BOOLEAN],
         \A f \in Exchanges : clash[f] => clash'[f],
         \A f \in Exchanges :
           ~clash'[f] /\ k.op # "sending" /\ f \in k.todo \cup {k.exchange} =>
             \A d \in Callers : f \notin Claims(d),
         \A f \in Exchanges :
           ~clash'[f] /\ k.op = "connecting" /\ f = k.exchange => LiveFor(f) = {},
         UNCHANGED <<conns, handle, gauge>>
  PROVE  ConnInv'
<1>0. /\ call[c].op = "idle" /\ call[c].exchange = "none" /\ call[c].todo = {}
      /\ \A f \in Exchanges : f # "none"
  BY ConnectorAssumption DEF Idle
<1>1. /\ call \in [Callers -> Call] /\ call' \in [Callers -> Call] /\ call'[c] = k
      /\ \A d \in Callers \ {c} : call'[d] = call[d]
  BY DEF ConnInv, ConnTypeOK
<1>2. \A f \in Exchanges : LiveFor(f)' = LiveFor(f)
  BY DEF LiveFor, Running
<1>3. ConnTypeOK'
  BY <1>1 DEF ConnInv, ConnTypeOK
<1>4. Owned'
  BY DEF ConnInv, Owned
<1>5. CallKnown'
  BY <1>1 DEF ConnInv, CallKnown
<1>6. NoOrphan'
  BY <1>0, <1>1 DEF ConnInv, NoOrphan, Running
<1>7. OneCall'
  <2> SUFFICES ASSUME NEW f \in Exchanges, ~clash'[f], NEW d1 \in Callers, NEW d2 \in Callers,
                      CallsFor(d1, f)', CallsFor(d2, f)'
               PROVE  d1 = d2
    BY DEF OneCall
  <2>0. ~clash[f]
    OBVIOUS
  <2>1. \A d \in Callers \ {c} : CallsFor(d, f)' => CallsFor(d, f) /\ f \in Claims(d)
    BY <1>1 DEF CallsFor, Claims
  <2>2. CallsFor(c, f)' => \A d \in Callers : f \notin Claims(d)
    BY <1>1 DEF CallsFor, Claims
  <2>3. CASE CallsFor(c, f)'
    BY <2>1, <2>2, <2>3
  <2>4. CASE ~CallsFor(c, f)'
    <3>1. d1 # c /\ d2 # c
      BY <2>4
    <3>2. CallsFor(d1, f) /\ CallsFor(d2, f)
      BY <2>1, <3>1
    <3>3. QED
      BY <2>0, <3>2 DEF ConnInv, OneCall
  <2>5. QED
    BY <2>3, <2>4
<1>8. OneLive'
  <2> SUFFICES ASSUME NEW f \in Exchanges, ~clash'[f]
               PROVE  /\ \A i, j \in LiveFor(f) : i = j
                      /\ \A d \in Callers : call'[d].op = "connecting" /\ call'[d].exchange = f
                                            => LiveFor(f) = {}
    BY <1>2 DEF OneLive
  <2>0. ~clash[f]
    OBVIOUS
  <2>1. QED
    BY <1>1, <2>0 DEF ConnInv, OneLive
<1>9. Gone'
  BY <1>1 DEF ConnInv, Gone
<1>10. Shown'
  <2> SUFFICES ASSUME NEW f \in Exchanges, ~clash'[f], handle[f] # 0, handle[f] \in LiveFor(f),
                      \A d \in Callers : ~(call'[d].op = "inserted" /\ call'[d].exchange = f)
               PROVE  gauge[f]
    BY <1>2 DEF Shown
  <2>1. ~clash[f] /\ \A d \in Callers : ~(call[d].op = "inserted" /\ call[d].exchange = f)
    BY <1>0, <1>1
  <2>2. QED
    BY <2>1 DEF ConnInv, Shown
<1>11. QED
  BY <1>3, <1>4, <1>5, <1>6, <1>7, <1>8, <1>9, <1>10 DEF ConnInv

\* connect begins.
LEMMA ConnectBeginKeeps ==
  ASSUME ConnInv, NEW c \in Callers, NEW e \in Exchanges, ConnectBegin(c, e)
  PROVE  ConnInv'
<1> DEFINE k == [Idle EXCEPT !.op = "connecting", !.exchange = e]
<1>1. /\ call[c] = Idle /\ call' = [call EXCEPT ![c] = k]
      /\ clash' = [clash EXCEPT ![e] = clash[e] \/ LiveFor(e) # {} \/ Busy(e)]
      /\ UNCHANGED <<conns, handle, gauge>>
  BY DEF ConnectBegin
<1>2. /\ k \in Call /\ k.op = "connecting" /\ k.exchange = e /\ k.todo = {} /\ e # "none"
  BY ConnectorAssumption DEF Call, Idle
<1> HIDE DEF k
<1>3. clash \in [Exchanges -> BOOLEAN]
  BY DEF ConnInv, ConnTypeOK
<1>4. /\ clash' \in [Exchanges -> BOOLEAN] /\ \A f \in Exchanges : clash[f] => clash'[f]
      /\ ~clash'[e] => LiveFor(e) = {} /\ ~Busy(e)
  BY <1>1, <1>3, Zenon
<1>5. ~Busy(e) => \A d \in Callers : e \notin Claims(d)
  BY DEF Busy, Claims
<1>6. \A f \in Exchanges :
        ~clash'[f] /\ k.op # "sending" /\ f \in k.todo \cup {k.exchange} =>
          \A d \in Callers : f \notin Claims(d)
  BY <1>2, <1>4, <1>5
<1>7. \A f \in Exchanges : ~clash'[f] /\ k.op = "connecting" /\ f = k.exchange => LiveFor(f) = {}
  BY <1>2, <1>4
<1>8. QED
  BY <1>1, <1>2, <1>4, <1>6, <1>7, CallBegins

\* send begins.
LEMMA SendBeginKeeps ==
  ASSUME ConnInv, NEW c \in Callers, NEW e \in Exchanges, SendBegin(c, e)
  PROVE  ConnInv'
<1> DEFINE k == [Idle EXCEPT !.op = "sending", !.exchange = e, !.id = handle[e]]
<1>1. /\ call[c] = Idle /\ call' = [call EXCEPT ![c] = k] /\ handle[e] # 0
      /\ UNCHANGED <<conns, handle, gauge, clash>>
  BY DEF SendBegin
<1>2. handle[e] \in DOMAIN conns /\ handle[e] \in Nat
  BY <1>1 DEF ConnInv, ConnTypeOK, Owned
<1>3. /\ k \in Call /\ k.op = "sending" /\ k.exchange = e /\ k.todo = {} /\ k.id = handle[e]
      /\ e # "none"
  BY <1>2, ConnectorAssumption DEF Call, Idle
<1> HIDE DEF k
<1>4. clash' \in [Exchanges -> BOOLEAN]
  BY <1>1 DEF ConnInv, ConnTypeOK
<1>5. QED
  BY <1>1, <1>2, <1>3, <1>4, CallBegins

\* disconnect begins.
LEMMA DisconnectBeginKeeps ==
  ASSUME ConnInv, NEW c \in Callers, NEW todo \in SUBSET Exchanges, DisconnectBegin(c, todo)
  PROVE  ConnInv'
<1> DEFINE k == [Idle EXCEPT !.op = "removing", !.todo = todo]
<1>1. /\ call[c] = Idle /\ call' = [call EXCEPT ![c] = k]
      /\ clash' = [e \in Exchanges |-> clash[e] \/ (e \in todo /\ Busy(e))]
      /\ UNCHANGED <<conns, handle, gauge>>
  BY DEF DisconnectBegin
<1>2. /\ k \in Call /\ k.op = "removing" /\ k.exchange = "none" /\ k.todo = todo
      /\ "none" \notin Exchanges
  BY ConnectorAssumption DEF Call, Idle
<1> HIDE DEF k
<1>3. clash \in [Exchanges -> BOOLEAN]
  BY DEF ConnInv, ConnTypeOK
<1>4. /\ clash' \in [Exchanges -> BOOLEAN] /\ \A f \in Exchanges : clash[f] => clash'[f]
      /\ \A f \in Exchanges : ~clash'[f] /\ f \in todo => ~Busy(f)
  BY <1>1, <1>3, Zenon
<1>5. \A f \in Exchanges : ~Busy(f) => \A d \in Callers : f \notin Claims(d)
  BY DEF Busy, Claims
<1>6. QED
  BY <1>1, <1>2, <1>4, <1>5, CallBegins

\* A call ends, or what is left of it is the rest of a disconnect_all; the
\* gauge is not spoken of.
LEMMA CallEnds ==
  ASSUME ConnInv, Onward, NEW c \in Callers, NEW k \in Call, call' = [call EXCEPT ![c] = k],
         k.op \in {"idle", "removing"}, k.exchange = "none", k.op = "idle" => k.todo = {},
         k.todo \subseteq call[c].todo, call[c].op # "spawned",
         UNCHANGED <<handle, clash>>, gauge' \in [Exchanges -> BOOLEAN]
  PROVE  /\ ConnTypeOK' /\ Owned' /\ CallKnown' /\ NoOrphan' /\ OneCall' /\ OneLive' /\ Gone'
         /\ \A d \in Callers \ {c} : call'[d] = call[d]
<1>0. \A f \in Exchanges : f # "none"
  BY ConnectorAssumption
<1>1. /\ call \in [Callers -> Call] /\ call' \in [Callers -> Call] /\ call'[c] = k
      /\ \A d \in Callers \ {c} : call'[d] = call[d]
  BY DEF ConnInv, ConnTypeOK
<1>2. \A f \in Exchanges : LiveFor(f)' \subseteq LiveFor(f)
  BY LiveShrinks
<1>3. ConnTypeOK'
  BY <1>1 DEF ConnInv, ConnTypeOK, Onward
<1>4. Owned'
  BY DEF ConnInv, Owned, Onward
<1>5. CallKnown'
  BY <1>1 DEF ConnInv, CallKnown, Onward
<1>6. NoOrphan'
  BY <1>1 DEF ConnInv, NoOrphan, Running, Onward
<1>7. OneCall'
  <2>1. call[c].op = "sending" => call[c].todo = {}
    BY DEF ConnInv, CallKnown
  <2>2. \A f \in Exchanges : \A d \in Callers : CallsFor(d, f)' => CallsFor(d, f)
    BY <1>0, <1>1, <2>1 DEF CallsFor, Claims
  <2>3. QED
    BY <2>2 DEF ConnInv, OneCall
<1>8. OneLive'
  BY <1>1, <1>2 DEF ConnInv, OneLive
<1>9. Gone'
  BY <1>1 DEF ConnInv, Gone
<1>10. QED
  BY <1>1, <1>3, <1>4, <1>5, <1>6, <1>7, <1>8, <1>9

\* The end of a call that does not touch the gauge.
LEMMA QuietEnd ==
  ASSUME ConnInv, Onward, NEW c \in Callers, NEW k \in Call, call' = [call EXCEPT ![c] = k],
         k.op \in {"idle", "removing"}, k.exchange = "none", k.op = "idle" => k.todo = {},
         k.todo \subseteq call[c].todo, call[c].op \notin {"spawned", "inserted"},
         UNCHANGED <<handle, clash, gauge>>
  PROVE  ConnInv'
<1>0. gauge' \in [Exchanges -> BOOLEAN]
  BY DEF ConnInv, ConnTypeOK
<1>1. /\ ConnTypeOK' /\ Owned' /\ CallKnown' /\ NoOrphan' /\ OneCall' /\ OneLive' /\ Gone'
      /\ \A d \in Callers \ {c} : call'[d] = call[d]
  BY <1>0, CallEnds
<1>2. \A f \in Exchanges : LiveFor(f)' \subseteq LiveFor(f)
  BY LiveShrinks
<1>3. Shown'
  BY <1>1, <1>2 DEF ConnInv, Shown
<1>4. QED
  BY <1>1, <1>3 DEF ConnInv

\* Tasks that are left alone go on.
LEMMA TasksRest == ASSUME ConnInv, UNCHANGED conns PROVE Onward
BY DEF ConnInv, ConnTypeOK, Onward

\* A caller at rest.
LEMMA IdleIsCall ==
  Idle \in Call /\ Idle.op = "idle" /\ Idle.exchange = "none" /\ Idle.todo = {}
BY DEF Idle, Call

\* connect or send returns an error.
LEMMA CallGivesUp ==
  ASSUME ConnInv, NEW c \in Callers, ConnectFail(c) \/ SendClosed(c)
  PROVE  ConnInv'
<1>1. /\ call' = [call EXCEPT ![c] = Idle] /\ call[c].op \in {"connecting", "sending"}
      /\ UNCHANGED <<conns, handle, clash, gauge>>
  BY DEF ConnectFail, SendClosed
<1>2. Idle.todo \subseteq call[c].todo
  BY IdleIsCall
<1>3. QED
  BY <1>1, <1>2, IdleIsCall, TasksRest, QuietEnd

\* send puts its message into the channel.
LEMMA SendQueuedKeeps ==
  ASSUME ConnInv, NEW c \in Callers, SendQueued(c)
  PROVE  ConnInv'
<1> DEFINE n == conns[call[c].id].out + 1
           t == [conns[call[c].id] EXCEPT !.out = n]
<1>1. /\ call[c].op = "sending" /\ conns' = [conns EXCEPT ![call[c].id] = t]
      /\ call' = [call EXCEPT ![c] = Idle] /\ UNCHANGED <<handle, clash, gauge>>
  BY DEF SendQueued
<1>2. PICK id \in DOMAIN conns : id = call[c].id
  BY <1>1 DEF ConnInv, CallKnown
<1>3. conns \in Seq(Task) /\ conns[id] \in Task
  BY ConnParts DEF ConnTypeOK
<1>4. n \in Nat
  BY <1>2, <1>3 DEF Task
<1>5. t = [conns[id] EXCEPT !.out = n]
  BY <1>2
<1> HIDE DEF n, t
<1>6. /\ t \in Task /\ t.exchange = conns[id].exchange /\ t.shutdown = conns[id].shutdown
      /\ t.phase = conns[id].phase
  BY <1>3, <1>4, <1>5 DEF Task
<1>7. /\ conns' \in Seq(Task) /\ DOMAIN conns' = DOMAIN conns
      /\ conns'[id] = t /\ \A i \in DOMAIN conns \ {id} : conns'[i] = conns[i]
  BY <1>1, <1>2, <1>3, <1>6, TaskReplaced
<1>8. Onward
  BY <1>6, <1>7 DEF Onward
<1>9. Idle.todo \subseteq call[c].todo
  BY IdleIsCall
<1>10. QED
  BY <1>1, <1>8, <1>9, IdleIsCall, QuietEnd

\* connect returns.
LEMMA ConnectDoneKeeps ==
  ASSUME ConnInv, NEW c \in Callers, ConnectDone(c)
  PROVE  ConnInv'
<1>1. /\ call[c].op = "inserted" /\ call' = [call EXCEPT ![c] = Idle]
      /\ gauge' = [gauge EXCEPT ![call[c].exchange] = TRUE]
      /\ UNCHANGED <<conns, handle, clash>>
  BY DEF ConnectDone
<1>2. PICK e \in Exchanges : e = call[c].exchange
  BY <1>1 DEF ConnInv, ConnTypeOK, CallKnown, Call
<1>3. gauge \in [Exchanges -> BOOLEAN]
  BY DEF ConnInv, ConnTypeOK
<1>4. /\ gauge' \in [Exchanges -> BOOLEAN] /\ gauge'[e] = TRUE
      /\ \A f \in Exchanges \ {e} : gauge'[f] = gauge[f]
  BY <1>1, <1>2, <1>3
<1>5. Onward /\ Idle.todo \subseteq call[c].todo
  BY <1>1, TasksRest, IdleIsCall
<1>6. /\ ConnTypeOK' /\ Owned' /\ CallKnown' /\ NoOrphan' /\ OneCall' /\ OneLive' /\ Gone'
      /\ \A d \in Callers \ {c} : call'[d] = call[d]
  BY <1>1, <1>4, <1>5, IdleIsCall, CallEnds
<1>7. \A f \in Exchanges : LiveFor(f)' = LiveFor(f)
  BY <1>1 DEF LiveFor, Running
<1>8. ASSUME NEW f \in Exchanges, ~clash[f], handle[f] # 0, handle[f] \in LiveFor(f),
             \A d \in Callers : ~(call'[d].op = "inserted" /\ call'[d].exchange = f)
      PROVE  gauge'[f]
  <2>1. CASE f = e
    BY <1>4, <2>1, Zenon
  <2>2. CASE f # e
    <3>1. \A d \in Callers : ~(call[d].op = "inserted" /\ call[d].exchange = f)
      BY <1>2, <1>6, <1>8, <2>2
    <3>2. gauge[f]
      BY <1>8, <3>1 DEF ConnInv, Shown
    <3>3. QED
      BY <1>4, <2>2, <3>2, Zenon
  <2>3. QED
    BY <2>1, <2>2
<1>9. Shown'
  BY <1>1, <1>7, <1>8 DEF Shown
<1>10. QED
  BY <1>6, <1>9 DEF ConnInv

\* disconnect returns.
LEMMA DisconnectDoneKeeps ==
  ASSUME ConnInv, NEW c \in Callers, DisconnectDone(c)
  PROVE  ConnInv'
<1> DEFINE k == IF call[c].todo = {} THEN Idle
                ELSE [Idle EXCEPT !.op = "removing", !.todo = call[c].todo]
<1>1. /\ call[c].op = "joining" /\ call' = [call EXCEPT ![c] = k]
      /\ gauge' = [gauge EXCEPT ![call[c].exchange] = FALSE]
      /\ UNCHANGED <<conns, handle, clash>>
  BY DEF DisconnectDone
<1>2. PICK e \in Exchanges : e = call[c].exchange
  BY <1>1 DEF ConnInv, ConnTypeOK, CallKnown, Call
<1>3. gauge \in [Exchanges -> BOOLEAN] /\ call[c] \in Call
  BY DEF ConnInv, ConnTypeOK
<1>4. /\ gauge' \in [Exchanges -> BOOLEAN]
      /\ \A f \in Exchanges \ {e} : gauge'[f] = gauge[f]
  BY <1>1, <1>2, <1>3
<1>5. /\ k \in Call /\ k.op \in {"idle", "removing"} /\ k.exchange = "none"
      /\ k.op = "idle" => k.todo = {}
      /\ k.todo \subseteq call[c].todo
  BY <1>3 DEF Call, Idle
<1> HIDE DEF k
<1>6. /\ ConnTypeOK' /\ Owned' /\ CallKnown' /\ NoOrphan' /\ OneCall' /\ OneLive' /\ Gone'
      /\ \A d \in Callers \ {c} : call'[d] = call[d]
  BY <1>1, <1>4, <1>5, TasksRest, CallEnds
<1>7. \A f \in Exchanges : LiveFor(f)' = LiveFor(f)
  BY <1>1 DEF LiveFor, Running
<1>8. ASSUME NEW f \in Exchanges, ~clash[f], handle[f] # 0, handle[f] \in LiveFor(f),
             \A d \in Callers : ~(call'[d].op = "inserted" /\ call'[d].exchange = f)
      PROVE  gauge'[f]
  <2>1. f # e
    BY <1>1, <1>2, <1>8 DEF ConnInv, Gone
  <2>2. \A d \in Callers : ~(call[d].op = "inserted" /\ call[d].exchange = f)
    BY <1>1, <1>6, <1>8
  <2>3. gauge[f]
    BY <1>8, <2>2 DEF ConnInv, Shown
  <2>4. QED
    BY <1>4, <2>1, <2>3, Zenon
<1>9. Shown'
  BY <1>1, <1>7, <1>8 DEF Shown
<1>10. QED
  BY <1>6, <1>9 DEF ConnInv

\* connect spawns its task.
LEMMA ConnectSpawnKeeps ==
  ASSUME ConnInv, NEW c \in Callers, ConnectSpawn(c)
  PROVE  ConnInv'
<1> DEFINE n == Len(conns) + 1
           t == [exchange |-> call[c].exchange, phase |-> "select", out |-> 0, received |-> 0,
                 shutdown |-> FALSE]
           k == [call[c] EXCEPT !.op = "spawned", !.id = n]
<1>1. /\ call[c].op = "connecting" /\ conns' = Append(conns, t)
      /\ UNCHANGED <<handle, gauge, clash>>
  BY DEF ConnectSpawn
<1>2. PICK e \in Exchanges : e = call[c].exchange
  BY <1>1 DEF ConnInv, ConnTypeOK, CallKnown, Call
<1>3. /\ conns \in Seq(Task) /\ Len(conns) \in Nat /\ DOMAIN conns = 1 .. Len(conns)
      /\ call \in [Callers -> Call] /\ call[c] \in Call /\ n \in Nat
  BY ConnParts DEF ConnTypeOK
<1>4. call' = [call EXCEPT ![c] = k]
  BY <1>3 DEF ConnectSpawn
<1>5. t \in Task /\ t.exchange = e /\ t.phase = "select"
  BY <1>2 DEF Task
<1> HIDE DEF t
<1>6. /\ conns' \in Seq(Task) /\ DOMAIN conns' = DOMAIN conns \cup {n} /\ n \notin DOMAIN conns
      /\ conns'[n] = t /\ \A i \in DOMAIN conns : conns'[i] = conns[i]
  <2>1. /\ conns' \in Seq(Task) /\ Len(conns') = Len(conns) + 1
        /\ \A i \in 1 .. Len(conns) : conns'[i] = conns[i]
        /\ conns'[Len(conns) + 1] = t
    BY <1>1, <1>3, <1>5, AppendProperties
  <2>2. DOMAIN conns' = 1 .. Len(conns')
    BY <2>1, LenProperties
  <2>3. QED
    BY <1>3, <2>1, <2>2
<1>7. /\ k \in Call /\ k.op = "spawned" /\ k.id = n /\ k.exchange = e /\ k.todo = call[c].todo
  <2> HIDE DEF n
  <2>1. QED
    BY <1>2, <1>3 DEF Call
<1> HIDE DEF n, k
<1>8. /\ call' \in [Callers -> Call] /\ call'[c] = k
      /\ \A d \in Callers \ {c} : call'[d] = call[d]
  BY <1>3, <1>4, <1>7
<1>9. /\ \A f \in Exchanges \ {e} : LiveFor(f)' = LiveFor(f)
      /\ LiveFor(e)' = LiveFor(e) \cup {n}
  BY <1>5, <1>6 DEF LiveFor, Running
<1>10. ConnTypeOK'
  BY <1>1, <1>6, <1>8 DEF ConnInv, ConnTypeOK
<1>11. Owned'
  BY <1>1, <1>6 DEF ConnInv, Owned
<1>12. CallKnown'
  <2>1. e # "none" /\ call[c].todo = {}
    BY <1>1, ConnectorAssumption DEF ConnInv, CallKnown
  <2>2. QED
    BY <1>5, <1>6, <1>7, <1>8, <2>1 DEF ConnInv, CallKnown
<1>13. NoOrphan'
  BY <1>1, <1>6, <1>7, <1>8 DEF ConnInv, NoOrphan, Running
<1>14. \A f \in Exchanges : \A d \in Callers : CallsFor(d, f)' => CallsFor(d, f)
  BY <1>1, <1>2, <1>7, <1>8 DEF CallsFor, Claims
<1>15. OneCall'
  BY <1>1, <1>14 DEF ConnInv, OneCall
<1>16. OneLive'
  <2>1. ~clash[e] => LiveFor(e) = {}
    BY <1>1, <1>2 DEF ConnInv, OneLive
  <2>2. ASSUME ~clash[e], NEW d \in Callers, call'[d].op = "connecting", call'[d].exchange = e
        PROVE  FALSE
    <3>1. d # c /\ call[d].op = "connecting" /\ call[d].exchange = e
      BY <1>7, <1>8, <2>2
    <3>2. CallsFor(c, e) /\ CallsFor(d, e)
      BY <1>1, <1>2, <3>1 DEF CallsFor, Claims
    <3>3. QED
      BY <2>2, <3>1, <3>2 DEF ConnInv, OneCall
  <2>3. ASSUME NEW f \in Exchanges, ~clash[f]
        PROVE  /\ \A i, j \in LiveFor(f)' : i = j
               /\ \A d \in Callers : call'[d].op = "connecting" /\ call'[d].exchange = f
                                     => LiveFor(f)' = {}
    <3>1. CASE f = e
      BY <1>9, <2>1, <2>2, <2>3, <3>1
    <3>2. CASE f # e
      BY <1>7, <1>8, <1>9, <2>3, <3>2 DEF ConnInv, OneLive
    <3>3. QED
      BY <3>1, <3>2
  <2>4. QED
    BY <1>1, <2>3 DEF OneLive
<1>17. Gone'
  BY <1>1, <1>7, <1>8 DEF ConnInv, Gone
<1>18. Shown'
  <2> SUFFICES ASSUME NEW f \in Exchanges, ~clash[f], handle[f] # 0, handle[f] \in LiveFor(f)',
                      \A d \in Callers : ~(call'[d].op = "inserted" /\ call'[d].exchange = f)
               PROVE  gauge[f]
    BY <1>1 DEF Shown
  <2>1. handle[f] \in LiveFor(f)
    <3>1. handle[f] \in DOMAIN conns
      BY DEF ConnInv, Owned
    <3>2. QED
      BY <1>6, <1>9, <3>1
  <2>2. \A d \in Callers : ~(call[d].op = "inserted" /\ call[d].exchange = f)
    BY <1>1, <1>8
  <2>3. QED
    BY <2>1, <2>2 DEF ConnInv, Shown
<1>19. QED
  BY <1>10, <1>11, <1>12, <1>13, <1>15, <1>16, <1>17, <1>18 DEF ConnInv

\* connect puts the handle into the map and shuts the old task down.
LEMMA ConnectInsertKeeps ==
  ASSUME ConnInv, NEW c \in Callers, ConnectInsert(c)
  PROVE  ConnInv'
<1> DEFINE k == [call[c] EXCEPT !.op = "inserted"]
<1>1. /\ call[c].op = "spawned" /\ handle' = [handle EXCEPT ![call[c].exchange] = call[c].id]
      /\ UNCHANGED <<gauge, clash>>
  BY DEF ConnectInsert
<1>2. PICK e \in Exchanges : e = call[c].exchange
  BY <1>1 DEF ConnInv, ConnTypeOK, CallKnown, Call
<1>3. /\ conns \in Seq(Task) /\ Len(conns) \in Nat /\ DOMAIN conns = 1 .. Len(conns)
      /\ call \in [Callers -> Call] /\ call[c] \in Call /\ handle \in [Exchanges -> Nat]
      /\ \A i \in DOMAIN conns : conns[i] \in Task
  BY ConnParts DEF ConnTypeOK
<1>4. call' = [call EXCEPT ![c] = k]
  BY <1>3 DEF ConnectInsert
<1>5. k \in Call /\ k.op = "inserted" /\ k.exchange = e /\ k.todo = call[c].todo
  BY <1>2, <1>3 DEF Call
<1> HIDE DEF k
<1>6. /\ call' \in [Callers -> Call] /\ call'[c] = k
      /\ \A d \in Callers \ {c} : call'[d] = call[d]
  BY <1>3, <1>4, <1>5
<1>7. PICK id \in DOMAIN conns : id = call[c].id /\ conns[id].exchange = e /\ id \in Nat
  BY <1>1, <1>2, <1>3 DEF ConnInv, CallKnown
<1>8. /\ handle' \in [Exchanges -> Nat] /\ handle'[e] = id
      /\ \A f \in Exchanges \ {e} : handle'[f] = handle[f]
  BY <1>1, <1>2, <1>3, <1>7
<1>9. conns' = [i \in DOMAIN conns |->
                  IF i = handle[e] THEN [conns[i] EXCEPT !.shutdown = TRUE] ELSE conns[i]]
  BY <1>2 DEF ConnectInsert
<1>10. \A i \in DOMAIN conns :
         /\ conns'[i] \in Task /\ conns'[i].exchange = conns[i].exchange
         /\ conns'[i].phase = conns[i].phase
         /\ conns'[i].shutdown = (conns[i].shutdown \/ i = handle[e])
  <2> SUFFICES ASSUME NEW i \in DOMAIN conns
               PROVE  /\ conns'[i] \in Task /\ conns'[i].exchange = conns[i].exchange
                      /\ conns'[i].phase = conns[i].phase
                      /\ conns'[i].shutdown = (conns[i].shutdown \/ i = handle[e])
    OBVIOUS
  <2>1. conns[i] \in Task
    BY <1>3
  <2>2. CASE i = handle[e]
    <3>1. conns'[i] = [conns[i] EXCEPT !.shutdown = TRUE]
      BY <1>9, <2>2
    <3>2. QED
      BY <2>1, <2>2, <3>1 DEF Task
  <2>3. CASE i # handle[e]
    <3>1. conns'[i] = conns[i]
      BY <1>9, <2>3
    <3>2. conns[i].shutdown \in BOOLEAN
      BY <2>1 DEF Task
    <3>3. conns'[i].shutdown = (conns[i].shutdown \/ i = handle[e])
      BY <2>3, <3>1, <3>2, Zenon
    <3>4. QED
      BY <2>1, <3>1, <3>3
  <2>4. QED
    BY <2>2, <2>3
<1>11. Onward
  <2>1. DOMAIN conns' = DOMAIN conns
    BY <1>9
  <2>2. conns' \in [1 .. Len(conns) -> Task]
    BY <1>3, <1>9, <1>10
  <2>3. conns' \in Seq(Task)
    <3>1. Len(conns) \in Nat
      BY <1>3
    <3>2. \A n \in Nat : [1 .. n -> Task] \subseteq Seq(Task)
      BY SeqDef, Zenon
    <3>3. QED
      BY <2>2, <3>1, <3>2, Zenon
  <2>4. QED
    BY <1>10, <2>1, <2>3 DEF Onward
<1>12. \A f \in Exchanges : LiveFor(f)' \subseteq LiveFor(f)
  BY <1>11, LiveShrinks
<1>13. ConnTypeOK'
  BY <1>1, <1>6, <1>8, <1>11 DEF ConnInv, ConnTypeOK, Onward
<1>14. Owned'
  BY <1>7, <1>8, <1>11 DEF ConnInv, Owned, Onward
<1>15. CallKnown'
  <2>1. e # "none" /\ call[c].todo = {}
    BY <1>1, ConnectorAssumption DEF ConnInv, CallKnown
  <2>2. QED
    BY <1>5, <1>6, <1>11, <2>1 DEF ConnInv, CallKnown, Onward
<1>16. NoOrphan'
  <2> SUFFICES ASSUME NEW i \in DOMAIN conns, Running(i)'
               PROVE  \/ handle'[conns'[i].exchange] = i
                      \/ conns'[i].shutdown
                      \/ \E d \in Callers : call'[d].op = "spawned" /\ call'[d].id = i
    BY <1>11 DEF NoOrphan, Onward
  <2>1. Running(i) /\ conns'[i].exchange = conns[i].exchange /\ conns[i].exchange \in Exchanges
    BY <1>3, <1>10 DEF Running, Task
  <2>2. CASE handle[conns[i].exchange] = i
    <3>1. CASE conns[i].exchange = e
      <4>1. i = handle[e]
        BY <2>2, <3>1
      <4>2. QED
        BY <1>10, <4>1, Zenon
    <3>2. CASE conns[i].exchange # e
      BY <1>8, <2>1, <2>2, <3>2
    <3>3. QED
      BY <3>1, <3>2
  <2>3. CASE conns[i].shutdown
    BY <1>10, <2>3, Zenon
  <2>4. ASSUME NEW d \in Callers, call[d].op = "spawned", call[d].id = i
        PROVE  \/ handle'[conns'[i].exchange] = i
               \/ \E x \in Callers : call'[x].op = "spawned" /\ call'[x].id = i
    <3>1. CASE d = c
      BY <1>7, <1>8, <2>1, <2>4, <3>1
    <3>2. CASE d # c
      BY <1>6, <2>4, <3>2
    <3>3. QED
      BY <3>1, <3>2
  <2>5. QED
    BY <2>1, <2>2, <2>3, <2>4 DEF ConnInv, NoOrphan
<1>17. \A f \in Exchanges : \A d \in Callers : CallsFor(d, f)' => CallsFor(d, f)
  BY <1>1, <1>2, <1>5, <1>6 DEF CallsFor, Claims
<1>18. OneCall'
  BY <1>1, <1>17 DEF ConnInv, OneCall
<1>19. OneLive'
  BY <1>1, <1>5, <1>6, <1>12 DEF ConnInv, OneLive
<1>20. Gone'
  <2> SUFFICES ASSUME NEW f \in Exchanges, ~clash[f], NEW d \in Callers,
                      call'[d].op = "joining", call'[d].exchange = f
               PROVE  handle'[f] = 0
    BY <1>1 DEF Gone
  <2>1. d # c /\ call[d].op = "joining" /\ call[d].exchange = f
    BY <1>5, <1>6
  <2>2. CASE f = e
    <3>1. CallsFor(c, e) /\ CallsFor(d, e)
      BY <1>1, <1>2, <2>1, <2>2 DEF CallsFor, Claims
    <3>2. QED
      BY <2>1, <2>2, <3>1 DEF ConnInv, OneCall
  <2>3. CASE f # e
    BY <1>8, <2>1, <2>3 DEF ConnInv, Gone
  <2>4. QED
    BY <2>2, <2>3
<1>21. Shown'
  <2> SUFFICES ASSUME NEW f \in Exchanges, ~clash[f], handle'[f] # 0, handle'[f] \in LiveFor(f)',
                      \A d \in Callers : ~(call'[d].op = "inserted" /\ call'[d].exchange = f)
               PROVE  gauge[f]
    BY <1>1 DEF Shown
  <2>1. f # e
    BY <1>5, <1>6
  <2>2. handle[f] # 0 /\ handle[f] \in LiveFor(f)
    BY <1>8, <1>12, <2>1
  <2>3. \A d \in Callers : ~(call[d].op = "inserted" /\ call[d].exchange = f)
    BY <1>1, <1>6
  <2>4. QED
    BY <2>2, <2>3 DEF ConnInv, Shown
<1>22. QED
  BY <1>13, <1>14, <1>15, <1>16, <1>18, <1>19, <1>20, <1>21 DEF ConnInv

\* disconnect takes the handle out of the map.
LEMMA DisconnectRemoveKeeps ==
  ASSUME ConnInv, NEW c \in Callers, NEW e \in Exchanges, DisconnectRemove(c, e)
  PROVE  ConnInv'
<1> DEFINE rest == call[c].todo \ {e}
<1>1. /\ call[c].op = "removing" /\ e \in call[c].todo /\ UNCHANGED <<gauge, clash>>
      /\ e # "none"
  BY ConnectorAssumption DEF DisconnectRemove
<1>2. call \in [Callers -> Call] /\ call[c] \in Call /\ call[c].exchange = "none"
  BY <1>1 DEF ConnInv, ConnTypeOK, CallKnown
<1>3. CASE handle[e] = 0
  <2> DEFINE k == IF rest = {} THEN Idle ELSE [call[c] EXCEPT !.todo = rest]
  <2>1. call' = [call EXCEPT ![c] = k] /\ UNCHANGED <<conns, handle>>
    BY <1>2, <1>3 DEF DisconnectRemove
  <2>2. /\ k \in Call /\ k.op \in {"idle", "removing"} /\ k.exchange = "none"
        /\ k.op = "idle" => k.todo = {}
        /\ k.todo \subseteq call[c].todo
    BY <1>1, <1>2 DEF Call, Idle
  <2> HIDE DEF k
  <2>3. QED
    BY <1>1, <2>1, <2>2, TasksRest, QuietEnd
<1>4. CASE handle[e] # 0
  <2>1. PICK id \in DOMAIN conns : id = handle[e] /\ id \in Nat /\ conns[id].exchange = e
    BY <1>4 DEF ConnInv, ConnTypeOK, Owned
  <2> DEFINE t == [conns[id] EXCEPT !.shutdown = TRUE]
             k == [op |-> "joining", exchange |-> e, id |-> id, todo |-> rest]
  <2>2. /\ conns' = [conns EXCEPT ![id] = t] /\ handle' = [handle EXCEPT ![e] = 0]
        /\ call' = [call EXCEPT ![c] = k]
    BY <1>4, <2>1 DEF DisconnectRemove
  <2>3. /\ conns \in Seq(Task) /\ conns[id] \in Task /\ handle \in [Exchanges -> Nat]
    BY ConnParts DEF ConnTypeOK
  <2>4. /\ t \in Task /\ t.exchange = e /\ t.shutdown = TRUE /\ t.phase = conns[id].phase
    BY <2>1, <2>3 DEF Task
  <2>5. k \in Call /\ k.op = "joining" /\ k.exchange = e /\ k.todo = rest
    BY <1>2, <2>1 DEF Call
  <2> HIDE DEF t, k
  <2>6. /\ conns' \in Seq(Task) /\ DOMAIN conns' = DOMAIN conns
        /\ conns'[id] = t /\ \A i \in DOMAIN conns \ {id} : conns'[i] = conns[i]
    BY <2>2, <2>3, <2>4, TaskReplaced
  <2>7. Onward
    BY <2>1, <2>4, <2>6 DEF Onward
  <2>8. /\ call' \in [Callers -> Call] /\ call'[c] = k
        /\ \A d \in Callers \ {c} : call'[d] = call[d]
    BY <1>2, <2>2, <2>5
  <2>9. /\ handle' \in [Exchanges -> Nat] /\ handle'[e] = 0
        /\ \A f \in Exchanges \ {e} : handle'[f] = handle[f]
    BY <2>2, <2>3
  <2>10. \A f \in Exchanges : LiveFor(f)' \subseteq LiveFor(f)
    BY <2>7, LiveShrinks
  <2>11. ConnTypeOK'
    BY <1>1, <2>6, <2>8, <2>9 DEF ConnInv, ConnTypeOK
  <2>12. Owned'
    BY <2>7, <2>9 DEF ConnInv, Owned, Onward
  <2>13. CallKnown'
    BY <1>1, <2>5, <2>7, <2>8 DEF ConnInv, CallKnown, Onward
  <2>14. NoOrphan'
    <3> SUFFICES ASSUME NEW i \in DOMAIN conns, Running(i)', i # id
                 PROVE  \/ handle'[conns'[i].exchange] = i
                        \/ conns'[i].shutdown
                        \/ \E d \in Callers : call'[d].op = "spawned" /\ call'[d].id = i
      BY <2>4, <2>6 DEF NoOrphan
    <3>1. Running(i) /\ conns'[i] = conns[i] /\ conns[i].exchange \in Exchanges
      BY <2>6, ConnParts DEF Running, Task
    <3>2. handle[conns[i].exchange] = i => conns[i].exchange # e
      BY <2>1
    <3>3. \A d \in Callers : call[d].op = "spawned" => call'[d] = call[d]
      BY <1>1, <2>8
    <3>4. QED
      BY <2>9, <3>1, <3>2, <3>3 DEF ConnInv, NoOrphan
  <2>15. \A f \in Exchanges : \A d \in Callers : CallsFor(d, f)' => CallsFor(d, f)
    BY <1>1, <2>5, <2>8 DEF CallsFor, Claims
  <2>16. OneCall'
    BY <1>1, <2>15 DEF ConnInv, OneCall
  <2>17. OneLive'
    BY <1>1, <2>5, <2>8, <2>10 DEF ConnInv, OneLive
  <2>18. Gone'
    BY <1>1, <2>5, <2>8, <2>9 DEF ConnInv, Gone
  <2>19. Shown'
    <3> SUFFICES ASSUME NEW f \in Exchanges, ~clash[f], handle'[f] # 0, handle'[f] \in LiveFor(f)',
                        \A d \in Callers : ~(call'[d].op = "inserted" /\ call'[d].exchange = f)
                 PROVE  gauge[f]
      BY <1>1 DEF Shown
    <3>1. f # e
      BY <2>9
    <3>2. handle[f] # 0 /\ handle[f] \in LiveFor(f)
      BY <2>9, <2>10, <3>1
    <3>3. \A d \in Callers : ~(call[d].op = "inserted" /\ call[d].exchange = f)
      BY <1>1, <2>8
    <3>4. QED
      BY <3>2, <3>3 DEF ConnInv, Shown
  <2>20. QED
    BY <2>11, <2>12, <2>13, <2>14, <2>16, <2>17, <2>18, <2>19 DEF ConnInv
<1>5. QED
  BY <1>3, <1>4

\* Nobody is connected.
LEMMA ConnInvInit == ConnectorInit => ConnInv
<1> SUFFICES ASSUME ConnectorInit PROVE ConnInv
  OBVIOUS
<1>1. /\ conns = <<>> /\ DOMAIN conns = {} /\ conns \in Seq(Task)
      /\ \A e \in Exchanges : handle[e] = 0 /\ LiveFor(e) = {} /\ e # "none"
      /\ \A c \in Callers : call[c] = Idle
  BY EmptySeq, ConnectorAssumption DEF ConnectorInit, LiveFor
<1>2. ConnTypeOK
  BY <1>1, IdleIsCall DEF ConnectorInit, ConnTypeOK
<1>3. Owned /\ CallKnown /\ NoOrphan
  BY <1>1, IdleIsCall DEF Owned, CallKnown, NoOrphan
<1>4. OneCall /\ OneLive /\ Gone /\ Shown
  BY <1>1, IdleIsCall DEF OneCall, OneLive, Gone, Shown, CallsFor, Claims
<1>5. QED
  BY <1>2, <1>3, <1>4 DEF ConnInv

\* Every step of the connector keeps the invariant.
LEMMA ConnInvStep == ConnInv /\ [ConnectorNext]_connVars => ConnInv'
<1> SUFFICES ASSUME ConnInv, [ConnectorNext]_connVars PROVE ConnInv'
  OBVIOUS
<1>1. CASE UNCHANGED connVars \/ TakeEvent \/ TakeMessage \/ DropReceiver
  <2>1. UNCHANGED <<conns, handle, call, gauge, clash>>
    BY <1>1 DEF connVars, TakeEvent, TakeMessage, DropReceiver
  <2>2. QED
    BY <2>1, TasksRest, TasksGoOn
<1>2. ASSUME NEW c \in Callers, NEW e \in Exchanges,
             ConnectBegin(c, e) \/ DisconnectRemove(c, e) \/ SendBegin(c, e)
      PROVE  ConnInv'
  BY <1>2, ConnectBeginKeeps, DisconnectRemoveKeeps, SendBeginKeeps
<1>3. ASSUME NEW c \in Callers,
             \/ ConnectFail(c) \/ ConnectSpawn(c) \/ ConnectInsert(c) \/ ConnectDone(c)
             \/ DisconnectDone(c) \/ SendQueued(c) \/ SendClosed(c)
      PROVE  ConnInv'
  BY <1>3, CallGivesUp, ConnectSpawnKeeps, ConnectInsertKeeps, ConnectDoneKeeps,
     DisconnectDoneKeeps, SendQueuedKeeps
<1>4. ASSUME NEW c \in Callers, NEW todo \in {{e} : e \in Exchanges} \cup {connected_exchanges},
             DisconnectBegin(c, todo)
      PROVE  ConnInv'
  <2>1. todo \in SUBSET Exchanges
    BY DEF connected_exchanges
  <2>2. QED
    BY <1>4, <2>1, DisconnectBeginKeeps
<1>5. ASSUME NEW id \in DOMAIN conns, TaskStep(id) PROVE ConnInv'
  BY <1>5, TaskStepKeeps
<1>6. QED
  BY <1>1, <1>2, <1>3, <1>4, <1>5 DEF ConnectorNext

\* Whatever the callers of connect, disconnect, disconnect_all and send do
\* at the same time, no task runs on that nobody can end, and the gauge
\* shows every live connection whose calls did not overlap another call or
\* an older task, for any number of exchanges, callers and connections and
\* any size of the channels (connector.rs).
THEOREM ConnectorAlwaysSound == ConnectorSafety => []ConnectorSound
<1>1. ConnInv => ConnectorSound
  <2> SUFFICES ASSUME ConnInv, NEW e \in Exchanges, ~clash[e], handle[e] # 0, Running(handle[e]),
                      \A c \in Callers : call[c].exchange # e
               PROVE  gauge[e]
    BY DEF ConnInv, ConnectorSound, GaugeShowsLive
  <2>1. handle[e] \in LiveFor(e)
    BY DEF ConnInv, Owned, LiveFor
  <2>2. QED
    BY <2>1 DEF ConnInv, Shown
<1>2. QED
  BY <1>1, ConnInvInit, ConnInvStep, PTL DEF ConnectorSafety

=============================================================================
