-------------------------- MODULE PublisherProofs --------------------------
(***************************************************************************)
(* The Redis pool and the publishers over it (flash/src/publisher: pool,   *)
(* stream, dual), for any clients, pool size and snapshots: the gauge of   *)
(* connections in use and the health tell the truth (PoolSound), and what  *)
(* was acknowledged is in Redis, counted, and no signal without its book   *)
(* (Published).                                                            *)
(*                                                                         *)
(* PublisherInv is the inductive invariant.  GaugeKnown counts only those  *)
(* clients whose connection the statistics know of; Doing ties what is in  *)
(* Redis to how far each publish has come; Numbered keeps the snapshots    *)
(* under way apart, so that counting them counts what Redis was given.     *)
(*                                                                         *)
(* Then the bounded channel, the serialization buffer and the batches with *)
(* their monitor (Buffers), which run beside them in MCPublisher           *)
(* (QueuesExact); QueuesInv is their inductive invariant.                  *)
(***************************************************************************)
EXTENDS MCPublisher, FiniteSetTheorems, SequenceTheorems, WellFoundedInduction, TLAPS

Ops == {"none", "dual", "stream", "get", "ping", "execute"}
Phases == {"idle", "begun", "checked", "settling"} \cup HasConnection
Todos == {<<>>, <<"command">>, <<"stream">>, <<"book">>, <<"signal">>, <<"book", "signal">>}
ClientState == [op : Ops, phase : Phases, todo : Todos, ok : BOOLEAN, snap : Nat]
Snapshots == SUBSET (1 .. begun.snap)

PublisherTypeOK ==
  /\ client \in [PoolClients -> ClientState]
  /\ pstats \in [in_use : Nat, idle : Nat, failures : Nat, timeouts : Nat, peak : Nat]
  /\ phealth \in [status : {"Unknown", "Healthy", "Degraded", "Unhealthy"},
                  successes : Nat, failures : Nat]
  /\ pings \in Seq(BOOLEAN)
  /\ begun \in [snap : Nat, check : Nat]
  /\ redis \in [book : Snapshots, signal : Snapshots, stream : Snapshots]
  /\ acked \in [dual : Snapshots, stream : Snapshots]
  /\ dual \in [orderbook_published : Nat, signals_published : Nat, publish_errors : Nat]
  /\ stream \in [messages_published : Nat, publish_errors : Nat]

\* The clients that in_use may count.
Known == {c \in PoolClients : client[c].phase \in {"holding", "counted"}}

\* No more connections are out than the pool has, and those in use according
\* to the statistics are some of the ones they know of.
GaugeKnown ==
  /\ Cardinality(Held) <= MaxSize
  /\ pstats.in_use <= Cardinality(Known)
  /\ pstats.peak <= MaxSize

\* The count of failed checks in a row is what the status follows.
HealthKnown ==
  /\ phealth.failures = Cardinality(Failing(pings))
  /\ HealthTruthful

Publishing(c) == client[c].op \in {"dual", "stream"}

\* The snapshots under way are new, and each is one client's.
Numbered ==
  /\ \A c \in PoolClients :
       Publishing(c) => client[c].snap \in 1 .. begun.snap
                        /\ client[c].snap \notin acked.dual \cup acked.stream
  /\ \A c, d \in PoolClients :
       Publishing(c) /\ Publishing(d) /\ c # d => client[c].snap # client[d].snap

\* How far an operation has come: what it has still to send, and whether it
\* has failed.
OnItsWay(me) ==
  /\ me.op = "none" => me = Resting
  /\ me.op = "dual" => me.todo \in {<<>>, <<"book">>, <<"signal">>, <<"book", "signal">>}
  /\ me.op = "stream" => me.todo \in {<<>>, <<"stream">>}
  /\ me.op \notin {"dual", "stream"} => me.todo \in {<<>>, <<"command">>}
  /\ me.op = "dual" /\ me.todo \in {<<"book">>, <<"book", "signal">>} => OrderbookEnabled
  /\ me.op = "dual" /\ me.todo = <<"book">> => ~SignalEnabled
  /\ me.phase \in {"counted", "dropping"} => me.todo = <<>>
  /\ me.phase = "settling" => ~me.ok \/ me.todo = <<>>
  /\ me.phase # "settling" => me.ok \/ me.todo = <<>>

\* What Redis has of it.
InRedis(me, book, signal, str) ==
  /\ me.op = "dual" /\ me.ok /\ OrderbookEnabled
       => me.todo \in {<<"book">>, <<"book", "signal">>} \/ me.snap \in book
  /\ me.op = "dual" /\ me.ok /\ SignalEnabled => me.todo # <<>> \/ me.snap \in signal
  /\ me.op = "stream" /\ me.ok => me.todo # <<>> \/ me.snap \in str

Doing ==
  \A c \in PoolClients :
    OnItsWay(client[c]) /\ InRedis(client[c], redis.book, redis.signal, redis.stream)

\* The snapshots that publish_dual has counted.
DualDone ==
  acked.dual \cup {client[c].snap : c \in {d \in PoolClients :
                     /\ client[d].op = "dual" /\ client[d].ok
                     /\ client[d].phase \in {"counted", "dropping", "settling"}}}

CountsKnown ==
  /\ dual.orderbook_published = IF OrderbookEnabled THEN Cardinality(DualDone) ELSE 0
  /\ dual.signals_published = IF SignalEnabled THEN Cardinality(DualDone) ELSE 0
  /\ stream.messages_published = Cardinality(acked.stream)
  /\ OrderbookEnabled => acked.dual \subseteq redis.book
  /\ SignalEnabled => acked.dual \subseteq redis.signal
  /\ acked.stream \subseteq redis.stream

PublisherInv ==
  /\ PublisherTypeOK /\ GaugeKnown /\ HealthKnown
  /\ Numbered /\ Doing /\ CountsKnown /\ SignalHasBook

-----------------------------------------------------------------------------
\* A step changes the record of one client.
LEMMA ClientMoves ==
  ASSUME PublisherTypeOK, NEW c \in PoolClients, NEW new \in ClientState,
         client' = [client EXCEPT ![c] = new]
  PROVE  /\ client' \in [PoolClients -> ClientState]
         /\ client'[c] = new /\ client[c] \in ClientState
         /\ \A d \in PoolClients \ {c} : client'[d] = client[d]
BY DEF PublisherTypeOK

\* A set of clients is finite, and counts one more with a new member.
LEMMA ClientsFinite ==
  ASSUME NEW S, S \subseteq PoolClients
  PROVE  IsFiniteSet(S) /\ Cardinality(S) \in Nat
BY FS_Subset, FS_CardinalityType, PoolAssumption

\* A set with one more element counts one more.
LEMMA OneMore ==
  ASSUME NEW S, NEW T, NEW x, IsFiniteSet(S), x \notin S,
         \A y : y \in T <=> y \in S \/ y = x
  PROVE  Cardinality(T) = Cardinality(S) + 1
<1>1. T = S \cup {x}
  OBVIOUS
<1>2. QED
  BY <1>1, FS_AddElement

\* The connections out, and those of them the gauge knows, can be counted.
LEMMA GaugeSets ==
  /\ IsFiniteSet(Held) /\ Cardinality(Held) \in Nat
  /\ IsFiniteSet(Known) /\ Cardinality(Known) \in Nat
  /\ Known \subseteq Held /\ Cardinality(Known) <= Cardinality(Held)
<1>1. Known \subseteq Held /\ Held \subseteq PoolClients
  BY DEF Known, Held, HasConnection
<1>2. QED
  BY <1>1, ClientsFinite, FS_Subset

\* What a step of one client does to the gauge, by the phase it goes to: a
\* move that neither takes nor gives back nor counts a connection; the pool
\* hands one out; the statistics learn of it; forget it; the pool has it back.
LEMMA GaugeStays ==
  ASSUME PublisherTypeOK, GaugeKnown, NEW c \in PoolClients, NEW new \in ClientState,
         client' = [client EXCEPT ![c] = new],
         client[c].phase \in HasConnection <=> new.phase \in HasConnection,
         client[c].phase \in {"holding", "counted"} <=> new.phase \in {"holding", "counted"},
         pstats'.in_use = pstats.in_use, pstats'.peak = pstats.peak
  PROVE  GaugeKnown'
<1>1. /\ client'[c] = new
      /\ \A d \in PoolClients \ {c} : client'[d] = client[d]
  BY ClientMoves
<1>2. Held' = Held
  BY <1>1 DEF Held
<1>3. Known' = Known
  BY <1>1 DEF Known
<1>4. QED
  BY <1>2, <1>3 DEF GaugeKnown

\* A connection is handed out: the gauge does not know it yet.
LEMMA GaugeGrants ==
  ASSUME PublisherTypeOK, GaugeKnown, NEW c \in PoolClients, NEW new \in ClientState,
         client' = [client EXCEPT ![c] = new],
         client[c].phase = "checked", new.phase = "granted",
         Cardinality(Held) < MaxSize, pstats' = pstats
  PROVE  GaugeKnown'
<1>1. /\ client'[c] = new
      /\ \A d \in PoolClients \ {c} : client'[d] = client[d]
  BY ClientMoves
<1>2. \A d : d \in Held' <=> d \in Held \/ d = c
  BY <1>1 DEF Held, HasConnection
<1>3. c \notin Held
  BY DEF Held, HasConnection
<1>4. Known' = Known
  BY <1>1 DEF Known
<1>5. Cardinality(Held') = Cardinality(Held) + 1
  BY <1>2, <1>3, GaugeSets, OneMore
<1>6. QED
  BY <1>4, <1>5, GaugeSets, PoolAssumption DEF GaugeKnown, ValidPoolConfig

\* The gauge counts it.
LEMMA GaugeCounts ==
  ASSUME PublisherTypeOK, GaugeKnown, NEW c \in PoolClients, NEW new \in ClientState,
         client' = [client EXCEPT ![c] = new],
         client[c].phase = "granted", new.phase = "holding",
         pstats'.in_use = pstats.in_use + 1,
         pstats'.peak \in {pstats.peak, pstats.in_use + 1}
  PROVE  GaugeKnown'
<1>1. /\ client'[c] = new
      /\ \A d \in PoolClients \ {c} : client'[d] = client[d]
  BY ClientMoves
<1>2. Held' = Held
  BY <1>1 DEF Held, HasConnection
<1>3. \A d : d \in Known' <=> d \in Known \/ d = c
  BY <1>1 DEF Known
<1>4. c \notin Known
  BY DEF Known
<1>5. Cardinality(Known') = Cardinality(Known) + 1
  BY <1>3, <1>4, GaugeSets, OneMore
<1>6. Known' \subseteq Held
  BY <1>2, <1>1 DEF Known, Held, HasConnection
<1>7. Cardinality(Known') <= Cardinality(Held)
  BY <1>6, GaugeSets, FS_Subset
<1>8. pstats.in_use \in Nat /\ pstats.peak \in Nat
  BY DEF PublisherTypeOK
<1>9. QED
  BY <1>2, <1>5, <1>7, <1>8, GaugeSets, PoolAssumption DEF GaugeKnown, ValidPoolConfig

\* The gauge forgets it before it is back.
LEMMA GaugeForgets ==
  ASSUME PublisherTypeOK, GaugeKnown, NEW c \in PoolClients, NEW new \in ClientState,
         client' = [client EXCEPT ![c] = new],
         client[c].phase = "counted", new.phase = "dropping",
         pstats'.in_use = MinusOne(pstats.in_use), pstats'.peak = pstats.peak
  PROVE  GaugeKnown'
<1>1. /\ client'[c] = new
      /\ \A d \in PoolClients \ {c} : client'[d] = client[d]
  BY ClientMoves
<1>2. Held' = Held
  BY <1>1 DEF Held, HasConnection
<1>3. \A d : d \in Known <=> d \in Known' \/ d = c
  BY <1>1 DEF Known
<1>4. c \notin Known' /\ Known' \subseteq PoolClients
  BY <1>1 DEF Known
<1>5. Cardinality(Known) = Cardinality(Known') + 1 /\ Cardinality(Known') \in Nat
  BY <1>3, <1>4, ClientsFinite, OneMore
<1>6. pstats.in_use \in Nat
  BY DEF PublisherTypeOK
<1>7. QED
  BY <1>2, <1>5, <1>6 DEF GaugeKnown, MinusOne

\* The connection is back.
LEMMA GaugeReturns ==
  ASSUME PublisherTypeOK, GaugeKnown, NEW c \in PoolClients, NEW new \in ClientState,
         client' = [client EXCEPT ![c] = new],
         client[c].phase = "dropping", new.phase = "settling", pstats' = pstats
  PROVE  GaugeKnown'
<1>1. /\ client'[c] = new
      /\ \A d \in PoolClients \ {c} : client'[d] = client[d]
  BY ClientMoves
<1>2. Known' = Known
  BY <1>1 DEF Known
<1>3. Held' \subseteq Held
  BY <1>1 DEF Held, HasConnection
<1>4. Cardinality(Held') <= Cardinality(Held) /\ Cardinality(Held') \in Nat
  BY <1>3, GaugeSets, FS_Subset, FS_CardinalityType
<1>5. QED
  BY <1>2, <1>4, GaugeSets, PoolAssumption DEF GaugeKnown, ValidPoolConfig

-----------------------------------------------------------------------------
\* The health check: one more failure lengthens the row by one, a success
\* ends it.
LEMMA FailingFinite ==
  ASSUME NEW s \in Seq(BOOLEAN)
  PROVE  IsFiniteSet(Failing(s)) /\ Cardinality(Failing(s)) \in Nat
<1>1. IsFiniteSet(1 .. Len(s)) /\ Failing(s) \subseteq 1 .. Len(s)
  BY FS_Interval DEF Failing
<1>2. QED
  BY <1>1, FS_Subset, FS_CardinalityType

\* A check that succeeds ends the run of failures, one that fails lengthens it.
LEMMA FailingAppend ==
  ASSUME NEW s \in Seq(BOOLEAN)
  PROVE  /\ Failing(Append(s, TRUE)) = {}
         /\ Cardinality(Failing(Append(s, FALSE))) = Cardinality(Failing(s)) + 1
<1>1. /\ Len(Append(s, TRUE)) = Len(s) + 1 /\ Len(Append(s, FALSE)) = Len(s) + 1
      /\ Append(s, TRUE)[Len(s) + 1] = TRUE /\ Append(s, FALSE)[Len(s) + 1] = FALSE
      /\ \A i \in 1 .. Len(s) : Append(s, FALSE)[i] = s[i]
      /\ Len(s) \in Nat
  OBVIOUS
<1>2. Failing(Append(s, TRUE)) = {}
  <2> SUFFICES ASSUME NEW n \in Failing(Append(s, TRUE)) PROVE FALSE
    OBVIOUS
  <2>1. n \in 1 .. Len(s) + 1 /\ \A i \in n .. Len(s) + 1 : ~Append(s, TRUE)[i]
    BY <1>1 DEF Failing
  <2>2. Len(s) + 1 \in n .. Len(s) + 1
    BY <1>1, <2>1
  <2>3. ~Append(s, TRUE)[Len(s) + 1]
    BY <2>1, <2>2
  <2>4. QED
    BY <1>1, <2>3
<1>3. Len(s) + 1 \notin Failing(s)
  BY <1>1 DEF Failing
<1>4. ASSUME NEW n \in 1 .. Len(s)
      PROVE  n \in Failing(Append(s, FALSE)) <=> n \in Failing(s)
  <2>1. /\ n \in 1 .. Len(s) + 1 /\ n .. Len(s) \subseteq 1 .. Len(s)
        /\ n .. Len(s) + 1 = (n .. Len(s)) \cup {Len(s) + 1}
    BY <1>1
  <2>2. n \in Failing(s) <=> \A i \in n .. Len(s) : ~s[i]
    BY DEF Failing
  <2>3. n \in Failing(Append(s, FALSE)) <=> \A i \in n .. Len(s) + 1 : ~Append(s, FALSE)[i]
    BY <1>1, <2>1 DEF Failing
  <2>4. \A i \in n .. Len(s) : Append(s, FALSE)[i] = s[i]
    BY <1>1, <2>1
  <2>5. QED
    BY <1>1, <2>1, <2>2, <2>3, <2>4, Zenon
<1>5. Len(s) + 1 \in Failing(Append(s, FALSE))
  <2>1. \A i \in Len(s) + 1 .. Len(s) + 1 : i = Len(s) + 1
    BY <1>1
  <2>2. \A i \in Len(s) + 1 .. Len(s) + 1 : ~Append(s, FALSE)[i]
    BY <1>1, <2>1, Zenon
  <2>3. QED
    BY <1>1, <2>2 DEF Failing
<1>6. \A n : n \in Failing(Append(s, FALSE)) => n \in 1 .. Len(s) \/ n = Len(s) + 1
  BY <1>1 DEF Failing
<1>7. \A n : n \in Failing(s) => n \in 1 .. Len(s)
  BY DEF Failing
<1>8. \A n : n \in Failing(Append(s, FALSE)) <=> n \in Failing(s) \/ n = Len(s) + 1
  BY <1>4, <1>5, <1>6, <1>7
<1>9. QED
  BY <1>2, <1>3, <1>8, FailingFinite, OneMore

\* A health check ends: the status is that of the run of failures.
LEMMA CheckSettles ==
  ASSUME PublisherTypeOK, HealthKnown, NEW ok \in BOOLEAN,
         phealth' = HealthAfter(ok), pings' = Append(pings, ok)
  PROVE  /\ HealthKnown' /\ pings' \in Seq(BOOLEAN)
         /\ phealth' \in [status : {"Unknown", "Healthy", "Degraded", "Unhealthy"},
                          successes : Nat, failures : Nat]
<1>1. pings' \in Seq(BOOLEAN) /\ pings' # <<>> /\ pings \in Seq(BOOLEAN)
  <2>1. pings \in Seq(BOOLEAN)
    BY DEF PublisherTypeOK
  <2>2. QED
    BY <2>1, AppendProperties
<1>2. /\ phealth.failures \in Nat /\ phealth.successes \in Nat
      /\ phealth.failures = Cardinality(Failing(pings))
  BY DEF PublisherTypeOK, HealthKnown
<1>3. CASE ok = TRUE
  <2>1. phealth' = [status |-> "Healthy", successes |-> phealth.successes + 1, failures |-> 0]
    BY <1>3 DEF HealthAfter
  <2>2. Failing(pings') = {}
    BY <1>1, <1>3, FailingAppend
  <2>3. HealthKnown'
    BY <1>1, <2>1, <2>2, FS_EmptySet DEF HealthKnown, HealthTruthful
  <2>4. QED
    BY <1>1, <1>2, <2>1, <2>3
<1>4. CASE ok = FALSE
  <2>1. phealth' = [status |-> IF phealth.failures + 1 >= UnhealthyAfter THEN "Unhealthy"
                               ELSE "Degraded",
                    successes |-> 0, failures |-> phealth.failures + 1]
    BY <1>4 DEF HealthAfter
  <2>2. Cardinality(Failing(pings')) = phealth.failures + 1
    BY <1>1, <1>2, <1>4, FailingAppend
  <2>3. Failing(pings') # {}
    <3>1. Failing(pings') = {} => Cardinality(Failing(pings')) = 0
      BY FS_EmptySet
    <3>2. QED
      BY <1>2, <2>2, <3>1
  <2>4. HealthKnown'
    BY <1>1, <1>2, <2>1, <2>2, <2>3, PoolAssumption DEF HealthKnown, HealthTruthful
  <2>5. QED
    BY <1>1, <1>2, <2>1, <2>4
<1>5. QED
  BY <1>3, <1>4

-----------------------------------------------------------------------------
\* A publish is done with its connection, as far as its counters know.
Done(me) == me.op = "dual" /\ me.ok /\ me.phase \in {"counted", "dropping", "settling"}

\* The snapshots whose publish is done, returned or about to.
LEMMA DualDoneIs ==
  \A n : n \in DualDone <=> n \in acked.dual
                            \/ \E c \in PoolClients : Done(client[c]) /\ n = client[c].snap
BY DEF DualDone, Done

\* The parts of the invariant that are about what is published.
PublishInv == Numbered /\ Doing /\ CountsKnown /\ SignalHasBook

\* Snapshots can be counted.
LEMMA SnapshotsFinite ==
  ASSUME PublisherTypeOK, Numbered
  PROVE  /\ DualDone \subseteq 1 .. begun.snap
         /\ \A S : S \subseteq 1 .. begun.snap => IsFiniteSet(S) /\ Cardinality(S) \in Nat
<1>1. begun.snap \in Nat /\ acked.dual \subseteq 1 .. begun.snap
  BY DEF PublisherTypeOK, Snapshots
<1>2. \A c \in PoolClients : Done(client[c]) => client[c].snap \in 1 .. begun.snap
  BY DEF Numbered, Publishing, Done
<1>3. DualDone \subseteq 1 .. begun.snap
  BY <1>1, <1>2, DualDoneIs
<1>4. IsFiniteSet(1 .. begun.snap)
  BY <1>1, FS_Interval
<1>5. QED
  BY <1>3, <1>4, FS_Subset, FS_CardinalityType

\* A step that moves a client to another phase without changing what it is
\* about, and counts nothing.
LEMMA PhaseMoves ==
  ASSUME PublisherTypeOK, PublishInv, NEW c \in PoolClients, NEW new \in ClientState,
         client' = [client EXCEPT ![c] = new],
         UNCHANGED <<redis, dual, stream, acked, begun>>,
         new.op = client[c].op, new.snap = client[c].snap,
         OnItsWay(new), InRedis(new, redis.book, redis.signal, redis.stream),
         Done(new) <=> Done(client[c])
  PROVE  PublishInv'
<1>1. /\ client'[c] = new
      /\ \A d \in PoolClients \ {c} : client'[d] = client[d]
  BY ClientMoves
<1>2. Numbered'
  BY <1>1 DEF PublishInv, Numbered, Publishing
<1>3. Doing'
  BY <1>1 DEF PublishInv, Doing
<1>4. \A d \in PoolClients :
        (Done(client'[d]) <=> Done(client[d])) /\ client'[d].snap = client[d].snap
  BY <1>1
<1>5. DualDone' = DualDone
  BY <1>4 DEF DualDone, Done
<1>6. CountsKnown' /\ SignalHasBook'
  BY <1>5 DEF PublishInv, CountsKnown, SignalHasBook
<1>7. QED
  BY <1>2, <1>3, <1>6 DEF PublishInv

\* A client begins an operation; a publish has a snapshot number of its own.
LEMMA BeginMoves ==
  ASSUME PublisherTypeOK, PublishInv, NEW c \in PoolClients, NEW new \in ClientState,
         client' = [client EXCEPT ![c] = new], client[c] = Resting,
         UNCHANGED <<redis, dual, stream, acked>>,
         begun'.snap \in {begun.snap, begun.snap + 1},
         new.phase = "begun", new.op \in {"dual", "stream"} =>
           new.snap = begun.snap + 1 /\ begun'.snap = begun.snap + 1,
         OnItsWay(new), InRedis(new, redis.book, redis.signal, redis.stream)
  PROVE  PublishInv'
<1>1. /\ client'[c] = new
      /\ \A d \in PoolClients \ {c} : client'[d] = client[d]
  BY ClientMoves
<1>2. /\ begun.snap \in Nat
      /\ acked.dual \subseteq 1 .. begun.snap /\ acked.stream \subseteq 1 .. begun.snap
  BY DEF PublisherTypeOK, Snapshots
<1>3. \A d \in PoolClients : Publishing(d) =>
        client[d].snap \in 1 .. begun.snap /\ client[d].snap \notin acked.dual \cup acked.stream
  BY DEF PublishInv, Numbered
<1>4. \A d \in PoolClients \ {c} : Publishing(d)' <=> Publishing(d)
  BY <1>1 DEF Publishing
<1>5. Publishing(c)' => new.snap = begun.snap + 1 /\ begun'.snap = begun.snap + 1
  BY <1>1 DEF Publishing
<1>6. ASSUME NEW d \in PoolClients, Publishing(d)'
      PROVE  /\ client'[d].snap \in 1 .. begun'.snap
             /\ client'[d].snap \notin acked.dual \cup acked.stream
  <2>1. CASE d = c
    BY <1>1, <1>2, <1>5, <1>6, <2>1
  <2>2. CASE d # c
    BY <1>1, <1>2, <1>3, <1>4, <1>6, <2>2
  <2>3. QED
    BY <2>1, <2>2
<1>7. ASSUME NEW d \in PoolClients, NEW e \in PoolClients, Publishing(d)', Publishing(e)', d # e
      PROVE  client'[d].snap # client'[e].snap
  <2>1. CASE d = c
    <3>1. client'[e].snap \in 1 .. begun.snap /\ client'[d].snap = begun.snap + 1
      BY <1>1, <1>3, <1>4, <1>5, <1>7, <2>1
    <3>2. QED
      BY <1>2, <3>1
  <2>2. CASE e = c
    <3>1. client'[d].snap \in 1 .. begun.snap /\ client'[e].snap = begun.snap + 1
      BY <1>1, <1>3, <1>4, <1>5, <1>7, <2>2
    <3>2. QED
      BY <1>2, <3>1
  <2>3. CASE d # c /\ e # c
    BY <1>1, <1>4, <1>7, <2>3 DEF PublishInv, Numbered
  <2>4. QED
    BY <2>1, <2>2, <2>3
<1>8. Numbered'
  BY <1>6, <1>7 DEF Numbered
<1>9. Doing'
  BY <1>1 DEF PublishInv, Doing
<1>10. ~Done(new) /\ ~Done(client[c])
  BY DEF Done, Resting
<1>11. DualDone' = DualDone
  <2>1. {d \in PoolClients : Done(client'[d])} = {d \in PoolClients : Done(client[d])}
    BY <1>1, <1>10
  <2>2. \A d \in {e \in PoolClients : Done(client[e])} : client'[d].snap = client[d].snap
    BY <1>1, <1>10
  <2>3. QED
    BY <2>1, <2>2 DEF DualDone, Done
<1>12. CountsKnown' /\ SignalHasBook'
  BY <1>11 DEF PublishInv, CountsKnown, SignalHasBook
<1>13. QED
  BY <1>8, <1>9, <1>12 DEF PublishInv

\* Two commands in a row.
LEMMA PairOf ==
  ASSUME NEW S, NEW a \in S, NEW b \in S
  PROVE  <<a>> \o <<b>> = <<a, b>>
<1> DEFINE s == <<a>>
           t == <<b>>
           u == <<a, b>>
<1>1. s \in Seq(S) /\ t \in Seq(S) /\ u \in Seq(S)
  OBVIOUS
<1>2. Len(s) = 1 /\ Len(t) = 1 /\ Len(u) = 2 /\ s[1] = a /\ t[1] = b /\ u[1] = a /\ u[2] = b
  OBVIOUS
<1> HIDE DEF s, t, u
<1>3. /\ s \o t \in Seq(S) /\ Len(s \o t) = 2
      /\ (s \o t)[1] = a /\ (s \o t)[2] = b
  BY <1>1, <1>2, ConcatProperties
<1>4. \A i \in 1 .. 2 : (s \o t)[i] = u[i]
  BY <1>2, <1>3
<1>5. s \o t = u
  BY <1>1, <1>2, <1>3, <1>4, SeqEqual
<1>6. QED
  BY <1>5 DEF s, t, u

\* The commands of each operation.
LEMMA CommandsAre ==
  /\ Commands("dual") = IF OrderbookEnabled
                        THEN (IF SignalEnabled THEN <<"book", "signal">> ELSE <<"book">>)
                        ELSE (IF SignalEnabled THEN <<"signal">> ELSE <<>>)
  /\ Commands("stream") = <<"stream">>
  /\ Commands("ping") = <<"command">> /\ Commands("execute") = <<"command">>
  /\ Commands("get") = <<>>
<1>1. /\ <<"book">> \o <<"signal">> = <<"book", "signal">>
      /\ <<"book">> \o <<>> = <<"book">> /\ <<>> \o <<"signal">> = <<"signal">>
      /\ <<>> \o <<>> = <<>>
  <2> DEFINE Outputs == {"book", "signal"}
  <2>1. <<"book">> \in Seq(Outputs) /\ <<"signal">> \in Seq(Outputs) /\ <<>> \in Seq(Outputs)
    OBVIOUS
  <2>2. <<"book">> \o <<"signal">> = <<"book", "signal">>
    <3>1. "book" \in Outputs /\ "signal" \in Outputs
      OBVIOUS
    <3> HIDE DEF Outputs
    <3>2. QED
      BY <3>1, PairOf
  <2>3. QED
    BY <2>1, <2>2, ConcatEmptySeq
<1>2. Commands("dual") = (IF OrderbookEnabled THEN <<"book">> ELSE <<>>)
                         \o (IF SignalEnabled THEN <<"signal">> ELSE <<>>)
  BY DEF Commands
<1>3. QED
  BY <1>1, <1>2 DEF Commands

\* The lists of commands, as SMT cannot tell them apart by itself.
LEMMA TodosDiffer ==
  /\ <<>> # <<"book">> /\ <<>> # <<"signal">> /\ <<>> # <<"stream">> /\ <<>> # <<"command">>
  /\ <<>> # <<"book", "signal">> /\ <<"book">> # <<"book", "signal">>
  /\ <<"signal">> # <<"book", "signal">> /\ <<"book">> # <<"signal">>
  /\ <<"stream">> # <<"command">> /\ <<"book">> # <<"stream">> /\ <<"signal">> # <<"stream">>
  /\ <<"book">> # <<"command">> /\ <<"signal">> # <<"command">>
  /\ <<"stream">> # <<"book", "signal">> /\ <<"command">> # <<"book", "signal">>
<1>1. /\ Len(<<>>) = 0 /\ Len(<<"book", "signal">>) = 2
      /\ Len(<<"book">>) = 1 /\ Len(<<"signal">>) = 1
      /\ Len(<<"stream">>) = 1 /\ Len(<<"command">>) = 1
  OBVIOUS
<1>2. /\ Head(<<"book">>) = "book" /\ Head(<<"signal">>) = "signal"
      /\ Head(<<"stream">>) = "stream" /\ Head(<<"command">>) = "command"
  OBVIOUS
<1>3. QED
  BY <1>1, <1>2

\* The first command and the rest.
LEMMA TodoSteps ==
  /\ Head(<<"book">>) = "book" /\ Tail(<<"book">>) = <<>>
  /\ Head(<<"signal">>) = "signal" /\ Tail(<<"signal">>) = <<>>
  /\ Head(<<"stream">>) = "stream" /\ Tail(<<"stream">>) = <<>>
  /\ Head(<<"command">>) = "command" /\ Tail(<<"command">>) = <<>>
  /\ Head(<<"book", "signal">>) = "book" /\ Tail(<<"book", "signal">>) = <<"signal">>
OBVIOUS

-----------------------------------------------------------------------------
\* One lemma per group of actions.

\* The parts of the invariant.
LEMMA Parts ==
  ASSUME PublisherInv
  PROVE  PublisherTypeOK /\ GaugeKnown /\ HealthKnown /\ PublishInv
BY DEF PublisherInv, PublishInv

\* A step that checks nothing leaves the health as it is.
LEMMA HealthRests == HealthKnown /\ UNCHANGED <<phealth, pings>> => HealthKnown'
BY DEF HealthKnown, HealthTruthful

\* A client that is under way has an operation.
LEMMA UnderWay ==
  ASSUME PublisherTypeOK, PublishInv, NEW c \in PoolClients, client[c].phase # "idle"
  PROVE  client[c].op # "none"
BY DEF PublishInv, Doing, OnItsWay, Resting

\* An operation begins.
LEMMA BeginStep ==
  ASSUME PublisherInv, NEW c \in PoolClients,
         \/ publish_dual(c) \/ publish_stream(c)
         \/ \E op \in {"get", "ping", "execute"} : OtherCall(c, op)
  PROVE  PublisherInv'
<1>0. PublisherTypeOK /\ GaugeKnown /\ HealthKnown /\ PublishInv
  BY Parts
<1>1. /\ UNCHANGED <<pstats, phealth, pings, redis, dual, stream, acked>>
      /\ begun \in [snap : Nat, check : Nat] /\ begun' \in [snap : Nat, check : Nat]
      /\ begun'.snap \in {begun.snap, begun.snap + 1} /\ begun.snap <= begun'.snap
  <2>1. UNCHANGED <<pstats, phealth, pings, redis, dual, stream, acked>>
    BY DEF publish_dual, publish_stream, OtherCall
  <2>2. begun \in [snap : Nat, check : Nat]
    BY <1>0 DEF PublisherTypeOK
  <2>3. \/ begun' = [begun EXCEPT !.snap = begun.snap + 1]
        \/ begun' = [begun EXCEPT !.check = begun.check + 1]
    BY DEF publish_dual, publish_stream, OtherCall
  <2>4. QED
    BY <2>1, <2>2, <2>3
<1>2. Snapshots \subseteq Snapshots'
  BY <1>1 DEF Snapshots
<1>3. ASSUME client' \in [PoolClients -> ClientState] PROVE PublisherTypeOK'
  BY <1>0, <1>1, <1>2, <1>3 DEF PublisherTypeOK
<1>4. CASE UNCHANGED client
  <2>1. PublisherTypeOK'
    BY <1>0, <1>3, <1>4 DEF PublisherTypeOK
  <2>2. GaugeKnown' /\ HealthKnown'
    BY <1>0, <1>1, <1>4, HealthRests DEF GaugeKnown, Held, Known
  <2>3. Doing' /\ CountsKnown' /\ SignalHasBook'
    BY <1>0, <1>1, <1>4 DEF PublishInv, Doing, CountsKnown, DualDone, SignalHasBook
  <2>4. \A c1 \in PoolClients : client[c1].snap \in 1 .. begun.snap
          => client[c1].snap \in 1 .. begun'.snap
    BY <1>1
  <2>5. Numbered'
    BY <1>0, <1>1, <1>4, <2>4 DEF PublishInv, Numbered, Publishing
  <2>6. QED
    BY <2>1, <2>2, <2>3, <2>5 DEF PublisherInv
<1>5. CASE ~UNCHANGED client
  <2>1. PICK op \in {"dual", "stream", "get", "ping", "execute"}, snap \in Nat :
          /\ client[c] = Resting /\ Begin(c, op, snap)
          /\ op \in {"dual", "stream"} =>
               begun'.snap = begun.snap + 1 /\ snap = begun.snap + 1
    <3>1. CASE publish_dual(c)
      <4>1. begun'.snap = begun.snap + 1 /\ begun'.snap \in Nat
        BY <1>1, <3>1 DEF publish_dual
      <4>2. QED
        BY <3>1, <4>1 DEF publish_dual
    <3>2. CASE publish_stream(c)
      <4>1. begun'.snap = begun.snap + 1 /\ begun'.snap \in Nat
        BY <1>1, <3>2 DEF publish_stream
      <4>2. QED
        BY <1>5, <3>2, <4>1 DEF publish_stream
    <3>3. CASE \E o \in {"get", "ping", "execute"} : OtherCall(c, o)
      BY <3>3 DEF OtherCall
    <3>4. QED
      BY <3>1, <3>2, <3>3
  <2> DEFINE new == [op |-> op, phase |-> "begun", todo |-> Commands(op), ok |-> TRUE,
                     snap |-> snap]
  <2>2. client' = [client EXCEPT ![c] = new]
    BY <2>1 DEF Begin
  <2>3. Commands(op) \in Todos
    BY CommandsAre DEF Todos
  <2>4. new \in ClientState
    BY <2>3 DEF ClientState, Ops, Phases
  <2>5. OnItsWay(new)
    BY CommandsAre, TodosDiffer DEF OnItsWay
  <2>6. InRedis(new, redis.book, redis.signal, redis.stream)
    BY CommandsAre, TodosDiffer DEF InRedis
  <2>7. new.op = op /\ new.phase = "begun" /\ new.snap = snap
    OBVIOUS
  <2>8. client[c].phase = "idle"
    BY <2>1 DEF Resting
  <2> HIDE DEF new
  <2>9. PublishInv'
    BY <1>0, <1>1, <2>1, <2>2, <2>4, <2>5, <2>6, <2>7, BeginMoves
  <2>10. GaugeKnown'
    BY <1>0, <1>1, <2>2, <2>4, <2>7, <2>8, GaugeStays DEF HasConnection
  <2>11. PublisherTypeOK' /\ HealthKnown'
    BY <1>0, <1>1, <1>3, <2>2, <2>4, ClientMoves, HealthRests
  <2>12. QED
    BY <2>9, <2>10, <2>11 DEF PublisherInv, PublishInv
<1>6. QED
  BY <1>4, <1>5

\* The steps of the pool: get, its failures, the drop.
LEMMA PoolStepKeeps ==
  ASSUME PublisherInv, NEW c \in PoolClients, PoolStep(c),
         UNCHANGED <<redis, dual, stream, acked, begun>>
  PROVE  PublisherInv'
<1>0. PublisherTypeOK /\ GaugeKnown /\ HealthKnown /\ PublishInv
  BY Parts
<1> DEFINE me == client[c]
           Statistics == [in_use : Nat, idle : Nat, failures : Nat, timeouts : Nat, peak : Nat]
<1>1. /\ me \in ClientState /\ pstats \in Statistics
      /\ OnItsWay(me) /\ InRedis(me, redis.book, redis.signal, redis.stream)
  BY <1>0 DEF PublisherTypeOK, PublishInv, Doing
<1>2. UNCHANGED <<phealth, pings>>
  BY DEF PoolStep, GetClosed, GetChecked, Granted, GetFails, GetTimesOut, GetCounted,
     DropCounted, Returned
<1>3. ASSUME NEW new \in ClientState, client' = [client EXCEPT ![c] = new],
             new.op = me.op, new.snap = me.snap, OnItsWay(new),
             InRedis(new, redis.book, redis.signal, redis.stream), Done(new) <=> Done(me),
             pstats' \in Statistics, GaugeKnown'
      PROVE  PublisherInv'
  <2>1. client' \in [PoolClients -> ClientState]
    BY <1>0, <1>3, ClientMoves
  <2>2. PublisherTypeOK'
    BY <1>0, <1>2, <1>3, <2>1 DEF PublisherTypeOK, Snapshots
  <2>3. HealthKnown'
    BY <1>0, <1>2, HealthRests
  <2>4. PublishInv'
    BY <1>0, <1>3, PhaseMoves
  <2>5. QED
    BY <1>3, <2>2, <2>3, <2>4 DEF PublisherInv, PublishInv
\* A failure settles the call.
<1>4. ASSUME me.phase \in {"begun", "checked"}, Fail(c), pstats' \in Statistics,
             pstats'.in_use = pstats.in_use, pstats'.peak = pstats.peak
      PROVE  PublisherInv'
  <2> DEFINE new == [me EXCEPT !.phase = "settling", !.ok = FALSE]
  <2>1. client' = [client EXCEPT ![c] = new]
    BY <1>4 DEF Fail
  <2>2. /\ new \in ClientState /\ new.op = me.op /\ new.snap = me.snap /\ new.todo = me.todo
        /\ new.phase = "settling" /\ new.ok = FALSE
    BY <1>1 DEF ClientState, Phases
  <2>3. me.op # "none"
    BY <1>0, <1>4, UnderWay
  <2> HIDE DEF new
  <2>4. OnItsWay(new)
    BY <1>1, <2>2, <2>3 DEF OnItsWay
  <2>5. InRedis(new, redis.book, redis.signal, redis.stream) /\ ~Done(new)
    BY <2>2 DEF InRedis, Done
  <2>6. ~Done(me)
    BY <1>4 DEF Done
  <2>7. GaugeKnown'
    BY <1>0, <1>4, <2>1, <2>2, GaugeStays DEF HasConnection
  <2>8. QED
    BY <1>3, <1>4, <2>1, <2>2, <2>4, <2>5, <2>6, <2>7
\* Anything else moves the client on to phase p.
<1>5. ASSUME NEW p \in {"checked", "granted", "holding", "dropping", "settling"}, Step(c, p),
             me.phase # "idle", me.phase # "settling",
             p \in {"dropping", "settling"} <=> me.phase \in {"counted", "dropping"},
             pstats' \in Statistics,
             ASSUME NEW new \in ClientState, client' = [client EXCEPT ![c] = new], new.phase = p
             PROVE  GaugeKnown'
      PROVE  PublisherInv'
  <2> DEFINE new == [me EXCEPT !.phase = p]
  <2>1. client' = [client EXCEPT ![c] = new]
    BY <1>5 DEF Step
  <2>2. /\ new \in ClientState /\ new.op = me.op /\ new.snap = me.snap /\ new.todo = me.todo
        /\ new.phase = p /\ new.ok = me.ok
    BY <1>1 DEF ClientState, Phases, HasConnection
  <2>3. me.op # "none"
    BY <1>0, <1>5, UnderWay
  <2> HIDE DEF new
  <2>4. OnItsWay(new)
    BY <1>1, <1>5, <2>2, <2>3 DEF OnItsWay
  <2>5. InRedis(new, redis.book, redis.signal, redis.stream)
    BY <1>1, <2>2 DEF InRedis
  <2>6. Done(new) <=> Done(me)
    BY <1>5, <2>2 DEF Done
  <2>7. GaugeKnown'
    BY <1>5, <2>1, <2>2
  <2>8. QED
    BY <1>3, <1>5, <2>1, <2>2, <2>4, <2>5, <2>6, <2>7
<1>6. CASE GetClosed(c)
  BY <1>1, <1>4, <1>6 DEF GetClosed
<1>7. CASE GetFails(c) \/ GetTimesOut(c)
  <2>1. pstats' \in Statistics /\ pstats'.in_use = pstats.in_use /\ pstats'.peak = pstats.peak
    BY <1>1, <1>7 DEF GetFails, GetTimesOut
  <2>2. QED
    BY <1>4, <1>7, <2>1 DEF GetFails, GetTimesOut
<1>8. CASE GetChecked(c)
  <2>1. me.phase = "begun" /\ Step(c, "checked") /\ pstats' = pstats
    BY <1>8 DEF GetChecked
  <2>2. ASSUME NEW new \in ClientState, client' = [client EXCEPT ![c] = new], new.phase = "checked"
        PROVE  GaugeKnown'
    BY <1>0, <2>1, <2>2, GaugeStays DEF HasConnection
  <2>3. QED
    BY <1>1, <1>5, <2>1, <2>2
<1>9. CASE Granted(c)
  <2>1. me.phase = "checked" /\ Step(c, "granted") /\ pstats' = pstats /\ Cardinality(Held) < MaxSize
    BY <1>9 DEF Granted
  <2>2. ASSUME NEW new \in ClientState, client' = [client EXCEPT ![c] = new], new.phase = "granted"
        PROVE  GaugeKnown'
    BY <1>0, <2>1, <2>2, GaugeGrants
  <2>3. QED
    BY <1>1, <1>5, <2>1, <2>2
<1>10. CASE GetCounted(c)
  <2>1. /\ me.phase = "granted" /\ Step(c, "holding") /\ pstats' \in Statistics
        /\ pstats'.in_use = pstats.in_use + 1
        /\ pstats'.peak \in {pstats.peak, pstats.in_use + 1}
    <3>1. /\ pstats.in_use + 1 \in Nat /\ MinusOne(pstats.idle) \in Nat
          /\ pstats.peak \in Nat
      BY <1>1 DEF MinusOne
    <3>2. PICK peak \in {pstats.peak, pstats.in_use + 1} :
            pstats' = [pstats EXCEPT !.in_use = pstats.in_use + 1,
                                     !.idle = MinusOne(pstats.idle), !.peak = peak]
      BY <1>10 DEF GetCounted
    <3>3. me.phase = "granted" /\ Step(c, "holding")
      BY <1>10 DEF GetCounted
    <3>4. QED
      BY <1>1, <3>1, <3>2, <3>3
  <2>2. ASSUME NEW new \in ClientState, client' = [client EXCEPT ![c] = new], new.phase = "holding"
        PROVE  GaugeKnown'
    BY <1>0, <2>1, <2>2, GaugeCounts
  <2>3. QED
    BY <1>5, <2>1, <2>2
<1>11. CASE DropCounted(c)
  <2>1. /\ me.phase = "counted" /\ Step(c, "dropping") /\ pstats' \in Statistics
        /\ pstats'.in_use = MinusOne(pstats.in_use) /\ pstats'.peak = pstats.peak
    <3>1. pstats.idle + 1 \in Nat /\ MinusOne(pstats.in_use) \in Nat
      BY <1>1 DEF MinusOne
    <3>2. pstats' = [pstats EXCEPT !.idle = pstats.idle + 1, !.in_use = MinusOne(pstats.in_use)]
      BY <1>11 DEF DropCounted
    <3>3. me.phase = "counted" /\ Step(c, "dropping")
      BY <1>11 DEF DropCounted
    <3>4. QED
      BY <1>1, <3>1, <3>2, <3>3
  <2>2. ASSUME NEW new \in ClientState, client' = [client EXCEPT ![c] = new], new.phase = "dropping"
        PROVE  GaugeKnown'
    BY <1>0, <2>1, <2>2, GaugeForgets
  <2>3. QED
    BY <1>5, <2>1, <2>2
<1>12. CASE Returned(c)
  <2>1. me.phase = "dropping" /\ Step(c, "settling") /\ pstats' = pstats
    BY <1>12 DEF Returned
  <2>2. ASSUME NEW new \in ClientState, client' = [client EXCEPT ![c] = new], new.phase = "settling"
        PROVE  GaugeKnown'
    BY <1>0, <2>1, <2>2, GaugeReturns
  <2>3. QED
    BY <1>1, <1>5, <2>1, <2>2
<1>13. QED
  BY <1>6, <1>7, <1>8, <1>9, <1>10, <1>11, <1>12 DEF PoolStep

\* What Redis has after a command.
LEMMA AddedIs ==
  ASSUME PublisherTypeOK, PublishInv, NEW c \in PoolClients,
         client[c].phase = "holding", client[c].todo # <<>>
  PROVE  /\ Added(c) \in [book : Snapshots, signal : Snapshots, stream : Snapshots]
         /\ redis.book \subseteq Added(c).book /\ redis.signal \subseteq Added(c).signal
         /\ redis.stream \subseteq Added(c).stream
         /\ client[c].todo \in {<<"book">>, <<"book", "signal">>} =>
              client[c].snap \in Added(c).book /\ Added(c).signal = redis.signal
         /\ client[c].todo = <<"signal">> =>
              client[c].snap \in Added(c).signal /\ Added(c).signal = redis.signal \cup {client[c].snap}
         /\ client[c].todo = <<"stream">> =>
              client[c].snap \in Added(c).stream /\ Added(c).signal = redis.signal
         /\ client[c].todo = <<"command">> => Added(c) = redis
         /\ client[c].todo \in {<<"book">>, <<"book", "signal">>, <<"signal">>, <<"stream">>, <<"command">>}
<1> DEFINE me == client[c]
           Streams == [book : Snapshots, signal : Snapshots, stream : Snapshots]
<1>1. /\ me \in ClientState /\ OnItsWay(me) /\ redis \in Streams
      /\ Publishing(c) => me.snap \in 1 .. begun.snap
  BY DEF PublisherTypeOK, PublishInv, Doing, Numbered
<1>2. me.todo \in {<<"book">>, <<"book", "signal">>, <<"signal">>, <<"stream">>, <<"command">>}
  BY <1>1 DEF ClientState, Todos
<1>3. CASE me.todo = <<"command">>
  <2>1. Added(c) = redis
    BY <1>3, TodoSteps DEF Added
  <2>2. QED
    BY <1>1, <1>3, <2>1, TodosDiffer
<1>4. CASE me.todo # <<"command">>
  <2>1. Publishing(c)
    BY <1>1, <1>2, <1>4, TodosDiffer DEF OnItsWay, Publishing
  <2>2. \A S \in Snapshots : S \cup {me.snap} \in Snapshots
    BY <1>1, <2>1 DEF Snapshots
  <2>3. redis.book \in Snapshots /\ redis.signal \in Snapshots /\ redis.stream \in Snapshots
    BY <1>1
  <2>4. CASE me.todo \in {<<"book">>, <<"book", "signal">>}
    <3>1. Added(c) = [redis EXCEPT !.book = redis.book \cup {me.snap}]
      BY <2>4, TodoSteps DEF Added
    <3>2. QED
      BY <1>1, <1>2, <2>2, <2>3, <2>4, <3>1, TodosDiffer
  <2>5. CASE me.todo = <<"signal">>
    <3>1. Added(c) = [redis EXCEPT !.signal = redis.signal \cup {me.snap}]
      BY <2>5, TodoSteps DEF Added
    <3>2. QED
      BY <1>1, <1>2, <2>2, <2>3, <2>5, <3>1, TodosDiffer
  <2>6. CASE me.todo = <<"stream">>
    <3>1. Added(c) = [redis EXCEPT !.stream = redis.stream \cup {me.snap}]
      BY <2>6, TodoSteps DEF Added
    <3>2. QED
      BY <1>1, <1>2, <2>2, <2>3, <2>6, <3>1, TodosDiffer
  <2>7. QED
    BY <1>2, <1>4, <2>4, <2>5, <2>6
<1>5. QED
  BY <1>3, <1>4

\* A command that Redis has executed or not, and what the client is left with.
LEMMA CommandMoves ==
  ASSUME PublisherInv, NEW c \in PoolClients, NEW new \in ClientState,
         client[c].phase = "holding", client[c].todo # <<>>,
         client' = [client EXCEPT ![c] = new],
         new.op = client[c].op, new.snap = client[c].snap, new.phase = "holding",
         redis' \in {redis, Added(c)},
         OnItsWay(new), InRedis(new, redis'.book, redis'.signal, redis'.stream),
         stream' \in [messages_published : Nat, publish_errors : Nat],
         stream'.messages_published = stream.messages_published,
         UNCHANGED <<pstats, phealth, pings, dual, acked, begun>>
  PROVE  PublisherInv'
<1>0. PublisherTypeOK /\ GaugeKnown /\ HealthKnown /\ PublishInv
  BY Parts
<1>1. /\ client'[c] = new
      /\ \A d \in PoolClients \ {c} : client'[d] = client[d]
      /\ client' \in [PoolClients -> ClientState]
  BY <1>0, ClientMoves
<1>2. /\ redis' \in [book : Snapshots, signal : Snapshots, stream : Snapshots]
      /\ redis.book \subseteq redis'.book /\ redis.signal \subseteq redis'.signal
      /\ redis.stream \subseteq redis'.stream
  <2>1. redis \in [book : Snapshots, signal : Snapshots, stream : Snapshots]
    BY <1>0 DEF PublisherTypeOK
  <2>2. /\ Added(c) \in [book : Snapshots, signal : Snapshots, stream : Snapshots]
        /\ redis.book \subseteq Added(c).book /\ redis.signal \subseteq Added(c).signal
        /\ redis.stream \subseteq Added(c).stream
    BY <1>0, AddedIs
  <2>3. QED
    BY <2>1, <2>2
<1>3. PublisherTypeOK'
  BY <1>0, <1>1, <1>2 DEF PublisherTypeOK, Snapshots
<1>4. GaugeKnown' /\ HealthKnown'
  BY <1>0, GaugeStays, HealthRests
<1>5. Numbered'
  BY <1>0, <1>1 DEF PublishInv, Numbered, Publishing
<1>6. \A d \in PoolClients : InRedis(client[d], redis.book, redis.signal, redis.stream)
                              => InRedis(client[d], redis'.book, redis'.signal, redis'.stream)
  BY <1>2 DEF InRedis
<1>7. Doing'
  BY <1>0, <1>1, <1>6 DEF PublishInv, Doing
<1>8. \A d \in PoolClients :
        (Done(client'[d]) <=> Done(client[d])) /\ client'[d].snap = client[d].snap
  BY <1>1 DEF Done
<1>9. DualDone' = DualDone
  BY <1>8 DEF DualDone, Done
<1>10. CountsKnown'
  BY <1>0, <1>2, <1>9 DEF PublishInv, CountsKnown
<1>11. SignalHasBook'
  <2> SUFFICES ASSUME OrderbookEnabled PROVE redis'.signal \subseteq redis'.book
    BY DEF SignalHasBook
  <2>1. redis.signal \subseteq redis.book
    BY <1>0 DEF PublishInv, SignalHasBook
  <2>2. redis'.signal \subseteq redis.signal \/ client[c].todo = <<"signal">>
    BY <1>0, AddedIs
  <2>3. CASE client[c].todo = <<"signal">>
    <3>1. OnItsWay(client[c]) /\ InRedis(client[c], redis.book, redis.signal, redis.stream)
      BY <1>0 DEF PublishInv, Doing
    <3>2. client[c].op = "dual" /\ (client[c].ok \/ client[c].todo = <<>>)
      BY <2>3, <3>1, TodosDiffer DEF OnItsWay
    <3>3. client[c].snap \in redis.book
      BY <2>3, <3>1, <3>2, TodosDiffer DEF InRedis
    <3>4. redis'.signal \subseteq redis.signal \cup {client[c].snap}
      BY <1>0, <2>3, AddedIs
    <3>5. QED
      BY <1>2, <2>1, <3>3, <3>4
  <2>4. QED
    BY <1>2, <2>1, <2>2, <2>3
<1>12. QED
  BY <1>3, <1>4, <1>5, <1>7, <1>10, <1>11 DEF PublisherInv

\* Redis answers a command, or it fails.
LEMMA CommandStep ==
  ASSUME PublisherInv, NEW c \in PoolClients,
         CommandOk(c) \/ \E executed \in BOOLEAN : CommandFails(c, executed)
  PROVE  PublisherInv'
<1>0. PublisherTypeOK /\ GaugeKnown /\ HealthKnown /\ PublishInv
  BY Parts
<1> DEFINE me == client[c]
<1>1. /\ me \in ClientState /\ OnItsWay(me)
      /\ InRedis(me, redis.book, redis.signal, redis.stream)
      /\ stream \in [messages_published : Nat, publish_errors : Nat]
  BY <1>0 DEF PublisherTypeOK, PublishInv, Doing
<1>2. me.phase = "holding" /\ me.todo # <<>>
  BY DEF CommandOk, CommandFails
<1>3. me.op # "none" /\ me.ok
  BY <1>0, <1>1, <1>2, UnderWay DEF OnItsWay
<1>4. CASE CommandOk(c)
  <2> DEFINE new == [me EXCEPT !.todo = Tail(me.todo)]
  <2>1. /\ client' = [client EXCEPT ![c] = new] /\ redis' = Added(c) /\ stream' = stream
        /\ UNCHANGED <<pstats, phealth, pings, dual, acked, begun>>
    BY <1>4 DEF CommandOk
  <2>2. me.todo \in {<<"book">>, <<"book", "signal">>, <<"signal">>, <<"stream">>, <<"command">>}
    BY <1>0, <1>2, AddedIs
  <2>3. /\ Tail(me.todo) \in {<<>>, <<"signal">>}
        /\ Tail(me.todo) = <<"signal">> <=> me.todo = <<"book", "signal">>
    BY <2>2, TodoSteps, TodosDiffer
  <2>4. /\ new \in ClientState /\ new.op = me.op /\ new.snap = me.snap /\ new.phase = "holding"
        /\ new.ok = me.ok /\ new.todo = Tail(me.todo)
    BY <1>1, <1>2, <2>3 DEF ClientState, Todos
  <2> HIDE DEF new
  <2>5. OnItsWay(new)
    BY <1>1, <1>3, <2>2, <2>3, <2>4, TodosDiffer DEF OnItsWay
  <2>6. InRedis(new, redis'.book, redis'.signal, redis'.stream)
    <3>1. me.op = "dual" /\ me.ok /\ OrderbookEnabled
            => new.todo \in {<<"book">>, <<"book", "signal">>} \/ new.snap \in redis'.book
      BY <1>0, <1>1, <1>2, <2>1, <2>2, <2>4, AddedIs, TodosDiffer DEF InRedis, OnItsWay
    <3>2. me.op = "dual" /\ me.ok /\ SignalEnabled
            => new.todo # <<>> \/ new.snap \in redis'.signal
      BY <1>0, <1>1, <1>2, <2>1, <2>2, <2>3, <2>4, AddedIs, TodosDiffer DEF InRedis, OnItsWay
    <3>3. me.op = "stream" /\ me.ok => new.todo # <<>> \/ new.snap \in redis'.stream
      BY <1>0, <1>1, <1>2, <2>1, <2>2, <2>4, AddedIs, TodosDiffer DEF InRedis, OnItsWay
    <3>4. QED
      BY <2>4, <3>1, <3>2, <3>3 DEF InRedis
  <2>7. QED
    BY <1>1, <1>2, <2>1, <2>4, <2>5, <2>6, CommandMoves
<1>5. CASE \E executed \in BOOLEAN : CommandFails(c, executed)
  <2> DEFINE new == [me EXCEPT !.todo = <<>>, !.ok = FALSE]
  <2>1. /\ client' = [client EXCEPT ![c] = new] /\ redis' \in {redis, Added(c)}
        /\ stream' = IF me.op = "stream"
                     THEN [stream EXCEPT !.publish_errors = stream.publish_errors + 1] ELSE stream
        /\ UNCHANGED <<pstats, phealth, pings, dual, acked, begun>>
    BY <1>5 DEF CommandFails
  <2>2. /\ new \in ClientState /\ new.op = me.op /\ new.snap = me.snap /\ new.phase = "holding"
        /\ new.ok = FALSE /\ new.todo = <<>>
    BY <1>1, <1>2 DEF ClientState, Todos
  <2>3. /\ stream' \in [messages_published : Nat, publish_errors : Nat]
        /\ stream'.messages_published = stream.messages_published
    BY <1>1, <2>1
  <2> HIDE DEF new
  <2>4. OnItsWay(new)
    BY <1>3, <2>2, TodosDiffer DEF OnItsWay
  <2>5. InRedis(new, redis'.book, redis'.signal, redis'.stream)
    BY <2>2 DEF InRedis
  <2>6. QED
    BY <1>2, <2>1, <2>2, <2>3, <2>4, <2>5, CommandMoves
<1>6. QED
  BY <1>4, <1>5

\* publish_dual counts its outputs: a snapshot that was not counted before.
LEMMA CountStep ==
  ASSUME PublisherInv, NEW c \in PoolClients, CountHeld(c)
  PROVE  PublisherInv'
<1>0. PublisherTypeOK /\ GaugeKnown /\ HealthKnown /\ PublishInv
  BY Parts
<1> DEFINE me == client[c]
           new == [me EXCEPT !.phase = "counted"]
           More(b) == IF b THEN 1 ELSE 0
           Counters == [orderbook_published : Nat, signals_published : Nat, publish_errors : Nat]
<1>1. /\ me \in ClientState /\ OnItsWay(me)
      /\ InRedis(me, redis.book, redis.signal, redis.stream)
      /\ dual \in Counters
  BY <1>0 DEF PublisherTypeOK, PublishInv, Doing
<1>2. /\ me.phase = "holding" /\ me.todo = <<>>
      /\ client' = [client EXCEPT ![c] = new]
      /\ UNCHANGED <<pstats, phealth, pings, redis, stream, acked, begun>>
  BY DEF CountHeld, Step
<1>3. /\ new \in ClientState /\ new.op = me.op /\ new.snap = me.snap /\ new.phase = "counted"
      /\ new.ok = me.ok /\ new.todo = me.todo
  BY <1>1 DEF ClientState, Phases, HasConnection
<1>4. me.op # "none"
  BY <1>0, <1>2, UnderWay
<1> HIDE DEF new
<1>5. OnItsWay(new) /\ InRedis(new, redis.book, redis.signal, redis.stream)
  BY <1>1, <1>2, <1>3, <1>4 DEF OnItsWay, InRedis
<1>6. GaugeKnown' /\ HealthKnown'
  BY <1>0, <1>2, <1>3, GaugeStays, HealthRests DEF HasConnection
<1>7. ~Done(me)
  BY <1>2 DEF Done
<1>8. client' \in [PoolClients -> ClientState]
  BY <1>0, <1>2, <1>3, ClientMoves
<1>9. CASE ~(me.ok /\ me.op = "dual")
  <2>1. dual' = dual
    BY <1>9 DEF CountHeld
  <2>2. PublisherTypeOK'
    BY <1>0, <1>2, <1>8, <2>1 DEF PublisherTypeOK, Snapshots
  <2>3. ~Done(new)
    BY <1>3, <1>9 DEF Done
  <2>4. PublishInv'
    BY <1>0, <1>2, <1>3, <1>5, <1>7, <2>1, <2>3, PhaseMoves
  <2>5. QED
    BY <1>6, <2>2, <2>4 DEF PublisherInv, PublishInv
<1>10. CASE me.ok /\ me.op = "dual"
  <2>1. /\ client'[c] = new
        /\ \A d \in PoolClients \ {c} : client'[d] = client[d]
    BY <1>0, <1>2, <1>3, ClientMoves
  <2>2. dual' = [dual EXCEPT !.orderbook_published = dual.orderbook_published + More(OrderbookEnabled),
                             !.signals_published = dual.signals_published + More(SignalEnabled)]
    BY <1>10 DEF CountHeld
  <2>3. More(OrderbookEnabled) \in Nat /\ More(SignalEnabled) \in Nat
    OBVIOUS
  <2>4. /\ dual' \in Counters
        /\ dual'.orderbook_published = dual.orderbook_published + More(OrderbookEnabled)
        /\ dual'.signals_published = dual.signals_published + More(SignalEnabled)
    <3> DEFINE books == dual.orderbook_published + More(OrderbookEnabled)
               signals == dual.signals_published + More(SignalEnabled)
    <3>1. books \in Nat /\ signals \in Nat
      BY <1>1, <2>3
    <3>2. dual' = [dual EXCEPT !.orderbook_published = books, !.signals_published = signals]
      BY <2>2
    <3> HIDE DEF books, signals
    <3>3. dual' \in Counters /\ dual'.orderbook_published = books
          /\ dual'.signals_published = signals
      BY <1>1, <3>1, <3>2
    <3>4. QED
      BY <3>3 DEF books, signals
  <2>5. PublisherTypeOK'
    BY <1>0, <1>2, <1>8, <2>4 DEF PublisherTypeOK, Snapshots
  <2>6. Numbered' /\ Doing' /\ SignalHasBook'
    BY <1>0, <1>2, <1>3, <1>5, <2>1
    DEF PublishInv, Numbered, Publishing, Doing, SignalHasBook
  <2>7. Done(new)
    BY <1>3, <1>10 DEF Done
  <2>8. me.snap \notin DualDone
    <3>1. Publishing(c) /\ me.snap \notin acked.dual
      BY <1>0, <1>10 DEF PublishInv, Numbered, Publishing
    <3>2. \A d \in PoolClients : Done(client[d]) => d # c /\ Publishing(d)
      BY <1>7 DEF Done, Publishing
    <3>3. \A d \in PoolClients : Done(client[d]) => client[d].snap # me.snap
      BY <1>0, <3>1, <3>2 DEF PublishInv, Numbered
    <3>4. QED
      BY <3>1, <3>3, DualDoneIs
  <2>9. \A n : n \in DualDone' <=> n \in DualDone \/ n = me.snap
    <3>1. \A n : n \in DualDone' <=> n \in acked.dual
                 \/ \E d \in PoolClients : Done(client'[d]) /\ n = client'[d].snap
      BY <1>2 DEF DualDone, Done
    <3>2. QED
      BY <1>3, <1>7, <2>1, <2>7, <3>1, DualDoneIs
  <2>10. IsFiniteSet(DualDone) /\ Cardinality(DualDone) \in Nat
    BY <1>0, SnapshotsFinite DEF PublishInv
  <2>11. Cardinality(DualDone') = Cardinality(DualDone) + 1
    BY <2>8, <2>9, <2>10, OneMore
  <2>12. CountsKnown'
    <3>1. dual.orderbook_published = IF OrderbookEnabled THEN Cardinality(DualDone) ELSE 0
      BY <1>0 DEF PublishInv, CountsKnown
    <3>2. dual.signals_published = IF SignalEnabled THEN Cardinality(DualDone) ELSE 0
      BY <1>0 DEF PublishInv, CountsKnown
    <3>3. dual'.orderbook_published = IF OrderbookEnabled THEN Cardinality(DualDone') ELSE 0
      BY <2>4, <2>10, <2>11, <3>1
    <3>4. dual'.signals_published = IF SignalEnabled THEN Cardinality(DualDone') ELSE 0
      BY <2>4, <2>10, <2>11, <3>2
    <3>5. QED
      BY <1>0, <1>2, <3>3, <3>4 DEF PublishInv, CountsKnown
  <2>13. QED
    BY <1>6, <2>5, <2>6, <2>12 DEF PublisherInv
<1>11. QED
  BY <1>9, <1>10

\* The end of a call: what it published is acknowledged, and already there.
LEMMA SettleStep ==
  ASSUME PublisherInv, NEW c \in PoolClients, Settle(c)
  PROVE  PublisherInv'
<1>0. PublisherTypeOK /\ GaugeKnown /\ HealthKnown /\ PublishInv
  BY Parts
<1> DEFINE me == client[c]
           Streamed == [messages_published : Nat, publish_errors : Nat]
<1>1. /\ me \in ClientState /\ OnItsWay(me)
      /\ InRedis(me, redis.book, redis.signal, redis.stream)
      /\ stream \in Streamed /\ acked \in [dual : Snapshots, stream : Snapshots]
  BY <1>0 DEF PublisherTypeOK, PublishInv, Doing
<1>2. /\ me.phase = "settling" /\ client' = [client EXCEPT ![c] = Resting]
      /\ UNCHANGED <<pstats, redis, dual, begun>>
  BY DEF Settle
<1>3. Resting \in ClientState /\ Resting.phase = "idle" /\ Resting.op = "none"
  BY DEF Resting, ClientState, Ops, Phases, Todos
<1>4. /\ client'[c] = Resting
      /\ \A d \in PoolClients \ {c} : client'[d] = client[d]
      /\ client' \in [PoolClients -> ClientState]
  BY <1>0, <1>2, <1>3, ClientMoves
<1>5. GaugeKnown'
  BY <1>0, <1>2, <1>3, GaugeStays DEF HasConnection
<1>6. /\ HealthKnown' /\ pings' \in Seq(BOOLEAN)
      /\ phealth' \in [status : {"Unknown", "Healthy", "Degraded", "Unhealthy"},
                       successes : Nat, failures : Nat]
  <2>1. CASE me.op = "ping"
    <3>1. /\ me.ok \in BOOLEAN /\ phealth' = HealthAfter(me.ok)
          /\ pings' = Append(pings, me.ok)
      BY <1>1, <2>1 DEF Settle, ClientState
    <3>2. QED
      BY <1>0, <3>1, CheckSettles
  <2>2. CASE me.op # "ping"
    <3>1. UNCHANGED <<phealth, pings>>
      BY <2>2 DEF Settle
    <3>2. QED
      BY <1>0, <3>1, HealthRests DEF PublisherTypeOK
  <2>3. QED
    BY <2>1, <2>2
<1>7. Doing' /\ SignalHasBook'
  <2>1. OnItsWay(Resting) /\ InRedis(Resting, redis.book, redis.signal, redis.stream)
    BY DEF OnItsWay, InRedis, Resting
  <2>2. QED
    BY <1>0, <1>2, <1>4, <2>1 DEF PublishInv, Doing, SignalHasBook
<1>8. /\ Publishing(c) => me.snap \in 1 .. begun.snap
                          /\ me.snap \notin acked.dual \cup acked.stream
      /\ \A d \in PoolClients \ {c} :
           /\ Publishing(d)' <=> Publishing(d)
           /\ Publishing(d) /\ Publishing(c) => client[d].snap # me.snap
      /\ ~Publishing(c)'
  BY <1>0, <1>3, <1>4 DEF PublishInv, Numbered, Publishing
<1>9. CASE ~me.ok \/ me.op \notin {"dual", "stream"}
  <2>1. UNCHANGED <<stream, acked>>
    BY <1>9 DEF Settle
  <2>2. PublisherTypeOK'
    BY <1>0, <1>2, <1>4, <1>6, <2>1 DEF PublisherTypeOK, Snapshots
  <2>3. Numbered'
    BY <1>0, <1>2, <1>4, <1>8, <2>1 DEF PublishInv, Numbered
  <2>4. ~Done(me) /\ ~Done(Resting)
    BY <1>3, <1>9 DEF Done
  <2>5. DualDone' = DualDone
    <3>1. \A n : n \in DualDone' <=> n \in acked.dual
                 \/ \E d \in PoolClients : Done(client'[d]) /\ n = client'[d].snap
      BY <2>1 DEF DualDone, Done
    <3>2. \A n : n \in DualDone' <=> n \in DualDone
      BY <1>4, <2>4, <3>1, DualDoneIs
    <3>3. QED
      BY <3>2
  <2>6. CountsKnown'
    BY <1>0, <1>2, <2>1, <2>5 DEF PublishInv, CountsKnown
  <2>7. QED
    BY <1>5, <1>6, <1>7, <2>2, <2>3, <2>6 DEF PublisherInv
<1>10. CASE me.ok /\ me.op = "dual"
  <2>1. stream' = stream /\ acked' = [acked EXCEPT !.dual = acked.dual \cup {me.snap}]
    BY <1>10 DEF Settle
  <2>2. Publishing(c) /\ acked.dual \cup {me.snap} \in Snapshots
    BY <1>1, <1>8, <1>10 DEF Publishing, Snapshots
  <2>3. /\ acked' \in [dual : Snapshots, stream : Snapshots]
        /\ acked'.dual = acked.dual \cup {me.snap} /\ acked'.stream = acked.stream
    BY <1>1, <2>1, <2>2
  <2>4. PublisherTypeOK'
    BY <1>0, <1>2, <1>4, <1>6, <2>1, <2>3 DEF PublisherTypeOK, Snapshots
  <2>5. Numbered'
    BY <1>0, <1>2, <1>4, <1>8, <2>2, <2>3 DEF PublishInv, Numbered
  <2>6. Done(me) /\ ~Done(Resting)
    BY <1>2, <1>3, <1>10 DEF Done
  <2>7. DualDone' = DualDone
    <3>1. \A n : n \in DualDone' <=> n \in acked'.dual
                 \/ \E d \in PoolClients : Done(client'[d]) /\ n = client'[d].snap
      BY DEF DualDone, Done
    <3>2. \A n : n \in DualDone' <=> n \in DualDone
      BY <1>4, <2>3, <2>6, <3>1, DualDoneIs
    <3>3. QED
      BY <3>2
  <2>8. /\ OrderbookEnabled => me.snap \in redis.book
        /\ SignalEnabled => me.snap \in redis.signal
    BY <1>1, <1>2, <1>10, TodosDiffer DEF OnItsWay, InRedis
  <2>9. CountsKnown'
    BY <1>0, <1>2, <2>1, <2>3, <2>7, <2>8 DEF PublishInv, CountsKnown
  <2>10. QED
    BY <1>5, <1>6, <1>7, <2>4, <2>5, <2>9 DEF PublisherInv
<1>11. CASE me.ok /\ me.op = "stream"
  <2>1. /\ stream' = [stream EXCEPT !.messages_published = stream.messages_published + 1]
        /\ acked' = [acked EXCEPT !.stream = acked.stream \cup {me.snap}]
    BY <1>11 DEF Settle
  <2>2. Publishing(c) /\ acked.stream \cup {me.snap} \in Snapshots
    BY <1>1, <1>8, <1>11 DEF Publishing, Snapshots
  <2>3. /\ acked' \in [dual : Snapshots, stream : Snapshots]
        /\ acked'.stream = acked.stream \cup {me.snap} /\ acked'.dual = acked.dual
        /\ stream' \in Streamed
        /\ stream'.messages_published = stream.messages_published + 1
    <3>1. /\ acked' \in [dual : Snapshots, stream : Snapshots]
          /\ acked'.stream = acked.stream \cup {me.snap} /\ acked'.dual = acked.dual
      BY <1>1, <2>1, <2>2
    <3>2. stream.messages_published + 1 \in Nat
      BY <1>1
    <3>3. /\ stream' \in Streamed
          /\ stream'.messages_published = stream.messages_published + 1
      BY <1>1, <2>1, <3>2
    <3>4. QED
      BY <3>1, <3>3
  <2>4. PublisherTypeOK'
    BY <1>0, <1>2, <1>4, <1>6, <2>3 DEF PublisherTypeOK, Snapshots
  <2>5. Numbered'
    BY <1>0, <1>2, <1>4, <1>8, <2>2, <2>3 DEF PublishInv, Numbered
  <2>6. ~Done(me) /\ ~Done(Resting)
    BY <1>3, <1>11 DEF Done
  <2>7. DualDone' = DualDone
    <3>1. \A n : n \in DualDone' <=> n \in acked.dual
                 \/ \E d \in PoolClients : Done(client'[d]) /\ n = client'[d].snap
      BY <2>3 DEF DualDone, Done
    <3>2. \A n : n \in DualDone' <=> n \in DualDone
      BY <1>4, <2>6, <3>1, DualDoneIs
    <3>3. QED
      BY <3>2
  <2>8. me.snap \in redis.stream /\ me.snap \notin acked.stream
    BY <1>1, <1>2, <1>8, <1>11, <2>2, TodosDiffer DEF OnItsWay, InRedis
  <2>9. IsFiniteSet(acked.stream)
    BY <1>0, <1>1, SnapshotsFinite DEF PublishInv, Snapshots
  <2>10. Cardinality(acked.stream \cup {me.snap}) = Cardinality(acked.stream) + 1
    BY <2>8, <2>9, FS_AddElement
  <2>11. CountsKnown'
    BY <1>0, <1>2, <2>3, <2>7, <2>8, <2>10 DEF PublishInv, CountsKnown
  <2>12. QED
    BY <1>5, <1>6, <1>7, <2>4, <2>5, <2>11 DEF PublisherInv
<1>12. QED
  BY <1>9, <1>10, <1>11

\* close changes only flags; reset forgets what it counted and checked.
LEMMA CloseStep ==
  ASSUME PublisherInv, close \/ reset_pool, UNCHANGED <<redis, dual, stream, acked, begun>>
  PROVE  PublisherInv'
<1>0. PublisherTypeOK /\ GaugeKnown /\ HealthKnown /\ PublishInv
  BY Parts
<1>1. client' = client
  BY DEF close, reset_pool
<1>2. PublishInv'
  BY <1>0, <1>1 DEF PublishInv, Numbered, Publishing, Doing, CountsKnown, DualDone, SignalHasBook
<1>3. Held' = Held /\ Known' = Known
  BY <1>1 DEF Held, Known
<1>4. CASE close
  <2>1. UNCHANGED <<pstats, phealth, pings>>
    BY <1>4 DEF close
  <2>2. PublisherTypeOK' /\ GaugeKnown'
    BY <1>0, <1>1, <1>3, <2>1 DEF PublisherTypeOK, Snapshots, GaugeKnown
  <2>3. QED
    BY <1>0, <1>2, <2>1, <2>2, HealthRests DEF PublisherInv, PublishInv
<1>5. CASE reset_pool
  <2>1. /\ pstats' = [pstats EXCEPT !.idle = 0, !.in_use = 0]
        /\ phealth' = NoHealth /\ pings' = <<>>
    BY <1>5 DEF reset_pool
  <2>2. PublisherTypeOK'
    <3>1. pstats' \in [in_use : Nat, idle : Nat, failures : Nat, timeouts : Nat, peak : Nat]
      BY <1>0, <2>1 DEF PublisherTypeOK
    <3>2. phealth' \in [status : {"Unknown", "Healthy", "Degraded", "Unhealthy"},
                        successes : Nat, failures : Nat]
      BY <2>1 DEF NoHealth
    <3>3. pings' \in Seq(BOOLEAN)
      BY <2>1
    <3>4. QED
      BY <1>0, <1>1, <3>1, <3>2, <3>3 DEF PublisherTypeOK, Snapshots
  <2>3. pstats'.in_use = 0 /\ pstats'.peak = pstats.peak
    BY <1>0, <2>1 DEF PublisherTypeOK
  <2>4. GaugeKnown'
    BY <1>0, <1>3, <2>3, GaugeSets DEF GaugeKnown
  <2>5. Failing(pings') = {}
    BY <2>1 DEF Failing
  <2>6. HealthKnown'
    BY <2>1, <2>5, FS_EmptySet DEF HealthKnown, HealthTruthful, NoHealth
  <2>7. QED
    BY <1>2, <2>2, <2>4, <2>6 DEF PublisherInv, PublishInv
<1>6. QED
  BY <1>4, <1>5

\* Nothing has been published.
LEMMA PublisherInvInit == PublishersInit => PublisherInv
<1> SUFFICES ASSUME PublishersInit PROVE PublisherInv
  OBVIOUS
<1>1. PublisherTypeOK
  BY DEF PublishersInit, PoolInit, PublisherTypeOK, Resting, ClientState, Ops, Phases, Todos,
     NoStats, NoHealth, Snapshots, NoDual, NoStream
<1>2. \A c \in PoolClients : client[c] = Resting
  BY DEF PublishersInit, PoolInit
<1>3. Held = {} /\ Known = {}
  BY <1>2 DEF Held, Known, Resting, HasConnection
<1>4. GaugeKnown
  BY <1>3, FS_EmptySet, PoolAssumption
  DEF GaugeKnown, PublishersInit, PoolInit, NoStats, ValidPoolConfig
<1>5. Failing(pings) = {}
  BY DEF PublishersInit, PoolInit, Failing
<1>6. HealthKnown
  BY <1>5, FS_EmptySet DEF HealthKnown, HealthTruthful, PublishersInit, PoolInit, NoHealth
<1>7. Numbered
  BY <1>2 DEF Numbered, Publishing, Resting
<1>8. Doing
  BY <1>2 DEF Doing, OnItsWay, InRedis, Resting
<1>9. \A c \in PoolClients : ~Done(client[c])
  BY <1>2 DEF Done, Resting
<1>10. DualDone = {}
  BY <1>9, DualDoneIs DEF PublishersInit
<1>11. CountsKnown /\ SignalHasBook
  BY <1>10, FS_EmptySet DEF CountsKnown, SignalHasBook, PublishersInit, NoDual, NoStream
<1>12. QED
  BY <1>1, <1>4, <1>6, <1>7, <1>8, <1>11 DEF PublisherInv

\* Every step of the pool and its publishers keeps the invariant.
LEMMA PublisherInvStep == PublisherInv /\ [PublishersNext]_publisherVars => PublisherInv'
<1> SUFFICES ASSUME PublisherInv, [PublishersNext]_publisherVars PROVE PublisherInv'
  OBVIOUS
<1>1. CASE UNCHANGED publisherVars
  <2>1. UNCHANGED <<client, pstats, phealth, pings, redis, dual, stream, acked, begun>>
    BY <1>1 DEF publisherVars, poolVars
  <2>2. PublisherTypeOK' /\ GaugeKnown' /\ HealthKnown'
    BY <2>1, Parts, HealthRests
    DEF PublisherTypeOK, Snapshots, GaugeKnown, Held, Known
  <2>3. Numbered' /\ Doing' /\ CountsKnown' /\ SignalHasBook'
    BY <2>1 DEF PublisherInv, Numbered, Publishing, Doing, CountsKnown, DualDone, SignalHasBook
  <2>4. QED
    BY <2>2, <2>3 DEF PublisherInv
<1>2. QED
  BY <1>1, BeginStep, PoolStepKeeps, CommandStep, CountStep, SettleStep, CloseStep
  DEF PublishersNext

\* The invariant of the pool and its publishers: RedisPool, StreamPublisher
\* and DualPublisher.
THEOREM PublisherAlwaysInv == PublishersSpec => []PublisherInv
BY PublisherInvInit, PublisherInvStep, PTL DEF PublishersSpec

\* However calls, failures, close and reset overlap, the pool never shows more
\* connections in use than are out or a peak above max_size, shows none when
\* everybody is at rest, and its health is what the checks since the last
\* reset found (RedisPool::stats and health).
THEOREM PoolAlwaysSound == PublishersSpec => []PoolSound
<1>1. PublisherInv => PoolSound
  <2> SUFFICES ASSUME PublisherInv PROVE PoolCountsHold /\ HealthTruthful
    BY DEF PoolSound
  <2>1. /\ pstats.in_use \in Nat /\ pstats.in_use <= Cardinality(Known)
        /\ pstats.peak <= MaxSize /\ HealthTruthful
    BY DEF PublisherInv, PublisherTypeOK, GaugeKnown, HealthKnown
  <2>2. pstats.in_use <= Cardinality(Held)
    BY <2>1, GaugeSets
  <2>3. ASSUME \A c \in PoolClients : client[c] = Resting PROVE pstats.in_use = 0
    <3>1. Known = {}
      BY <2>3 DEF Known, Resting
    <3>2. Cardinality(Known) = 0
      BY <3>1, FS_EmptySet
    <3>3. QED
      BY <2>1, <3>2
  <2>4. QED
    BY <2>1, <2>2, <2>3 DEF PoolCountsHold
<1>2. QED
  BY <1>1, PublisherAlwaysInv, PTL

\* A publish that returned Ok is in every stream it was to be in, the counters
\* claim no more than Redis has been given, and with order books enabled no
\* signal is in Redis without its book, whichever command failed
\* (publish_dual, xadd).
THEOREM AlwaysPublished == PublishersSpec => []Published
<1>1. PublisherInv => Published
  <2> SUFFICES ASSUME PublisherInv PROVE AckedPublished /\ SignalHasBook
    BY DEF Published
  <2>1. PublisherTypeOK /\ CountsKnown /\ Numbered /\ Doing
    BY DEF PublisherInv
  <2>2. /\ redis.book \subseteq 1 .. begun.snap /\ redis.signal \subseteq 1 .. begun.snap
        /\ redis.stream \subseteq 1 .. begun.snap
    BY <2>1 DEF PublisherTypeOK, Snapshots
  <2>3. /\ IsFiniteSet(redis.book) /\ Cardinality(redis.book) \in Nat
        /\ IsFiniteSet(redis.signal) /\ Cardinality(redis.signal) \in Nat
        /\ IsFiniteSet(redis.stream) /\ Cardinality(redis.stream) \in Nat
    BY <2>1, <2>2, SnapshotsFinite
  <2>4. ASSUME NEW c \in PoolClients, Done(client[c])
        PROVE  /\ OrderbookEnabled => client[c].snap \in redis.book
               /\ SignalEnabled => client[c].snap \in redis.signal
    BY <2>1, <2>4, TodosDiffer DEF Doing, OnItsWay, InRedis, Done
  <2>5. /\ OrderbookEnabled => DualDone \subseteq redis.book
        /\ SignalEnabled => DualDone \subseteq redis.signal
    BY <2>1, <2>4, DualDoneIs DEF CountsKnown
  <2>6. dual.orderbook_published <= Cardinality(redis.book)
    BY <2>1, <2>3, <2>5, FS_Subset DEF CountsKnown
  <2>7. dual.signals_published <= Cardinality(redis.signal)
    BY <2>1, <2>3, <2>5, FS_Subset DEF CountsKnown
  <2>8. stream.messages_published <= Cardinality(redis.stream)
    BY <2>1, <2>3, FS_Subset DEF CountsKnown
  <2>9. QED
    BY <2>1, <2>6, <2>7, <2>8 DEF AckedPublished, CountsKnown, PublisherInv
<1>2. QED
  BY <1>1, PublisherAlwaysInv, PTL

-----------------------------------------------------------------------------
(***************************************************************************)
(* What is kept between the threads and Redis (Buffers).                   *)
(***************************************************************************)

Verdicts == {"sent", "dropped"}

Offered(o) == {i \in DOMAIN fate : fate[i] = o}
ToCount(o) == {s \in Senders : sending[s] = o}

Rising(q) == \A i, j \in 1 .. Len(q) : i < j => q[i] < q[j]

\* The frames received and those in the channel are numbered in the order of
\* offering, and are those the channel took in as long as it has a receiver.
InOrder ==
  /\ Rising(received) /\ Rising(frames)
  /\ \A i \in 1 .. Len(received), j \in 1 .. Len(frames) : received[i] < frames[j]
  /\ \A i \in 1 .. Len(received) : received[i] \in 1 .. offered
  /\ \A i \in 1 .. Len(frames) : frames[i] \in 1 .. offered
  /\ rx_open => ToSet(received) \cup ToSet(frames) = Offered("sent")

BackpressureTypeOK ==
  /\ frames \in Seq(Nat) /\ received \in Seq(Nat) /\ offered \in Nat /\ resets \in Nat
  /\ fate \in Seq(Verdicts) /\ Len(fate) = offered
  /\ sending \in [Senders -> Verdicts \cup {"none"}]
  /\ metrics \in [sent : Nat, dropped : Nat]
  /\ rx_open \in BOOLEAN /\ clearing \in BOOLEAN

\* A count and its increments still to come; equal unless there was a reset.
Counting(o) ==
  /\ metrics[o] + Cardinality(ToCount(o)) <= Cardinality(Offered(o))
  /\ resets = 0 => metrics[o] + Cardinality(ToCount(o)) = Cardinality(Offered(o))

BackpressureInv ==
  /\ BackpressureTypeOK /\ InOrder
  /\ \A o \in Verdicts : Counting(o)
  /\ clearing => resets # 0

\* The invariant says of frames and counts what FramesAccounted says.
LEMMA FramesShown == BackpressureInv => FramesAccounted
<1> SUFFICES ASSUME BackpressureInv PROVE FramesAccounted OBVIOUS
<1>1. DOMAIN received = 1 .. Len(received) /\ DOMAIN frames = 1 .. Len(frames)
  BY LenProperties DEF BackpressureInv, BackpressureTypeOK
<1>2. \A o \in Verdicts : Pending(o) = Cardinality(ToCount(o)) /\ Outcomes(o) = Cardinality(Offered(o))
  BY DEF Pending, Outcomes, ToCount, Offered
<1>3. \A o \in {"sent", "dropped"} : /\ metrics[o] + Pending(o) <= Outcomes(o)
                                     /\ resets = 0 => metrics[o] + Pending(o) = Outcomes(o)
  BY <1>2 DEF BackpressureInv, Counting, Verdicts
<1>4. \A i, j \in DOMAIN received : i < j => received[i] < received[j]
  BY <1>1 DEF BackpressureInv, InOrder, Rising
<1>5. rx_open => {received[i] : i \in DOMAIN received} \cup {frames[i] : i \in DOMAIN frames}
                = {i \in DOMAIN fate : fate[i] = "sent"}
  BY DEF BackpressureInv, InOrder, ToSet, Offered
<1> QED BY <1>3, <1>4, <1>5 DEF FramesAccounted

\* Nothing offered, nothing to count.
LEMMA BackpressureInvInit == BackpressureInit => BackpressureInv
<1> SUFFICES ASSUME BackpressureInit PROVE BackpressureInv OBVIOUS
<1>1. /\ frames = <<>> /\ received = <<>> /\ fate = <<>> /\ offered = 0 /\ resets = 0
      /\ rx_open = TRUE /\ clearing = FALSE
      /\ sending = [s \in Senders |-> "none"] /\ metrics = [sent |-> 0, dropped |-> 0]
  BY DEF BackpressureInit, NoMetrics
<1>0. rx_open \in BOOLEAN /\ clearing \in BOOLEAN BY <1>1
<1>a. metrics \in [sent : Nat, dropped : Nat] /\ sending \in [Senders -> Verdicts \cup {"none"}]
  BY <1>1
<1>2. BackpressureTypeOK BY <1>0, <1>a, <1>1 DEF BackpressureTypeOK
<1>3. \A o \in Verdicts : ToCount(o) = {} /\ Offered(o) = {} /\ metrics[o] = 0
  BY <1>1 DEF ToCount, Offered, Verdicts
<1>4. Cardinality({}) = 0 BY FS_EmptySet
<1>5. \A o \in Verdicts : Counting(o) BY <1>3, <1>4 DEF Counting
<1>6. InOrder BY <1>1, <1>3 DEF InOrder, Rising, ToSet, Verdicts
<1> QED BY <1>1, <1>2, <1>5, <1>6 DEF BackpressureInv


\* A frame is offered: taken in or not, it has one more outcome of its kind
\* and one more count to come.
LEMMA TrySendKeeps ==
  ASSUME BackpressureInv, NEW s \in Senders, try_send(s)
  PROVE  BackpressureInv'
<1> DEFINE n == offered + 1
           taken == rx_open /\ available_capacity > 0
<1>0. /\ BackpressureTypeOK /\ InOrder /\ (\A o \in Verdicts : Counting(o)) /\ (clearing => resets # 0)
  BY DEF BackpressureInv
<1>1. PICK v \in Verdicts : v = IF taken THEN "sent" ELSE "dropped" BY DEF Verdicts
<1>2. /\ offered' = n /\ sending[s] = "none" /\ sending' = [sending EXCEPT ![s] = v]
      /\ frames' = IF taken THEN Append(frames, n) ELSE frames
      /\ rx_open' = rx_open /\ metrics' = metrics /\ clearing' = clearing /\ received' = received
      /\ resets' = resets
  BY <1>1 DEF try_send
<1>3. sending'[s] = v BY <1>0, <1>2 DEF BackpressureTypeOK
<1>4. fate' = Append(fate, v) BY <1>3 DEF try_send
<1>5. /\ frames \in Seq(Nat) /\ received \in Seq(Nat) /\ offered \in Nat /\ fate \in Seq(Verdicts)
      /\ Len(fate) = offered /\ n \in Nat /\ Len(frames) \in Nat /\ Len(received) \in Nat
  BY <1>0, LenProperties DEF BackpressureTypeOK
<1>6. /\ fate' \in Seq(Verdicts) /\ Len(fate') = n /\ fate'[n] = v
      /\ \A i \in 1 .. offered : fate'[i] = fate[i]
  BY <1>4, <1>5
<1>d. DOMAIN fate = 1 .. offered /\ DOMAIN fate' = 1 .. n BY <1>5, <1>6, LenProperties
<1>7. Offered(v)' = Offered(v) \cup {n} /\ n \notin Offered(v)
  BY <1>d, <1>5, <1>6 DEF Offered
<1>8. \A o \in Verdicts : o # v => Offered(o)' = Offered(o)
  BY <1>d, <1>5, <1>6 DEF Offered
<1>9. sending \in [Senders -> Verdicts \cup {"none"}] /\ "none" \notin Verdicts
  BY <1>0 DEF BackpressureTypeOK, Verdicts
<1>10. ToCount(v)' = ToCount(v) \cup {s} /\ s \notin ToCount(v)
  BY <1>2, <1>9 DEF ToCount
<1>11. \A o \in Verdicts : o # v => ToCount(o)' = ToCount(o)
  BY <1>2, <1>9 DEF ToCount
<1>12. \A o \in Verdicts : IsFiniteSet(ToCount(o)) /\ IsFiniteSet(Offered(o))
  <2>1. IsFiniteSet(1 .. offered) BY <1>5, FS_Interval
  <2>2. IsFiniteSet(Senders) BY BackpressureAssumption
  <2>3. \A o \in Verdicts : ToCount(o) \subseteq Senders /\ Offered(o) \subseteq 1 .. offered
    BY <1>d DEF ToCount, Offered
  <2> QED BY <2>1, <2>2, <2>3, FS_Subset
<1>13. \A o \in Verdicts : Counting(o)'
  <2> SUFFICES ASSUME NEW o \in Verdicts PROVE Counting(o)' OBVIOUS
  <2> DEFINE a == Cardinality(ToCount(o))
             b == Cardinality(Offered(o))
             c == metrics[o]
  <2>1. a \in Nat /\ b \in Nat BY <1>12, FS_CardinalityType
  <2>2. c \in Nat BY <1>0 DEF BackpressureTypeOK, Verdicts
  <2>3. c + a <= b /\ (resets = 0 => c + a = b) BY <1>0 DEF Counting
  <2>4. metrics'[o] = c BY <1>2
  <2>5. CASE o = v
    <3>1. Cardinality(ToCount(o)') = a + 1 BY <1>10, <1>12, <2>5, FS_AddElement
    <3>2. Cardinality(Offered(o)') = b + 1 BY <1>7, <1>12, <2>5, FS_AddElement
    <3> QED BY <1>2, <2>1, <2>2, <2>3, <2>4, <3>1, <3>2 DEF Counting
  <2>6. CASE o # v
    <3>1. Cardinality(ToCount(o)') = a /\ Cardinality(Offered(o)') = b BY <1>8, <1>11, <2>6
    <3> QED BY <1>2, <2>1, <2>2, <2>3, <2>4, <3>1 DEF Counting
  <2> QED BY <2>5, <2>6
<1>14. BackpressureTypeOK'
  <2>1. frames' \in Seq(Nat) BY <1>2, <1>5
  <2>2. sending' \in [Senders -> Verdicts \cup {"none"}] BY <1>2, <1>9
  <2>3. metrics' \in [sent : Nat, dropped : Nat] /\ resets' \in Nat
    BY <1>0, <1>2 DEF BackpressureTypeOK
  <2>4. rx_open' \in BOOLEAN /\ clearing' \in BOOLEAN BY <1>0, <1>2 DEF BackpressureTypeOK
  <2> QED BY <1>2, <1>5, <1>6, <2>1, <2>2, <2>3, <2>4 DEF BackpressureTypeOK
<1>15. InOrder'
  <2>0. /\ Rising(received) /\ Rising(frames)
        /\ \A i \in 1 .. Len(received), j \in 1 .. Len(frames) : received[i] < frames[j]
        /\ \A i \in 1 .. Len(received) : received[i] \in 1 .. offered
        /\ \A i \in 1 .. Len(frames) : frames[i] \in 1 .. offered
        /\ rx_open => ToSet(received) \cup ToSet(frames) = Offered("sent")
    BY <1>0 DEF InOrder
  <2>1. CASE taken
    <3>1. /\ frames' \in Seq(Nat) /\ Len(frames') = Len(frames) + 1 /\ frames'[Len(frames) + 1] = n
          /\ \A i \in 1 .. Len(frames) : frames'[i] = frames[i]
      BY <1>2, <1>5, <2>1
    <3>2. DOMAIN frames = 1 .. Len(frames) /\ DOMAIN frames' = 1 .. Len(frames) + 1
      BY <1>5, <3>1, LenProperties
    <3>3. ToSet(frames') = ToSet(frames) \cup {n}
      <4>1. \A i \in 1 .. Len(frames) + 1 : i \in 1 .. Len(frames) \/ i = Len(frames) + 1 BY <1>5
      <4>2. \A i \in 1 .. Len(frames) : i \in 1 .. Len(frames) + 1 BY <1>5
      <4>3. Len(frames) + 1 \in 1 .. Len(frames) + 1 BY <1>5
      <4> QED BY <3>1, <3>2, <4>1, <4>2, <4>3 DEF ToSet
    <3>4. v = "sent" BY <1>1, <2>1
    <3>5. rx_open' => ToSet(received') \cup ToSet(frames') = Offered("sent")'
      BY <1>2, <1>7, <2>0, <3>3, <3>4
    <3>6. \A i \in 1 .. Len(frames') : frames'[i] \in 1 .. offered'
      BY <1>2, <1>5, <2>0, <3>1
    <3>7. Rising(frames')
      <4> SUFFICES ASSUME NEW i \in 1 .. Len(frames'), NEW j \in 1 .. Len(frames'), i < j
                   PROVE  frames'[i] < frames'[j]
        BY DEF Rising
      <4>1. i \in 1 .. Len(frames) /\ frames'[i] = frames[i] /\ frames[i] \in 1 .. offered
        BY <1>5, <2>0, <3>1
      <4>2. CASE j = Len(frames) + 1 BY <1>5, <3>1, <4>1, <4>2
      <4>3. CASE j # Len(frames) + 1
        <5>0. \A k \in Nat : j \in 1 .. k + 1 /\ j # k + 1 => j \in 1 .. k OBVIOUS
        <5>a. j \in 1 .. Len(frames) BY <1>5, <3>1, <4>3, <5>0
        <5>1. j \in 1 .. Len(frames) /\ frames'[j] = frames[j] BY <3>1, <5>a
        <5>2. frames[i] < frames[j] BY <2>0, <4>1, <5>1 DEF Rising
        <5> QED BY <4>1, <5>1, <5>2
      <4> QED BY <4>2, <4>3
    <3>8. \A i \in 1 .. Len(received'), j \in 1 .. Len(frames') : received'[i] < frames'[j]
      BY <1>2, <1>5, <2>0, <3>1
    <3>9. \A i \in 1 .. Len(received') : received'[i] \in 1 .. offered' BY <1>2, <1>5, <2>0
    <3> QED BY <1>2, <2>0, <3>5, <3>6, <3>7, <3>8, <3>9 DEF InOrder
  <2>2. CASE ~taken
    <3>1. frames' = frames /\ v = "dropped" /\ "sent" \in Verdicts /\ "sent" # v
      BY <1>1, <1>2, <2>2 DEF Verdicts
    <3>2. Offered("sent")' = Offered("sent") BY <1>8, <3>1
    <3>3. \A i \in 1 .. offered : i \in 1 .. offered' BY <1>2, <1>5
    <3> QED BY <1>2, <2>0, <3>1, <3>2, <3>3 DEF InOrder
  <2> QED BY <2>1, <2>2
<1> QED BY <1>0, <1>2, <1>13, <1>14, <1>15 DEF BackpressureInv

\* The relaxed increment: one count fewer to come.
LEMMA CountFrameKeeps ==
  ASSUME BackpressureInv, NEW s \in Senders, CountFrame(s)
  PROVE  BackpressureInv'
<1>0. /\ BackpressureTypeOK /\ InOrder /\ (\A o \in Verdicts : Counting(o)) /\ (clearing => resets # 0)
  BY DEF BackpressureInv
<1>9. sending \in [Senders -> Verdicts \cup {"none"}] /\ "none" \notin Verdicts
  BY <1>0 DEF BackpressureTypeOK, Verdicts
<1>1. PICK v \in Verdicts : v = sending[s] BY <1>9 DEF CountFrame
<1>2. /\ sending' = [sending EXCEPT ![s] = "none"] /\ metrics' = [metrics EXCEPT ![v] = metrics[v] + 1]
      /\ frames' = frames /\ rx_open' = rx_open /\ clearing' = clearing /\ offered' = offered
      /\ fate' = fate /\ received' = received /\ resets' = resets
  BY <1>1 DEF CountFrame
<1>3. metrics \in [Verdicts -> Nat] /\ [sent : Nat, dropped : Nat] = [Verdicts -> Nat]
  <2>1. [sent : Nat, dropped : Nat] = [Verdicts -> Nat]
    BY DEF Verdicts
  <2> QED BY <1>0, <2>1 DEF BackpressureTypeOK
<1>4. metrics' \in [Verdicts -> Nat] /\ metrics'[v] = metrics[v] + 1
      /\ \A o \in Verdicts : o # v => metrics'[o] = metrics[o]
  BY <1>2, <1>3
<1>5. ToCount(v)' = ToCount(v) \ {s} /\ s \in ToCount(v) BY <1>1, <1>2, <1>9 DEF ToCount
<1>6. \A o \in Verdicts : o # v => ToCount(o)' = ToCount(o) BY <1>1, <1>2, <1>9 DEF ToCount
<1>7. \A o \in Verdicts : Offered(o)' = Offered(o) BY <1>2 DEF Offered
<1>8. \A o \in Verdicts : IsFiniteSet(ToCount(o)) /\ IsFiniteSet(Offered(o))
  <2>1. IsFiniteSet(1 .. offered) BY <1>0, FS_Interval DEF BackpressureTypeOK
  <2>2. IsFiniteSet(Senders) BY BackpressureAssumption
  <2>3. DOMAIN fate = 1 .. offered BY <1>0, LenProperties DEF BackpressureTypeOK
  <2>4. \A o \in Verdicts : ToCount(o) \subseteq Senders /\ Offered(o) \subseteq 1 .. offered
    BY <2>3 DEF ToCount, Offered
  <2> QED BY <2>1, <2>2, <2>4, FS_Subset
<1>10. \A o \in Verdicts : Counting(o)'
  <2> SUFFICES ASSUME NEW o \in Verdicts PROVE Counting(o)' OBVIOUS
  <2> DEFINE a == Cardinality(ToCount(o))
             b == Cardinality(Offered(o))
             c == metrics[o]
  <2>1. a \in Nat /\ b \in Nat BY <1>8, FS_CardinalityType
  <2>2. c \in Nat BY <1>3
  <2>3. c + a <= b /\ (resets = 0 => c + a = b) BY <1>0 DEF Counting
  <2>4. Cardinality(Offered(o)') = b BY <1>7
  <2>5. CASE o = v
    <3>1. Cardinality(ToCount(o)') = a - 1 BY <1>5, <1>8, <2>5, FS_RemoveElement
    <3>2. metrics'[o] = c + 1 BY <1>4, <2>5
    <3> QED BY <1>2, <2>1, <2>2, <2>3, <2>4, <3>1, <3>2 DEF Counting
  <2>6. CASE o # v
    <3>1. Cardinality(ToCount(o)') = a /\ metrics'[o] = c BY <1>4, <1>6, <2>6
    <3> QED BY <1>2, <2>1, <2>2, <2>3, <2>4, <3>1 DEF Counting
  <2> QED BY <2>5, <2>6
<1>11. BackpressureTypeOK'
  <2>1. sending' \in [Senders -> Verdicts \cup {"none"}] BY <1>2, <1>9
  <2>2. metrics' \in [sent : Nat, dropped : Nat] BY <1>3, <1>4
  <2>3. rx_open' \in BOOLEAN /\ clearing' \in BOOLEAN BY <1>0, <1>2 DEF BackpressureTypeOK
  <2> QED BY <1>0, <1>2, <2>1, <2>2, <2>3 DEF BackpressureTypeOK
<1>12. InOrder'
  <2>1. Offered("sent")' = Offered("sent") BY <1>7 DEF Verdicts
  <2> QED BY <1>0, <1>2, <2>1 DEF InOrder
<1> QED BY <1>0, <1>2, <1>10, <1>11, <1>12 DEF BackpressureInv


\* The consumer takes the frame at the front.
LEMMA ReceiveKeeps ==
  ASSUME BackpressureInv, Receive
  PROVE  BackpressureInv'
<1>0. /\ BackpressureTypeOK /\ InOrder /\ (\A o \in Verdicts : Counting(o)) /\ (clearing => resets # 0)
  BY DEF BackpressureInv
<1> DEFINE h == Head(frames)
           m == Len(received)
           k == Len(frames)
<1>1. /\ frames # <<>> /\ received' = Append(received, h) /\ frames' = Tail(frames)
      /\ rx_open' = rx_open /\ sending' = sending /\ metrics' = metrics /\ clearing' = clearing
      /\ offered' = offered /\ fate' = fate /\ resets' = resets
  BY DEF Receive
<1>2. /\ frames \in Seq(Nat) /\ received \in Seq(Nat) /\ m \in Nat /\ k \in Nat /\ k >= 1
      /\ h = frames[1] /\ h \in Nat
  BY <1>0, <1>1, LenProperties DEF BackpressureTypeOK
<1>3. /\ received' \in Seq(Nat) /\ Len(received') = m + 1 /\ received'[m + 1] = h
      /\ \A i \in 1 .. m : received'[i] = received[i]
  BY <1>1, <1>2
<1>4. /\ frames' \in Seq(Nat) /\ Len(frames') = k - 1
      /\ \A i \in 1 .. k - 1 : frames'[i] = frames[i + 1]
  BY <1>1, <1>2
<1> HIDE DEF h, m, k
<1>5. /\ Rising(received) /\ Rising(frames)
      /\ \A i \in 1 .. m, j \in 1 .. k : received[i] < frames[j]
      /\ \A i \in 1 .. m : received[i] \in 1 .. offered
      /\ \A i \in 1 .. k : frames[i] \in 1 .. offered
      /\ rx_open => ToSet(received) \cup ToSet(frames) = Offered("sent")
  BY <1>0 DEF InOrder, m, k
<1>6. \A i \in 1 .. m : received[i] \in Nat /\ received[i] < h BY <1>2, <1>5
<1>7. \A i \in 1 .. k - 1 : i + 1 \in 1 .. k /\ h < frames[i + 1]
  BY <1>2, <1>5 DEF Rising, k
<1>8. Rising(received')
  <2> SUFFICES ASSUME NEW i \in 1 .. Len(received'), NEW j \in 1 .. Len(received'), i < j
               PROVE  received'[i] < received'[j]
    BY DEF Rising
  <2>1. i \in 1 .. m BY <1>2, <1>3
  <2>2. CASE j = m + 1 BY <1>3, <1>6, <2>1, <2>2
  <2>3. CASE j # m + 1
    <3>1. j \in 1 .. m BY <1>2, <1>3, <2>3
    <3> QED BY <1>3, <1>5, <2>1, <3>1 DEF Rising, m
  <2> QED BY <2>2, <2>3
<1>9. Rising(frames')
  <2> SUFFICES ASSUME NEW i \in 1 .. Len(frames'), NEW j \in 1 .. Len(frames'), i < j
               PROVE  frames'[i] < frames'[j]
    BY DEF Rising
  <2>1. i + 1 \in 1 .. k /\ j + 1 \in 1 .. k /\ i + 1 < j + 1 BY <1>2, <1>4
  <2> QED BY <1>4, <1>5, <2>1 DEF Rising, k
<1>10. \A i \in 1 .. Len(received'), j \in 1 .. Len(frames') : received'[i] < frames'[j]
  <2> SUFFICES ASSUME NEW i \in 1 .. Len(received'), NEW j \in 1 .. Len(frames')
               PROVE  received'[i] < frames'[j]
    OBVIOUS
  <2>1. j + 1 \in 1 .. k /\ frames'[j] = frames[j + 1] /\ h < frames[j + 1] BY <1>2, <1>4, <1>7
  <2>2. CASE i = m + 1 BY <1>3, <2>1, <2>2
  <2>3. CASE i # m + 1
    <3>1. i \in 1 .. m BY <1>2, <1>3, <2>3
    <3> QED BY <1>3, <1>5, <2>1, <3>1
  <2> QED BY <2>2, <2>3
<1>11. \A i \in 1 .. Len(received') : received'[i] \in 1 .. offered'
  <2>1. h \in 1 .. offered BY <1>2, <1>5
  <2>2. \A i \in 1 .. m + 1 : i \in 1 .. m \/ i = m + 1 BY <1>2
  <2> QED BY <1>1, <1>3, <1>5, <2>1, <2>2
<1>12. \A i \in 1 .. Len(frames') : frames'[i] \in 1 .. offered' BY <1>1, <1>4, <1>5, <1>7
<1>13. ToSet(received') \cup ToSet(frames') = ToSet(received) \cup ToSet(frames)
  <2>1. /\ DOMAIN received = 1 .. m /\ DOMAIN frames = 1 .. k
        /\ DOMAIN received' = 1 .. m + 1 /\ DOMAIN frames' = 1 .. k - 1
    BY <1>2, <1>3, <1>4, LenProperties DEF m, k
  <2>2. ToSet(received') = ToSet(received) \cup {h}
    <3>1. \A i \in 1 .. m + 1 : i \in 1 .. m \/ i = m + 1 BY <1>2
    <3>2. m + 1 \in 1 .. m + 1 /\ \A i \in 1 .. m : i \in 1 .. m + 1 BY <1>2
    <3> QED BY <1>3, <2>1, <3>1, <3>2 DEF ToSet
  <2>3. ToSet(frames) = ToSet(frames') \cup {h}
    <3>1. \A i \in 1 .. k : i = 1 \/ (i - 1 \in 1 .. k - 1 /\ (i - 1) + 1 = i) BY <1>2
    <3>2. 1 \in 1 .. k /\ frames[1] = h BY <1>2
    <3>3. ToSet(frames) \subseteq ToSet(frames') \cup {h}
      <4> SUFFICES ASSUME NEW i \in 1 .. k PROVE frames[i] \in ToSet(frames') \cup {h}
        BY <2>1 DEF ToSet
      <4>1. CASE i = 1 BY <3>2, <4>1
      <4>2. CASE i # 1
        <5>1. i - 1 \in DOMAIN frames' /\ frames'[i - 1] = frames[i] BY <1>4, <2>1, <3>1, <4>2
        <5> QED BY <5>1 DEF ToSet
      <4> QED BY <4>1, <4>2
    <3>4. ToSet(frames') \cup {h} \subseteq ToSet(frames) BY <1>4, <1>7, <2>1, <3>2 DEF ToSet
    <3> QED BY <3>3, <3>4
  <2> QED BY <2>2, <2>3
<1>14. \A o \in Verdicts : Offered(o)' = Offered(o) /\ ToCount(o)' = ToCount(o)
  BY <1>1 DEF Offered, ToCount
<1>15. InOrder'
  <2>1. Offered("sent")' = Offered("sent") BY <1>14 DEF Verdicts
  <2> QED BY <1>1, <1>5, <1>8, <1>9, <1>10, <1>11, <1>12, <1>13, <2>1 DEF InOrder
<1>16. BackpressureTypeOK'
  <2>1. rx_open' \in BOOLEAN /\ clearing' \in BOOLEAN BY <1>0, <1>1 DEF BackpressureTypeOK
  <2> QED BY <1>0, <1>1, <1>3, <1>4, <2>1 DEF BackpressureTypeOK
<1>17. \A o \in Verdicts : Counting(o)' BY <1>0, <1>1, <1>14 DEF Counting
<1> QED BY <1>0, <1>1, <1>15, <1>16, <1>17 DEF BackpressureInv

\* The receiver goes with what is still queued.
LEMMA DropReceiverKeeps ==
  ASSUME BackpressureInv, DropReceiver
  PROVE  BackpressureInv'
<1>0. /\ BackpressureTypeOK /\ InOrder /\ (\A o \in Verdicts : Counting(o)) /\ (clearing => resets # 0)
  BY DEF BackpressureInv
<1>1. /\ rx_open' = FALSE /\ frames' = <<>> /\ received' = received
      /\ sending' = sending /\ metrics' = metrics /\ clearing' = clearing
      /\ offered' = offered /\ fate' = fate /\ resets' = resets
  BY DEF DropReceiver
<1>2. \A o \in Verdicts : Offered(o)' = Offered(o) /\ ToCount(o)' = ToCount(o)
  BY <1>1 DEF Offered, ToCount
<1>3. InOrder' BY <1>0, <1>1 DEF InOrder, Rising
<1>4. BackpressureTypeOK'
  <2>1. rx_open' \in BOOLEAN /\ clearing' \in BOOLEAN BY <1>0, <1>1 DEF BackpressureTypeOK
  <2> QED BY <1>0, <1>1, <2>1 DEF BackpressureTypeOK
<1>5. \A o \in Verdicts : Counting(o)' BY <1>0, <1>1, <1>2 DEF Counting
<1> QED BY <1>0, <1>1, <1>3, <1>4, <1>5 DEF BackpressureInv

\* The two stores of reset only lower a count, and a reset has begun before
\* its second store.
LEMMA ResetKeeps ==
  ASSUME BackpressureInv, ResetDropped \/ ResetSent
  PROVE  BackpressureInv'
<1>0. /\ BackpressureTypeOK /\ InOrder /\ (\A o \in Verdicts : Counting(o)) /\ (clearing => resets # 0)
  BY DEF BackpressureInv
<1>1. PICK v \in Verdicts : metrics' = [metrics EXCEPT ![v] = 0]
  BY DEF ResetDropped, ResetSent, Verdicts
<1>2. /\ frames' = frames /\ rx_open' = rx_open /\ sending' = sending /\ received' = received
      /\ offered' = offered /\ fate' = fate
  BY DEF ResetDropped, ResetSent
<1>3. resets' \in Nat /\ resets' # 0
  BY <1>0 DEF ResetDropped, ResetSent, BackpressureTypeOK
<1>4. clearing' \in BOOLEAN BY DEF ResetDropped, ResetSent
<1>5. metrics \in [Verdicts -> Nat] /\ [sent : Nat, dropped : Nat] = [Verdicts -> Nat]
  <2>1. [sent : Nat, dropped : Nat] = [Verdicts -> Nat]
    BY DEF Verdicts
  <2> QED BY <1>0, <2>1 DEF BackpressureTypeOK
<1>6. metrics' \in [Verdicts -> Nat] /\ \A o \in Verdicts : metrics'[o] <= metrics[o]
  BY <1>1, <1>5
<1>7. \A o \in Verdicts : Offered(o)' = Offered(o) /\ ToCount(o)' = ToCount(o)
  BY <1>2 DEF Offered, ToCount
<1>8. InOrder'
  <2>1. Offered("sent")' = Offered("sent") BY <1>7 DEF Verdicts
  <2> QED BY <1>0, <1>2, <2>1 DEF InOrder
<1>9. BackpressureTypeOK'
  <2>1. rx_open' \in BOOLEAN BY <1>0, <1>2 DEF BackpressureTypeOK
  <2>2. metrics' \in [sent : Nat, dropped : Nat] BY <1>5, <1>6
  <2> QED BY <1>0, <1>2, <1>3, <1>4, <2>1, <2>2 DEF BackpressureTypeOK
<1>f. \A o \in Verdicts : IsFiniteSet(ToCount(o)) /\ IsFiniteSet(Offered(o))
  <2>1. IsFiniteSet(1 .. offered) BY <1>0, FS_Interval DEF BackpressureTypeOK
  <2>2. IsFiniteSet(Senders) BY BackpressureAssumption
  <2>3. DOMAIN fate = 1 .. offered BY <1>0, LenProperties DEF BackpressureTypeOK
  <2>4. \A o \in Verdicts : ToCount(o) \subseteq Senders /\ Offered(o) \subseteq 1 .. offered
    BY <2>3 DEF ToCount, Offered
  <2> QED BY <2>1, <2>2, <2>4, FS_Subset
<1>10. \A o \in Verdicts : Counting(o)'
  <2> SUFFICES ASSUME NEW o \in Verdicts PROVE Counting(o)' OBVIOUS
  <2>1. Cardinality(ToCount(o)) \in Nat /\ Cardinality(Offered(o)) \in Nat
    BY <1>f, FS_CardinalityType
  <2>2. metrics[o] \in Nat /\ metrics'[o] \in Nat /\ metrics'[o] <= metrics[o] BY <1>5, <1>6
  <2>3. metrics[o] + Cardinality(ToCount(o)) <= Cardinality(Offered(o)) BY <1>0 DEF Counting
  <2> QED BY <1>3, <1>7, <2>1, <2>2, <2>3 DEF Counting
<1> QED BY <1>3, <1>8, <1>9, <1>10 DEF BackpressureInv

\* Every step of the channel's users keeps the invariant.
LEMMA BackpressureInvStep ==
  ASSUME BackpressureInv, BackpressureNext
  PROVE  BackpressureInv'
<1>1. \A s \in Senders : send_with_backpressure(s) => try_send(s) BY DEF send_with_backpressure
<1> QED BY <1>1, TrySendKeeps, CountFrameKeeps, ReceiveKeeps, DropReceiverKeeps, ResetKeeps
        DEF BackpressureNext


-----------------------------------------------------------------------------
\* The serialization buffer of a thread

SerBufferInv ==
  /\ buf_stats \in [reuse : Nat, growth : Nat, peak : Nat, capacity : Nat]
  /\ CallbackSeesValue

\* What a write leaves in the statistics.
LEMMA WrittenFacts ==
  ASSUME SerBufferInv, NEW pieces, Len(pieces) \in Nat, NEW whole \in BOOLEAN
  PROVE  LET w == Written(pieces, whole)
         IN  /\ w.bytes = pieces
             /\ w.stats \in [reuse : Nat, growth : Nat, peak : Nat, capacity : Nat]
             /\ whole => /\ w.stats.peak >= Len(pieces)
                         /\ Len(pieces) > InitialCapacity => w.stats.growth = 1
<1> DEFINE cap == Larger(buf_stats.capacity, Len(pieces))
           top == Larger(buf_stats.peak, Len(pieces))
<1>1. /\ buf_stats.reuse \in Nat /\ buf_stats.growth \in Nat /\ buf_stats.peak \in Nat
      /\ buf_stats.capacity \in Nat /\ InitialCapacity \in Nat
  BY SerializationAssumption DEF SerBufferInv
<1>2. cap \in Nat /\ cap >= Len(pieces) /\ top \in Nat /\ top >= Len(pieces) BY <1>1 DEF Larger
<1>3. PICK r \in Nat : r = buf_stats.reuse +
                             (IF buffer # <<>> \/ buf_stats.peak > 0 THEN 1 ELSE 0)
  BY <1>1
<1>4. Written(pieces, whole) =
        [bytes |-> pieces,
         stats |-> [reuse |-> r,
                    growth |-> IF whole /\ cap > InitialCapacity THEN 1 ELSE buf_stats.growth,
                    peak |-> IF whole THEN top ELSE buf_stats.peak,
                    capacity |-> cap]]
  BY <1>3 DEF Written
<1> HIDE DEF cap, top
<1>5. CASE whole BY <1>1, <1>2, <1>3, <1>4, <1>5
<1>6. CASE ~whole BY <1>1, <1>2, <1>3, <1>4, <1>6
<1> QED BY <1>5, <1>6

\* No callback is under way at the start.
LEMMA SerBufferInvInit == SerBufferInit => SerBufferInv
BY SerializationAssumption DEF SerBufferInit, SerBufferInv, CallbackSeesValue

\* A callback is called with the buffer just written; while it runs nobody
\* else writes.
LEMMA SerBufferInvStep ==
  ASSUME SerBufferInv, SerBufferNext
  PROVE  SerBufferInv'
<1>1. ASSUME NEW v \in Payloads, with_buffer(v) PROVE SerBufferInv'
  <2> DEFINE w == Written(v, TRUE)
  <2>1. v \in Seq(ToSet(v)) BY SerializationAssumption
  <2>2. Len(v) \in Nat BY <2>1, LenProperties
  <2>3. /\ w.bytes = v
        /\ w.stats \in [reuse : Nat, growth : Nat, peak : Nat, capacity : Nat]
        /\ w.stats.peak >= Len(v)
        /\ Len(v) > InitialCapacity => w.stats.growth = 1
    BY <2>2, WrittenFacts
  <2>4. buffer' = w.bytes /\ buf_stats' = w.stats /\ calls' = <<v>> BY <1>1 DEF with_buffer
  <2> HIDE DEF w
  <2>5. Head(calls') = v BY <2>4
  <2> QED BY <2>3, <2>4, <2>5 DEF SerBufferInv, CallbackSeesValue
<1>2. ASSUME NEW v \in Payloads, NEW n \in 0 .. Len(v), with_buffer_fails(v, n) PROVE SerBufferInv'
  <2> DEFINE p == SubSeq(v, 1, n)
             w == Written(p, FALSE)
  <2>1. v \in Seq(ToSet(v)) BY SerializationAssumption
  <2>2. Len(p) \in Nat
    <3>1. Len(v) \in Nat BY <2>1, LenProperties
    <3>2. p \in Seq(ToSet(v)) BY <2>1, <3>1, SubSeqProperties
    <3> QED BY <3>2, LenProperties
  <2>3. w.stats \in [reuse : Nat, growth : Nat, peak : Nat, capacity : Nat]
    BY <2>2, WrittenFacts
  <2>4. buf_stats' = w.stats /\ calls' = calls /\ calls = <<>> BY <1>2 DEF with_buffer_fails
  <2> HIDE DEF w
  <2> QED BY <2>3, <2>4 DEF SerBufferInv, CallbackSeesValue
<1>3. CASE with_buffer_nested \/ CallbackReturns
  <2>1. buf_stats' = buf_stats /\ calls' = <<>> BY <1>3 DEF with_buffer_nested, CallbackReturns
  <2> QED BY <2>1 DEF SerBufferInv, CallbackSeesValue
<1> QED BY <1>1, <1>2, <1>3 DEF SerBufferNext

-----------------------------------------------------------------------------
\* The monitor of the queue's depth

MonitorInv ==
  /\ announced = bp_status
  /\ \/ observed = -1 /\ bp_status = "Normal"
     \/ observed \in 0 .. QueueCapacity /\ bp_status = check(observed)

\* A deeper queue is not judged milder, and a full one is Critical.
LEMMA CheckFacts ==
  /\ check(QueueCapacity) = "Critical"
  /\ \A d, e \in Nat : d <= e => Severity[check(d)] <= Severity[check(e)]
<1> DEFINE high == CriticalThreshold * QueueCapacity
           low == WarnThreshold * QueueCapacity
<1>1. /\ QueueCapacity \in Nat /\ WarnThreshold \in Nat /\ CriticalThreshold \in Nat
      /\ CriticalThreshold <= 100
  BY BatchingAssumption DEF ValidBatchConfig
<1>2. high \in Nat /\ low \in Nat BY <1>1
<1>3. high <= QueueCapacity * 100
  <2>1. \A c, q \in Nat : c <= 100 => c * q <= q * 100 OBVIOUS
  <2> QED BY <1>1, <2>1
<1>4. \A d : check(d) = IF d * 100 >= high THEN "Critical"
                        ELSE IF d * 100 >= low THEN "Warning" ELSE "Normal"
  BY DEF check
<1> HIDE DEF high, low
<1>5. check(QueueCapacity) = "Critical" BY <1>1, <1>2, <1>3, <1>4
<1>6. ASSUME NEW d \in Nat, NEW e \in Nat, d <= e PROVE Severity[check(d)] <= Severity[check(e)]
  <2>1. d * 100 <= e * 100 /\ d * 100 \in Nat /\ e * 100 \in Nat BY <1>6
  <2>2. Severity["Normal"] = 0 /\ Severity["Warning"] = 1 /\ Severity["Critical"] = 2 BY DEF Severity
  <2>3. CASE d * 100 >= high
    <3>1. check(d) = "Critical" /\ check(e) = "Critical" BY <1>2, <1>4, <2>1, <2>3
    <3> QED BY <2>2, <3>1
  <2>4. CASE ~(d * 100 >= high) /\ d * 100 >= low
    <3>1. check(d) = "Warning" /\ check(e) \in {"Warning", "Critical"} BY <1>2, <1>4, <2>1, <2>4
    <3> QED BY <2>2, <3>1
  <2>5. CASE ~(d * 100 >= high) /\ ~(d * 100 >= low)
    <3>1. check(d) = "Normal" /\ check(e) \in {"Normal", "Warning", "Critical"} BY <1>4, <2>5
    <3> QED BY <2>2, <3>1
  <2> QED BY <2>3, <2>4, <2>5
<1> QED BY <1>5, <1>6

\* The status of the last depth is as severe as that of any smaller one.
LEMMA MonitorShown == MonitorInv => MonitorSound
<1> SUFFICES ASSUME MonitorInv PROVE MonitorSound OBVIOUS
<1>1. QueueCapacity \in Nat BY BatchingAssumption DEF ValidBatchConfig
<1>2. ASSUME NEW d \in 0 .. QueueCapacity, d <= observed
      PROVE  Severity[check(d)] <= Severity[bp_status]
  <2>1. d \in Nat /\ d >= 0 BY <1>1
  <2>2. observed # -1 BY <1>2, <2>1
  <2>3. observed \in Nat /\ bp_status = check(observed) BY <1>1, <2>2 DEF MonitorInv
  <2> QED BY <1>2, <2>1, <2>3, CheckFacts
<1> QED BY <1>2, CheckFacts DEF MonitorSound, MonitorInv


-----------------------------------------------------------------------------
(***************************************************************************)
(* Batches.  What FoldLeft and FlattenSeq make of a sequence and one more  *)
(* element is shown by induction on the length, as a statement about sets  *)
(* of numbers.                                                             *)
(***************************************************************************)

\* A set of numbers that is not empty has a least one.
LEMMA LeastNatural ==
  ASSUME NEW T \in SUBSET Nat, T # {}
  PROVE  \E n \in T : \A m \in T : n <= m
<1> DEFINE R == OpToRel(<, Nat)
<1>1. IsWellFoundedOn(R, Nat) BY NatLessThanWellFounded
<1>2. \A x, y \in Nat : x < y => <<x, y>> \in R BY DEF OpToRel
<1> HIDE DEF R
<1>3. PICK n \in T : \A y \in T : ~(<<y, n>> \in R) BY <1>1, WFMin
<1>4. \A y \in T : y \in Nat /\ ~(y < n) BY <1>2, <1>3
<1>5. n \in T /\ n \in Nat OBVIOUS
<1> QED BY <1>4, <1>5

\* A set that has 0 and with every number the next one has them all.
LEMMA Induction ==
  ASSUME NEW S, 0 \in S, \A n \in Nat : n \in S => n + 1 \in S
  PROVE  Nat \subseteq S
<1> SUFFICES ASSUME ~(Nat \subseteq S) PROVE FALSE OBVIOUS
<1> DEFINE T == Nat \ S
<1>1. T # {} /\ T \in SUBSET Nat OBVIOUS
<1> HIDE DEF T
<1>2. PICK n \in T : \A m \in T : n <= m BY <1>1, LeastNatural
<1>3. n \in Nat /\ n # 0 /\ n \notin S BY DEF T
<1>4. n - 1 \in Nat /\ n - 1 \notin T BY <1>2, <1>3, <1>1
<1>5. n - 1 \in S BY <1>4 DEF T
<1> QED BY <1>3, <1>4, <1>5

\* Max of some of the numbers up to N.
LEMMA MaxFacts ==
  ASSUME NEW N \in Nat, NEW T \in SUBSET (1 .. N), T # {}
  PROVE  Max(T) \in T /\ \A y \in T : y <= Max(T)
<1> DEFINE D == {N - x : x \in T}
<1>1. \A x \in T : x \in Nat /\ N - x \in Nat OBVIOUS
<1>2. D \in SUBSET Nat /\ D # {} BY <1>1
<1> HIDE DEF D
<1>3. PICK n \in D : \A m \in D : n <= m BY <1>2, LeastNatural
<1>4. PICK x \in T : n = N - x BY DEF D
<1>5. \A y \in T : n <= N - y BY <1>3 DEF D
<1>6. \A y \in T : x >= y BY <1>1, <1>4, <1>5
<1>7. \E z \in T : \A y \in T : z >= y BY <1>6
<1>8. Max(T) \in T /\ \A y \in T : Max(T) >= y BY <1>7 DEF Max
<1> QED BY <1>1, <1>8

\* The function on sets of places that FoldLeft takes the sizes of ms with.
IsTally(t, ms, S) ==
  t = [T \in SUBSET S |-> IF T = {} THEN 0 ELSE t[T \ {Max(T)}] + ms[Max(T)].size]

HasTally(n, ms) == \E t \in [SUBSET (1 .. n) -> Int] : IsTally(t, ms, 1 .. n)

\* There is one.
LEMMA TallyExists ==
  ASSUME NEW N \in Nat, NEW ms, \A i \in 1 .. N : ms[i].size \in Int
  PROVE  HasTally(N, ms)
<1> DEFINE K == {n \in Nat : n <= N => HasTally(n, ms)}
<1>1. 0 \in K
  <2> DEFINE t == [T \in SUBSET (1 .. 0) |-> 0]
  <2>1. t \in [SUBSET (1 .. 0) -> Int] OBVIOUS
  <2>2. \A T \in SUBSET (1 .. 0) : T = {} OBVIOUS
  <2>3. IsTally(t, ms, 1 .. 0) BY <2>2 DEF IsTally
  <2> HIDE DEF t
  <2>4. HasTally(0, ms) BY <2>1, <2>3 DEF HasTally
  <2> QED BY <2>4
<1>2. ASSUME NEW n \in Nat, n \in K PROVE n + 1 \in K
  <2> SUFFICES ASSUME n + 1 <= N PROVE HasTally(n + 1, ms) OBVIOUS
  <2>0. HasTally(n, ms) BY <1>2
  <2>1. PICK t \in [SUBSET (1 .. n) -> Int] : IsTally(t, ms, 1 .. n) BY <2>0 DEF HasTally
  <2>2. PICK z \in Int : z = ms[n + 1].size
    <3>1. n + 1 \in 1 .. N OBVIOUS
    <3> QED BY <3>1
  <2> DEFINE u == [T \in SUBSET (1 .. n + 1) |->
                     IF n + 1 \in T THEN t[T \ {n + 1}] + z ELSE t[T]]
  <2>3. \A T \in SUBSET (1 .. n + 1) : T \ {n + 1} \in SUBSET (1 .. n)
                                       /\ (n + 1 \notin T => T \in SUBSET (1 .. n))
    OBVIOUS
  <2>4. u \in [SUBSET (1 .. n + 1) -> Int] BY <2>2, <2>3
  <2>5. ASSUME NEW T \in SUBSET (1 .. n + 1)
        PROVE  u[T] = IF T = {} THEN 0 ELSE u[T \ {Max(T)}] + ms[Max(T)].size
    <3>1. \A U \in SUBSET (1 .. n) : t[U] = IF U = {} THEN 0 ELSE t[U \ {Max(U)}] + ms[Max(U)].size
      BY <2>1 DEF IsTally
    <3>2. CASE n + 1 \in T
      <4>1. n + 1 \in Nat /\ T # {} BY <3>2
      <4>2. Max(T) \in T /\ \A y \in T : y <= Max(T) BY <4>1, MaxFacts
      <4>a. Max(T) \in 1 .. n + 1 /\ n + 1 <= Max(T) BY <3>2, <4>2
      <4>3. Max(T) = n + 1 BY <4>1, <4>a
      <4> DEFINE V == T \ {n + 1}
      <4>4. V \in SUBSET (1 .. n + 1) /\ n + 1 \notin V BY <2>3
      <4>5. u[T] = t[V] + z BY <3>2
      <4>6. u[V] = t[V] BY <4>4
      <4> HIDE DEF u, V
      <4> QED BY <2>2, <4>1, <4>3, <4>5, <4>6 DEF V
    <3>3. CASE n + 1 \notin T /\ T # {}
      <4>1. T \in SUBSET (1 .. n) BY <2>3, <3>3
      <4>2. Max(T) \in T BY <3>3, <4>1, MaxFacts
      <4> DEFINE V == T \ {Max(T)}
      <4>3. V \in SUBSET (1 .. n + 1) /\ n + 1 \notin V BY <3>3
      <4>4. u[T] = t[T] /\ u[V] = t[V] BY <3>3, <4>3
      <4>5. t[T] = t[V] + ms[Max(T)].size BY <3>1, <3>3, <4>1
      <4> HIDE DEF u, V
      <4> QED BY <3>3, <4>4, <4>5 DEF V
    <3>4. CASE T = {}
      <4>1. T \in SUBSET (1 .. n) /\ n + 1 \notin T BY <3>4
      <4>2. u[T] = t[T] /\ t[T] = 0 BY <3>1, <3>4, <4>1
      <4> QED BY <3>4, <4>2
    <3> QED BY <3>2, <3>3, <3>4
  <2> HIDE DEF u
  <2>6. IsTally(u, ms, 1 .. n + 1) BY <2>4, <2>5 DEF IsTally
  <2> QED BY <2>4, <2>6 DEF HasTally
<1> HIDE DEF K
<1>3. Nat \subseteq K BY <1>1, <1>2, Induction
<1> QED BY <1>3 DEF K

\* The sizes of the first k messages, for every k.
IsRunning(g, ms) ==
  /\ g \in [0 .. Len(ms) -> Int] /\ g[0] = 0
  /\ \A k \in 1 .. Len(ms) : g[k] = g[k - 1] + ms[k].size

Message == [id : Nat, size : Nat, enqueued_at : Nat \ {0}]

\* FoldLeft adds them up from the first to the last.
LEMMA SizesRun ==
  ASSUME NEW ms \in Seq(Message)
  PROVE  \E g : IsRunning(g, ms) /\ Sizes(ms) = g[Len(ms)]
<1> DEFINE N == Len(ms)
           t == CHOOSE t : t = [T \in SUBSET DOMAIN ms |->
                  IF T = {} THEN 0 ELSE t[T \ {Max(T)}] + ms[Max(T)].size]
<1>1. Sizes(ms) = t[DOMAIN ms] BY DEF Sizes, FoldLeft, MapThenFoldSet
<1>2. DOMAIN ms = 1 .. N /\ N \in Nat BY LenProperties
<1>3. \A i \in 1 .. N : ms[i] \in Message BY <1>2, ElementOfSeq
<1>4. \A i \in 1 .. N : ms[i].size \in Int BY <1>3 DEF Message
<1>5. PICK r \in [SUBSET (1 .. N) -> Int] : IsTally(r, ms, 1 .. N)
  BY <1>2, <1>4, TallyExists DEF HasTally
<1>6. IsTally(t, ms, 1 .. N) BY <1>2, <1>5 DEF IsTally
<1> HIDE DEF t
<1>7. \A T \in SUBSET (1 .. N) : t[T] = IF T = {} THEN 0 ELSE t[T \ {Max(T)}] + ms[Max(T)].size
  BY <1>6 DEF IsTally
<1>8. t[{}] = 0 BY <1>7
<1>9. ASSUME NEW k \in 1 .. N PROVE t[1 .. k] = t[1 .. k - 1] + ms[k].size
  <2>1. 1 .. k \in SUBSET (1 .. N) /\ 1 .. k # {} /\ k \in Nat /\ k \in 1 .. k BY <1>2
  <2>2. Max(1 .. k) \in 1 .. k /\ \A y \in 1 .. k : y <= Max(1 .. k) BY <2>1, MaxFacts
  <2>3. Max(1 .. k) = k BY <2>1, <2>2
  <2>4. (1 .. k) \ {k} = 1 .. k - 1 BY <2>1
  <2> QED BY <1>7, <2>1, <2>3, <2>4
<1> DEFINE g == [k \in 0 .. N |-> t[1 .. k]]
           C == {k \in Nat : k <= N => t[1 .. k] \in Int}
<1>10. Nat \subseteq C
  <2>1. 0 \in C
    <3>1. 1 .. 0 = {} OBVIOUS
    <3> QED BY <1>8, <3>1
  <2>2. ASSUME NEW k \in Nat, k \in C PROVE k + 1 \in C
    <3> SUFFICES ASSUME k + 1 <= N PROVE t[1 .. k + 1] \in Int OBVIOUS
    <3>1. k + 1 \in 1 .. N /\ (k + 1) - 1 = k /\ t[1 .. k] \in Int BY <1>2, <2>2
    <3>2. t[1 .. k + 1] = t[1 .. (k + 1) - 1] + ms[k + 1].size BY <1>9, <3>1
    <3> QED BY <1>4, <3>1, <3>2
  <2> HIDE DEF C
  <2> QED BY <2>1, <2>2, Induction
<1>11. g \in [0 .. N -> Int] /\ \A k \in 0 .. N : g[k] = t[1 .. k] BY <1>2, <1>10
<1> HIDE DEF g
<1>12. g[0] = 0
  <2>1. 1 .. 0 = {} /\ 0 \in 0 .. N BY <1>2
  <2> QED BY <1>8, <1>11, <2>1
<1>13. \A k \in 1 .. N : g[k] = g[k - 1] + ms[k].size
  <2>1. \A k \in 1 .. N : k \in 0 .. N /\ k - 1 \in 0 .. N BY <1>2
  <2> QED BY <1>9, <1>11, <2>1
<1>14. Sizes(ms) = g[N]
  <2>1. N \in 0 .. N BY <1>2
  <2> QED BY <1>1, <1>2, <1>11, <2>1
<1>15. IsRunning(g, ms) BY <1>11, <1>12, <1>13 DEF IsRunning
<1> QED BY <1>14, <1>15

\* One message more adds its size.
LEMMA SizesAppend ==
  ASSUME NEW ms \in Seq(Message), NEW m \in Message
  PROVE  Sizes(Append(ms, m)) = Sizes(ms) + m.size
<1> DEFINE ns == Append(ms, m)
           N == Len(ms)
<1>1. /\ N \in Nat /\ ns \in Seq(Message) /\ Len(ns) = N + 1 /\ ns[N + 1] = m
      /\ \A i \in 1 .. N : ns[i] = ms[i]
  BY LenProperties
<1>2. PICK g : IsRunning(g, ms) /\ Sizes(ms) = g[N] BY SizesRun
<1>3. PICK h : IsRunning(h, ns) /\ Sizes(ns) = h[Len(ns)] BY <1>1, SizesRun
<1> HIDE DEF ns, N
<1>4. g[0] = 0 /\ \A k \in 1 .. N : g[k] = g[k - 1] + ms[k].size BY <1>2 DEF IsRunning, N
<1>5. h[0] = 0 /\ \A k \in 1 .. N + 1 : h[k] = h[k - 1] + ns[k].size BY <1>1, <1>3 DEF IsRunning
<1> DEFINE C == {k \in Nat : k <= N => h[k] = g[k]}
<1>6. 0 \in C BY <1>4, <1>5
<1>7. ASSUME NEW k \in Nat, k \in C PROVE k + 1 \in C
  <2> SUFFICES ASSUME k + 1 <= N PROVE h[k + 1] = g[k + 1] OBVIOUS
  <2>1. k + 1 \in 1 .. N /\ k + 1 \in 1 .. N + 1 /\ (k + 1) - 1 = k /\ h[k] = g[k] BY <1>1, <1>7
  <2>2. /\ g[k + 1] = g[(k + 1) - 1] + ms[k + 1].size /\ h[k + 1] = h[(k + 1) - 1] + ns[k + 1].size
        /\ ns[k + 1] = ms[k + 1]
    BY <1>1, <1>4, <1>5, <2>1
  <2> QED BY <2>1, <2>2
<1> HIDE DEF C
<1>8. Nat \subseteq C BY <1>6, <1>7, Induction
<1>9. h[N] = g[N] BY <1>1, <1>8 DEF C
<1>10. N + 1 \in 1 .. N + 1 /\ (N + 1) - 1 = N BY <1>1
<1>11. h[N + 1] = h[(N + 1) - 1] + ns[N + 1].size BY <1>5, <1>10
<1> QED BY <1>1, <1>2, <1>3, <1>9, <1>10, <1>11 DEF ns

\* No messages have no size.
LEMMA SizesEmpty == Sizes(<<>>) = 0
<1>1. <<>> \in Seq(Message) /\ Len(<<>>) = 0 OBVIOUS
<1>2. PICK g : IsRunning(g, <<>>) /\ Sizes(<<>>) = g[Len(<<>>)] BY <1>1, SizesRun
<1> QED BY <1>1, <1>2 DEF IsRunning


\* The first k sequences of s joined, for every k.
IsJoin(f, A, s) ==
  /\ f \in [0 .. Len(s) -> Seq(A)] /\ f[0] = <<>>
  /\ \A k \in 1 .. Len(s) : f[k] = f[k - 1] \o s[k]

HasJoin(A, s) == \E f : IsJoin(f, A, s)

\* One sequence more.
LEMMA JoinAppend ==
  ASSUME NEW A, NEW s \in Seq(Seq(A)), NEW t \in Seq(A), NEW f, IsJoin(f, A, s)
  PROVE  \E g : IsJoin(g, A, Append(s, t)) /\ g[Len(s) + 1] = f[Len(s)] \o t
<1> DEFINE N == Len(s)
           r == Append(s, t)
           x == f[N] \o t
           g == [k \in 0 .. N + 1 |-> IF k <= N THEN f[k] ELSE x]
<1>1. /\ N \in Nat /\ r \in Seq(Seq(A)) /\ Len(r) = N + 1 /\ r[N + 1] = t
      /\ \A i \in 1 .. N : r[i] = s[i]
  BY LenProperties
<1>2. f \in [0 .. N -> Seq(A)] /\ f[0] = <<>> /\ \A k \in 1 .. N : f[k] = f[k - 1] \o s[k]
  BY DEF IsJoin
<1>3. f[N] \in Seq(A) /\ x \in Seq(A)
  <2>1. N \in 0 .. N BY <1>1
  <2>2. f[N] \in Seq(A) BY <1>2, <2>1
  <2> QED BY <2>2, ConcatProperties
<1> HIDE DEF N, r, x
<1>4. g \in [0 .. N + 1 -> Seq(A)] BY <1>1, <1>2, <1>3
<1>5. g[0] = <<>> /\ g[N + 1] = x /\ \A k \in 0 .. N : g[k] = f[k] BY <1>1, <1>2
<1> HIDE DEF g
<1>6. ASSUME NEW k \in 1 .. N + 1 PROVE g[k] = g[k - 1] \o r[k]
  <2>1. CASE k \in 1 .. N
    <3>1. k \in 0 .. N /\ k - 1 \in 0 .. N BY <1>1, <2>1
    <3> QED BY <1>1, <1>2, <1>5, <2>1, <3>1
  <2>2. CASE k = N + 1
    <3>1. k - 1 = N /\ N \in 0 .. N BY <1>1, <2>2
    <3> QED BY <1>1, <1>5, <2>2, <3>1 DEF x
  <2> QED BY <1>1, <2>1, <2>2
<1>7. IsJoin(g, A, r) BY <1>1, <1>4, <1>5, <1>6 DEF IsJoin
<1> QED BY <1>5, <1>7 DEF r, x, N

\* The sequences can be joined, however many they are.
LEMMA JoinExists ==
  ASSUME NEW A, NEW s \in Seq(Seq(A))
  PROVE  HasJoin(A, s)
<1> DEFINE B == Seq(Seq(A))
           C == {n \in Nat : \A r \in B : Len(r) = n => HasJoin(A, r)}
<1>1. 0 \in C
  <2> SUFFICES ASSUME NEW r \in B, Len(r) = 0 PROVE HasJoin(A, r) OBVIOUS
  <2> DEFINE f == [k \in 0 .. 0 |-> <<>>]
  <2>1. f \in [0 .. 0 -> Seq(A)] /\ f[0] = <<>>
    <3>1. <<>> \in Seq(A) OBVIOUS
    <3> QED BY <3>1
  <2> HIDE DEF f
  <2>2. IsJoin(f, A, r) BY <2>1 DEF IsJoin
  <2> QED BY <2>2 DEF HasJoin
<1>2. ASSUME NEW n \in Nat, n \in C PROVE n + 1 \in C
  <2> SUFFICES ASSUME NEW r \in B, Len(r) = n + 1 PROVE HasJoin(A, r) OBVIOUS
  <2> DEFINE q == Front(r)
             l == Last(r)
  <2>1. r # <<>> BY EmptySeq
  <2>2. q \in B /\ Len(q) = n /\ l \in Seq(A) /\ r = Append(q, l)
    <3>1. Front(r) = SubSeq(r, 1, n) /\ Last(r) = r[n + 1] BY DEF Front, Last
    <3>2. r \in Seq(Seq(A)) /\ n \in 0 .. Len(r) /\ n + 1 \in 1 .. Len(r) OBVIOUS
    <3> QED BY <3>1, <3>2, <2>1
  <2> HIDE DEF q, l
  <2>3. PICK f : IsJoin(f, A, q) BY <1>2, <2>2 DEF HasJoin
  <2>4. PICK g : IsJoin(g, A, Append(q, l)) BY <2>2, <2>3, JoinAppend
  <2> QED BY <2>2, <2>4 DEF HasJoin
<1> HIDE DEF C
<1>3. Nat \subseteq C BY <1>1, <1>2, Induction
<1>4. Len(s) \in C BY <1>3, LenProperties
<1> QED BY <1>4 DEF C

\* FlattenSeq joins them.
LEMMA FlattenJoins ==
  ASSUME NEW A, NEW s \in Seq(Seq(A)), NEW f, IsJoin(f, A, s)
  PROVE  FlattenSeq(s) = f[Len(s)]
<1> DEFINE N == Len(s)
           u == CHOOSE u : u = [i \in 1 .. Len(s) |-> IF i = 1 THEN s[i] ELSE u[i - 1] \o s[i]]
           v == [i \in 1 .. N |-> f[i]]
<1>1. N \in Nat /\ DOMAIN s = 1 .. N BY LenProperties
<1>2. f \in [0 .. N -> Seq(A)] /\ f[0] = <<>> /\ \A k \in 1 .. N : f[k] = f[k - 1] \o s[k]
  BY DEF IsJoin
<1>3. CASE N = 0
  <2>1. s = <<>> BY <1>3, EmptySeq
  <2>2. FlattenSeq(s) = s BY <1>3 DEF FlattenSeq
  <2> QED BY <1>2, <1>3, <2>1, <2>2
<1>4. CASE N # 0
  <2>1. FlattenSeq(s) = u[N] BY <1>4 DEF FlattenSeq
  <2>2. ASSUME NEW i \in 1 .. N PROVE v[i] = IF i = 1 THEN s[i] ELSE v[i - 1] \o s[i]
    <3>1. CASE i = 1
      <4>1. s[1] \in Seq(A) BY <2>2, <3>1, ElementOfSeq
      <4>2. <<>> \o s[1] = s[1] BY <4>1, ConcatEmptySeq
      <4>3. f[1] = f[0] \o s[1]
        <5>1. 1 \in 1 .. N BY <1>1, <1>4
        <5>2. f[1] = f[1 - 1] \o s[1] BY <1>2, <5>1
        <5>3. 1 - 1 = 0 OBVIOUS
        <5> QED BY <5>2, <5>3
      <4> QED BY <1>2, <3>1, <2>2, <4>2, <4>3
    <3>2. CASE i # 1
      <4>1. i - 1 \in 1 .. N BY <1>1, <2>2, <3>2
      <4> QED BY <1>2, <2>2, <3>2, <4>1
    <3> QED BY <3>1, <3>2
  <2>3. v = [i \in 1 .. Len(s) |-> IF i = 1 THEN s[i] ELSE v[i - 1] \o s[i]] BY <2>2
  <2>v. \A i \in 1 .. N : v[i] = f[i] OBVIOUS
  <2> HIDE DEF v
  <2>4. u = [i \in 1 .. Len(s) |-> IF i = 1 THEN s[i] ELSE u[i - 1] \o s[i]] BY <2>3
  <2> HIDE DEF u
  <2> DEFINE C == {n \in Nat : n + 1 <= N => u[n + 1] = v[n + 1]}
  <2>5. \A i \in 1 .. N : /\ u[i] = IF i = 1 THEN s[i] ELSE u[i - 1] \o s[i]
                          /\ v[i] = IF i = 1 THEN s[i] ELSE v[i - 1] \o s[i]
    BY <2>2, <2>4
  <2>6. 0 \in C
    <3>1. 1 \in 1 .. N BY <1>1, <1>4
    <3> QED BY <2>5, <3>1
  <2>7. ASSUME NEW n \in Nat, n \in C PROVE n + 1 \in C
    <3> SUFFICES ASSUME n + 1 + 1 <= N PROVE u[n + 1 + 1] = v[n + 1 + 1] OBVIOUS
    <3>1. /\ n + 1 + 1 \in 1 .. N /\ n + 1 + 1 # 1 /\ (n + 1 + 1) - 1 = n + 1
          /\ n + 1 <= N
      BY <1>1
    <3>2. u[n + 1] = v[n + 1] BY <2>7, <3>1
    <3> QED BY <2>5, <3>1, <3>2
  <2> HIDE DEF C
  <2>8. Nat \subseteq C BY <2>6, <2>7, Induction
  <2>9. u[N] = v[N]
    <3>1. N - 1 \in Nat /\ (N - 1) + 1 = N /\ (N - 1) + 1 <= N BY <1>1, <1>4
    <3>2. N - 1 \in C BY <2>8, <3>1
    <3> QED BY <3>1, <3>2 DEF C
  <2>10. N \in 1 .. N BY <1>1, <1>4
  <2> QED BY <2>1, <2>9, <2>10, <2>v
<1> QED BY <1>3, <1>4

\* FlattenSeq of one sequence more has that sequence at its end.
LEMMA FlattenAppend ==
  ASSUME NEW A, NEW s \in Seq(Seq(A)), NEW t \in Seq(A)
  PROVE  FlattenSeq(s) \in Seq(A) /\ FlattenSeq(Append(s, t)) = FlattenSeq(s) \o t
<1> DEFINE r == Append(s, t)
<1>1. r \in Seq(Seq(A)) /\ Len(r) = Len(s) + 1 /\ Len(s) \in Nat BY LenProperties
<1>2. PICK f : IsJoin(f, A, s) BY JoinExists DEF HasJoin
<1>3. PICK g : IsJoin(g, A, r) /\ g[Len(s) + 1] = f[Len(s)] \o t BY <1>2, JoinAppend
<1> HIDE DEF r
<1>4. FlattenSeq(s) = f[Len(s)] BY <1>2, FlattenJoins
<1>5. FlattenSeq(r) = g[Len(r)] BY <1>1, <1>3, FlattenJoins
<1>6. f[Len(s)] \in Seq(A)
  <2>1. Len(s) \in 0 .. Len(s) BY <1>1
  <2> QED BY <1>2, <2>1 DEF IsJoin
<1> QED BY <1>1, <1>3, <1>4, <1>5, <1>6 DEF r

\* Of none it is empty.
LEMMA FlattenNone == FlattenSeq(<<>>) = <<>>
BY DEF FlattenSeq


-----------------------------------------------------------------------------

Batch == [messages : Seq(Message), total_bytes : Nat, message_count : Nat]

\* A batch knows its size.
Weighed(b) == b.total_bytes = Sizes(b.messages) /\ b.message_count = Len(b.messages)

Contents(bs) == [i \in DOMAIN bs |-> bs[i].messages]

\* The batches taken, and then the one being filled, are the messages added.
BatchInv ==
  /\ batch \in Batch /\ flushed \in Seq(Batch) /\ added \in Seq(Message)
  /\ clock \in Nat \ {0} /\ first_message_at \in Nat
  /\ FlattenSeq(Contents(flushed)) \o batch.messages = added
  /\ Weighed(batch) /\ \A i \in 1 .. Len(flushed) : Weighed(flushed[i])
  /\ first_message_at = IF batch.messages = <<>> THEN 0 ELSE batch.messages[1].enqueued_at

BatchingInv == BatchInv /\ MonitorInv

\* The messages of the batches and of one more.
LEMMA ContentsAppend ==
  ASSUME NEW bs \in Seq(Batch), NEW b \in Batch
  PROVE  /\ Contents(bs) \in Seq(Seq(Message)) /\ b.messages \in Seq(Message)
         /\ Contents(Append(bs, b)) = Append(Contents(bs), b.messages)
<1> DEFINE cs == Append(bs, b)
           N == Len(bs)
           m == b.messages
           c == Contents(bs)
           d == Contents(cs)
<1>1. /\ N \in Nat /\ cs \in Seq(Batch) /\ Len(cs) = N + 1 /\ cs[N + 1] = b
      /\ \A i \in 1 .. N : cs[i] = bs[i]
  BY LenProperties
<1>2. DOMAIN bs = 1 .. N /\ DOMAIN cs = 1 .. N + 1 BY <1>1, LenProperties
<1>3. m \in Seq(Message) BY DEF Batch
<1>4. \A i \in 1 .. N : bs[i] \in Batch BY ElementOfSeq
<1>5. \A i \in 1 .. N : bs[i].messages \in Seq(Message) BY <1>4 DEF Batch
<1> HIDE DEF cs, N, m
<1>6. c = [i \in 1 .. N |-> bs[i].messages] BY <1>2 DEF Contents
<1>7. c \in Seq(Seq(Message)) /\ Len(c) = N /\ \A i \in 1 .. N : c[i] = bs[i].messages
  <2>1. c \in [1 .. N -> Seq(Message)] BY <1>5, <1>6
  <2> QED BY <1>1, <1>6, <2>1, SeqDef, LenProperties
<1>8. d = [i \in 1 .. N + 1 |-> cs[i].messages] BY <1>2 DEF Contents
<1> HIDE DEF c, d
<1> DEFINE e == Append(c, m)
<1>9. /\ e \in Seq(Seq(Message)) /\ Len(e) = N + 1 /\ e[N + 1] = m
      /\ \A i \in 1 .. N : e[i] = c[i]
  BY <1>1, <1>3, <1>7
<1>10. DOMAIN e = 1 .. N + 1 /\ e = [i \in 1 .. N + 1 |-> e[i]]
  BY <1>1, <1>9, LenProperties
<1> HIDE DEF e
<1>11. ASSUME NEW i \in 1 .. N + 1 PROVE cs[i].messages = e[i]
  <2>1. CASE i \in 1 .. N BY <1>1, <1>7, <1>9, <2>1
  <2>2. CASE i = N + 1 BY <1>1, <1>9, <2>2 DEF m
  <2> QED BY <1>1, <2>1, <2>2
<1>12. d = e BY <1>8, <1>10, <1>11
<1> QED BY <1>3, <1>7, <1>12 DEF c, d, e, m, cs

\* With the batch being filled, this is what BatchExact says.
LEMMA BatchShown == BatchInv => BatchExact
<1> SUFFICES ASSUME BatchInv PROVE BatchExact OBVIOUS
<1> DEFINE bs == Append(flushed, batch)
           N == Len(flushed)
<1>1. batch \in Batch /\ flushed \in Seq(Batch) BY DEF BatchInv
<1>2. FlattenSeq(Contents(bs)) = FlattenSeq(Contents(flushed)) \o batch.messages
  <2>1. /\ Contents(flushed) \in Seq(Seq(Message)) /\ batch.messages \in Seq(Message)
        /\ Contents(bs) = Append(Contents(flushed), batch.messages)
    BY <1>1, ContentsAppend
  <2> QED BY <2>1, FlattenAppend
<1>3. FlattenSeq([i \in DOMAIN bs |-> bs[i].messages]) = added
  BY <1>2 DEF BatchInv, Contents
<1>4. /\ N \in Nat /\ bs \in Seq(Batch) /\ Len(bs) = N + 1 /\ bs[N + 1] = batch
      /\ \A i \in 1 .. N : bs[i] = flushed[i]
  BY <1>1, LenProperties
<1>5. DOMAIN bs = 1 .. N + 1 BY <1>4, LenProperties
<1>6. ASSUME NEW i \in DOMAIN bs
      PROVE  bs[i].total_bytes = Sizes(bs[i].messages) /\ bs[i].message_count = Len(bs[i].messages)
  <2>1. i \in 1 .. N \/ i = N + 1 BY <1>4, <1>5
  <2> QED BY <1>4, <2>1 DEF BatchInv, Weighed
<1>7. latency_us <= clock BY DEF BatchInv, latency_us
<1>8. first_message_at = IF batch.messages = <<>> THEN 0 ELSE batch.messages[1].enqueued_at
  BY DEF BatchInv
<1> QED BY <1>3, <1>6, <1>7, <1>8 DEF BatchExact

\* Nothing added, nothing taken, no depth looked at.
LEMMA BatchingInvInit == BatchingInit => BatchingInv
<1> SUFFICES ASSUME BatchingInit PROVE BatchingInv OBVIOUS
<1>1. /\ batch = [messages |-> <<>>, total_bytes |-> 0, message_count |-> 0]
      /\ first_message_at = 0 /\ clock = 1 /\ added = <<>> /\ flushed = <<>>
      /\ bp_status = "Normal" /\ announced = "Normal" /\ observed = -1
  BY DEF BatchingInit, EmptyBatch
<1>2. batch \in Batch /\ flushed \in Seq(Batch) /\ added \in Seq(Message) BY <1>1 DEF Batch
<1>3. Contents(<<>>) = <<>> BY DEF Contents
<1>4. FlattenSeq(Contents(flushed)) \o batch.messages = added BY <1>1, <1>3, FlattenNone
<1>5. Weighed(batch) BY <1>1, SizesEmpty DEF Weighed
<1>6. BatchInv BY <1>1, <1>2, <1>4, <1>5 DEF BatchInv
<1> QED BY <1>1, <1>6 DEF BatchingInv, MonitorInv

\* A message joins the batch being filled.
LEMMA AddKeeps ==
  ASSUME BatchingInv, NEW size \in MessageSizes, NEW at \in {1, clock}, add(size, at)
  PROVE  BatchingInv'
<1> DEFINE m == [id |-> Len(added) + 1, size |-> size, enqueued_at |-> at]
           ms == batch.messages
<1>0. BatchInv /\ MonitorInv BY DEF BatchingInv
<1>1. /\ batch \in Batch /\ flushed \in Seq(Batch) /\ added \in Seq(Message)
      /\ clock \in Nat \ {0} /\ first_message_at \in Nat /\ at \in Nat \ {0}
      /\ Len(added) \in Nat /\ size \in Nat
  BY <1>0, LenProperties, BatchingAssumption DEF BatchInv
<1>2. m \in Message BY <1>1 DEF Message
<1>3. /\ first_message_at' = IF first_message_at = 0 THEN at ELSE first_message_at
      /\ batch' = [messages |-> Append(ms, m), total_bytes |-> batch.total_bytes + size,
                   message_count |-> batch.message_count + 1]
      /\ added' = Append(added, m)
      /\ flushed' = flushed /\ clock' = clock
      /\ bp_status' = bp_status /\ announced' = announced /\ observed' = observed
  BY DEF add, Extended
<1>4. ms \in Seq(Message) /\ batch.total_bytes \in Nat /\ batch.message_count \in Nat BY <1>1 DEF Batch
<1>5. m.size = size /\ m.enqueued_at = at OBVIOUS
<1> HIDE DEF m, ms
<1>6. Append(ms, m) \in Seq(Message) /\ Len(Append(ms, m)) = Len(ms) + 1 /\ Len(ms) \in Nat
      /\ Append(added, m) \in Seq(Message)
  BY <1>1, <1>2, <1>4
<1>7. /\ batch' \in Batch /\ batch'.messages = Append(ms, m)
      /\ batch'.total_bytes = batch.total_bytes + size /\ batch'.message_count = batch.message_count + 1
  BY <1>1, <1>3, <1>4, <1>6 DEF Batch
<1>8. Weighed(batch)'
  <2>1. batch.total_bytes = Sizes(ms) /\ batch.message_count = Len(ms) BY <1>0 DEF BatchInv, Weighed, ms
  <2>2. Sizes(Append(ms, m)) = Sizes(ms) + size BY <1>2, <1>4, <1>5, SizesAppend
  <2> QED BY <1>6, <1>7, <2>1, <2>2 DEF Weighed
<1>9. FlattenSeq(Contents(flushed)) \o Append(ms, m) = Append(added, m)
  <2>1. PICK p \in Seq(Message) : p = FlattenSeq(Contents(flushed))
    <3>1. Contents(flushed) \in Seq(Seq(Message)) BY <1>1, ContentsAppend
    <3> QED BY <1>4, <3>1, FlattenAppend
  <2>2. p \o ms = added BY <1>0, <2>1 DEF BatchInv, ms
  <2>3. p \o Append(ms, m) = Append(p \o ms, m) BY <1>2, <1>4
  <2> QED BY <2>1, <2>2, <2>3
<1>10. first_message_at' = IF batch'.messages = <<>> THEN 0 ELSE batch'.messages[1].enqueued_at
  <2>1. Append(ms, m) # <<>>
    <3>1. Len(Append(ms, m)) # 0 BY <1>6
    <3>2. Len(<<>>) = 0 OBVIOUS
    <3> QED BY <3>1, <3>2
  <2>2. CASE ms = <<>>
    <3>1. first_message_at = 0 BY <1>0, <2>2 DEF BatchInv, ms
    <3>2. Append(ms, m)[1] = m
      <4>1. Append(<<>>, m) = <<m>> BY <1>2
      <4> QED BY <2>2, <4>1
    <3> QED BY <1>3, <1>5, <1>7, <2>1, <3>1, <3>2
  <2>3. CASE ms # <<>>
    <3>1. first_message_at = ms[1].enqueued_at BY <1>0, <2>3 DEF BatchInv, ms
    <3>2. 1 \in 1 .. Len(ms) /\ ms[1] \in Message BY <1>4, <2>3, ElementOfSeq
    <3>3. ms[1].enqueued_at # 0 BY <3>2 DEF Message
    <3>4. Append(ms, m)[1] = ms[1] BY <1>2, <1>4, <3>2
    <3> QED BY <1>3, <1>7, <2>1, <3>1, <3>3, <3>4
  <2> QED BY <2>2, <2>3
<1>11. BatchInv'
  <2>1. first_message_at' \in Nat BY <1>1, <1>3
  <2>2. \A i \in 1 .. Len(flushed') : Weighed(flushed[i])' BY <1>0, <1>3 DEF BatchInv, Weighed
  <2>3. FlattenSeq(Contents(flushed))' = FlattenSeq(Contents(flushed)) BY <1>3
  <2> QED BY <1>1, <1>3, <1>6, <1>7, <1>8, <1>9, <1>10, <2>1, <2>2, <2>3 DEF BatchInv
<1>12. MonitorInv' BY <1>0, <1>3 DEF MonitorInv, check
<1> QED BY <1>11, <1>12 DEF BatchingInv

\* The batch is taken, and the next one is empty.
LEMMA TakeKeeps ==
  ASSUME BatchingInv, take
  PROVE  BatchingInv'
<1>0. BatchInv /\ MonitorInv BY DEF BatchingInv
<1>1. /\ batch \in Batch /\ flushed \in Seq(Batch) /\ added \in Seq(Message)
      /\ clock \in Nat \ {0} /\ Len(flushed) \in Nat
  BY <1>0, LenProperties DEF BatchInv
<1>2. /\ flushed' = Append(flushed, batch) /\ first_message_at' = 0
      /\ batch' = [messages |-> <<>>, total_bytes |-> 0, message_count |-> 0]
      /\ added' = added /\ clock' = clock
      /\ bp_status' = bp_status /\ announced' = announced /\ observed' = observed
  BY DEF take, EmptyBatch
<1>3. batch' \in Batch /\ batch'.messages = <<>> BY <1>2 DEF Batch
<1>4. /\ flushed' \in Seq(Batch) /\ Len(flushed') = Len(flushed) + 1
      /\ flushed'[Len(flushed) + 1] = batch
      /\ \A i \in 1 .. Len(flushed) : flushed'[i] = flushed[i]
  BY <1>1, <1>2
<1>5. /\ Contents(flushed) \in Seq(Seq(Message)) /\ batch.messages \in Seq(Message)
      /\ Contents(Append(flushed, batch)) = Append(Contents(flushed), batch.messages)
  BY <1>1, ContentsAppend
<1>6. FlattenSeq(Contents(flushed)') = added
  <2>1. FlattenSeq(Contents(Append(flushed, batch))) = FlattenSeq(Contents(flushed)) \o batch.messages
    BY <1>5, FlattenAppend
  <2>2. Contents(flushed)' = Contents(Append(flushed, batch)) BY <1>2 DEF Contents
  <2> QED BY <1>0, <2>1, <2>2 DEF BatchInv
<1>7. FlattenSeq(Contents(flushed))' \o batch'.messages = added'
  <2>1. added \o <<>> = added BY <1>1, ConcatEmptySeq
  <2> QED BY <1>2, <1>3, <1>6, <2>1
<1>8. Weighed(batch)' BY <1>2, SizesEmpty DEF Weighed
<1>9. \A i \in 1 .. Len(flushed') : Weighed(flushed[i])'
  <2> SUFFICES ASSUME NEW i \in 1 .. Len(flushed') PROVE Weighed(flushed[i])' OBVIOUS
  <2>1. i \in 1 .. Len(flushed) \/ i = Len(flushed) + 1 BY <1>1, <1>4
  <2>2. CASE i \in 1 .. Len(flushed) BY <1>0, <1>4, <2>2 DEF BatchInv, Weighed
  <2>3. CASE i = Len(flushed) + 1 BY <1>0, <1>4, <2>3 DEF BatchInv, Weighed
  <2> QED BY <2>1, <2>2, <2>3
<1>10. BatchInv' BY <1>1, <1>2, <1>3, <1>4, <1>7, <1>8, <1>9 DEF BatchInv
<1>11. MonitorInv' BY <1>0, <1>2 DEF MonitorInv, check
<1> QED BY <1>10, <1>11 DEF BatchingInv

\* Every step of the accumulator and the monitor keeps the invariant.
LEMMA BatchingInvStep ==
  ASSUME BatchingInv, BatchingNext
  PROVE  BatchingInv'
<1>0. BatchInv /\ MonitorInv BY DEF BatchingInv
<1>1. CASE Tick
  <2>1. /\ clock' = clock + 1
        /\ UNCHANGED <<batch, first_message_at, bp_status, announced, observed, added, flushed>>
    BY <1>1 DEF Tick
  <2>2. \A i \in 1 .. Len(flushed') : Weighed(flushed[i])' BY <1>0, <2>1 DEF BatchInv, Weighed
  <2>3. Weighed(batch)' BY <1>0, <2>1 DEF BatchInv, Weighed
  <2>4. FlattenSeq(Contents(flushed))' = FlattenSeq(Contents(flushed)) BY <2>1
  <2>5. BatchInv' BY <1>0, <2>1, <2>2, <2>3, <2>4 DEF BatchInv
  <2>6. MonitorInv' BY <1>0, <2>1 DEF MonitorInv, check
  <2> QED BY <2>5, <2>6 DEF BatchingInv
<1>2. ASSUME NEW depth \in 0 .. QueueCapacity, update(depth) PROVE BatchingInv'
  <2>1. /\ UNCHANGED <<batch, first_message_at, clock, added, flushed>>
        /\ bp_status' = check(depth) /\ observed' = depth
        /\ announced' = IF check(depth) # bp_status THEN check(depth) ELSE announced
    BY <1>2 DEF update
  <2>2. \A i \in 1 .. Len(flushed') : Weighed(flushed[i])' BY <1>0, <2>1 DEF BatchInv, Weighed
  <2>3. Weighed(batch)' BY <1>0, <2>1 DEF BatchInv, Weighed
  <2>4. FlattenSeq(Contents(flushed))' = FlattenSeq(Contents(flushed)) BY <2>1
  <2>5. BatchInv' BY <1>0, <2>1, <2>2, <2>3, <2>4 DEF BatchInv
  <2>6. MonitorInv' BY <1>0, <2>1 DEF MonitorInv, check
  <2> QED BY <2>5, <2>6 DEF BatchingInv
<1> QED BY <1>1, <1>2, AddKeeps, TakeKeeps DEF BatchingNext


-----------------------------------------------------------------------------
\* In the composition one part moves and the others rest.

QueuesInv == BackpressureInv /\ SerBufferInv /\ BatchingInv

\* A part that rests keeps its invariant.
LEMMA QueuesRest ==
  /\ BackpressureInv /\ UNCHANGED backpressureVars => BackpressureInv'
  /\ SerBufferInv /\ UNCHANGED serBufferVars => SerBufferInv'
  /\ BatchingInv /\ UNCHANGED batchingVars => BatchingInv'
<1>1. ASSUME BackpressureInv, UNCHANGED backpressureVars PROVE BackpressureInv'
  BY <1>1 DEF BackpressureInv, backpressureVars, BackpressureTypeOK, InOrder, Counting, Rising, ToCount,
              Offered
<1>2. ASSUME SerBufferInv, UNCHANGED serBufferVars PROVE SerBufferInv'
  BY <1>2 DEF SerBufferInv, serBufferVars, CallbackSeesValue
<1>3. ASSUME BatchingInv, UNCHANGED batchingVars PROVE BatchingInv'
  BY <1>3 DEF BatchingInv, batchingVars, BatchInv, MonitorInv, check, Weighed, Contents
<1> QED BY <1>1, <1>2, <1>3

\* Every step of the publisher layer keeps the invariant.
LEMMA QueuesInvStep == QueuesInv /\ [PublisherNext]_publisherLayerVars => QueuesInv'
<1> SUFFICES ASSUME QueuesInv, [PublisherNext]_publisherLayerVars PROVE QueuesInv' OBVIOUS
<1>0. BackpressureInv /\ SerBufferInv /\ BatchingInv BY DEF QueuesInv
<1>1. CASE UNCHANGED publisherLayerVars
  <2>1. UNCHANGED backpressureVars /\ UNCHANGED serBufferVars /\ UNCHANGED batchingVars
    BY <1>1 DEF publisherLayerVars
  <2> QED BY <1>0, <2>1, QueuesRest DEF QueuesInv
<1>2. CASE PublisherNext
  <2>1. \/ UNCHANGED backpressureVars /\ UNCHANGED serBufferVars /\ UNCHANGED batchingVars
        \/ BackpressureNext /\ UNCHANGED serBufferVars /\ UNCHANGED batchingVars
        \/ SerBufferNext /\ UNCHANGED backpressureVars /\ UNCHANGED batchingVars
        \/ BatchingNext /\ UNCHANGED backpressureVars /\ UNCHANGED serBufferVars
    BY <1>2 DEF PublisherNext
  <2> QED BY <1>0, <2>1, QueuesRest, BackpressureInvStep, SerBufferInvStep, BatchingInvStep DEF QueuesInv
<1> QED BY <1>1, <1>2

\* Whatever threads share a channel, a buffer or an accumulator, nothing is
\* lost, repeated or mixed up on its way to the publisher: each frame offered
\* is counted once as sent or dropped and arrives in order, a callback sees
\* the bytes of its own value, batches are the messages added, and the
\* monitor's status is that of the last depth (backpressure.rs, buffer.rs,
\* batch.rs).
THEOREM QueuesAlwaysExact == PublisherSpec => []QueuesExact
<1>1. PublisherInit => QueuesInv
  BY BackpressureInvInit, SerBufferInvInit, BatchingInvInit DEF PublisherInit, QueuesInv
<1>2. QueuesInv => QueuesExact
  BY FramesShown, BatchShown, MonitorShown
  DEF QueuesInv, QueuesExact, SerBufferInv, BatchingInv
<1> QED BY <1>1, <1>2, QueuesInvStep, PTL DEF PublisherSpec

=============================================================================
