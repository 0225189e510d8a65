----------------------------- MODULE Publishers -----------------------------
(***************************************************************************)
(* StreamPublisher and DualPublisher of flash/src/publisher (stream.rs,    *)
(* dual.rs), and the commands of RedisPool itself, over the pool: each     *)
(* takes a connection, sends its commands and settles its statistics.      *)
(*                                                                         *)
(* A snapshot is a number; Redis keeps, per stream, the set of those that  *)
(* were added (MAXLEN may trim it later).  A command may fail before or    *)
(* after Redis has executed it.                                            *)
(***************************************************************************)
EXTENDS Pool

CONSTANTS OrderbookEnabled, SignalEnabled,  \* of DualPublisherConfig
          MaxSnapshots,                     \* bound on the snapshots published
          MaxChecks                         \* bound on the other operations

VARIABLES redis,    \* the streams
          dual,     \* DualStats
          stream,   \* StreamStats
          acked,    \* history: the snapshots whose publish returned Ok
          begun     \* operations begun (for the bounds)

publisherVars == <<poolVars, redis, dual, stream, acked, begun>>

\* DualStats::default, StreamStats::default.
NoDual == [orderbook_published |-> 0, signals_published |-> 0, publish_errors |-> 0]
NoStream == [messages_published |-> 0, publish_errors |-> 0]

PublishersInit ==
  /\ PoolInit
  /\ redis = [book |-> {}, signal |-> {}, stream |-> {}]
  /\ dual = NoDual /\ stream = NoStream
  /\ acked = [dual |-> {}, stream |-> {}]
  /\ begun = [snap |-> 0, check |-> 0]

\* The commands an operation sends on its connection.
Commands(op) ==
  CASE op = "dual" -> (IF OrderbookEnabled THEN <<"book">> ELSE <<>>)
                      \o (IF SignalEnabled THEN <<"signal">> ELSE <<>>)
    [] op = "stream" -> <<"stream">>
    [] op \in {"ping", "execute"} -> <<"command">>
    [] OTHER -> <<>>

Begin(c, op, snap) ==
  client' = [client EXCEPT ![c] = [op |-> op, phase |-> "begun", todo |-> Commands(op),
                                   ok |-> TRUE, snap |-> snap]]

\* publish_dual; without an output it returns an error at once.
publish_dual(c) ==
  /\ client[c] = Resting
  /\ OrderbookEnabled \/ SignalEnabled
  /\ begun.snap < MaxSnapshots
  /\ begun' = [begun EXCEPT !.snap = @ + 1]
  /\ Begin(c, "dual", begun'.snap)
  /\ UNCHANGED <<inner_closed, closed, pstats, phealth, pings, redis, dual, stream, acked>>

\* publish_book, publish_event, publish_raw and publish_health: serialization
\* first, which may fail (an error that no statistic counts), then xadd.
publish_stream(c) ==
  /\ client[c] = Resting
  /\ begun.snap < MaxSnapshots
  /\ begun' = [begun EXCEPT !.snap = @ + 1]
  /\ \/ Begin(c, "stream", begun'.snap)
     \/ UNCHANGED client
  /\ UNCHANGED <<inner_closed, closed, pstats, phealth, pings, redis, dual, stream, acked>>

\* get, get_timeout, execute, server_info, and health_check with its ping.
OtherCall(c, op) ==
  /\ client[c] = Resting
  /\ begun.check < MaxChecks
  /\ begun' = [begun EXCEPT !.check = @ + 1]
  /\ Begin(c, op, 0)
  /\ UNCHANGED <<inner_closed, closed, pstats, phealth, pings, redis, dual, stream, acked>>

Added(c) ==
  LET to == Head(client[c].todo)
  IN  IF to = "command" THEN redis ELSE [redis EXCEPT ![to] = @ \cup {client[c].snap}]

\* Redis executes the next command and the answer arrives.
CommandOk(c) ==
  /\ client[c].phase = "holding" /\ client[c].todo # <<>>
  /\ redis' = Added(c)
  /\ client' = [client EXCEPT ![c].todo = Tail(@)]
  /\ UNCHANGED <<inner_closed, closed, pstats, phealth, pings, dual, stream, acked, begun>>

\* Mutant: the failure of a later command is overlooked.
CommandFailsQuietly(c, executed) ==
  /\ client[c].phase = "holding" /\ client[c].todo # <<>>
  /\ redis' = IF executed THEN Added(c) ELSE redis
  /\ client' = [client EXCEPT ![c].todo = <<>>, ![c].ok = Head(client[c].todo) # "book"]
  /\ UNCHANGED <<inner_closed, closed, pstats, phealth, pings, dual, stream, acked, begun>>

\* An error; the rest is not sent.  Only xadd of the stream publisher counts it.
CommandFails(c, executed) ==
  /\ client[c].phase = "holding" /\ client[c].todo # <<>>
  /\ redis' = IF executed THEN Added(c) ELSE redis
  /\ client' = [client EXCEPT ![c].todo = <<>>, ![c].ok = FALSE]
  /\ stream' = IF client[c].op = "stream" THEN [stream EXCEPT !.publish_errors = @ + 1]
               ELSE stream
  /\ UNCHANGED <<inner_closed, closed, pstats, phealth, pings, dual, acked, begun>>

\* What is counted while the connection is still held: publish_dual its
\* outputs.
CountHeld(c) ==
  LET done == client[c].ok /\ client[c].op = "dual"
  IN  /\ client[c].phase = "holding" /\ client[c].todo = <<>>
      /\ Step(c, "counted")
      /\ dual' = IF done
                 THEN [dual EXCEPT !.orderbook_published = @ + (IF OrderbookEnabled THEN 1 ELSE 0),
                                   !.signals_published = @ + (IF SignalEnabled THEN 1 ELSE 0)]
                 ELSE dual
      /\ UNCHANGED <<inner_closed, closed, pstats, phealth, pings, redis, stream, acked, begun>>

\* The end of a call, without the connection: the stream publisher counts
\* now, and so does health_check.
Settle(c) ==
  LET op == client[c].op
      ok == client[c].ok
  IN  /\ client[c].phase = "settling"
      /\ client' = [client EXCEPT ![c] = Resting]
      /\ stream' = IF op = "stream" /\ ok THEN [stream EXCEPT !.messages_published = @ + 1]
                   ELSE stream
      /\ phealth' = IF op = "ping" THEN HealthAfter(ok) ELSE phealth
      /\ pings' = IF op = "ping" THEN Append(pings, ok) ELSE pings
      /\ acked' = IF ok /\ op \in {"dual", "stream"}
                  THEN [acked EXCEPT ![op] = @ \cup {client[c].snap}] ELSE acked
      /\ UNCHANGED <<inner_closed, closed, pstats, redis, dual, begun>>

PublishersNext ==
  \/ \E c \in PoolClients :
       \/ publish_dual(c) \/ publish_stream(c)
       \/ \E op \in {"get", "ping", "execute"} : OtherCall(c, op)
       \/ PoolStep(c) /\ UNCHANGED <<redis, dual, stream, acked, begun>>
       \/ CommandOk(c) \/ \E executed \in BOOLEAN : CommandFails(c, executed)
       \/ CountHeld(c) \/ Settle(c)
  \/ (close \/ reset_pool) /\ UNCHANGED <<redis, dual, stream, acked, begun>>

PublishersSpec == PublishersInit /\ [][PublishersNext]_publisherVars

-----------------------------------------------------------------------------
\* A publish that returned Ok is in Redis with everything it was to publish (an
\* output that fails ends the call with an error), and the counters never claim more than Redis has been given.
AckedPublished ==
  /\ OrderbookEnabled => acked.dual \subseteq redis.book
  /\ SignalEnabled => acked.dual \subseteq redis.signal
  /\ acked.stream \subseteq redis.stream
  /\ dual.orderbook_published <= Cardinality(redis.book)
  /\ dual.signals_published <= Cardinality(redis.signal)
  /\ stream.messages_published <= Cardinality(redis.stream)

\* With both outputs enabled no signal is in Redis without the order book it
\* was made from, whichever command failed and whoever else published: the
\* signal is sent only after the answer to the book's command (dual.rs:463
\* announces the two in parallel, which would break this).
SignalHasBook == OrderbookEnabled => redis.signal \subseteq redis.book

\* A publish that returned Ok is in its streams and counted, and a signal is
\* never published without the book it was made from.  Both rest on the order
\* of the code, book first and an error at the first failure, and not on its
\* comments: dual.rs:463 says that the streams are written in parallel, and
\* dual.rs:199 and :202 that an Ok result may lack the key of a failed output.
Published == AckedPublished /\ SignalHasBook
=============================================================================
