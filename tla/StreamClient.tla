---------------------------- MODULE StreamClient ----------------------------
(***************************************************************************)
(* FlashClient and StreamIterator of flash bindings/stream.rs: the         *)
(* consumer of the Redis streams that the publishers write.  __next__      *)
(* hands out a buffered event or reads more; while it reads it holds       *)
(* neither the interpreter's lock nor one of its own, so threads that      *)
(* share an iterator interleave between its messages.                      *)
(*                                                                         *)
(* A message is its publisher and its format; its id is its position in    *)
(* its stream.  Redis is external and keeps what is added.                 *)
(***************************************************************************)
EXTENDS Integers, Sequences, SequencesExt, FiniteSets, FiniteSetsExt

CONSTANTS Readers,      \* threads that call next on the iterator
          StreamTopics, \* topics subscribed to
          StreamMessages, \* what publishers write: records of a publisher and a format
          XreadCount,   \* PyStreamConfig::count
          MaxMessages,  \* bound on the messages of all streams
          MaxReads      \* bound on the calls of XREAD

VARIABLES streams,      \* external: the messages of each stream
          last_ids,     \* PyStreamIterator::last_ids; New stands for "$"
          buffer,       \* PyStreamIterator::buffer
          active,       \* PyStreamIterator::active
          client_stats, \* PyFlashClientStats
          received_count,
          reader,       \* each thread's call of __next__
          handed,       \* history: the events handed out, in order
          first,        \* history: the position each topic was first read from
          shared,       \* history: two threads were in XREAD at once
          reads

clientVars == <<streams, last_ids, buffer, active, client_stats, received_count, reader,
                handed, first, shared, reads>>

ASSUME StreamAssumption == XreadCount \in Nat

New == -1
NotReading == [at |-> "none"]
NoStats == [messages_received |-> 0, deserialize_errors |-> 0, connection_errors |-> 0]

\* subscribe, with a start_id of "$" or "0".
ClientInit ==
  /\ streams = [t \in StreamTopics |-> <<>>]
  /\ \E start \in {New, 0} : last_ids = [t \in StreamTopics |-> start]
  /\ buffer = <<>> /\ active = TRUE /\ client_stats = NoStats /\ received_count = 0
  /\ reader = [r \in Readers |-> NotReading]
  /\ handed = <<>> /\ first = [t \in StreamTopics |-> New] /\ shared = FALSE /\ reads = 0

\* decode_published_book_event, else deserialize_event, in the format of the
\* label.  Gateway snapshots are JSON whatever their label says, and what the
\* stream publisher labels rkyv is Bincode.
MessageDecodes(m) ==
  \/ m.by = "dual" /\ m.format = "json"
  \/ m.by = "book" /\ m.format = "bincode"
  \/ m.by = "event" /\ m.format \in {"json", "bincode"}

XAdd(t, m) ==
  /\ MapThenSumSet(LAMBDA u : Len(streams[u]), StreamTopics) < MaxMessages
  /\ streams' = [streams EXCEPT ![t] = Append(@, m)]
  /\ UNCHANGED <<last_ids, buffer, active, client_stats, received_count, reader, handed, first,
                 shared, reads>>

\* stop, and close of the client: what is buffered stays there.
stop ==
  /\ active /\ active' = FALSE
  /\ UNCHANGED <<streams, last_ids, buffer, client_stats, received_count, reader, handed, first,
                 shared, reads>>

-----------------------------------------------------------------------------

\* An event is popped and counted.
Handed ==
  /\ buffer # <<>>
  /\ handed' = Append(handed, Head(buffer))
  /\ buffer' = Tail(buffer)
  /\ received_count' = received_count + 1

\* __next__ from the buffer.
NextBuffered(r) ==
  /\ reader[r].at = "none" /\ active
  /\ Handed
  /\ UNCHANGED <<streams, last_ids, active, client_stats, reader, first, shared, reads>>

\* __next__ and xread_blocking: the buffer is empty and the iterator active.
NextReads(r) ==
  /\ reader[r].at = "none" /\ active /\ buffer = <<>> /\ reads < MaxReads
  /\ reader' = [reader EXCEPT ![r] = [at |-> "connecting"]]
  /\ reads' = reads + 1
  /\ shared' = (shared \/ \E q \in Readers \ {r} : reader[q].at # "none")
  /\ UNCHANGED <<streams, last_ids, buffer, active, client_stats, received_count, handed, first>>

\* A connection error, of the pool or of the command.
XreadFails(r) ==
  /\ reader[r].at \in {"connecting", "blocked"}
  /\ reader' = [reader EXCEPT ![r] = NotReading]
  /\ client_stats' = [client_stats EXCEPT !.connection_errors = @ + 1]
  /\ UNCHANGED <<streams, last_ids, buffer, active, received_count, handed, first, shared, reads>>

\* XREAD is sent with the last ids of this moment; "$" is what the stream
\* ends with when Redis receives it.
XreadSent(r) ==
  /\ reader[r].at = "connecting"
  /\ reader' = [reader EXCEPT ![r] =
                  [at |-> "blocked",
                   from |-> [t \in StreamTopics |->
                               IF last_ids[t] = New THEN Len(streams[t]) ELSE last_ids[t]]]]
  /\ UNCHANGED <<streams, last_ids, buffer, active, client_stats, received_count, handed, first,
                 shared, reads>>

\* At most COUNT messages; to Redis a COUNT of 0 is no limit.
Fresh(r, t) ==
  LET from == reader[r].from[t]
      to == IF XreadCount > 0 /\ Len(streams[t]) > from + XreadCount THEN from + XreadCount
            ELSE Len(streams[t])
  IN  [k \in 1 .. (to - from) |-> [topic |-> t, id |-> from + k]]

\* The answer: what is fresh of each stream.
XreadAnswered(r) ==
  /\ reader[r].at = "blocked" /\ \E t \in StreamTopics : Fresh(r, t) # <<>>
  /\ reader' = [reader EXCEPT ![r] =
                  [at |-> "processing", todo |-> [t \in StreamTopics |-> Fresh(r, t)]]]
  /\ first' = [t \in StreamTopics |->
                 IF first[t] = New /\ Fresh(r, t) # <<>> THEN reader[r].from[t] ELSE first[t]]
  /\ UNCHANGED <<streams, last_ids, buffer, active, client_stats, received_count, handed,
                 shared, reads>>

\* Mutant: BLOCK is not passed on.
XreadTimesOutNever(r) == FALSE /\ UNCHANGED clientVars

\* BLOCK has passed without a message.
XreadTimesOut(r) ==
  /\ reader[r].at = "blocked"
  /\ \A t \in StreamTopics : Fresh(r, t) = <<>>
  /\ reader' = [reader EXCEPT ![r] = [at |-> "processing", todo |-> [t \in StreamTopics |-> <<>>]]]
  /\ UNCHANGED <<streams, last_ids, buffer, active, client_stats, received_count, handed, first,
                 shared, reads>>

\* Redis answers stream by stream, in the order of config.topics.
Before(u, t) ==
  \E i, j \in 1 .. Cardinality(StreamTopics) :
    i < j /\ SetToSeq(StreamTopics)[i] = u /\ SetToSeq(StreamTopics)[j] = t

\* The stream whose messages it is the turn of.
Turn(r, t) ==
  /\ reader[r].todo[t] # <<>>
  /\ \A u \in StreamTopics : Before(u, t) => reader[r].todo[u] = <<>>

\* Mutant: the last id is remembered for a message that decodes.
LastIdDecoded(r, t) ==
  LET id == Head(reader[r].todo[t]).id
  IN  IF MessageDecodes(streams[t][id]) THEN [last_ids EXCEPT ![t] = id] ELSE last_ids

\* The last id moves with every message, decodable or not.
LastId(r, t) == [last_ids EXCEPT ![t] = Head(reader[r].todo[t]).id]

\* One message of the answer.
ProcessMessage(r, t) ==
  LET m == Head(reader[r].todo[t])
      ok == MessageDecodes(streams[t][m.id])
  IN  /\ reader[r].at = "processing" /\ Turn(r, t)
      /\ last_ids' = LastId(r, t)
      /\ buffer' = IF ok THEN Append(buffer, m) ELSE buffer
      /\ client_stats' = IF ok THEN [client_stats EXCEPT !.messages_received = @ + 1]
                         ELSE [client_stats EXCEPT !.deserialize_errors = @ + 1]
      /\ reader' = [reader EXCEPT ![r] =
                      [at |-> "processing", todo |-> [reader[r].todo EXCEPT ![t] = Tail(@)]]]
      /\ UNCHANGED <<streams, active, received_count, handed, first, shared, reads>>

\* The first buffered event is returned; without one iteration ends, although
\* the iterator is still active.
NextReturns(r) ==
  /\ reader[r].at = "processing" /\ \A t \in StreamTopics : reader[r].todo[t] = <<>>
  /\ reader' = [reader EXCEPT ![r] = NotReading]
  /\ Handed \/ (buffer = <<>> /\ UNCHANGED <<handed, buffer, received_count>>)
  /\ UNCHANGED <<streams, last_ids, active, client_stats, first, shared, reads>>

ReaderStep(r) ==
  \/ XreadSent(r) \/ XreadAnswered(r) \/ XreadTimesOut(r)
  \/ \E t \in StreamTopics : ProcessMessage(r, t)
  \/ NextReturns(r)

ClientNext ==
  \/ \E t \in StreamTopics, m \in StreamMessages : XAdd(t, m)
  \/ stop
  \/ \E r \in Readers : NextBuffered(r) \/ NextReads(r) \/ XreadFails(r) \/ ReaderStep(r)

-----------------------------------------------------------------------------
\* What the client has decoded so far, in order.
Received == handed \o buffer

\* The messages from the first position that was read at to the last id.
ReadOf(t) ==
  IF first[t] = New \/ last_ids[t] = New THEN {}
  ELSE {[topic |-> t, id |-> n] : n \in (first[t] + 1) .. last_ids[t]}
Passed == UNION {ReadOf(t) : t \in StreamTopics}
Good(e) == MessageDecodes(streams[e.topic][e.id])

\* One thread at a time gets every message of a topic that can be decoded,
\* once and in order, from the first position it read at to the last id, and
\* reads on from there; failures, timeouts and undecodable messages in
\* between lose none and repeat none, and an undecodable one is met once.
NothingSkipped ==
  ~shared =>
    /\ ToSet(Received) = {e \in Passed : Good(e)}
    /\ \A i, j \in DOMAIN Received :
         i < j /\ Received[i].topic = Received[j].topic => Received[i].id < Received[j].id
    /\ client_stats.deserialize_errors = Cardinality({e \in Passed : ~Good(e)})

\* However many threads iterate, every event that was decoded is buffered or
\* was handed out once.
EventsCounted ==
  /\ client_stats.messages_received = received_count + Len(buffer)
  /\ received_count = Len(handed)

\* A call of next ends, if Redis answers or its timeouts pass.
ReadsEnd == \A r \in Readers : (reader[r].at # "none") ~> (reader[r].at = "none")
ClientFairness == \A r \in Readers : WF_clientVars(ReaderStep(r))

\* The stream client hands out each decodable message once, in order, and its
\* counts agree with what it has handed out and holds.
StreamExact == NothingSkipped /\ EventsCounted
=============================================================================
