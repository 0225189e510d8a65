------------------------------ MODULE Buffers -------------------------------
(***************************************************************************)
(* What flash keeps between its threads and Redis: the bounded channel     *)
(* with its counters, the serialization buffer of a thread, and the batch  *)
(* accumulator with its monitor.                                           *)
(***************************************************************************)
EXTENDS Integers, FiniteSets, Sequences, FiniteSetsExt, SequencesExt

-----------------------------------------------------------------------------
(***************************************************************************)
(* flash/src/publisher/backpressure.rs: threads that share a               *)
(* BackpressureSender (or call send_with_backpressure on one channel)      *)
(* never wait; a frame the channel does not take is dropped.  The channel  *)
(* operation and the relaxed increment that counts it are two steps, and   *)
(* so are the two stores of reset.                                         *)
(***************************************************************************)

CONSTANTS Senders,
          ChannelCapacity,   \* channel_capacity
          MaxFrames,         \* bound on the frames offered
          MaxResets          \* bound on the calls of reset

ASSUME BackpressureAssumption == IsFiniteSet(Senders) /\ ChannelCapacity \in Nat \ {0}

VARIABLES frames,      \* the mpsc channel
          rx_open,     \* the receiver exists
          sending,     \* what each sender has still to count: "none", "sent" or "dropped"
          metrics,     \* BackpressureMetrics
          clearing,    \* a reset is between its two stores
          offered,     \* frames offered so far
          fate,        \* history: each frame's outcome
          received,    \* history: what the consumer got
          resets

backpressureVars == <<frames, rx_open, sending, metrics, clearing, offered, fate, received, resets>>

\* BackpressureMetrics::new
NoMetrics == [sent |-> 0, dropped |-> 0]

BackpressureInit ==
  /\ frames = <<>> /\ rx_open = TRUE
  /\ sending = [s \in Senders |-> "none"]
  /\ metrics = NoMetrics
  /\ clearing = FALSE
  /\ offered = 0 /\ fate = <<>> /\ received = <<>> /\ resets = 0

available_capacity == ChannelCapacity - Len(frames)

\* try_send up to the channel's answer; Full and Closed both drop the frame.
try_send(s) ==
  LET taken == rx_open /\ available_capacity > 0
  IN  /\ sending[s] = "none" /\ offered < MaxFrames
      /\ offered' = offered + 1
      /\ frames' = IF taken THEN Append(frames, offered') ELSE frames
      /\ sending' = [sending EXCEPT ![s] = IF taken THEN "sent" ELSE "dropped"]
      /\ fate' = Append(fate, sending'[s])
      /\ UNCHANGED <<rx_open, metrics, clearing, received, resets>>

\* The function of that name does the same on a channel of the caller's.
send_with_backpressure(s) == try_send(s)

\* Mutant: a load and a store instead of fetch_add, seen as a lost increment.
CountFrameRacy(s) ==
  /\ sending[s] # "none"
  /\ metrics' = IF \E o \in Senders \ {s} : sending[o] = sending[s] THEN metrics
                ELSE [metrics EXCEPT ![sending[s]] = @ + 1]
  /\ sending' = [sending EXCEPT ![s] = "none"]
  /\ UNCHANGED <<frames, rx_open, clearing, offered, fate, received, resets>>

\* increment_sent or increment_dropped.
CountFrame(s) ==
  /\ sending[s] # "none"
  /\ metrics' = [metrics EXCEPT ![sending[s]] = @ + 1]
  /\ sending' = [sending EXCEPT ![s] = "none"]
  /\ UNCHANGED <<frames, rx_open, clearing, offered, fate, received, resets>>

Receive ==
  /\ rx_open /\ frames # <<>>
  /\ received' = Append(received, Head(frames))
  /\ frames' = Tail(frames)
  /\ UNCHANGED <<rx_open, sending, metrics, clearing, offered, fate, resets>>

\* The receiver is dropped, with what is still queued.
DropReceiver ==
  /\ rx_open
  /\ rx_open' = FALSE /\ frames' = <<>>
  /\ UNCHANGED <<sending, metrics, clearing, offered, fate, received, resets>>

\* reset: dropped_frames first, then sent_frames.
ResetDropped ==
  /\ ~clearing /\ resets < MaxResets
  /\ metrics' = [metrics EXCEPT !.dropped = 0]
  /\ clearing' = TRUE /\ resets' = resets + 1
  /\ UNCHANGED <<frames, rx_open, sending, offered, fate, received>>

ResetSent ==
  /\ clearing
  /\ metrics' = [metrics EXCEPT !.sent = 0]
  /\ clearing' = FALSE
  /\ UNCHANGED <<frames, rx_open, sending, offered, fate, received, resets>>

BackpressureNext ==
  \/ \E s \in Senders : try_send(s) \/ send_with_backpressure(s) \/ CountFrame(s)
  \/ Receive \/ DropReceiver \/ ResetDropped \/ ResetSent

-----------------------------------------------------------------------------
Outcomes(o) == Cardinality({i \in DOMAIN fate : fate[i] = o})
Pending(o) == Cardinality({s \in Senders : sending[s] = o})

\* Every frame offered is counted exactly once, as sent when the channel took
\* it and as dropped otherwise, up to the increments still to come; a reset
\* only lowers the counts.  Frames arrive in the order they were taken in.
FramesAccounted ==
  /\ \A o \in {"sent", "dropped"} :
       /\ metrics[o] + Pending(o) <= Outcomes(o)
       /\ resets = 0 => metrics[o] + Pending(o) = Outcomes(o)
  /\ \A i, j \in DOMAIN received : i < j => received[i] < received[j]
  /\ rx_open => {received[i] : i \in DOMAIN received} \cup {frames[i] : i \in DOMAIN frames}
                = {i \in DOMAIN fate : fate[i] = "sent"}

-----------------------------------------------------------------------------
(***************************************************************************)
(* flash/src/publisher/buffer.rs: the SerializationBuffer each thread      *)
(* keeps in a RefCell and lends to a callback for the time of the call.    *)
(* A value is the sequence of the pieces its serialization writes; a       *)
(* serializer may fail after any of them.  A callback that serializes on   *)
(* its own thread again finds the cell borrowed and panics.                *)
(***************************************************************************)

CONSTANTS Payloads,         \* the values serialized
          InitialCapacity,  \* DEFAULT_BUFFER_CAPACITY
          MaxWrites         \* bound on the calls

ASSUME SerializationAssumption ==
  (\A v \in Payloads : v \in Seq(ToSet(v))) /\ InitialCapacity \in Nat

VARIABLES buffer,     \* SerializationBuffer::buffer
          buf_stats,  \* reuse_count, growth_count, peak_size, and the Vec's capacity
          calls,      \* with_json_buffer or with_bincode_buffer calls on this thread's stack
          writes,     \* calls so far
          panicked    \* borrow_mut found the cell borrowed

serBufferVars == <<buffer, buf_stats, calls, writes, panicked>>

\* SerializationBuffer::with_capacity
SerBufferInit ==
  /\ buffer = <<>>
  /\ buf_stats = [reuse |-> 0, growth |-> 0, peak |-> 0, capacity |-> InitialCapacity]
  /\ calls = <<>> /\ writes = 0 /\ panicked = FALSE

Larger(a, b) == IF a > b THEN a ELSE b

\* write_json and write_bincode: clear, serialize, update_peak unless it
\* failed.
Written(pieces, whole) ==
  LET used == buffer # <<>> \/ buf_stats.peak > 0
      capacity == Larger(buf_stats.capacity, Len(pieces))
  IN  [bytes |-> pieces,
       stats |-> [reuse |-> buf_stats.reuse + (IF used THEN 1 ELSE 0),
                  growth |-> IF whole /\ capacity > InitialCapacity THEN 1 ELSE buf_stats.growth,
                  peak |-> IF whole THEN Larger(buf_stats.peak, Len(pieces)) ELSE buf_stats.peak,
                  capacity |-> capacity]]

\* with_json_buffer, with_bincode_buffer: borrow, write, call back.
with_buffer(value) ==
  LET w == Written(value, TRUE)
  IN  /\ calls = <<>> /\ writes < MaxWrites
      /\ buffer' = w.bytes /\ buf_stats' = w.stats
      /\ calls' = <<value>> /\ writes' = writes + 1
      /\ UNCHANGED panicked

\* The serializer fails after n pieces: the error is returned, f not called.
with_buffer_fails(value, n) ==
  LET w == Written(SubSeq(value, 1, n), FALSE)
  IN  /\ calls = <<>> /\ writes < MaxWrites
      /\ buffer' = w.bytes /\ buf_stats' = w.stats
      /\ writes' = writes + 1
      /\ UNCHANGED <<calls, panicked>>

\* The callback serializes again: borrow_mut panics, which ends both calls.
with_buffer_nested ==
  /\ calls # <<>> /\ writes < MaxWrites
  /\ panicked' = TRUE /\ calls' = <<>> /\ writes' = writes + 1
  /\ UNCHANGED <<buffer, buf_stats>>

CallbackReturns ==
  /\ calls # <<>>
  /\ calls' = <<>>
  /\ UNCHANGED <<buffer, buf_stats, writes, panicked>>

SerBufferNext ==
  \/ \E v \in Payloads : with_buffer(v) \/ \E n \in 0 .. Len(v) : with_buffer_fails(v, n)
  \/ with_buffer_nested \/ CallbackReturns

-----------------------------------------------------------------------------
\* While a callback runs the buffer holds exactly the bytes of the value the
\* call was made with: nothing of a longer, failed or abandoned earlier one.
\* The peak covers whatever a callback has seen, and a buffer that grew past
\* its initial capacity for one has recorded it.
CallbackSeesValue ==
  calls # <<>> => /\ buffer = Head(calls)
                  /\ buf_stats.peak >= Len(buffer)
                  /\ Len(buffer) > InitialCapacity => buf_stats.growth = 1

-----------------------------------------------------------------------------
(***************************************************************************)
(* flash/src/publisher/batch.rs: BatchAccumulator with its MessageBatch,   *)
(* and the BackpressureMonitor over the queue depth.  A message is the     *)
(* record of its number, its size and the time it was enqueued at;         *)
(* thresholds are in percent of the capacity.                              *)
(***************************************************************************)

CONSTANTS MaxBatchSize,                       \* max_batch_size; only validated here
          WarnThreshold, CriticalThreshold,   \* warn_threshold, critical_threshold
          QueueCapacity,                      \* channel_capacity
          MessageSizes,
          MaxMessages                         \* bound on the messages added; and on the takes

\* BatchConfig::validate
ValidBatchConfig ==
  /\ MaxBatchSize \in Nat \ {0} /\ QueueCapacity \in Nat \ {0}
  /\ WarnThreshold \in 0 .. 100 /\ CriticalThreshold \in 0 .. 100
  /\ WarnThreshold < CriticalThreshold

ASSUME BatchingAssumption == ValidBatchConfig /\ MessageSizes \subseteq Nat

VARIABLES batch,             \* BatchAccumulator::batch
          first_message_at,  \* BatchAccumulator::first_message_at; 0 for None
          bp_status,         \* BackpressureMonitor::current_status
          announced,         \* history: the status after the last update that said "changed"
          observed,          \* history: the depth of the last update, -1 before the first
          clock,             \* now_micros
          added,             \* history: every message added
          flushed            \* history: every batch taken

batchingVars == <<batch, first_message_at, bp_status, announced, observed, clock, added, flushed>>

EmptyBatch == [messages |-> <<>>, total_bytes |-> 0, message_count |-> 0]

BatchingInit ==
  /\ batch = EmptyBatch /\ first_message_at = 0
  /\ bp_status = "Normal" /\ announced = "Normal" /\ observed = -1
  /\ clock = 1 /\ added = <<>> /\ flushed = <<>>

\* MessageBatch::add
Extended(b, m) == [messages |-> Append(b.messages, m),
                   total_bytes |-> b.total_bytes + m.size,
                   message_count |-> b.message_count + 1]

\* BatchAccumulator::add; the message may have waited since an earlier time,
\* and nothing keeps a batch from growing past max_batch_size.
add(size, at) ==
  LET m == [id |-> Len(added) + 1, size |-> size, enqueued_at |-> at]
  IN  /\ Len(added) < MaxMessages
      /\ first_message_at' = IF first_message_at = 0 THEN at ELSE first_message_at
      /\ batch' = Extended(batch, m)
      /\ added' = Append(added, m)
      /\ UNCHANGED <<bp_status, announced, observed, clock, flushed>>

\* BatchAccumulator::take, of whatever is there: its caller may have asked
\* is_ready or meets_minimum, but need not.
take ==
  /\ Len(flushed) <= MaxMessages
  /\ flushed' = Append(flushed, batch)
  /\ batch' = EmptyBatch /\ first_message_at' = 0
  /\ UNCHANGED <<bp_status, announced, observed, clock, added>>

latency_us == IF first_message_at # 0 /\ clock > first_message_at
              THEN clock - first_message_at ELSE 0

\* BackpressureMonitor::check
check(depth) ==
  IF depth * 100 >= CriticalThreshold * QueueCapacity THEN "Critical"
  ELSE IF depth * 100 >= WarnThreshold * QueueCapacity THEN "Warning" ELSE "Normal"

\* BackpressureMonitor::update
update(depth) ==
  LET new == check(depth)
  IN  /\ bp_status' = new
      /\ announced' = IF new # bp_status THEN new ELSE announced
      /\ observed' = depth
      /\ UNCHANGED <<batch, first_message_at, clock, added, flushed>>

Tick ==
  /\ clock <= MaxMessages
  /\ clock' = clock + 1
  /\ UNCHANGED <<batch, first_message_at, bp_status, announced, observed, added, flushed>>

BatchingNext ==
  \/ \E size \in MessageSizes, at \in {1, clock} : add(size, at)
  \/ take \/ Tick
  \/ \E depth \in 0 .. QueueCapacity : update(depth)

-----------------------------------------------------------------------------
Sizes(ms) == FoldLeft(LAMBDA total, m : total + m.size, 0, ms)

\* The batches taken and the one being filled are the messages added, in
\* order and without a gap; each knows its size, and the accumulator the age
\* of the first message of the batch being filled and of no earlier one.
BatchExact ==
  LET batches == Append(flushed, batch)
  IN  /\ FlattenSeq([i \in DOMAIN batches |-> batches[i].messages]) = added
      /\ \A i \in DOMAIN batches : /\ batches[i].total_bytes = Sizes(batches[i].messages)
                                   /\ batches[i].message_count = Len(batches[i].messages)
      /\ first_message_at = IF batch.messages = <<>> THEN 0 ELSE batch.messages[1].enqueued_at
      /\ latency_us <= clock

Severity == [Normal |-> 0, Warning |-> 1, Critical |-> 2]

\* A valid configuration separates the three statuses: a full queue is
\* Critical, a deeper one is never judged milder, and whoever follows the
\* changes that update reports knows the status of the last depth.
MonitorSound ==
  /\ check(QueueCapacity) = "Critical"
  /\ \A d \in 0 .. QueueCapacity : d <= observed => Severity[check(d)] <= Severity[bp_status]
  /\ announced = bp_status

\* Nothing is lost, repeated or mixed up on the way to the publisher: frames are
\* counted once, a serialisation buffer holds the value of its own call, batches
\* are the messages in order, and the monitor's status fits the depth.
QueuesExact == FramesAccounted /\ CallbackSeesValue /\ BatchExact /\ MonitorSound
=============================================================================
