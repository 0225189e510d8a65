# Verification of the blackbox journal, the correlation gate and the flash handler

TLA+ models of this repository's recorder, risk gate and market-data handler, the
TLC runs that check them, and TLAPS proofs of the properties that matter most. Paths
below leave out `crates/blackbox/src` (blackbox) and `src` (flash, correlation-gate)
where the file's name says enough; `PROJECT.json` has them in full, line by line.

## 1. Inventory

The repository holds four programs.

| Program | Purpose | Where the difficulty is |
|---|---|---|
| `blackbox` (Rust) | flight recorder: records what a trading engine saw and did in a memory-mapped journal, replays it deterministically, verifies the replay against checkpoints | lock-free queue between the trading thread and a background thread; crash of the process between two stores; simulated time |
| `flash` (Rust) | market-data handler: exchange connections, order books, order manager, Redis publisher, Python bindings | tasks and threads around shared maps, locks and bounded channels; sequence gaps; failing commands |
| `correlation-gate` (Python) | risk check in front of the order path | concurrent evaluations, stale positions, late or dead providers, trades allowed but not yet visible |
| `gauntlet` (Python) | statistical gates for strategies | floating-point statistics, sequential |

### Components, their state and what makes them correct

blackbox

* **Ring buffer** (`journal/ring_buffer.rs`): two atomic indices and an array of
  `MaybeUninit` slots. Items come out once and in order, no slot is accessed by both
  threads, `assume_init_read` only meets initialised slots, counts do not wrap,
  nothing leaks.
* **Journal writer** (`journal/writer.rs`): `SharedState`, the producer's sequence,
  the mapped file, the background thread. A close loses nothing that was accepted, a
  flush means what it says, records are stored in order, the footer always fits, both
  calls return.
* **Journal reader and format** (`journal/reader.rs`, `format.rs`, `schema.rs`):
  whatever a dying writer left reads as a prefix of the journal, and a closed journal
  reads back completely.
* **Codec** (`codec/`): encoder, decoder, registry of versions. What was encoded is
  decoded, what is cut short is refused, encode writes all or nothing.
* **Replay** (`replay/`): simulated clock, warp scheduler, engine, data sources. Each
  recorded frame is delivered once, in order, at its time, however the engine is
  driven; the clock does not go back.
* **Verification** (`verify/`): checkpoints compared with the replay. The verdict is
  right about the recording, the report about the verdict, equal hashes about states.
* **Journal tap** (`tap/`): records for the engine; must never fail it.

flash

* **Order book** (`book/`): level maps with cached totals and best levels, a
  `SequenceTracker`, validators, a thread-safe wrapper with statistics. The caches match
  the maps, a book whose tracker is Normal is the exchange's, derived reports are true,
  readers see whole writes.
* **Order manager** (`order/`, `blackbox.rs`): pending orders, statistics, egress
  records. Orders are in one place, with one number, and the journal tells their life.
* **Network** (`network/`): connector with a task per exchange, heartbeat and
  reconnection managers, OANDA stream, adapters. No task is orphaned, no call hangs,
  health and gaps are reported as they are, lines and messages survive.
* **Publisher** (`publisher/`): Redis pool, stream and dual publishers, backpressure
  channel, serialisation buffers, batches, topic router. Counts agree with what is out,
  acknowledged means published, frames are accounted for, routing is what rules say.
* **Fusion, gateway, bindings, binary** (`fusion/`, `gateway/`, `bindings/`, `core/`,
  `main.rs`): signals, wire form, stream iterator, configuration in layers, shutdown. The
  binary starts on one whole and valid configuration.

correlation-gate

* **Gate** (`gate.py`, `basket.py`, `directional.py`, `models.py`): state, cached
  positions with their time, pending signals with expiry, spot prices, one `RLock`.
  The trades it lets through never add up to more than the limits, whatever runs at
  once, and every call returns with the lock free.
* **Providers** (`providers/`): simulator with its accessor, OANDA with retries and
  cache, fallback, health monitor. **Security** (`security/`): atomic guard, version
  tracker, asynchronous and rotating audit logs.

**gauntlet** is not modelled: nothing in it is a state machine and its arithmetic is
floating point.

### How they interact

The engine's threads call the tap, the tap calls `JournalWriter::write`, which
pushes onto the ring buffer; the background thread pops and stores into the file;
a reader, in the same or a later process, maps that file; replay and verify read
through the reader. A trading engine asks the gate before an order and reports to
it afterwards; the gate asks a provider for the broker's positions. In flash the binary
reads the OANDA stream into a channel of snapshots that a task publishes through the
dual publisher and the pool; Python consumers read the streams with `StreamIterator`.
The connector, heartbeat and reconnection managers hold each other but never call
(the fields are marked dead code), and the batch accumulator, backpressure channel,
buffers and router are called by none of the publishers, so there is nothing to
compose there: the MC modules of those layers run the parts side by side.

`PROJECT.json` lists every component with its status, and under `hazards` each
place where a test would hardly reach what can go wrong.

## 2. Modules

| Module | Models | Uses |
|---|---|---|
| `BoundedFifo` | what the ring buffer promises: a bounded queue | |
| `RingBuffer` | `ring_buffer.rs`, one action per atomic access | implements `BoundedFifo` (`RingBuffer!Fifo`) |
| `JournalFile` | `format.rs`: the record area of the file | |
| `JournalWriter` | `writer.rs` | `JournalFile`; a queue as `BoundedFifo` describes, with views that may be late |
| `JournalReader` | `reader.rs` | `JournalFile` |
| `Journal` | a writer's life followed by a reader, and the buffer beneath them | `JournalWriter`, `JournalReader`, `RingBuffer` |
| `Codec` | `codec/`, `journal/schema.rs` | |
| `SimClock` | `simulated_clock.rs` | |
| `ReplayEngine` | `engine.rs`, `scheduler.rs`, `data_source.rs` | `SimClock` |
| `Verification` | `verify/` | `ReplayEngine` |
| `CorrelationGate` | `gate.py`, `basket.py`, `directional.py`, `models.py` | |
| `SimProvider` | `simulator.py`, `cache.py` | |
| `BrokerProvider` | `oanda.py`, `fallback.py`, `cache.py`, `health.py` | |
| `GateSecurity` | `atomic.py`, `audit.py` | |
| `OrderBook` | `orderbook.rs`: sides, totals, best levels, `max_levels` | |
| `BookFeed` | `SequenceTracker`, `DeltaProcessor`, validators, resynchronisation on an unreliable feed | `OrderBook` |
| `BookReports` | views, statistics, snapshot requests, diffs, checksums | `BookFeed` |
| `SharedBook` | `thread_safe.rs` | |
| `OrderManager` | `order/`, `flash/src/blackbox.rs`, `tap/journal_tap.rs` | |
| `Adapters` | `network/adapters/` | |
| `Signals` | `fusion/mod.rs`, `gateway/mod.rs` | `Adapters` |
| `StreamClient` | `bindings/stream.rs` | |
| `Connector`, `Heartbeat`, `Reconnection` | the files of the same names in `network/` | |
| `OandaStream` | `oanda_stream.rs`, `main.rs`, `calculate_delay` of `reconnect.rs` | |
| `Startup` | `core/config.rs`, the start of `main.rs` | |
| `Pool` | `pool.rs` over deadpool | |
| `Publishers` | `dual.rs`, `stream.rs`, the pool's own commands | `Pool` |
| `Buffers` | `backpressure.rs`, `buffer.rs`, `batch.rs` | |
| `Topics` | `topics.rs`, `TopicBuilder` of `stream.rs` | |
| `JournalProofs` | proofs | `RingBuffer`; `Journal`, with `JournalWriter` and `JournalReader` |
| `ReplayProofs` | proofs | `MCReplay`, with `SimClock`, `ReplayEngine` and `Verification` |
| `CorrelationGateProofs` | proofs | `CorrelationGate` |
| `BookFeedProofs` | proofs | `BookFeed`, with `OrderBook` |
| `TradingProofs` | proofs | `SharedBook`; `MCTrading`, with `OrderManager` |
| `NetworkProofs` | proofs | `Reconnection`, `Heartbeat`, `Connector` |
| `PublisherProofs` | proofs | `MCPublisher`, with `Publishers`, `Pool`, `Buffers` |
| `ProvidersProofs` | proofs | `MCProviders`, with the three modules it joins |
| `MCBooks`, `MCTrading`, `MCNetwork`, `MCPublisher`, `MCReplay`, `MCProviders`, `MCCorrelationGate` | compositions and instances for TLC | |

Where an MC module joins parts that share no state, the variable `part` chooses one at
the start and the others rest: interleaving independent parts would only multiply
states. Parts that do interact (book and tracker, engine and clock, verification and
engine, publishers and pool, writer and file) are composed within one behaviour. The
run `journal` does the same with the layers of the journal: its `part` is the ring buffer,
the writer alone over two sessions, or a writer of one session and a reader of its file;
the writer's queue is the bounded queue that the ring buffer is shown to implement.

A property of a run is a conjunction of named parts; each part is a definition with its
own comment, and TLC's error trace shows which one failed.

### RingBuffer

`try_push` is `PushFull`, or `PushCheck`, `PushWrite`, `PushPublish`; `pop` is
`PopEmpty`, or `PopCheck`, `PopRead`, `PopRetire`. `Clear` and `DropBuffer` need both
threads to be outside, as the source's safety comments demand. An `Acquire` load
may return any store of the other thread's index that is not older than the last one
seen: `popsSeen` and `pushesSeen` are the numbers of those stores. Memory order
beyond that is not modelled; `NoSlotRace` states that the code never relies on more
than the store it has seen. The refinement mapping takes the memory between the
indices (`Contents`), with an item that is being moved out put back in front.

### JournalFile, JournalWriter, JournalReader, Journal

The file is a function from word offsets to words; a word records which field of
which entry it holds, so that a reader's misreading of a torn record is visible.
The background thread's copy of a record is three stores (16 bytes of header, the
rest of the header, the payload), and `write_position`, `records_written` and
`last_timestamp` are one step each. `Kill` may come between any two steps; what was
stored stays in the file, as with a shared mapping that outlives its process (power
loss, which could lose or reorder pages, is not modelled). `flush` is a loop of
separate loads, `close` stores `shutdown`, joins, rewrites the header and writes the
footer. `AppendSession` is `append`, which refuses a journal whose header counts
records and otherwise starts at `first_record`. The checksum of different payloads
is taken to differ.

The reader returns what `read_next` returns, with its three configurations, the
recursion of `skip_corrupt` (`RestingPlace`, a recursive function), `rewind` and
`seek` to a record it has returned. It runs when the writer's session has ended.

### Codec

A byte of the wire knows the field it belongs to and its place in it, so that an
offset or width that differs between encoder and decoder reads as garbage. The layouts
of encoder and decoder are two separate tables, one per source file. Between encoding
and decoding a message may be cut or followed by other bytes; a version is accepted by
the registry's rule on the major number. The schema block goes the same way.

### SimClock, ReplayEngine, Verification

`advance` is one step, `advance_to` two (load and compare, store). The engine is driven
by one caller; its source is null, buffered, live or a journal; the sender of a live
source, and its `is_disconnected` probe that takes a frame out of the channel to look,
run beside it. `StepEffect` is the body of `step` in each mode with the scheduler's
decision; `run_to_completion` is `RunBegin`, `RunStep`, `RunEnd`. The recorded
application of `Verification` is any that depends on every data frame, so that its
state is the sequence of their numbers; checkpoints carry it, too early, too late or
malformed ones included. `mark`, a history variable, is the number of results a call of
`run_with_verification` began with. `Updates` are what `StateHash` is fed; the hash is injective.

### CorrelationGate

Each signal has a thread; `eval[s]` is where it is, and later what became of its
trade. The state checks, which are separate reads, and the validation at the head
of `evaluate` are outside the lock (`EvalEnter`, `EvalRefused`, `EvalInvalid`,
`EvalChecked`); then the thread times out on the
lock, decides on cached positions, or fetches. A provider call is two steps, with the
broker's positions taken at the first, and an error, an answer or a timeout at the
second; after a timeout the thread stays in the executor's `with` block until the
worker returns (`EvalFetchTimeout`, `EvalLateReturn`). `Decide` is the rest of
`evaluate`: gold needs a spot price, expired pendings are purged, cached positions,
live pendings and the signal are projected, the thresholds compared, and an allowed
signal is registered. Decimals are integers; the lock timeout is a step that may
happen whenever the lock is taken.

External are the broker (`broker`, `Close`), the engine (`Execute`, `EngineForgets`) and time
(`Tick`). The engine is *careful* (`Careful = TRUE`): it places an order early enough that its
pending entry outlives the cache, and confirms a trade only when the gate's positions show it. An
engine that confirms right after execution, as the quick start of `correlation-gate/README.md` and
the docstring of `confirm_execution` show, is not bound by the limits: that is the run
`gate_documented`. `Opened` are trades that were open before the gate was created. A pair has the
broker's price and gold a spot price that moves, while the gate values pending and projected
trades at the placeholder 1.0; `GatePrices` are the prices it may come to use, and `LimitsHold`
promises the gross limit at the least of them only.

### SimProvider, BrokerProvider, GateSecurity

A step of the simulator provider is what a thread does between two acquisitions of a lock; the
accessor notifies while it holds its own. The OANDA provider holds no lock: its look at the cache,
each try of its request and its store are separate steps of each caller, and positions are the
moment at which the broker read them. The fallback provider holds its lock through a fetch. The
guard's operations nest; the audit logger's writer thread and `shutdown` are stepped from queue
operation to queue operation. The log files are a sequence in the order of their last change, each
named by the second its name was made in; a write may fail after any entry, or before the file is
there, and an old file can always be removed.

### OrderBook, BookFeed, BookReports

A side is a record of its level map, cached total and cached best level, and each operation of
`OrderBook` is one action, as under the write lock. The exchange is external: it sends numbered
messages of one or more updates and keeps its own book, `market[n]` after message n, by a
reference definition (the last quantity named for a price counts) that shares nothing with the
loop of `apply_delta`. There is no channel variable: any message sent may be processed at any
time, any number of times or never, which covers loss, repetition and reordering. `process_delta`
and `process_batch` are `ProcessGap`, `ProcessInvalid` and `ProcessApplied`; `Resync` is
`apply_with_validation` followed by `reset_with_sequence`, from a snapshot of any age listed best
first; `PlainSnapshot` is the path of `main.rs` and the bindings, without validator or tracker,
with whatever vectors the caller has (`Snapshots`: unsorted, too long, a price twice). `surplus`,
a history variable, is what the last snapshot left in a cached total for prices it listed twice:
the map keeps the later quantity, the total both (`orderbook.rs:454-455`). `auto_prune` is chosen
at the start, both ways. `BookReports` adds the counters to the processor's steps and defines the
views, diffs and checksums, which are compared with reference definitions (a diff is what turns
one snapshot into the other).

`clean` and `truncated` are history variables that `InSync` needs, and what they
exclude is worth knowing: a message older than the tracked one is applied like any
other (`delta.rs:942`; the configured `reorder_window` is never read), a message the
validator refuses has already been counted as received (`delta.rs:933` before `:949`),
and after levels were cut at `max_levels` a book can lack levels, even the best one,
until the next snapshot. In all three cases the tracker says Normal. `SequenceState::Recovering`
cannot be reached through `DeltaProcessor`, so `needs_snapshot` stays true until the
reset.

### SharedBook, OrderManager, Adapters, Signals, StreamClient

`SharedBook` has parking_lot's rule (external) that a waiting writer keeps new readers out, also a
thread that already holds a guard. A batch writes the two sides in two steps under one guard. In
`OrderManager` `submit_order` is three steps (draw a number, record, track), everything else one,
and the journal may lose any record. A raw message of `Adapters` is the set of its optional
fields, its kind and its levels; symbols are sequences of tokens cut where the adapters may cut
them, which for a name with an `_` too many, a short name or none at all is not where they should.
`Signals` takes what the adapters parsed through the wire form and back, with quantities that an
`f64` cannot hold and with the exchange's own symbol, which the wire form does not keep.
`StreamClient`'s `__next__` gives up the interpreter's lock for the `XREAD`, and threads sharing
an iterator interleave there; an answer is what is left of it for each topic, taken topic by topic
and message by message as the two loops do.

### Connector, Heartbeat, Reconnection, OandaStream, Startup

`connect` is the handshake, the spawn, the insert into the map and the gauge, each a step; `send`
waits for room with the map entry locked; the tasks wait for room in the channels that lead out.
The heartbeat's count and status, and the reconnection manager's flag and status, are two steps
each, as under two locks; `said` remembers the verdicts the heartbeat's counters stood for since
reports last stopped overlapping. `OandaStream` cuts the stream of lines into chunks anywhere,
inside a character of two bytes too, in which case the chunk is thrown away, lets connections be
refused, accepted, end or go silent, and includes the channel to the publisher (`Receive`, then
`Publish` for the awaited call) and the shutdown on Ctrl+C. `Startup` takes a base file, an
overlay and variables of the environment, each missing, broken or giving some keys, through merge,
defaults, overrides, cleaning of credentials and validation, as the binary and as the library's
three entry points do, up to the pool and the stream. A configuration is a function on sections
and keys with the defaults and ranges of the source.

### Pool, Publishers, Buffers, Topics

`get` checks the flag, awaits deadpool (external) and counts afterwards; the drop of a
connection counts first. A command may fail before or after Redis has executed it.
`close` and `reset` come at any time. In `Buffers` the channel operation and the count
of it are two steps, and so are the two stores of a reset; a serialiser may fail after
any piece. `Topics` checks the backtracking matcher and the template parser on all short
inputs, and the router, in both strict modes, on rules built, cloned (two rules then share an
identifier) and removed in any order.

## 3. Runs

| Run | Properties | Shows |
|---|---|---|
| `journal` | `IndInv`, `RingSafe`, `ImplementsFifo`, `EventuallyPopped`, `JournalKept`, `FlushDurable`, `WriterReturns`, `ReadsBack` | buffer: under every interleaving and every stale load items pass once and in order, the unsafe blocks are sound, counts are real, nothing leaks or is forgotten; writer: over two sessions with a file that gets full nothing accepted is lost by a close, order is kept, the footer fits, a healthy flush is complete, `flush` and `close` return; journal: a reader of what a closed or killed writer left returns a prefix, at least what was counted, all of it after a close |
| `gate` | `LimitsHold`, `Accounted`, `GateInv`, `EvaluateReturns` | whatever runs at once, open trades stay below the count limits and, at the least price the gate may value them at, below the gross limits; they are accounted for, the lock is given back, evaluations return |
| `book` | `BookSound`, `TrackerConsistent`, `InSync`, `ReportsTrue` | on a feed that loses, repeats and reorders, caches match levels (a price listed twice by a snapshot apart), a Normal book is the exchange's, reports are true |
| `trading` | `OrdersRecorded`, `TranslationFaithful`, `StreamExact`, `LockSafe`, `TradingReturns` | the journal tells the orders, messages keep their meaning, consumers get each message once, the book's lock is safe and its calls are served |
| `network` | `ConnectorSound`, `HealthSound`, `ReconnInv`, `BinarySound`, `CallsReturn` | no orphaned task, no call that hangs, health and gaps reported as they are, lines exact for chunks that are text, back-off kept, and the binary starts on one whole, valid configuration or on the defaults |
| `publisher` | `PoolSound`, `Published`, `QueuesExact`, `RoutingExact` | connections counted right, acknowledged is published, frames and batches accounted for, routing exact |
| `replay` | `ReplayFaithful`, `VerificationSound`, `EncodingsExact`, `ClockForward`, `RunsReturn` | frames delivered once, in order and on time, verdicts right, torn messages refused, equal hashes for equal states only, time forward, runs on a source that is not empty return |
| `providers` | `PositionsCurrent`, `PrimarySpared`, `GuardAtomic`, `AuditKept`, `ProvidersReturn` | positions are those of the moment or of a failed call, a broken primary is left alone, guarded operations exclude each other, audit entries are kept in order |

Four runs state what the documentation says and find it violated by what the code does;
each is a finding in `PROJECT.json` with the quoted line:

| Run | The documentation says | The code does |
|---|---|---|
| `journal_append` | append positions at the end | after a crash, at the first record |
| `gate_documented` | evaluate, execute, `confirm_execution`: the limits hold (`correlation-gate/README.md:77-79`, `:13`) | a trade confirmed before the gate has fetched it is counted nowhere, and the next one takes the currency to its hard limit |
| `verify_returns` | `run_with_verification` runs until completion and returns the statistics | on a source that is inactive from the start it loops for ever |
| `provider_deadlock` | the simulator provider is thread-safe | a fetch that holds the provider's lock and a change of position that holds the accessor's wait for each other for ever |

### Other disagreements met while modelling

No run states these; the models have the code's behaviour.

* *Journal.* In degraded mode `flush` gives up while the background thread still holds
  a record (`writer.rs:710`, `:725`). `write` returns `Ok` for a record it drops because
  the queue is full (`writer.rs:596`, `:636`). A degraded writer still stores records
  that fit (`writer.rs:26`, `:856`). The footer of an earlier session of an empty
  journal is read as a clean close if the next session dies before its first record
  (`reader.rs:587`).
* *Gate.* An evaluation past the state check still allows a trade when the gate has become FAILED
  (`gate.py:278`, `models.py:29`). A fetch may take longer than its timeout, because leaving the
  executor waits for the worker (`gate.py:616`, `models.py:349`). Pending and projected trades are
  sized at a placeholder price of 1.0 (`gate.py:345`, `:789`), so that a pair that costs more, or
  gold whose spot price rises after the check, can take the gross notional at market prices to its
  hard limit and past it; TLC shows it in the instance of `gate`. Opposite pendings net out in the
  counts (`models.py:213`, `README.md:26`).
* *Providers and security.* The OANDA provider returns a cached answer of any age on
  errors (`oanda.py:147-151`; `base.py:26` says that errors do not return stale data
  silently), so the fallback never takes over. A fetch may store, after an invalidation,
  what it read before. A recovery asks the primary twice. Audit entries logged after
  shutdown are never written; a full queue or a failed write loses entries; the join's
  timeout may reorder them (`audit.py:357`); `max_files` is exceeded by one.
  `operation_timeout` is never enforced; `check_and_increment` increments even when the
  version does not match.
* *Replay and codec.* `load` keeps a reader nothing reads from. A new engine is in mode
  Step while its clock warps. `step` under FastForward delivers frames early.
  `is_disconnected` can swallow a frame; a live source with an empty queue completes the
  replay; its `reset` drops the peeked frame. Two concurrent `advance_to` can move the
  clock back (`simulated_clock.rs:218`, `:245`). A report passes with no checkpoints;
  a text with a newline makes a state hash ambiguous. `MAX_VAR_DATA_LENGTH` is never
  enforced; BookSnapshot and OrderCancel have no decoder; any 1.x is decoded as 1.0.
* *Book.* A snapshot that lists a price twice is counted twice in the cached total until the next
  snapshot or `clear` (`orderbook.rs:454-455`, `:463-464`), and one that is not listed best first
  loses its better levels when it is cut to `max_levels` (`:453`); `main.rs:453` passes the
  exchange's list as it is. A batch that is refused counts as neither processed nor rejected;
  `updates_applied` is the number of levels; the checksum ignores quantities; a nested `read()`
  behind a waiting writer deadlocks; `try_read` fails while a writer only waits.
* *Orders and consumers.* `max_pending_orders` is never enforced; `clear` and status updates leave
  no record; cancels and modifications are recorded as OrderSubmit; `checkpoint_seq` advances when
  the write fails (`journal_tap.rs:173`). An OANDA name without exactly one `_` cannot be decoded
  (`gateway/mod.rs:335`), and what is decoded has `BASE_QUOTE` in place of the exchange's symbol
  (`gateway/mod.rs:351`), so that the Deribit perpetual and futures of one currency come out as
  one instrument; `BTC_USDC-PERPETUAL` comes back as BTC in USDC_USD. A Deribit channel with no
  name gives the empty symbol; the `UNKNOWN` of `deribit.rs:144` and `:204` cannot be reached. A
  Binance symbol in no known quote is cut before its last four characters, and a short one gets
  the quote USDT it never had (`binance.rs:243-248`). A malformed trade price becomes 0; `BNBUSD`
  is parsed as BN/BUSD. Starting at `$` loses messages between empty reads; two threads on one
  iterator read duplicates (`stream.rs:713`); messages in rkyv cannot be decoded.
* *Network.* A dead task leaves its handle Connected; an old task sets the gauge of a new
  connection to false; `reset` makes a disabled exchange Idle; a late message moves
  `last_sequence` back (`reconnect.rs:843`); jitter exceeds `max_delay`, and takes a delay below
  the initial one that `oanda_stream.rs:170` promises; Ctrl+C does not tell the stream task.
  Chunks "may split lines at arbitrary byte positions" (`oanda_stream.rs:67`), but one that begins
  or ends inside a character is thrown away whole (`:92`), lines and all. An exchange that is not
  monitored shows the health reported about it, where `heartbeat.rs:711` and `:94` say Unknown; of
  two reports that overlap (`:667`) the verdict of either may stay, whatever the counters then
  say.
* *Start.* Any value that does not parse or validate makes the binary go on with all
  defaults (`main.rs:86`); an overlay file that is empty drops the base file
  (`config.rs:1235`); an `oanda` section without `ws_url` has none, although the default
  configuration does; a `pool_size` of 1 is valid and then refused by the pool, whose
  `min_idle` is 2 (`main.rs:105`); `metrics.*` is read and validated but the exporter listens
  on port 9090.
* *Publisher.* `reset` closes deadpool for good while the flag reopens (`pool.rs:908`);
  `connections_created` counts every acquisition; a signal that fails after its book leaves an
  uncounted entry. `publish_dual` writes book and signal one after the other and returns the first
  error, where `dual.rs:463` says "in parallel" and `:199`, `:202` say that a key is None if its
  stream "failed": what `Published` says of an Ok, and of a signal and its book, holds because of
  the order in the code, and would not if the code did what these comments say. In strict mode an
  event that no rule matches has an empty result, where `topics.rs:922` says that it fails and
  `:1070` has an error for it (`topics_test.rs:692` expects what the code does);
  `NoMatchingRules`, `TooManyTopics` and `DuplicateRule` are never returned. A clone of a rule has
  the same identifier, and `remove_rule` removes the first of them only. `growth_count` does not
  count every growth (`buffer.rs:111`, `:287`); a depth of exactly 95% is Critical (`batch.rs:112`
  says above). Further, `ttl_seconds`, a rule's pattern and `case_insensitive` are never used;
  `RouteAndStop` may exceed `max_topics_per_event`; patterns and templates that do not parse are
  dropped silently; a `warn_threshold` of 0 is valid (`batch.rs:328`) and makes every depth a
  Warning, but a new monitor says Normal until its first update.

### Bounds

* Ring buffer (`part = "buffer"`): capacity 4, two items, 6 pushes: both indices wrap and the
  buffer is full and empty at every offset.
* Journal: payloads of 0 and 1 words, a queue of 2, 12 words of file: records and the footer fit,
  the next is dropped; up to 4 writes and 2 sessions (a journal that is read: one session, 3
  writes). A payload of size 0 has checksum 0, the case in which a header's last word can be zero.
  `SeqMod` stands for 2^32 and is larger than the number of records, see hazards.
* Gate: a pair and gold, both long the dollar, which are one too many for its count; a pair that
  was open before and with the other is one too many for the gross of the euro but not for its
  net; and a pair the parser refuses. The first pair costs 2 and gold moves between 1 and 2, so
  that the placeholder is wrong, and the gross at market prices does break. `MaxTime` 2 with
  `CacheAge` 0 and `PendingTimeout` 1 lets an entry be registered, executed, fetched, aged and
  expired; `gate_documented` has one tick more of each.
* Book: four messages, `max_levels` and `max_gaps` 2, so that two gaps, a cut level, a refused
  level, a batch that passes the limit on its way, a crossed market and a stale snapshot all
  occur; a plain snapshot that is unsorted, too long, has a price twice and an empty level; five
  reported calls.
* Trading: two orders of two threads, one change, two checkpoints and one lost record; two clients
  of the adapters; Binance symbols with a known quote, an unknown one and a short one, OANDA names
  with no `_` or two, a Deribit channel without a name and one whose name has an `_`; books of two
  levels a side, with quantities on both sides of what an `f64` holds; two messages over two
  topics and two readers; two threads with two calls each on two handles, enough for every pair of
  calls to meet.
* Network: one exchange, two callers, two connections: a connect that overlaps another call or a
  dying task; channels of one place, so that everybody waits; three reports; sequence numbers 1 to
  4 in any order; streams of five tokens over two connections, a character of two tokens among
  them. The configurations are *probes*, pairs of keys of one section with values on both sides of
  each limit, given in any of the layers; keys of different sections never meet in a condition, so
  that pairs within a section are enough.
* Publisher: a pool of one connection and two clients (symmetric), one reset; four
  frames through one place; patterns, topics and templates of three segments; three rules, in
  both strict modes.
* Replay: three frames sent or a recording of up to four, an empty one included (`Recordings`),
  two sessions, every mode; two clock users with four calls; every message kind with variable
  parts of 0, 1 and 5 bytes.
* Providers: two threads with six calls; a clock of five with a cache of one and a
  recovery interval of two; two operations nested in two threads; four audit entries in
  a queue of two.

Every bound is a constant in the guards. Deadlock is checked in the journal and
gate runs; in the others the environment may simply stop calling once its bound is
reached, and the liveness properties say what must not get stuck.

### Fairness

`journal`: the background thread is an OS thread in a loop, so
it keeps taking steps (weak fairness), its loads do not stay stale for ever (strong
fairness of `BgPop`, weak of `PopCheck`), and a caller inside `flush` or `close`
continues. Nothing is assumed of `write`. `gate`: a thread that may run runs, and the
provider returns or raises, without which an evaluation that fetches need not return.
`network`: tasks and receivers are scheduled, tokio's semaphore and the map's locks
serve in turn, handshakes end. `trading`: Redis answers or its timeout passes, and a
thread that can go on does. `replay`: the loop of a run is scheduled. `providers`: the
threads inside a call and the audit writer run. No fairness is assumed of a caller that
starts something.

## 4. Proofs

All theorems hold for every value of the constants that satisfies the named
assumptions, which TLC evaluates in the runs. Each theorem is about the specification of
the component (its safety part); where an MC module checks several components in one run,
the component's own specification is the one named here.

`JournalProofs` first has the ring buffer (assumptions: capacity at least 2 and items distinct
from the empty slot; that the capacity is a power of two is not needed, `% Capacity` is what the
mask computes). `FifoOrder` alone is not inductive: nothing in it says why the item at `tail` is
the next one. `IndInv` adds `Counters` (the indices are the counters modulo the capacity, the
views lag behind them by less than the capacity) and `Ownership` (a slot owns an item exactly when
that item is between the counters, except for the one being pushed and the one moved out). The
arithmetic rests on `IndexAfterInjective`: counters that differ by less than the capacity have
different indices. From it follow `FifoSafety`, `UnsafeBlocksSound`, `CountsExact`,
`NothingLeaks`, together `RingAlwaysSafe`, and, with `ContentsArePending` (the memory between the
indices is the part of the history between the counters), `Refinement`.

It then has the writer (assumption `WriterAssumption`: sequence numbers do not wrap around within
one file and one ring). `JournalAlwaysKept` is `JournalKept`: every record that `try_push` took in
is stored, on its way, or was refused by a full file, in the order of the calls, and there is
always room for the footer. `WriterInv` says where every accepted entry is: `RingMirrors` (the
ring is the accepted entries not yet popped, both views between them), `HandHolds` (the popped
entry in the writer's hand), `AcceptedInOrder` (timestamps identify entries), `FateKnown` (the
entries before that are stored or dropped, and no others), `CountsFollow` (`records_written` is
late by the record being finished), `RoomLeft`, `Leaving` and `Flushing` (what shutdown and a
flush have already done). `FlushIsDurable` is the action property that `flush` of a healthy writer
returns only when every record accepted so far is in the file.

Last it has the file as a reader finds it. `JournalReadsBack` is `ReadsBack` for a journal of one
session (`MaxSessions = 1`): whatever the payloads, the size of the file and the step at which the
writer was killed, the reader returns the stored records in order, at least those counted, all of
them after a close. One session is the hypothesis because `append` after a kill overwrites the
first record (finding `AppendsAtEnd`), after which the statement is no longer about what this
session stored. In `JournalInv`, `Layout` says at which offset each stored record lies and that
its words are there, `TailKnown` what follows the last one (nothing, the header of the record
being written, with or without its checksum, or the footer), and `ReaderFollows` that the reader
stands at the offset of a record and has returned the ones before it.

`ReplayProofs` (frames are numbered and have a time, in any order of times, and limits are
naturals: `ClockAssumption`, `EngineAssumption`, `SetupAssumption`, `RecordingAssumption`).
`ReplayAlwaysFaithful` is `ReplayFaithful`: any number of sessions over any recording, in any
mode, with a live sender beside the engine, delivers the frames once, in order, none before its
time unless `step` runs under FastForward. Each action is first reduced to one of six things it
can do to source, clock and trace (`Quiet`, `Sends`, `Swallows`, `Rewinds`, `Advances`,
`Delivers`). `ReplayInv` then needs `LiveInv` (the numbers of the frames a live source still has
continue those delivered or swallowed) and `TimeInv` (the clock has not passed the next frame by
more than the frames before it made it). `ClockAlwaysForward` is the action property that
`advance_to` sets the clock back only in a race with another change of it (`RaceInv`).
`VerdictsAlwaysSound` is `VerificationSound`, for any recordings, whatever their checkpoints
carry, and any `VerifyConfig`. `VerifyInv` adds to it that the counts are those of the comparator
and of the results (`Tallied`), that a session begins with none, and that what the callback has
seen and what was counted are what the frames up to the source's position say (`Judged`), unless a
reset left the callback with what it had seen. What the application has seen is a recursive
function; that it exists is an induction over the frames (`SeenExists`). The attempt showed that
an earlier form of the property was too strong where the run does not look: with
`stop_on_mismatch` it allowed one mismatch in a session, and a second call of
`run_with_verification` goes on behind it. `StopsInTime` now says it of each call.

`CorrelationGateProofs` (assumption `GateAssumption`). `LockDiscipline` is the type invariant with
the lock's ownership: held exactly by the thread whose provider call is out. `NeverUnaccounted` is
`Accounted` for a careful caller. It is not inductive: a fetch that was started before a trade and
answers after it replaces the cache by one that misses the trade and is stamped new. The
strengthening `GateInv` (`StaleCacheCovered`) says that an open trade missing from the cache is
pending until that cache is too old (`CacheCovered`), that one missing from the fetch now out is
pending until that fetch, at its latest, has come back and grown old (`FetchCovered`), that calls
are bounded (`Timely`) and that a confirmed trade is in the cache and in any answer on its way
(`Lifecycle`). `LimitsAlwaysHold` is `LimitsHold` for a careful caller whose account is below its
limits when the gate is created (`StartsBelow`, which the instance of `gate` meets), whatever the
prices are and however spot moves. The gross limit is that of the trades at the least price the
gate may value them at (`GatePrices`): each valuation the gate makes is at least that, so a trade
it lets through fits at that price together with all others. At market prices the statement is
false, see section 3. `Committed` are the trades that are open, or let through and still in time
to be placed; a check lets a trade through only if it fits under each limit together with the rest
of that set (`DecideCommits`), and all other steps only take trades out of it. A trade's worth is
the cardinality of a set of dollars, so that a total is the size of a union and needs no induction
over a sum. `CountsStayBelow` is `CountsHold`, the part about counts, in which no price occurs.

`BookFeedProofs` (assumptions `OrderBookAssumption`, `TrackerAssumption`, `MessageAssumption`,
`SnapshotAssumption`: a book has at least one level, sequence numbers and prices are numbers,
`None` and `NoSequence` are not among them). `TrackerAlwaysConsistent` is `TrackerConsistent` for
any messages, `max_gaps` and order of calls; it is inductive together with the fact that sequence
numbers are naturals. `TrimFacts` describes what forgetting the oldest gap leaves,
`RecordConsistent` and `ResetConsistent` are the two ways the tracker changes. `BookAlwaysSound`
is `BookSound`: after any calls the cached total is the sum of the levels and of `surplus`, what a
snapshot has listed twice (in any order and of any length: `SnapshotKept` follows the loop level
by level), the cached best level the best of them, and no side is longer than `max_levels`.
`BookAlwaysInSync` is `InSync`: whatever the feed lost, repeated or reordered, a book that reports
Normal has the exchange's levels of the message it tracks. `BookInv` has `KeptBook` (what every
operation keeps of both sides), `MarketFollows` (the exchange's book after message n is its book
before with the last quantity named for each price) and `TrackerBehind` (the tracker has seen no
number that was not sent). The loops of `apply_delta` and `from_snapshot` go over messages of any
length. The library's induction theorems take a predicate as an operator, which the provers cannot
instantiate, so the proofs use sets instead: `Induction` (a set of naturals with 0 and with the
successor of each member has them all, from the well-foundedness of `<`), `IterationExists` (a
loop of n turns has a sequence of results) and `SubsetInduction` (for sums over finite sets,
`SumOver`).

`TradingProofs` (`Threads` is finite; exchanges are those of the source, `OrderAssumption`).
`LockAlwaysSafe` is `LockSafe`: readers see whole writes, threads block each other for good only
through a nested call, and the statistics account for every call. In `LockInv`, `WriterKnown` ties
the lock's writer bit to the place of the thread that has it, `GuardsKnown` the number of guards
to the place of the thread that holds them, `Exclusive` says that nobody reads once a writer is
past its wait for the readers, and `WholeBook` that the book is one a completed write has left,
except between the two steps of a batch. `StatsAccount` counts sets of calls, so that a step adds
or removes one. `OrdersAlwaysRecorded` is `OrdersRecorded`, of the whole composition of
`MCTrading`: an order's identifier is its own, the counters count the orders where they are, and a
journal that lost none of an order's records tells what became of it. In `OrderInv`, `IdsApart`
says that an identifier is with one trader, tracked or gone, and that its submission is recorded
once and not before its trader has recorded it, `CountsRight` is about the counters,
`JournalTells` also covers the orders between record and tracking, and `PointsKnown` says which
checkpoints were written and which lost. `StreamAlwaysExact` is `StreamExact`, of the same
composition, for any topics, messages and threads (`StreamAssumption`: the count of `XREAD` is a
natural). `StreamInv` has `Solo` while no two threads were inside `XREAD` at once: there is one
reader (`OneReader`), it asks for what follows the last id (`AsksOn`), what it has left of an
answer follows the last id, or the first position when there is none yet (`GoesOn`), and a topic
that was read from has a last id unless its first message is still to come (`FirstKnown`).

`PublisherProofs` (`PoolClients` is finite). `PoolAlwaysSound` is `PoolSound`: the gauge of
connections in use never shows more than are out, shows none at rest, and the health is what the
checks since the last reset found. `AlwaysPublished` is `Published`: what was acknowledged is in
Redis and counted, and no signal without its book. `PublisherInv` has `GaugeKnown` (the gauge
counts only clients whose connection the statistics know of), `HealthKnown`, `Numbered` (the
snapshots under way are new and each is one client's), `Doing` (what Redis has of a snapshot
follows from how far its publish has come) and `CountsKnown`. `QueuesAlwaysExact` is
`QueuesExact`, of the composition in `MCPublisher`, for any finite set of senders
(`BackpressureAssumption`), any payloads that are sequences (`SerializationAssumption`) and any
valid batch configuration (`BatchingAssumption`): every frame offered is counted once, up to the
increments still to come, and arrives in order; a callback sees the bytes of its own value; the
batches are the messages added; the monitor's status is that of the last depth. In `QueuesInv`,
`BackpressureInv` orders the frames received, then those in the channel (`InOrder`), and counts
senders and outcomes as sets (`Counting`); `BatchInv` says of the batches taken and of the one
being filled what `BatchExact` says of both; `MonitorInv` names the depth the status is of. What
`FoldLeft` and `FlattenSeq` compute for one element more (`SizesAppend`, `FlattenAppend`) is again
proved by induction on a set of naturals.

`NetworkProofs` has three theorems.

* `LossesNoticed` (assumption `ReconnectionAssumption`: sequence numbers are naturals) is
  `ReconnInv` for any exchanges, threads and numbers: between the first and the highest number
  seen, every number that never came is within a gap that `record_sequence` has reported
  (`NoSilentLoss`), although a late message moves `last_sequence` back, and an enabled
  exchange shows as Disabled only between the two steps of `enable` (`EnabledNotDisabled`).
  `Tracked` makes it inductive: the tracked number is one of those seen, so that the next one
  either follows a number that was seen or opens a gap that reaches down to it.
* `HealthAlwaysSound` (assumption: `"none"` is not an exchange) is `HealthSound`: the status
  is the one the counters mean whenever it is settled, one that they have meant since it last was
  otherwise (`SaidInv`), and the latencies shown are bounded
  by those measured. `HealthInv` adds what a report between its two locks has changed already
  (`Between`), that without an overlap it is the only one of its exchange (`Sole`) and that an
  entry nothing was reported about is as new (`Reported`).
* `ConnectorAlwaysSound` is `ConnectorSound`: no task runs on that nobody can end, and the
  gauge does not hide a live connection. In `ConnInv` a handle is that of a task of its
  exchange (`Owned`), `CallKnown` says what each call is about, and, unless calls for an
  exchange clashed, there is one such call (`OneCall`), one task (`OneLive`), none in the map
  while a disconnect waits for it (`Gone`), and the gauge shows it (`Shown`). TLC checked it
  with two exchanges, two callers and three connections.

`ProvidersProofs` is about the modules beside the gate and their composition (`NoOwner` and
`Nobody` are not threads, times are naturals, the health window is positive). `GuardAlwaysAtomic`
rests on `GuardInv`: a nested operation remembers the id of the one around it (`Nested`), which a
release restores, and a version that was matched is past (`Past`). `PrimaryAlwaysSpared` rests on
`FallbackInv`: a primary in use has not failed `FailureThreshold` times, and while it is not in
use the attempt that the recovery interval counts from is no earlier than the last time it was
asked. `PositionsFreshOrFailed` rests on `FetchInv`: what is cached was read during the request
that fetched it, and a request is not older than its timeout. `AlwaysToldCurrent` and
`AlwaysListens` rest on `SimInv`: who holds which lock (`SimLocks`), that the listener is as the
subscriptions ask for or its owner is changing it (`Listening`), and what a fetch may find while a
change is being told (`Refetched`). `HealthAlwaysRecent` rests on `MonitorInv`: the window is the
end of the history, and the last success and failure are named, so that their maximum exists
without an induction. `ProvidersCompose` shows that a behaviour of the composition is one of each
part: every step of it is a step of the part or leaves the part alone. `PositionsAlwaysCurrent` is
`PositionsCurrent`, from it and the theorems of the parts. `AuditAlwaysKept` is `AuditKept`, for
any queue, file and directory limits (`AuditAssumption`: they are naturals). In `AuditInv`,
`InLine` says that queue and batches are in order, that the queue has the newest entries and,
unless shutdown gave up waiting, that the batches come after the files and these after what was
removed; `WorkersKnown` says who may hold a batch, and `Named` that the files are named in their
order, the current one being there when they are one too many. A write is three moves of entries
between places, each of which keeps every entry in one place (`MovedApart`). The proof made the
property stronger: it now tells apart the queue and the two batches, and places with the same
entries, which compared as sets were one.

Only model-checked, and why:

* `ReportsTrue`, `TranslationFaithful`, `RoutingExact`, `EncodingsExact`: they compare what folds,
  `SelectSeq` and recursive definitions compute over sequences of any length with reference
  definitions. Each such comparison is an induction over data; where the invariant mattered most
  (the order book, the journal, the replay and its verification) it was carried out in the form of
  sets, here it was not;
* `BinarySound`: configurations are merged by folds over the layers;
* every liveness property: fairness and `ENABLED` are outside the prover's reach.

## 5. Not modelled

Power loss and page write-back order; the byte-level file header; file-system errors on open; TLS,
authentication and rate limits; floating-point rounding beyond what an `f64` cannot hold; text and
layout of reports; logging and metric exporters. Of the components: the command line and shared
value types; the text of configuration files and the two exchanges that nothing starts; the gate's
API wrappers, provider factory and in-memory default provider; the null tap; the Python wrappers
of the bindings other than the stream iterator; shadow-mode keys of the publisher. They keep no
state that another component relies on, or are I/O. `gauntlet` is statistics over data frames,
outside what TLC or TLAPS can say something useful about. Prices are small integers; the gate's
placeholder price is 1, the broker's and spot are 1 or 2. Of batches, the tests of readiness and
the time limits.

## 6. Plan

1. Proofs: `RoutingExact`, with what `SelectSeq` keeps proved in the form of sets.
2. The refinement of the writer's queue by `RingBuffer` in one specification.
3. Composition of `OrderManager` with `JournalWriter` through the tap, in place of the
   abstract journal that may lose a record.
