---------------------------- MODULE OandaStream ----------------------------
(***************************************************************************)
(* The flash binary (flash/src/main.rs with network/oanda_stream.rs): the  *)
(* task that keeps the OANDA price stream open, the channel of snapshots,  *)
(* the publisher task, and the shutdown on Ctrl+C.                         *)
(*                                                                         *)
(* The stream is a sequence of tokens: "price" and "beat" are texts, "nl"  *)
(* ends the line, "lead" and "tail" are the bytes of one character.  The   *)
(* server's chunks cut the stream anywhere between two tokens, inside a    *)
(* character too; two texts in one line do not parse.  Delays come out of  *)
(* calculate_delay of reconnect.rs; jitter is a whole percentage.          *)
(* Publishing itself is the subject of Publishers: here it succeeds or     *)
(* fails.                                                                  *)
(***************************************************************************)
EXTENDS Integers, Sequences, SequencesExt

CONSTANTS InitialDelay, MaxDelay,  \* reconnect_delay_ms, max_reconnect_delay_ms
          Jitter,                  \* reconnect_jitter in percent, at most 50
          MaxAttempts,             \* max_reconnect_attempts; 0 is unlimited
          PublishSize,             \* PUBLISH_CHANNEL_SIZE
          Chunks,                  \* what the server may send at once
          MaxTokens,               \* bound on the tokens of one connection
          MaxConnects,             \* bound on the connections accepted
          MaxPrices                \* bound on the prices processed

\* ReconnectionConfig::validate; OandaReconnectPolicy::new clamps the jitter.
ValidReconnectionConfig ==
  /\ InitialDelay \in Nat /\ MaxDelay \in Nat /\ MaxDelay >= InitialDelay
  /\ Jitter \in 0..50

ASSUME OandaAssumption == ValidReconnectionConfig /\ MaxAttempts \in Nat

VARIABLES phase,      \* of the stream task: "top", "connecting", "streaming",
                      \* "asleep" or "stopped"
          attempt,    \* OandaReconnectPolicy::attempt
          delay,      \* the delay of the present sleep
          received,   \* history: the chunks of this connection
          buffer,     \* consume_ndjson_stream's buffer
          lines,      \* history: the lines it handed out on this connection
          queue,      \* the snapshot channel: the numbers of the prices
          inHand,     \* what the publisher task took from it: at most one
          prices,     \* the prices processed; the latest is in the book
          published, errors, dropped,  \* how the snapshots fared
          backpressure,                \* FLASH_BACKPRESSURE_STATUS
          main,       \* "running", "join_oanda", "join_publisher" or "exited"
          barren,     \* history: attempts since a line last came
          connects    \* history: the connections accepted (only for the bound)

oandaVars == <<phase, attempt, delay, received, buffer, lines, queue, inHand, prices,
               published, errors, dropped, backpressure, main, barren, connects>>

pipeVars == <<queue, inHand, prices, published, errors, dropped, backpressure>>

\* main up to the spawning of the two tasks.
OandaInit ==
  /\ phase = "top" /\ attempt = 0 /\ delay = 0
  /\ received = <<>> /\ buffer = <<>> /\ lines = <<>>
  /\ queue = <<>> /\ inHand = <<>> /\ prices = 0
  /\ published = <<>> /\ errors = 0 /\ dropped = 0 /\ backpressure = 0
  /\ main = "running"
  /\ barren = 0 /\ connects = 0

-----------------------------------------------------------------------------
\* ReconnectionConfig::calculate_delay with a multiplier of 2, for a jitter
\* of j percent between -Jitter and Jitter.
Capped(n) ==
  LET base == InitialDelay * 2 ^ (n - 1)
  IN  IF base < MaxDelay THEN base ELSE MaxDelay

calculate_delay(n, j) ==
  LET jittered == (Capped(n) * (100 + j)) \div 100
  IN  IF Jitter > 0 /\ jittered < 1 THEN 1 ELSE jittered

\* begin_attempt, at the top of the loop of run_oanda_stream.
BeginAttempt ==
  /\ phase = "top" /\ main # "exited"
  /\ attempt' = attempt + 1
  /\ barren' = barren + 1
  /\ phase' = IF MaxAttempts # 0 /\ attempt' > MaxAttempts THEN "stopped" ELSE "connecting"
  /\ UNCHANGED <<delay, received, buffer, lines, pipeVars, main, connects>>

\* backoff_delay and the sleep after a failed request, a status other than
\* 2xx or the end of the stream.
Sleep(j) ==
  /\ phase' = "asleep"
  /\ delay' = calculate_delay(IF attempt > 1 THEN attempt ELSE 1, j)
  /\ received' = <<>> /\ buffer' = <<>> /\ lines' = <<>>
  /\ UNCHANGED <<attempt, pipeVars, main, barren, connects>>

Refused(j) == phase = "connecting" /\ main # "exited" /\ Sleep(j)

\* End of file, transport error or nothing for idle_timeout.
StreamEnds(j) == phase = "streaming" /\ main # "exited" /\ Sleep(j)

\* The server accepts; on_connected does not touch the counter.
Accepted ==
  /\ phase = "connecting" /\ main # "exited"
  /\ connects < MaxConnects
  /\ phase' = "streaming"
  /\ connects' = connects + 1
  /\ UNCHANGED <<attempt, delay, received, buffer, lines, pipeVars, main, barren>>

Wake ==
  /\ phase = "asleep" /\ main # "exited"
  /\ phase' = "top" /\ delay' = 0
  /\ UNCHANGED <<attempt, received, buffer, lines, pipeVars, main, barren, connects>>

-----------------------------------------------------------------------------
\* process_oanda_message on a line; acc holds what it changes.  Heartbeats
\* and what does not parse are skipped; a price goes into its book and, if
\* there is room, into the channel.
process_oanda_message(acc, line) ==
  IF SelectSeq(line, LAMBDA t : t \notin {"lead", "tail"}) # <<"price">> THEN acc
  ELSE LET n == acc.prices + 1
       IN  IF Len(acc.queue) < PublishSize
           THEN [queue |-> Append(acc.queue, n), prices |-> n,
                 dropped |-> acc.dropped, backpressure |-> 0]
           ELSE [queue |-> acc.queue, prices |-> n,
                 dropped |-> acc.dropped + 1, backpressure |-> 1]

\* The complete, non-empty lines so far and the beginning of the next one.
TakeToken(acc, t) ==
  IF t # "nl" THEN [acc EXCEPT !.rest = Append(@, t)]
  ELSE [rest |-> <<>>,
        lines |-> IF acc.rest = <<>> THEN acc.lines ELSE Append(acc.lines, acc.rest)]

\* Mutant: what follows the last line is thrown away.
SplitForgetful(buf, chunk) ==
  LET split == FoldLeft(TakeToken, [rest |-> <<>>, lines |-> <<>>], buf \o chunk)
  IN  [split EXCEPT !.rest = IF split.lines = <<>> THEN @ ELSE <<>>]

\* The while loop of consume_ndjson_stream.
Split(buf, chunk) == FoldLeft(TakeToken, [rest |-> <<>>, lines |-> <<>>], buf \o chunk)

\* std::str::from_utf8: no character is begun and not ended, or the reverse.
Utf8(chunk) ==
  \A i \in DOMAIN chunk :
    /\ chunk[i] = "lead" => i < Len(chunk) /\ chunk[i + 1] = "tail"
    /\ chunk[i] = "tail" => i > 1 /\ chunk[i - 1] = "lead"

\* A chunk arrives.  If it is text by itself every line it completes is handed
\* out, and each resets the attempt counter, a heartbeat too (on_data); if it
\* is not, it is thrown away.
Chunk(chunk) ==
  LET split == IF Utf8(chunk) THEN Split(buffer, chunk) ELSE [rest |-> buffer, lines |-> <<>>]
      after == FoldLeft(process_oanda_message,
                        [queue |-> queue, prices |-> prices,
                         dropped |-> dropped, backpressure |-> backpressure],
                        split.lines)
  IN  /\ phase = "streaming" /\ main # "exited"
      /\ Len(FlattenSeq(received)) + Len(chunk) <= MaxTokens
      /\ after.prices <= MaxPrices
      /\ received' = Append(received, chunk)
      /\ buffer' = split.rest
      /\ lines' = lines \o split.lines
      /\ attempt' = IF split.lines # <<>> THEN 0 ELSE attempt
      /\ barren' = IF split.lines # <<>> THEN 0 ELSE barren
      /\ queue' = after.queue /\ prices' = after.prices
      /\ dropped' = after.dropped /\ backpressure' = after.backpressure
      /\ UNCHANGED <<phase, delay, inHand, published, errors, main, connects>>

-----------------------------------------------------------------------------
\* run_publisher_task takes a snapshot and awaits publish_dual, which succeeds
\* or fails.
Receive ==
  /\ queue # <<>> /\ inHand = <<>> /\ main # "exited"
  /\ inHand' = <<Head(queue)>> /\ queue' = Tail(queue)
  /\ UNCHANGED <<phase, attempt, delay, received, buffer, lines, prices, published, errors,
                 dropped, backpressure, main, barren, connects>>

Publish(ok) ==
  /\ inHand # <<>> /\ main # "exited"
  /\ inHand' = <<>>
  /\ published' = IF ok THEN published \o inHand ELSE published
  /\ errors' = IF ok THEN errors ELSE errors + 1
  /\ UNCHANGED <<phase, attempt, delay, received, buffer, lines, queue, prices, dropped,
                 backpressure, main, barren, connects>>

MainGoes(from, to) ==
  /\ main = from /\ main' = to
  /\ UNCHANGED <<phase, attempt, delay, received, buffer, lines, pipeVars, barren, connects>>

\* Ctrl+C.  The stream task is not told; main waits for it at most five
\* seconds.
CtrlC == MainGoes("running", "join_oanda")
JoinOanda == MainGoes("join_oanda", "join_publisher")

\* main waits for the publisher task, which ends when the channel is empty
\* and every sender gone, at most five seconds; then the runtime is dropped
\* with everything that still runs on it.
JoinPublisher == MainGoes("join_publisher", "exited")

OandaNext ==
  \/ BeginAttempt \/ Accepted \/ Wake
  \/ \E j \in {-Jitter, 0, Jitter} : Refused(j) \/ StreamEnds(j)
  \/ \E chunk \in Chunks : Chunk(chunk)
  \/ Receive \/ \E ok \in BOOLEAN : Publish(ok)
  \/ CtrlC \/ JoinOanda \/ JoinPublisher

-----------------------------------------------------------------------------
\* The lines handed out do not depend on where between two characters the
\* chunks were cut: they are the non-empty lines of the text received on the
\* connection, each exactly once and in order, and the rest is in the buffer.
\* That text leaves out the chunks that are not text by themselves, although
\* the comment on consume_ndjson_stream lets chunks split at any byte: cut
\* inside a character, two chunks are lost with all their lines, and what is
\* before them is joined to what follows.
LinesExact ==
  LET text == FlattenSeq(SelectSeq(received, Utf8))
      ends == {i \in DOMAIN text : text[i] = "nl"}
      from(i) == CHOOSE k \in ends \cup {0} :
                   k < i /\ \A m \in ends : m < i => m <= k
      cut == SetToSortSeq(ends, <)
      all == [k \in DOMAIN cut |-> SubSeq(text, from(cut[k]) + 1, cut[k] - 1)]
  IN  phase = "streaming" =>
        /\ lines = SelectSeq(all, LAMBDA l : l # <<>>)
        /\ buffer = SubSeq(text, from(Len(text) + 1) + 1, Len(text))

\* A server that accepts and drops, refuses, stays silent or sends what is no
\* text is asked at most max_reconnect_attempts times in a row; before the
\* next time the task sleeps for the initial delay, doubled for each attempt
\* since a line last came and limited by the cap, give or take the jitter.
\* (backoff_delay promises "at least the configured initial delay"; the jitter
\* takes up to its percentage off that.)
BacksOff ==
  LET n == IF barren > 1 THEN barren ELSE 1
      full == IF InitialDelay * 2 ^ (n - 1) < MaxDelay THEN InitialDelay * 2 ^ (n - 1)
              ELSE MaxDelay
  IN  /\ MaxAttempts # 0 => barren <= MaxAttempts + 1
      /\ phase = "asleep" => /\ 100 * (delay + 1) > full * (100 - Jitter)
                             /\ 100 * (delay - 1) <= full * (100 + Jitter)
                             /\ full > 0 /\ Jitter > 0 => delay > 0

\* Nothing vanishes between the line and Redis while the binary runs: every
\* price is still queued, in the publisher's hand, published, counted as an
\* error or counted as dropped, and what was published came in order, none
\* twice.
SnapshotsAccounted ==
  LET waiting == inHand \o queue
  IN  /\ prices = Len(waiting) + Len(published) + errors + dropped
      /\ \A i, k \in DOMAIN (published \o waiting) :
            i < k => (published \o waiting)[i] < (published \o waiting)[k]
      /\ backpressure = 1 => dropped > 0

\* The OANDA stream loses chunks that are not text, what the publisher's queue
\* refuses and nothing else, and waits before it connects again: lines are put
\* together exactly from the other chunks, the delays grow to their limit, and
\* every price is accounted for.
OandaSound == LinesExact /\ BacksOff /\ SnapshotsAccounted
=============================================================================
