--------------------------- MODULE JournalWriter ---------------------------
(***************************************************************************)
(* journal/writer.rs: the trading thread writes records to a ring buffer,  *)
(* a background thread drains it into the memory-mapped file, flush and    *)
(* close wait for it, and the process may be killed between any two steps. *)
(* A killed process leaves in the file every store it made (MAP_SHARED).   *)
(*                                                                         *)
(* The ring buffer is the bounded queue that RingBuffer implements; as     *)
(* there, each side may see the other's index late (seenPops, seenPushes). *)
(***************************************************************************)
EXTENDS JournalFile

CONSTANTS RingMax,      \* ring_buffer.max_size()
          SeqMod,       \* sequence numbers wrap here (2^32 in the code)
          MaxWrites,    \* bound: calls of write over all sessions
          MaxSessions,  \* bound: sessions (new, then append) on one file
          NoEntry       \* the background thread holds no entry

ASSUME WriterAssumption ==
  /\ RingMax \in Nat \ {0}
  /\ SeqMod \in Nat /\ SeqMod > FileWords + RingMax
  /\ MaxWrites \in Nat /\ MaxSessions \in Nat
  /\ NoEntry \notin Entries

VARIABLES
  session,          \* "open", "closed" (footer written) or "killed"
  sessions,         \* how many sessions the file has had
  writes,           \* calls of write so far: the clock behind timestamps
  \* SharedState
  ring, nPush, nPop, seenPops, seenPushes,
  shutdown, degraded, records_written, write_position, last_timestamp,
  \* the trading thread
  ppc, sequence, target,
  \* the background thread
  bpc, bEntry, bSeq,
  \* history
  accepted,         \* entries pushed in this session, in order
  stored,           \* entries of this session whose words are in the file
  dropped           \* entries of this session discarded for lack of space

ringVars == <<ring, nPush, nPop, seenPops, seenPushes>>
sharedVars == <<shutdown, degraded, records_written, write_position, last_timestamp>>
producerVars == <<ppc, sequence, target>>
backgroundVars == <<bpc, bEntry, bSeq>>
historyVars == <<accepted, stored, dropped>>
sessionVars == <<session, sessions, writes>>
writerVars == <<fileVars, sessionVars, ringVars, sharedVars, producerVars,
                backgroundVars, historyVars>>

-----------------------------------------------------------------------------
\* JournalWriter::new (and with_clock): a new file, its header flushed;
\* SharedState::new, write_position = first_record.
WriterInit ==
  /\ file = Blank /\ recordCount = 0
  /\ session = "open" /\ sessions = 1 /\ writes = 0
  /\ ring = <<>> /\ nPush = 0 /\ nPop = 0 /\ seenPops = 0 /\ seenPushes = 0
  /\ shutdown = FALSE /\ degraded = FALSE /\ records_written = 0
  /\ write_position = 0 /\ last_timestamp = 0
  /\ ppc = "idle" /\ sequence = 0 /\ target = 0
  /\ bpc = "pop" /\ bEntry = NoEntry /\ bSeq = 0
  /\ accepted = <<>> /\ stored = <<>> /\ dropped = {}

\* JournalWriter::append on an existing file.  The code positions at
\* first_record, and refuses a header with a non-zero record_count.
AppendSession ==
  /\ session # "open" /\ sessions < MaxSessions
  /\ recordCount = 0
  /\ session' = "open" /\ sessions' = sessions + 1
  /\ ring' = <<>> /\ nPush' = 0 /\ nPop' = 0 /\ seenPops' = 0 /\ seenPushes' = 0
  /\ shutdown' = FALSE /\ degraded' = FALSE /\ records_written' = 0
  /\ write_position' = 0 /\ last_timestamp' = 0
  /\ ppc' = "idle" /\ sequence' = 0 /\ target' = 0
  /\ bpc' = "pop" /\ bEntry' = NoEntry /\ bSeq' = 0
  /\ accepted' = <<>> /\ stored' = <<>> /\ dropped' = {}
  /\ UNCHANGED <<fileVars, writes>>

\* The process is killed: memory is lost, the file keeps what was stored.
Kill ==
  /\ session = "open"
  /\ session' = "killed"
  /\ UNCHANGED <<fileVars, sessions, writes, ringVars, sharedVars,
                 producerVars, backgroundVars, historyVars>>

-----------------------------------------------------------------------------
(* The trading thread.                                                     *)

Ready == session = "open" /\ ppc = "idle" /\ writes < MaxWrites

NewEntry(len) == [ts |-> writes + 1, len |-> len]

\* write and write_with_timestamp: the push succeeds.
WriteAccepted(len) ==
  /\ Ready
  /\ \E k \in seenPops .. nPop : nPush - k < RingMax /\ seenPops' = k
  /\ writes' = writes + 1
  /\ ring' = Append(ring, NewEntry(len)) /\ nPush' = nPush + 1
  /\ sequence' = (sequence + 1) % SeqMod
  /\ accepted' = Append(accepted, NewEntry(len))
  /\ UNCHANGED <<fileVars, session, sessions, nPop, seenPushes, sharedVars,
                 ppc, target, backgroundVars, stored, dropped>>

\* write: the ring buffer looks full.  Degraded is an error; otherwise the
\* record is dropped and the call still returns Ok; the state is the same.
WriteRefused ==
  /\ Ready
  /\ \E k \in seenPops .. nPop : nPush - k >= RingMax /\ seenPops' = k
  /\ writes' = writes + 1
  /\ UNCHANGED <<fileVars, session, sessions, ring, nPush, nPop, seenPushes,
                 sharedVars, producerVars, backgroundVars, accepted, stored,
                 dropped>>

Producer(from, to) ==
  /\ session = "open" /\ ppc = from /\ ppc' = to
  /\ UNCHANGED <<sessionVars, ringVars, sequence, backgroundVars, historyVars>>

\* flush: let target = self.sequence as u64
FlushBegin ==
  /\ Producer("idle", "flush")
  /\ target' = sequence
  /\ UNCHANGED <<fileVars, sharedVars>>

FlushStep(from, to) ==
  Producer(from, to) /\ UNCHANGED <<fileVars, sharedVars, target>>

\* Mutant: flush waits for the ring buffer only.
FlushWrittenRingOnly == FlushStep("flush", "idle") /\ ring = <<>>

\* flush: written >= target, so break
FlushWritten == FlushStep("flush", "idle") /\ records_written >= target

\* flush: not yet; then degraded is loaded
FlushNotYet == FlushStep("flush", "flushDegraded") /\ records_written < target
FlushHealthy == FlushStep("flushDegraded", "flush") /\ ~degraded
FlushDegraded == FlushStep("flushDegraded", "flushEmpty") /\ degraded

\* Mutant: flush never gives up on dropped records.
FlushGivesUpNever ==
  FlushStep("flushEmpty", "idle") /\ ring = <<>> /\ records_written >= target

\* flush in degraded mode: give up once the ring buffer is empty
FlushGivesUp == FlushStep("flushEmpty", "idle") /\ ring = <<>>
FlushWaits == FlushStep("flushEmpty", "flush") /\ ring # <<>>

\* close and drop: closed = true, then shutdown is stored
CloseBegin ==
  /\ Producer("idle", "join")
  /\ shutdown' = TRUE
  /\ UNCHANGED <<fileVars, degraded, records_written, write_position,
                 last_timestamp, target>>

\* close: join returns once the background thread has; write_footer then
\* rewrites the file header
CloseHeader ==
  /\ Producer("join", "footer")
  /\ bpc = "exited"
  /\ recordCount' = records_written
  /\ UNCHANGED <<file, sharedVars, target>>

\* write_footer: the footer goes to write_position, if it fits
CloseFooter ==
  /\ session = "open" /\ ppc = "footer"
  /\ file' = IF write_position + FILE_FOOTER_SIZE <= FileWords
             THEN Store(write_position,
                        [i \in 0 .. FILE_FOOTER_SIZE - 1 |->
                           FooterWord(i, records_written,
                             write_position + FILE_FOOTER_SIZE, last_timestamp)])
             ELSE file
  /\ session' = "closed" /\ ppc' = "idle"
  /\ UNCHANGED <<recordCount, sessions, writes, ringVars, sharedVars, sequence,
                 target, backgroundVars, historyVars>>

-----------------------------------------------------------------------------
(* background_writer                                                       *)

Background(from, to) ==
  /\ session = "open" /\ bpc = from /\ bpc' = to
  /\ UNCHANGED <<recordCount, sessionVars, nPush, seenPops, shutdown,
                 producerVars, accepted>>

\* pop returned an entry
BgPop ==
  /\ Background("pop", "space")
  /\ \E k \in seenPushes .. nPush : k > nPop /\ seenPushes' = k
  /\ bEntry' = Head(ring) /\ ring' = Tail(ring) /\ nPop' = nPop + 1
  /\ UNCHANGED <<file, degraded, records_written, write_position,
                 last_timestamp, bSeq, stored, dropped>>

\* pop returned None: as far as this thread can see nothing is queued
BgPopNone ==
  /\ Background("pop", "none")
  /\ nPop \in seenPushes .. nPush /\ seenPushes' = nPop
  /\ UNCHANGED <<file, ring, nPop, degraded, records_written, write_position,
                 last_timestamp, bEntry, bSeq, stored, dropped>>

Fits(entry) ==
  write_position + RECORD_HEADER_SIZE + entry.len + FILE_FOOTER_SIZE <= FileWords

\* no room for the record and a footer: degraded, and the entry is dropped
BgNoSpace ==
  /\ Background("space", "pop")
  /\ ~Fits(bEntry)
  /\ degraded' = TRUE
  /\ dropped' = dropped \cup {bEntry} /\ bEntry' = NoEntry
  /\ UNCHANGED <<file, ring, nPop, seenPushes, records_written,
                 write_position, last_timestamp, bSeq, stored>>

BgStoreStep(from, to) ==
  /\ Background(from, to)
  /\ UNCHANGED <<ring, nPop, seenPushes, degraded, bEntry, dropped>>

\* the first 16 bytes of the record header are copied
BgHeader ==
  /\ BgStoreStep("space", "headerSum")
  /\ Fits(bEntry)
  /\ file' = Store(write_position,
                   [i \in 0 .. 1 |-> IF i = 0 THEN TimestampWord(bEntry)
                                     ELSE SizeWord(bEntry)])
  /\ UNCHANGED <<records_written, write_position, last_timestamp, bSeq, stored>>

\* the last 8 bytes of the record header: sequence number and checksum
BgHeaderSum ==
  /\ BgStoreStep("headerSum", "payload")
  /\ file' = Store(write_position + 2, [i \in {0} |-> SumWord(bSeq, Crc(bEntry))])
  /\ UNCHANGED <<records_written, write_position, last_timestamp, bSeq, stored>>

\* the payload is copied
BgPayload ==
  /\ BgStoreStep("payload", "position")
  /\ file' = Store(write_position + RECORD_HEADER_SIZE,
                   [i \in 0 .. bEntry.len - 1 |-> PayloadWord(bEntry, i)])
  /\ stored' = Append(stored, bEntry)
  /\ UNCHANGED <<records_written, write_position, last_timestamp, bSeq>>

\* write_position.store(new_pos)
BgPosition ==
  /\ BgStoreStep("position", "count")
  /\ write_position' = write_position + RECORD_HEADER_SIZE + bEntry.len
  /\ UNCHANGED <<file, records_written, last_timestamp, bSeq, stored>>

\* records_written.fetch_add(1)
BgCount ==
  /\ BgStoreStep("count", "timestamp")
  /\ records_written' = records_written + 1
  /\ UNCHANGED <<file, write_position, last_timestamp, bSeq, stored>>

\* last_timestamp.store, sequence + 1, and around the loop
BgTimestamp ==
  /\ Background("timestamp", "pop")
  /\ last_timestamp' = bEntry.ts
  /\ bSeq' = (bSeq + 1) % SeqMod
  /\ bEntry' = NoEntry
  /\ UNCHANGED <<file, ring, nPop, seenPushes, degraded, records_written,
                 write_position, stored, dropped>>

BgIdleStep(from, to) ==
  /\ Background(from, to)
  /\ UNCHANGED <<file, ring, nPop, degraded, records_written, write_position,
                 last_timestamp, bEntry, bSeq, stored, dropped>>

\* nothing popped and no shutdown: spin
BgSpin == BgIdleStep("none", "pop") /\ ~shutdown /\ UNCHANGED seenPushes

\* Mutant: is_empty() is evaluated before shutdown, so its view is old.
BgShutdownStale == BgIdleStep("none", "exit") /\ shutdown /\ UNCHANGED seenPushes

\* nothing popped and shutdown is set: the Acquire load of shutdown makes
\* every push before close() visible
BgShutdown == BgIdleStep("none", "exit") /\ shutdown /\ seenPushes' = nPush

\* ring_buffer.is_empty() decides whether to leave the loop
BgExit ==
  BgIdleStep("exit", "exited") /\ seenPushes = nPop /\ UNCHANGED seenPushes

BgDrainMore ==
  BgIdleStep("exit", "pop") /\ seenPushes # nPop /\ UNCHANGED seenPushes

BackgroundNext ==
  \/ BgPop \/ BgPopNone \/ BgNoSpace
  \/ BgHeader \/ BgHeaderSum \/ BgPayload \/ BgPosition \/ BgCount \/ BgTimestamp
  \/ BgSpin \/ BgShutdown \/ BgExit \/ BgDrainMore

FlushNext ==
  \/ FlushWritten \/ FlushNotYet \/ FlushHealthy \/ FlushDegraded
  \/ FlushGivesUp \/ FlushWaits

\* The process has ended, cleanly or not.
Ended == session # "open" /\ UNCHANGED writerVars

WriterNext ==
  \/ AppendSession \/ Kill \/ Ended
  \/ \E len \in Lens : WriteAccepted(len)
  \/ WriteRefused
  \/ FlushBegin \/ FlushNext
  \/ CloseBegin \/ CloseHeader \/ CloseFooter
  \/ BackgroundNext

WriterSpec == WriterInit /\ [][WriterNext]_writerVars

-----------------------------------------------------------------------------
InHand == IF bEntry = NoEntry THEN <<>> ELSE <<bEntry>>

\* Every variable has its type.
WriterTypeOK ==
  /\ file \in [Offsets -> Words] /\ recordCount \in Nat
  /\ session \in {"open", "closed", "killed"} /\ sessions \in Nat /\ writes \in Nat
  /\ ring \in Seq(Entries) /\ nPush \in Nat /\ nPop \in Nat
  /\ seenPops \in Nat /\ seenPushes \in Nat
  /\ shutdown \in BOOLEAN /\ degraded \in BOOLEAN
  /\ records_written \in Nat /\ write_position \in Nat /\ last_timestamp \in Nat
  /\ ppc \in {"idle", "flush", "flushDegraded", "flushEmpty", "join", "footer"}
  /\ sequence \in 0 .. SeqMod - 1 /\ target \in 0 .. SeqMod - 1
  /\ bpc \in {"pop", "space", "headerSum", "payload", "position", "count",
               "timestamp", "none", "exit", "exited"}
  /\ bEntry \in Entries \cup {NoEntry} /\ bSeq \in 0 .. SeqMod - 1
  /\ accepted \in Seq(Entries) /\ stored \in Seq(Entries)
  /\ dropped \subseteq Entries

AcceptedSet == {accepted[n] : n \in DOMAIN accepted}
StoredSet == {stored[n] : n \in DOMAIN stored}

\* close() loses nothing: every record a successful push accepted is in the
\* file or was dropped for lack of space, in which case is_degraded() said
\* so; and the header counts exactly the records in the file.
NothingLost ==
  session = "closed" =>
    /\ AcceptedSet = StoredSet \cup dropped
    /\ dropped # {} => degraded
    /\ recordCount = Len(stored)

\* Records reach the file in the order they were written, each once, and
\* only records that were written.
StoredInOrder ==
  /\ \A i, j \in DOMAIN stored : i < j => stored[i].ts < stored[j].ts
  /\ StoredSet \subseteq AcceptedSet

\* There is always room for the footer behind the last record, so a clean
\* close never leaves a journal without one.
FooterFits == write_position + FILE_FOOTER_SIZE <= FileWords

FlushReturns == session = "open" /\ ppc \in {"flush", "flushEmpty"} /\ ppc' = "idle"

\* flush() of a healthy writer returns only when every record accepted so
\* far is in the file.
FlushDurable ==
  [][FlushReturns /\ ~degraded => AcceptedSet = StoredSet]_writerVars

\* The doc comment of append(): "positions at the end for appending new
\* records".  After a kill the header still counts no records, and append
\* positions at the first of the records that are there.
AppendsAtEnd == session = "open" /\ bpc = "pop" => EndAt(write_position)

\* close() returns, in degraded mode too, unless the process is killed.
CloseTerminates == ppc = "join" ~> session # "open"

\* flush() returns, in degraded mode too, unless the process is killed.
FlushTerminates ==
  ppc \in {"flush", "flushDegraded", "flushEmpty"} ~> ppc = "idle" \/ session = "killed"

\* The journal has what was accepted: every record that try_push took in is
\* stored, on its way, or was refused by a full file, in the order of the calls,
\* and there is always room left for the footer that close writes.
JournalKept == WriterTypeOK /\ NothingLost /\ StoredInOrder /\ FooterFits

\* flush and close return: flush when the background thread has caught up or
\* degrades, close when it has drained the ring and left.
WriterReturns == CloseTerminates /\ FlushTerminates
=============================================================================
