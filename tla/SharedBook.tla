---------------------------- MODULE SharedBook ----------------------------
(***************************************************************************)
(* flash/src/book/thread_safe.rs: ThreadSafeOrderBook, an order book under *)
(* a parking_lot::RwLock with lock statistics beside it under a lock of    *)
(* their own.  A handle made with clone_shared shares the statistics, one  *)
(* made with from_shared only the book.                                    *)
(*                                                                         *)
(* parking_lot (external) lets a writer that waits for the readers to      *)
(* leave keep new ones out, also a thread that already holds a guard.  The *)
(* statistics lock is never held while another lock is waited for, so an   *)
(* update of the statistics is one step.  A side of the book is the number *)
(* of the write it has its levels from, 0 when empty.                      *)
(***************************************************************************)
EXTENDS Integers, FiniteSets

CONSTANTS Threads,       \* the strategies and the feed that share the book
          Handles,       \* the ThreadSafeOrderBook values they share it through
          NoThread,      \* nobody
          MaxLockCalls   \* bound on the calls of each thread

ASSUME SharedBookAssumption ==
  IsFiniteSet(Threads) /\ NoThread \notin Threads /\ MaxLockCalls \in Nat

VARIABLES handle,     \* the handle each thread uses
          pc,         \* where each thread is
          guards,     \* the read guards each thread holds
          writer,     \* who has, or waits for the readers to have, the lock
          shown,      \* the two sides of the book
          settled,    \* history: the books that completed writes have left
          seen,       \* the last snapshot each thread took
          lockStats,  \* ThreadSafeStats by handle
          calls       \* history: the calls of each thread, by kind

sharedVars == <<handle, pc, guards, writer, shown, settled, seen, lockStats, calls>>

\* ThreadSafeStats::default().
NewLockStats == [reads |-> 0, writes |-> 0,
                 read_contention_count |-> 0, write_contention_count |-> 0]

Kinds == {"read", "write", "peek", "once"}

SharedInit ==
  /\ handle \in [Threads -> Handles]
  /\ pc = [t \in Threads |-> "idle"]
  /\ guards = [t \in Threads |-> 0]
  /\ writer = NoThread
  /\ shown = [bid |-> 0, ask |-> 0]
  /\ settled = {shown}
  /\ seen = [t \in Threads |-> shown]
  /\ lockStats = [h \in Handles |-> NewLockStats]
  /\ calls = [t \in Threads |-> [k \in Kinds |-> 0]]

Goto(t, next) == pc' = [pc EXCEPT ![t] = next]

Counted(t, field) == lockStats' = [lockStats EXCEPT ![handle[t]][field] = @ + 1]

\* A new call; a thread with a read guard in scope may make one too.
MayCall(t) ==
  /\ pc[t] \in {"idle", "reading"}
  /\ calls[t]["read"] + calls[t]["write"] + calls[t]["peek"] + calls[t]["once"]
       < MaxLockCalls

Called(t, kind) == calls' = [calls EXCEPT ![t][kind] = @ + 1]

\* External: no reader is let in, and nobody may write.
Closed == writer # NoThread
Busy == Closed \/ \E t \in Threads : guards[t] > 0

-----------------------------------------------------------------------------
\* Any call that blocks: read, write (by batch_write), a convenience reader
\* or a convenience writer.
Call(t, kind) ==
  /\ MayCall(t)
  /\ Called(t, kind)
  /\ Goto(t, [read |-> "want_read", peek |-> "want_peek",
              write |-> "want_write", once |-> "want_once"][kind])
  /\ UNCHANGED <<handle, guards, writer, shown, settled, seen, lockStats>>

\* read() has the guard, and then counts it.
TakeRead(t) ==
  /\ pc[t] = "want_read" /\ ~Closed
  /\ guards' = [guards EXCEPT ![t] = @ + 1]
  /\ Goto(t, "count_read")
  /\ UNCHANGED <<handle, writer, shown, settled, seen, lockStats, calls>>

CountRead(t) ==
  /\ pc[t] = "count_read"
  /\ Counted(t, "reads")
  /\ Goto(t, "reading")
  /\ UNCHANGED <<handle, guards, writer, shown, settled, seen, calls>>

DropRead(t) ==
  /\ pc[t] = "reading"
  /\ guards' = [guards EXCEPT ![t] = @ - 1]
  /\ Goto(t, IF guards[t] = 1 THEN "idle" ELSE "reading")
  /\ UNCHANGED <<handle, writer, shown, settled, seen, lockStats, calls>>

\* A try that failed is counted once the attempt is over.
Missed(t, kind) ==
  /\ Counted(t, IF kind = "read" THEN "read_contention_count"
                ELSE "write_contention_count")
  /\ Goto(t, IF guards[t] = 0 THEN "idle" ELSE "reading")

CountMiss(t) ==
  /\ \/ pc[t] = "miss_read" /\ Missed(t, "read")
     \/ pc[t] = "miss_write" /\ Missed(t, "write")
  /\ UNCHANGED <<handle, guards, writer, shown, settled, seen, calls>>

try_read(t) ==
  /\ MayCall(t)
  /\ Called(t, "read")
  /\ IF Closed
     THEN Goto(t, "miss_read") /\ UNCHANGED guards
     ELSE Goto(t, "count_read") /\ guards' = [guards EXCEPT ![t] = @ + 1]
  /\ UNCHANGED <<handle, writer, shown, settled, seen, lockStats>>

\* External: a writer shuts new readers out, then waits for the others.
TakeWriterBit(t) ==
  /\ pc[t] \in {"want_write", "want_once"} /\ ~Closed
  /\ writer' = t
  /\ Goto(t, IF pc[t] = "want_write" THEN "drain_write" ELSE "drain_once")
  /\ UNCHANGED <<handle, guards, shown, settled, seen, lockStats, calls>>

Drained == \A t \in Threads : guards[t] = 0

\* write() has the guard, and then counts it.
TakeWrite(t) ==
  /\ pc[t] = "drain_write" /\ Drained
  /\ Goto(t, "count_write")
  /\ UNCHANGED <<handle, guards, writer, shown, settled, seen, lockStats, calls>>

CountWrite(t) ==
  /\ pc[t] = "count_write"
  /\ Counted(t, "writes")
  /\ Goto(t, "batch_bid")
  /\ UNCHANGED <<handle, guards, writer, shown, settled, seen, calls>>

try_write(t) ==
  /\ MayCall(t)
  /\ Called(t, "write")
  /\ IF Busy
     THEN Goto(t, "miss_write") /\ UNCHANGED writer
     ELSE Goto(t, "count_write") /\ writer' = t
  /\ UNCHANGED <<handle, guards, shown, settled, seen, lockStats>>

Version == 1 + Cardinality(settled)

\* Mutant: an operation of the handle takes the lock for itself alone.
BatchBidReleases(t) ==
  /\ pc[t] = "batch_bid"
  /\ shown' = [shown EXCEPT !.bid = Version]
  /\ writer' = NoThread
  /\ Goto(t, "batch_ask")
  /\ UNCHANGED <<handle, guards, settled, seen, lockStats, calls>>

\* An OrderBookWriteHandle, or the guard itself: one side, then the other.
BatchBid(t) ==
  /\ pc[t] = "batch_bid"
  /\ shown' = [shown EXCEPT !.bid = Version]
  /\ Goto(t, "batch_ask")
  /\ UNCHANGED <<handle, guards, writer, settled, seen, lockStats, calls>>

\* The second operation, and the handle is dropped.
BatchAsk(t) ==
  /\ pc[t] = "batch_ask"
  /\ shown' = [shown EXCEPT !.ask = shown.bid]
  /\ settled' = settled \cup {shown'}
  /\ writer' = NoThread
  /\ Goto(t, "idle")
  /\ UNCHANGED <<handle, guards, seen, lockStats, calls>>

\* apply_snapshot, apply_delta and clear: the lock for one operation.
WriteOnce(t) ==
  /\ pc[t] = "drain_once" /\ Drained
  /\ \E sides \in {{"bid", "ask"}, {"bid"}, {"ask"}}, v \in {0, Version} :
       /\ v = 0 => sides = {"bid", "ask"}
       /\ shown' = [s \in DOMAIN shown |-> IF s \in sides THEN v ELSE shown[s]]
  /\ settled' = settled \cup {shown'}
  /\ writer' = NoThread
  /\ Goto(t, "idle")
  /\ UNCHANGED <<handle, guards, seen, lockStats, calls>>

\* The convenience readers: one answer under one read lock, not counted.
Peek(t) ==
  /\ pc[t] = "want_peek" /\ ~Closed
  /\ seen' = [seen EXCEPT ![t] = shown]
  /\ Goto(t, IF guards[t] = 0 THEN "idle" ELSE "reading")
  /\ UNCHANGED <<handle, guards, writer, shown, settled, lockStats, calls>>

SharedStep(t) ==
  \/ TakeRead(t) \/ CountRead(t) \/ DropRead(t) \/ CountMiss(t)
  \/ TakeWriterBit(t) \/ TakeWrite(t) \/ CountWrite(t)
  \/ BatchBid(t) \/ BatchAsk(t) \/ WriteOnce(t) \/ Peek(t)

SharedNext ==
  \E t \in Threads :
    \/ \E kind \in Kinds : Call(t, kind)
    \/ try_read(t) \/ try_write(t)
    \/ SharedStep(t)

SharedSpec == SharedInit /\ [][SharedNext]_sharedVars

-----------------------------------------------------------------------------
Waiting == {"want_read", "want_peek", "want_write", "want_once",
            "drain_write", "drain_once"}

\* The threads that t cannot go on without.
WaitsFor(t) ==
  IF pc[t] \in {"drain_write", "drain_once"} THEN {u \in Threads : guards[u] > 0}
  ELSE IF pc[t] \in Waiting /\ Closed THEN {writer}
  ELSE {}

\* The threads of S wait for each other.
Cycle(S) == S # {} /\ \A t \in S : WaitsFor(t) \cap S # {}

\* Readers see whole writes: what a thread with a read guard has before it,
\* and what a convenience reader has returned, is a book that a completed
\* write or batch has left, never a batch half applied.
ReadersSeeWholeWrites ==
  /\ (\E t \in Threads : guards[t] > 0) => shown \in settled
  /\ \A t \in Threads : seen[t] \in settled

\* The threads block each other for good only if one of them asks for the
\* lock while it holds a read guard: a second read() behind a waiting
\* writer, or a write() of its own.  The book and its statistics have no
\* lock order of their own to violate.
StuckOnlyNested ==
  \A S \in SUBSET Threads : Cycle(S) => \E t \in S : guards[t] > 0

\* The calls of a counted kind that threads have made through h, those still
\* on their way to the statistics, and those the statistics show.
CallsMade(h, kind) ==
  {call \in Threads \X (1 .. MaxLockCalls) :
     handle[call[1]] = h /\ call[2] <= calls[call[1]][kind]}

Uncounted(kind) ==
  IF kind = "read" THEN {"want_read", "count_read", "miss_read"}
  ELSE {"want_write", "drain_write", "count_write", "miss_write"}

Inside(h, kind) == {t \in Threads : handle[t] = h /\ pc[t] \in Uncounted(kind)}

Recorded(h, kind) ==
  IF kind = "read" THEN lockStats[h].reads + lockStats[h].read_contention_count
  ELSE lockStats[h].writes + lockStats[h].write_contention_count

\* The statistics of a handle account for every call of read, try_read,
\* write and try_write that has returned through it, in whatever order the
\* threads took and counted, as taken or as contended; convenience calls
\* are not among them.
StatsAccount ==
  \A h \in Handles, kind \in {"read", "write"} :
    Recorded(h, kind) + Cardinality(Inside(h, kind)) = Cardinality(CallsMade(h, kind))

\* Every blocking call is served, or the threads are in a cycle.
LockCallsServed ==
  \A t \in Threads :
    pc[t] \in Waiting ~> (pc[t] \notin Waiting \/ \E S \in SUBSET Threads : Cycle(S))

\* The shared book's lock does what its wrapper promises: no half-applied batch
\* is seen, threads block each other for good only through a nested call, and
\* the statistics account for every call.
LockSafe == ReadersSeeWholeWrites /\ StuckOnlyNested /\ StatsAccount
=============================================================================
