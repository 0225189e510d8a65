----------------------------- MODULE RingBuffer -----------------------------
(***************************************************************************)
(* The lock-free single-producer single-consumer ring buffer of            *)
(* blackbox/crates/blackbox/src/journal/ring_buffer.rs: one thread calls   *)
(* try_push, another pop, and only the two atomic indices order them.      *)
(*                                                                         *)
(* Every load of the other thread's index may be stale: an Acquire load    *)
(* returns some store of that index that is not older than the last one    *)
(* the thread saw (coherence).  Each store of an index is one completed    *)
(* push or pop, so "the value after the k-th store" is k % Capacity and a  *)
(* thread's view of the other is a number, popsSeen or pushesSeen.         *)
(* Release/Acquire make the slot accesses made before the seen store       *)
(* visible; NoSlotRace says that nothing else is ever relied upon.         *)
(***************************************************************************)
EXTENDS Integers, Sequences

CONSTANTS Items,     \* the entries that may be pushed
          Capacity,  \* number of slots, after rounding by new()
          MaxPush,   \* bound: completed pushes in a behaviour
          Uninit     \* content of a slot that owns no item

\* The least power of two that is at least n, as next_power_of_two().
NextPowerOfTwo(n) ==
  CHOOSE c \in {2^k : k \in 0..n} :
    c >= n /\ \A d \in {2^k : k \in 0..n} : d >= n => c <= d

ASSUME CapacityAssumption ==
  /\ Capacity \in Nat
  /\ Capacity >= 2

\* new() rounds the requested capacity, so that "& mask" is "% Capacity".
ASSUME RoundingAssumption == Capacity = NextPowerOfTwo(Capacity)

ASSUME ItemsAssumption == Uninit \notin Items /\ MaxPush \in Nat

VARIABLES
  head,        \* write index, stored by the producer only
  tail,        \* read index, stored by the consumer only
  slots,       \* the buffer: the item each slot owns, or Uninit
  pushpc, pItem,  \* producer: where in try_push it is, and the item it pushes
  cpc, cItem,  \* consumer: where in pop it is, and the item it has read
  popsSeen,    \* the latest store of tail the producer has seen
  pushesSeen,  \* the latest store of head the consumer has seen
  alive,       \* FALSE once the buffer has been dropped
  pushed,      \* history: items whose push completed, in order
  popped       \* history: items whose pop completed, in order

bufferVars == <<head, tail, slots, pushpc, pItem, cpc, cItem, popsSeen, pushesSeen,
          alive, pushed, popped>>

Slots == 0 .. Capacity - 1

pushCount == Len(pushed)
popCount == Len(popped)

\* (index + 1) & self.mask
NextIndex(index) == (index + 1) % Capacity

\* The value of an index after its k-th store.
IndexAfter(k) == k % Capacity

-----------------------------------------------------------------------------
\* new(): nothing is owned, both indices are zero.
RingInit ==
  /\ head = 0 /\ tail = 0
  /\ slots = [i \in Slots |-> Uninit]
  /\ pushpc = "idle" /\ pItem = Uninit
  /\ cpc = "idle" /\ cItem = Uninit
  /\ popsSeen = 0 /\ pushesSeen = 0
  /\ alive = TRUE
  /\ pushed = <<>> /\ popped = <<>>

\* try_push, first half: load head and tail; full, so return false.
PushFull ==
  /\ alive /\ pushpc = "idle"
  /\ \E k \in popsSeen .. popCount :
       /\ NextIndex(head) = IndexAfter(k)
       /\ popsSeen' = k
  /\ UNCHANGED <<head, tail, slots, pushpc, pItem, cpc, cItem, pushesSeen,
                 alive, pushed, popped>>

\* Mutant: try_push does not test for a full buffer.
PushCheckUnguarded(item) ==
  /\ alive /\ pushpc = "idle"
  /\ pushCount < MaxPush
  /\ popsSeen' \in popsSeen .. popCount
  /\ pushpc' = "write" /\ pItem' = item
  /\ UNCHANGED <<head, tail, slots, cpc, cItem, pushesSeen, alive,
                 pushed, popped>>

\* try_push, first half: load head and tail; there is a free slot.
PushCheck(item) ==
  /\ alive /\ pushpc = "idle"
  /\ pushCount < MaxPush
  /\ \E k \in popsSeen .. popCount :
       /\ NextIndex(head) # IndexAfter(k)
       /\ popsSeen' = k
  /\ pushpc' = "write" /\ pItem' = item
  /\ UNCHANGED <<head, tail, slots, cpc, cItem, pushesSeen, alive,
                 pushed, popped>>

\* try_push: buffer[head].write(item)
PushWrite ==
  /\ pushpc = "write"
  /\ slots' = [slots EXCEPT ![head] = pItem]
  /\ pushpc' = "publish"
  /\ UNCHANGED <<head, tail, pItem, cpc, cItem, popsSeen, pushesSeen,
                 alive, pushed, popped>>

\* try_push: head.store(next_head, Release); return true.
PushPublish ==
  /\ pushpc = "publish"
  /\ head' = NextIndex(head)
  /\ pushed' = Append(pushed, pItem)
  /\ pushpc' = "idle" /\ pItem' = Uninit
  /\ UNCHANGED <<tail, slots, cpc, cItem, popsSeen, pushesSeen, alive,
                 popped>>

\* pop, first half: load tail and head; empty, so return None.
PopEmpty ==
  /\ alive /\ cpc = "idle"
  /\ \E k \in pushesSeen .. pushCount :
       /\ IndexAfter(k) = tail
       /\ pushesSeen' = k
  /\ UNCHANGED <<head, tail, slots, pushpc, pItem, cpc, cItem, popsSeen,
                 alive, pushed, popped>>

\* Mutant: pop does not test for an empty buffer.
PopCheckUnguarded ==
  /\ alive /\ cpc = "idle"
  /\ pushesSeen' \in pushesSeen .. pushCount
  /\ cpc' = "read"
  /\ UNCHANGED <<head, tail, slots, pushpc, pItem, cItem, popsSeen, alive,
                 pushed, popped>>

\* Mutant: pop keeps one item back, as if the reserved slot were at tail.
PopCheckKeepsOne ==
  /\ alive /\ cpc = "idle"
  /\ \E k \in pushesSeen .. pushCount :
       /\ IndexAfter(k) # tail
       /\ IndexAfter(k) # NextIndex(tail)
       /\ pushesSeen' = k
  /\ cpc' = "read"
  /\ UNCHANGED <<head, tail, slots, pushpc, pItem, cItem, popsSeen, alive,
                 pushed, popped>>

\* pop, first half: load tail and head; there is an item.
PopCheck ==
  /\ alive /\ cpc = "idle"
  /\ \E k \in pushesSeen .. pushCount :
       /\ IndexAfter(k) # tail
       /\ pushesSeen' = k
  /\ cpc' = "read"
  /\ UNCHANGED <<head, tail, slots, pushpc, pItem, cItem, popsSeen, alive,
                 pushed, popped>>

\* Mutant: the slot is read with the index already advanced.
PopReadAdvanced ==
  /\ cpc = "read"
  /\ cItem' = slots[NextIndex(tail)]
  /\ slots' = [slots EXCEPT ![NextIndex(tail)] = Uninit]
  /\ cpc' = "retire"
  /\ UNCHANGED <<head, tail, pushpc, pItem, popsSeen, pushesSeen, alive,
                 pushed, popped>>

\* pop: buffer[tail].assume_init_read() moves the item out of the slot.
PopRead ==
  /\ cpc = "read"
  /\ cItem' = slots[tail]
  /\ slots' = [slots EXCEPT ![tail] = Uninit]
  /\ cpc' = "retire"
  /\ UNCHANGED <<head, tail, pushpc, pItem, popsSeen, pushesSeen, alive,
                 pushed, popped>>

\* pop: tail.store(next_tail, Release); return Some(item).
PopRetire ==
  /\ cpc = "retire"
  /\ tail' = NextIndex(tail)
  /\ popped' = Append(popped, cItem)
  /\ cpc' = "idle" /\ cItem' = Uninit
  /\ UNCHANGED <<head, slots, pushpc, pItem, popsSeen, pushesSeen, alive,
                 pushed>>

\* The slots "while self.pop().is_some() {}" empties, from tail up to head.
Occupied == {IndexAfter(n) : n \in popCount .. pushCount - 1}

\* The body of clear() and of drop(): exclusive access, so no load is stale.
DrainAll ==
  /\ alive /\ pushpc = "idle" /\ cpc = "idle"
  /\ tail' = head
  /\ popped' = popped \o [i \in 1 .. pushCount - popCount |-> slots[IndexAfter(popCount + i - 1)]]
  /\ slots' = [i \in Slots |-> IF i \in Occupied THEN Uninit ELSE slots[i]]
  /\ popsSeen' = pushCount /\ pushesSeen' = pushCount
  /\ UNCHANGED <<head, pushpc, pItem, cpc, cItem, pushed>>

\* clear(): only when both threads are stopped.
Clear == DrainAll /\ alive' = TRUE

\* impl Drop: the last Arc is gone.
DropBuffer == DrainAll /\ alive' = FALSE

\* A behaviour ends when the buffer has been dropped.
Done == ~alive /\ UNCHANGED bufferVars

RingNext ==
  \/ PushFull
  \/ \E item \in Items : PushCheck(item)
  \/ PushWrite
  \/ PushPublish
  \/ PopEmpty
  \/ PopCheck
  \/ PopRead
  \/ PopRetire
  \/ Clear
  \/ DropBuffer
  \/ Done

RingSpec == RingInit /\ [][RingNext]_bufferVars

\* The background thread polls pop for as long as the buffer exists, and
\* stores become visible to it (the Acquire load does not stay stale).
RingFairness ==
  /\ WF_bufferVars(PushWrite) /\ WF_bufferVars(PushPublish)
  /\ WF_bufferVars(PopCheck) /\ WF_bufferVars(PopRead) /\ WF_bufferVars(PopRetire)

-----------------------------------------------------------------------------

\* is_empty(), is_full() and len(), from the two indices they load.
IsEmpty(h, t) == h = t
IsFull(h, t) == NextIndex(h) = t
LenOf(h, t) == (h - t) % Capacity
MaxSize == Capacity - 1

-----------------------------------------------------------------------------
\* Every variable has its type.
TypeOK ==
  /\ head \in Slots /\ tail \in Slots
  /\ slots \in [Slots -> Items \cup {Uninit}]
  /\ pushpc \in {"idle", "write", "publish"} /\ pItem \in Items \cup {Uninit}
  /\ cpc \in {"idle", "read", "retire"} /\ cItem \in Items \cup {Uninit}
  /\ popsSeen \in Nat /\ pushesSeen \in Nat
  /\ alive \in BOOLEAN
  /\ pushed \in Seq(Items) /\ popped \in Seq(Items \cup {Uninit})

\* FIFO, exactly once: what pop has returned is a prefix of what try_push
\* accepted, however stale the loads of the indices were.
FifoOrder ==
  /\ popCount <= pushCount
  /\ \A i \in 1 .. popCount : popped[i] = pushed[i]

\* assume_init_read() only ever meets a slot that owns an item: pop neither
\* reads a slot before its item is written nor moves an item out twice.
NoUninitRead == cpc = "read" => slots[tail] \in Items

\* The UnsafeCell is never accessed by both threads at the same slot: while
\* the producer may write buffer[head] the consumer neither is about to read
\* it, nor has an earlier read of it that the producer has not seen retired.
NoSlotRace ==
  pushpc = "write" =>
    /\ cpc = "read" => head # tail
    /\ pushCount - Capacity < popsSeen
    /\ slots[head] = Uninit

\* pending_records() on the producer thread and is_empty() on the consumer
\* thread: with every stale value that may be loaded, the masked difference
\* of the indices is a real count.  It does not wrap around, the producer
\* never under-reports what is queued, the consumer never over-reports it.
SnapshotsExact ==
  /\ \A k \in popsSeen .. popCount : LenOf(head, IndexAfter(k)) = pushCount - k
  /\ \A k \in pushesSeen .. pushCount : LenOf(IndexAfter(k), tail) = k - popCount
  /\ IsFull(head, tail) <=> pushCount - popCount = MaxSize
  /\ IsEmpty(head, tail) <=> pushCount = popCount

\* Drop leaves no item behind: every accepted item was popped, and no slot
\* still owns one.
NoLeak ==
  ~alive => popCount = pushCount /\ \A i \in Slots : slots[i] = Uninit

\* The inductive invariant behind the theorems of JournalProofs: indices
\* are the counters modulo Capacity, views lag behind the counters without
\* making a slot ambiguous, and a slot owns an item exactly when that item
\* is between the counters (or is being pushed, and not already moved out).
Counters ==
  /\ head = IndexAfter(pushCount) /\ tail = IndexAfter(popCount)
  /\ popsSeen <= popCount /\ popCount <= pushesSeen /\ pushesSeen <= pushCount
  /\ pushCount - popsSeen <= Capacity - 1
  /\ pushpc # "idle" => pushCount - popsSeen < Capacity - 1 /\ pItem \in Items
  /\ cpc # "idle" => popCount < pushesSeen
  /\ ~alive => pushpc = "idle" /\ cpc = "idle" /\ popCount = pushCount

MovedOut(n) == n = popCount /\ cpc = "retire"

Ownership ==
  /\ \A n \in popCount .. pushCount - 1 :
       ~MovedOut(n) => slots[IndexAfter(n)] = pushed[n + 1]
  /\ cpc = "retire" => cItem = pushed[popCount + 1]
  /\ pushpc = "publish" => slots[head] = pItem
  /\ \A i \in Slots : slots[i] # Uninit =>
       \/ pushpc = "publish" /\ i = head
       \/ \E n \in popCount .. pushCount - 1 : ~MovedOut(n) /\ i = IndexAfter(n)

IndInv == TypeOK /\ Counters /\ Ownership /\ FifoOrder

\* What the memory holds for the consumer, from tail up to head; an item
\* being popped has already been moved out of its slot.
Contents ==
  [i \in 1 .. LenOf(head, tail) |->
     IF i = 1 /\ cpc = "retire" THEN cItem ELSE slots[(tail + i - 1) % Capacity]]

\* The ring buffer implements the bounded queue: the memory between the two
\* indices changes only as Push, Pop and Drain allow.
Fifo == INSTANCE BoundedFifo
          WITH Bound <- MaxSize, queue <- Contents, handed <- popCount

ImplementsFifo == Fifo!Spec

\* Every accepted item is eventually handed to the consumer: the n-th push
\* leads to an n-th pop while the background thread keeps polling.
EventuallyPopped == \A n \in 1 .. MaxPush : pushCount >= n ~> popCount >= n

\* What the two unsafe blocks of the ring buffer and its callers rely on: pop
\* returns what try_push accepted, in order and once; no slot is read before it
\* is written or touched by both threads; the lengths computed from stale
\* indices are real counts; and drop leaves nothing behind.
RingSafe == FifoOrder /\ NoUninitRead /\ NoSlotRace /\ SnapshotsExact /\ NoLeak
=============================================================================
