--------------------------- MODULE JournalProofs ---------------------------
(***************************************************************************)
(* The ring buffer and the writer of the journal.  The ring buffer is safe *)
(* for every capacity, every set of items and every bound on the number of *)
(* pushes.  The writer loses nothing that it has accepted and leaves room  *)
(* for its footer, and its flush returns when the records are in the file, *)
(* for any file, ring buffer, payload sizes and numbers of calls.          *)
(***************************************************************************)
EXTENDS RingBuffer, Journal, SequenceTheorems, WellFoundedInduction, TLAPS

-----------------------------------------------------------------------------
(* Arithmetic of "& mask": quotient and remainder by Capacity are unique.  *)

\* Two representations of a number by quotient and remainder coincide.
LEMMA DivModUnique ==
  ASSUME NEW q \in Int, NEW r \in Slots, NEW p \in Int, NEW s \in Slots,
         Capacity * q + r = Capacity * p + s
  PROVE  q = p /\ r = s
BY CapacityAssumption, SMTT(30) DEF Slots

\* The remainder is an index, and with the quotient it gives the number back.
LEMMA DivModExists ==
  ASSUME NEW n \in Nat
  PROVE  /\ n = Capacity * (n \div Capacity) + (n % Capacity)
         /\ n % Capacity \in Slots
         /\ n \div Capacity \in Int
BY CapacityAssumption, SMT DEF Slots

\* (index + 1) & mask is the index of the next store.
LEMMA NextIndexAfter ==
  ASSUME NEW n \in Nat
  PROVE  NextIndex(IndexAfter(n)) = IndexAfter(n + 1)
PROOF
  <1> DEFINE q == n \div Capacity
             r == n % Capacity
             p == (n + 1) \div Capacity
             s == (n + 1) % Capacity
             u == (r + 1) % Capacity
             v == (r + 1) \div Capacity
  <1>1. /\ n = Capacity * q + r /\ r \in Slots /\ q \in Int
        /\ n + 1 = Capacity * p + s /\ s \in Slots /\ p \in Int
    BY DivModExists
  <1>2. r \in Nat
    BY <1>1, CapacityAssumption DEF Slots
  <1>3. r + 1 = Capacity * v + u /\ u \in Slots /\ v \in Int
    BY <1>2, DivModExists
  <1> HIDE DEF q, r, p, s, u, v
  <1>4. Capacity * (q + v) + u = Capacity * p + s /\ q + v \in Int
    BY <1>1, <1>2, <1>3, CapacityAssumption DEF Slots
  <1>5. u = s
    BY <1>1, <1>3, <1>4, DivModUnique
  <1> QED
    BY <1>5 DEF u, s, r, NextIndex, IndexAfter

\* Indices of stores less than Capacity apart differ.
LEMMA IndexAfterInjective ==
  ASSUME NEW a \in Nat, NEW b \in Nat, a <= b, b - a < Capacity,
         IndexAfter(a) = IndexAfter(b)
  PROVE  a = b
PROOF
  <1> DEFINE q == a \div Capacity
             r == a % Capacity
             p == b \div Capacity
  <1>1. /\ a = Capacity * q + r /\ r \in Slots /\ q \in Int
        /\ b = Capacity * p + r /\ p \in Int
    BY DivModExists DEF IndexAfter
  <1> HIDE DEF q, r, p
  <1>2. Capacity * q + (b - a) = Capacity * p + 0
    BY <1>1, CapacityAssumption DEF Slots
  <1>3. b - a \in Slots /\ 0 \in Slots
    BY CapacityAssumption DEF Slots
  <1> QED
    BY <1>1, <1>2, <1>3, DivModUnique

\* An index is a slot.
LEMMA IndexAfterInSlots ==
  ASSUME NEW n \in Nat
  PROVE  IndexAfter(n) \in Slots
BY DivModExists DEF IndexAfter

\* Indices Capacity stores apart are equal.
LEMMA IndexAfterPeriodic ==
  ASSUME NEW n \in Nat
  PROVE  IndexAfter(n + Capacity) = IndexAfter(n)
PROOF
  <1> DEFINE q == n \div Capacity
             r == n % Capacity
             p == (n + Capacity) \div Capacity
             s == (n + Capacity) % Capacity
  <1>1. /\ n = Capacity * q + r /\ r \in Slots /\ q \in Int
        /\ n + Capacity = Capacity * p + s /\ s \in Slots /\ p \in Int
    BY DivModExists, CapacityAssumption
  <1> HIDE DEF q, r, p, s
  <1>2. Capacity * (q + 1) + r = Capacity * p + s
    BY <1>1, CapacityAssumption DEF Slots
  <1>3. r = s
    BY <1>1, <1>2, DivModUnique
  <1> QED
    BY <1>3 DEF r, s, IndexAfter

\* len(): the masked difference of two indices is the difference of the
\* counters behind them, as long as those are less than Capacity apart.
LEMMA LenOfIndices ==
  ASSUME NEW a \in Nat, NEW b \in Nat, a <= b, b - a < Capacity
  PROVE  LenOf(IndexAfter(b), IndexAfter(a)) = b - a
PROOF
  <1> DEFINE q == a \div Capacity
             r == a % Capacity
             p == b \div Capacity
             s == b % Capacity
             d == s - r
             u == d % Capacity
             v == d \div Capacity
  <1>1. /\ a = Capacity * q + r /\ r \in Slots /\ q \in Int
        /\ b = Capacity * p + s /\ s \in Slots /\ p \in Int
    BY DivModExists
  <1>2. d \in Int
    BY <1>1, CapacityAssumption DEF Slots
  <1>3. d = Capacity * v + u /\ u \in Slots /\ v \in Int
    BY <1>2, CapacityAssumption, SMT DEF Slots
  <1> HIDE DEF q, r, p, s, u, v
  <1>4. /\ Capacity * (v + (p - q)) + u = Capacity * 0 + (b - a)
        /\ v + (p - q) \in Int /\ b - a \in Slots /\ 0 \in Int
    <2>1. (b - a) = Capacity * (p - q) + d
      BY <1>1, CapacityAssumption DEF Slots, d
    <2>2. Capacity * (v + (p - q)) = Capacity * v + Capacity * (p - q)
      BY <1>1, <1>3, CapacityAssumption
    <2>3. b - a \in Slots
      BY CapacityAssumption DEF Slots
    <2> HIDE DEF d
    <2>4. Capacity * v \in Int /\ Capacity * (p - q) \in Int /\ u \in Int
      BY <1>1, <1>3, CapacityAssumption DEF Slots
    <2> QED
      BY <1>1, <1>2, <1>3, <2>1, <2>2, <2>3, <2>4, CapacityAssumption
  <1>5. u = b - a
    BY <1>3, <1>4, DivModUnique
  <1> QED
    BY <1>5 DEF LenOf, IndexAfter, d, u, s, r

-----------------------------------------------------------------------------
(* The inductive invariant.                                                *)

\* new() establishes the invariant.
LEMMA InitInv == RingInit => IndInv
PROOF
  <1> SUFFICES ASSUME RingInit PROVE IndInv
    OBVIOUS
  <1>1. IndexAfter(0) = 0 /\ 0 \in Slots
    BY CapacityAssumption DEF IndexAfter, Slots
  <1>2. pushCount = 0 /\ popCount = 0
    BY DEF RingInit, pushCount, popCount
  <1> QED
    BY <1>1, <1>2, CapacityAssumption, ItemsAssumption
    DEF RingInit, IndInv, TypeOK, Counters, Ownership, FifoOrder, MovedOut

\* The counters behind the indices are numbers, less than Capacity apart.
LEMMA CountersAreNats ==
  ASSUME IndInv
  PROVE  /\ pushCount \in Nat /\ popCount \in Nat
         /\ popsSeen \in Nat /\ pushesSeen \in Nat
         /\ popCount <= pushCount /\ pushCount - popCount < Capacity
BY CapacityAssumption DEF IndInv, TypeOK, Counters, pushCount, popCount

\* The slot being written is none of the slots between tail and head.
LEMMA HeadIsFree ==
  ASSUME IndInv, NEW n \in popCount .. pushCount - 1
  PROVE  n \in Nat /\ IndexAfter(n) # head /\ IndexAfter(n) \in Slots
PROOF
  <1>1. n \in Nat /\ n < pushCount /\ pushCount - n < Capacity /\ pushCount \in Nat
    BY CountersAreNats, CapacityAssumption
  <1>2. IndexAfter(n) # IndexAfter(pushCount)
    BY <1>1, IndexAfterInjective
  <1> QED
    BY <1>1, <1>2, IndexAfterInSlots DEF IndInv, Counters

\* The slot being read is not one of a later item.
LEMMA TailIsFirst ==
  ASSUME IndInv, NEW n \in popCount .. pushCount - 1, IndexAfter(n) = tail
  PROVE  n = popCount
PROOF
  <1>1. /\ n \in Nat /\ popCount <= n /\ n - popCount < Capacity /\ popCount \in Nat
    BY CountersAreNats, CapacityAssumption
  <1>2. IndexAfter(popCount) = IndexAfter(n)
    BY DEF IndInv, Counters
  <1> QED
    BY <1>1, <1>2, IndexAfterInjective

\* A load that says "not full" leaves room for one more item, whichever
\* store of tail it returned.
LEMMA NotFullHasRoom ==
  ASSUME IndInv, NEW k \in popsSeen .. popCount, NextIndex(head) # IndexAfter(k)
  PROVE  pushCount - k < Capacity - 1
PROOF
  <1>1. /\ k \in Nat /\ pushCount \in Nat /\ k <= pushCount
        /\ pushCount - k <= Capacity - 1
    BY CountersAreNats, CapacityAssumption DEF IndInv, Counters
  <1>2. SUFFICES ASSUME pushCount - k = Capacity - 1 PROVE FALSE
    BY <1>1, CapacityAssumption
  <1>3. NextIndex(head) = IndexAfter(pushCount + 1)
    BY <1>1, NextIndexAfter DEF IndInv, Counters
  <1>4. pushCount + 1 = k + Capacity
    BY <1>1, <1>2, CapacityAssumption
  <1>5. IndexAfter(k + Capacity) = IndexAfter(k)
    BY <1>1, IndexAfterPeriodic
  <1> QED
    BY <1>3, <1>4, <1>5

\* A load that says "not empty" has seen the push of the item at tail.
LEMMA NotEmptyHasItem ==
  ASSUME IndInv, NEW k \in pushesSeen .. pushCount, IndexAfter(k) # tail
  PROVE  popCount < k
BY CountersAreNats DEF IndInv, Counters

-----------------------------------------------------------------------------
(* Each action preserves the invariant.                                    *)

\* A try_push that finds the buffer full only moves the producer's view.
LEMMA PushFullInv == IndInv /\ PushFull => IndInv'
PROOF
  <1> SUFFICES ASSUME IndInv, PushFull PROVE IndInv'
    OBVIOUS
  <1>1. PICK k \in popsSeen .. popCount : popsSeen' = k
    BY DEF PushFull
  <1>2. UNCHANGED <<pushCount, popCount>>
    BY DEF PushFull, pushCount, popCount
  <1>3. TypeOK'
    BY <1>1, CountersAreNats DEF IndInv, TypeOK, PushFull
  <1>4. Counters'
    BY <1>1, <1>2, CountersAreNats, CapacityAssumption
    DEF IndInv, Counters, PushFull
  <1>5. Ownership' /\ FifoOrder'
    BY <1>2 DEF IndInv, Ownership, FifoOrder, MovedOut, PushFull
  <1> QED
    BY <1>3, <1>4, <1>5 DEF IndInv

\* A try_push that finds room reserves the slot at head for the producer.
LEMMA PushCheckInv ==
  ASSUME NEW item \in Items, IndInv, PushCheck(item)
  PROVE  IndInv'
PROOF
  <1>1. PICK k \in popsSeen .. popCount :
          NextIndex(head) # IndexAfter(k) /\ popsSeen' = k
    BY DEF PushCheck
  <1>2. UNCHANGED <<pushCount, popCount>>
    BY DEF PushCheck, pushCount, popCount
  <1>3. TypeOK'
    BY <1>1, CountersAreNats DEF IndInv, TypeOK, PushCheck
  <1>4. pushCount - k < Capacity - 1
    BY <1>1, NotFullHasRoom
  <1>5. Counters'
    BY <1>1, <1>2, <1>4, CountersAreNats, CapacityAssumption
    DEF IndInv, Counters, PushCheck
  <1>6. Ownership' /\ FifoOrder'
    BY <1>2 DEF IndInv, Ownership, FifoOrder, MovedOut, PushCheck
  <1> QED
    BY <1>3, <1>5, <1>6 DEF IndInv

\* The write goes to a slot that holds none of the queued items.
LEMMA PushWriteInv == IndInv /\ PushWrite => IndInv'
PROOF
  <1> SUFFICES ASSUME IndInv, PushWrite PROVE IndInv'
    OBVIOUS
  <1>1. UNCHANGED <<pushCount, popCount, head, tail, pItem, cpc, cItem, pushed, popped>>
    BY DEF PushWrite, pushCount, popCount
  <1>2. TypeOK'
    BY DEF IndInv, TypeOK, PushWrite
  <1>3. Counters'
    BY <1>1 DEF IndInv, Counters, PushWrite
  <1>4. FifoOrder'
    BY <1>1 DEF IndInv, FifoOrder
  <1>5. /\ slots' = [slots EXCEPT ![head] = pItem]
        /\ slots \in [Slots -> Items \cup {Uninit}] /\ head \in Slots
        /\ pushpc = "write" /\ pushpc' = "publish"
    BY DEF IndInv, TypeOK, PushWrite
  <1>6. Ownership'
    <2>1. ASSUME NEW n \in popCount .. pushCount - 1, ~MovedOut(n)
          PROVE  slots'[IndexAfter(n)] = pushed[n + 1]
      BY <1>5, <2>1, HeadIsFree DEF IndInv, Ownership
    <2>2. slots'[head] = pItem
      BY <1>5
    <2>3. ASSUME NEW i \in Slots, slots'[i] # Uninit
          PROVE  \/ i = head
                 \/ \E n \in popCount .. pushCount - 1 : ~MovedOut(n) /\ i = IndexAfter(n)
      BY <1>5, <2>3 DEF IndInv, Ownership
    <2> QED
      BY <1>1, <1>5, <2>1, <2>2, <2>3 DEF IndInv, Ownership, MovedOut
  <1> QED
    BY <1>2, <1>3, <1>4, <1>6 DEF IndInv

\* Publishing makes the written slot the last queued item.
LEMMA PushPublishInv == IndInv /\ PushPublish => IndInv'
PROOF
  <1> SUFFICES ASSUME IndInv, PushPublish PROVE IndInv'
    OBVIOUS
  <1>1. /\ pushed \in Seq(Items) /\ pItem \in Items /\ pushpc = "publish"
        /\ pushed' = Append(pushed, pItem) /\ pushpc' = "idle" /\ pItem' = Uninit
        /\ UNCHANGED <<tail, slots, cpc, cItem, popsSeen, pushesSeen, alive, popped>>
    BY DEF IndInv, TypeOK, Counters, PushPublish
  <1>2. /\ pushCount \in Nat /\ pushCount' = pushCount + 1 /\ popCount' = popCount /\ popCount \in Nat
        /\ pushed'[pushCount + 1] = pItem
        /\ \A j \in 1 .. pushCount : pushed'[j] = pushed[j]
    BY <1>1, CountersAreNats DEF pushCount, popCount
  <1>3. head' = IndexAfter(pushCount') /\ head' \in Slots
    BY <1>2, NextIndexAfter, IndexAfterInSlots DEF IndInv, Counters, PushPublish
  <1>4. TypeOK'
    BY <1>1, <1>3 DEF IndInv, TypeOK, PushPublish
  <1>5. Counters'
    BY <1>1, <1>2, <1>3, CountersAreNats, CapacityAssumption
    DEF IndInv, Counters
  <1>6. FifoOrder'
    <2>1. popCount <= pushCount /\ \A i \in 1 .. popCount : popped[i] = pushed[i]
      BY DEF IndInv, FifoOrder
    <2>2. popped' = popped
      BY <1>1
    <2> QED
      BY <1>2, <2>1, <2>2 DEF FifoOrder
  <1>7. Ownership'
    <2>1. head = IndexAfter(pushCount) /\ slots[head] = pItem
      BY <1>1 DEF IndInv, Counters, Ownership
    <2>2. ~MovedOut(pushCount)
      BY <1>1, CountersAreNats DEF IndInv, Counters, MovedOut
    <2>3. \A n : MovedOut(n)' <=> MovedOut(n)
      BY <1>1, <1>2 DEF MovedOut
    <2>4. ASSUME NEW n \in popCount .. pushCount, ~MovedOut(n)
          PROVE  slots[IndexAfter(n)] = pushed'[n + 1]
      <3>1. CASE n = pushCount
        BY <1>2, <2>1, <3>1
      <3>2. CASE n \in popCount .. pushCount - 1
        BY <1>2, <2>4, <3>2, CountersAreNats DEF IndInv, Ownership
      <3> QED
        BY <1>2, <3>1, <3>2
    <2>5. cpc = "retire" => cItem = pushed'[popCount + 1]
      <3> SUFFICES ASSUME cpc = "retire" PROVE cItem = pushed'[popCount + 1]
        OBVIOUS
      <3>1. cItem = pushed[popCount + 1]
        BY DEF IndInv, Ownership
      <3>2. popCount + 1 \in 1 .. pushCount
        BY CountersAreNats DEF IndInv, Counters
      <3> QED
        BY <1>2, <3>1, <3>2
    <2>6. ASSUME NEW i \in Slots, slots[i] # Uninit
          PROVE  \E n \in popCount .. pushCount : ~MovedOut(n) /\ i = IndexAfter(n)
      <3>1. CASE i = head
        BY <1>2, <2>1, <2>2, <3>1, CountersAreNats
      <3>2. CASE \E n \in popCount .. pushCount - 1 : ~MovedOut(n) /\ i = IndexAfter(n)
        BY <1>2, <3>2
      <3> QED
        BY <2>6, <3>1, <3>2 DEF IndInv, Ownership
    <2>7. /\ slots' = slots /\ cpc' = cpc /\ cItem' = cItem /\ pushpc' = "idle"
          /\ pushCount' - 1 = pushCount
      BY <1>1, <1>2
    <2> QED
      BY <1>2, <2>3, <2>4, <2>5, <2>6, <2>7 DEF Ownership
  <1> QED
    BY <1>4, <1>5, <1>6, <1>7 DEF IndInv

\* A pop that finds the buffer empty only moves the consumer's view.
LEMMA PopEmptyInv == IndInv /\ PopEmpty => IndInv'
PROOF
  <1> SUFFICES ASSUME IndInv, PopEmpty PROVE IndInv'
    OBVIOUS
  <1>1. PICK k \in pushesSeen .. pushCount : pushesSeen' = k
    BY DEF PopEmpty
  <1>2. UNCHANGED <<pushCount, popCount>>
    BY DEF PopEmpty, pushCount, popCount
  <1>3. TypeOK'
    BY <1>1, CountersAreNats DEF IndInv, TypeOK, PopEmpty
  <1>4. Counters'
    BY <1>1, <1>2, CountersAreNats DEF IndInv, Counters, PopEmpty
  <1>5. Ownership' /\ FifoOrder'
    BY <1>2 DEF IndInv, Ownership, FifoOrder, MovedOut, PopEmpty
  <1> QED
    BY <1>3, <1>4, <1>5 DEF IndInv

\* A pop that finds an item has seen the store that published it.
LEMMA PopCheckInv == IndInv /\ PopCheck => IndInv'
PROOF
  <1> SUFFICES ASSUME IndInv, PopCheck PROVE IndInv'
    OBVIOUS
  <1>1. PICK k \in pushesSeen .. pushCount : IndexAfter(k) # tail /\ pushesSeen' = k
    BY DEF PopCheck
  <1>2. UNCHANGED <<pushCount, popCount>>
    BY DEF PopCheck, pushCount, popCount
  <1>3. popCount < k
    BY <1>1, NotEmptyHasItem
  <1>4. TypeOK'
    BY <1>1, CountersAreNats DEF IndInv, TypeOK, PopCheck
  <1>5. Counters'
    BY <1>1, <1>2, <1>3, CountersAreNats DEF IndInv, Counters, PopCheck
  <1>6. Ownership' /\ FifoOrder'
    BY <1>2 DEF IndInv, Ownership, FifoOrder, MovedOut, PopCheck
  <1> QED
    BY <1>4, <1>5, <1>6 DEF IndInv

\* The read moves the oldest item, and no other, out of its slot.
LEMMA PopReadInv == IndInv /\ PopRead => IndInv'
PROOF
  <1> SUFFICES ASSUME IndInv, PopRead PROVE IndInv'
    OBVIOUS
  <1>1. /\ UNCHANGED <<pushCount, popCount, head, tail, pushpc, pItem, pushed, popped>>
        /\ cpc = "read" /\ cpc' = "retire" /\ cItem' = slots[tail]
        /\ slots' = [slots EXCEPT ![tail] = Uninit]
        /\ slots \in [Slots -> Items \cup {Uninit}] /\ tail \in Slots
    BY DEF PopRead, pushCount, popCount, IndInv, TypeOK
  <1>2. popCount \in popCount .. pushCount - 1 /\ tail = IndexAfter(popCount) /\ tail # head
    BY <1>1, CountersAreNats, HeadIsFree DEF IndInv, Counters
  <1>3. slots[tail] = pushed[popCount + 1]
    BY <1>1, <1>2 DEF IndInv, Ownership, MovedOut
  <1>4. TypeOK'
    BY <1>1 DEF IndInv, TypeOK, PopRead
  <1>5. Counters'
    BY <1>1 DEF IndInv, Counters, PopRead
  <1>6. FifoOrder'
    BY <1>1 DEF IndInv, FifoOrder
  <1>7. Ownership'
    <2>1. \A n : MovedOut(n)' <=> n = popCount
      BY <1>1 DEF MovedOut
    <2>2. ASSUME NEW n \in popCount .. pushCount - 1, n # popCount
          PROVE  slots'[IndexAfter(n)] = pushed[n + 1]
      <3>1. IndexAfter(n) # tail /\ IndexAfter(n) \in Slots
        BY <2>2, TailIsFirst, HeadIsFree
      <3> QED
        BY <1>1, <2>2, <3>1 DEF IndInv, Ownership, MovedOut
    <2>3. pushpc = "publish" => slots'[head] = pItem
      BY <1>1, <1>2 DEF IndInv, Ownership, TypeOK
    <2>4. ASSUME NEW i \in Slots, slots'[i] # Uninit
          PROVE  \/ pushpc = "publish" /\ i = head
                 \/ \E n \in popCount .. pushCount - 1 : n # popCount /\ i = IndexAfter(n)
      <3>1. i # tail /\ slots[i] # Uninit
        BY <1>1, <2>4
      <3> QED
        BY <1>2, <3>1 DEF IndInv, Ownership
    <2> QED
      BY <1>1, <1>3, <2>1, <2>2, <2>3, <2>4 DEF Ownership
  <1> QED
    BY <1>4, <1>5, <1>6, <1>7 DEF IndInv

\* Retiring hands the slot back to the producer.
LEMMA PopRetireInv == IndInv /\ PopRetire => IndInv'
PROOF
  <1> SUFFICES ASSUME IndInv, PopRetire PROVE IndInv'
    OBVIOUS
  <1>1. /\ popped \in Seq(Items \cup {Uninit}) /\ cItem \in Items \cup {Uninit}
        /\ popped' = Append(popped, cItem)
        /\ cpc = "retire" /\ cpc' = "idle" /\ cItem' = Uninit
        /\ UNCHANGED <<head, slots, pushpc, pItem, popsSeen, pushesSeen, alive, pushed>>
    BY DEF IndInv, TypeOK, PopRetire
  <1>2. /\ popCount' = popCount + 1 /\ pushCount' = pushCount /\ popCount \in Nat /\ pushCount \in Nat
        /\ popped'[popCount + 1] = cItem
        /\ \A j \in 1 .. popCount : popped'[j] = popped[j]
        /\ popCount < pushCount
    BY <1>1, CountersAreNats DEF pushCount, popCount, IndInv, Counters
  <1>3. tail' = IndexAfter(popCount') /\ tail' \in Slots
    BY <1>2, NextIndexAfter, IndexAfterInSlots DEF IndInv, Counters, PopRetire
  <1>4. TypeOK'
    BY <1>1, <1>3 DEF IndInv, TypeOK
  <1>5. Counters'
    BY <1>1, <1>2, <1>3, CountersAreNats, CapacityAssumption
    DEF IndInv, Counters
  <1>6. FifoOrder'
    <2>1. /\ \A j \in 1 .. popCount : popped[j] = pushed[j]
          /\ cItem = pushed[popCount + 1] /\ pushed' = pushed
      BY <1>1 DEF IndInv, FifoOrder, Ownership
    <2> QED
      BY <1>2, <2>1 DEF FifoOrder
  <1>7. Ownership'
    <2>1. /\ \A n : MovedOut(n) <=> n = popCount
          /\ \A n : ~MovedOut(n)'
      BY <1>1 DEF MovedOut
    <2>2. \A n \in popCount + 1 .. pushCount - 1 : slots[IndexAfter(n)] = pushed[n + 1]
      BY <1>2, <2>1 DEF IndInv, Ownership
    <2>3. pushpc = "publish" => slots[head] = pItem
      BY DEF IndInv, Ownership
    <2>4. ASSUME NEW i \in Slots, slots[i] # Uninit
          PROVE  \/ pushpc = "publish" /\ i = head
                 \/ \E n \in popCount + 1 .. pushCount - 1 : i = IndexAfter(n)
      <3>1. CASE \E n \in popCount .. pushCount - 1 : ~MovedOut(n) /\ i = IndexAfter(n)
        BY <1>2, <2>1, <3>1
      <3> QED
        BY <2>4, <3>1 DEF IndInv, Ownership
    <2>5. UNCHANGED <<head, slots, pushpc, pItem, pushed>> /\ cpc' = "idle"
      BY <1>1
    <2> QED
      BY <1>2, <2>1, <2>2, <2>3, <2>4, <2>5 DEF Ownership
  <1> QED
    BY <1>4, <1>5, <1>6, <1>7 DEF IndInv

\* Draining pops what lies between the indices, in order, and leaves every
\* slot empty.
LEMMA DrainAllInv == IndInv /\ DrainAll /\ alive' \in BOOLEAN => IndInv'
PROOF
  <1> SUFFICES ASSUME IndInv, DrainAll, alive' \in BOOLEAN PROVE IndInv'
    OBVIOUS
  <1> DEFINE rest == [i \in 1 .. pushCount - popCount |-> slots[IndexAfter(popCount + i - 1)]]
  <1>1. /\ popped \in Seq(Items \cup {Uninit}) /\ pushed \in Seq(Items)
        /\ slots \in [Slots -> Items \cup {Uninit}]
        /\ pushpc = "idle" /\ cpc = "idle"
        /\ UNCHANGED <<head, pushpc, pItem, cpc, cItem, pushed>>
        /\ tail' = head /\ popped' = popped \o rest
        /\ slots' = [i \in Slots |-> IF i \in Occupied THEN Uninit ELSE slots[i]]
        /\ popsSeen' = pushCount /\ pushesSeen' = pushCount
    BY DEF IndInv, TypeOK, DrainAll
  <1>2. pushCount \in Nat /\ popCount \in Nat /\ popCount <= pushCount /\ pushCount - popCount \in Nat
    BY CountersAreNats
  <1>3. ASSUME NEW i \in 1 .. pushCount - popCount
        PROVE  /\ slots[IndexAfter(popCount + i - 1)] = pushed[popCount + i]
               /\ slots[IndexAfter(popCount + i - 1)] \in Items \cup {Uninit}
    <2>1. popCount + i - 1 \in popCount .. pushCount - 1 /\ (popCount + i - 1) + 1 = popCount + i
      BY <1>2
    <2>2. ~MovedOut(popCount + i - 1)
      BY <1>1 DEF MovedOut
    <2>3. IndexAfter(popCount + i - 1) \in Slots
      BY <2>1, HeadIsFree
    <2> QED
      BY <1>1, <2>1, <2>2, <2>3 DEF IndInv, Ownership
  <1>4. rest \in Seq(Items \cup {Uninit}) /\ Len(rest) = pushCount - popCount
    BY <1>2, <1>3
  <1>5. /\ popped' \in Seq(Items \cup {Uninit})
        /\ Len(popped') = popCount + (pushCount - popCount)
        /\ \A j \in 1 .. popCount : popped'[j] = popped[j]
        /\ \A j \in 1 .. pushCount - popCount : popped'[popCount + j] = rest[j]
    <2>1. popped' = popped \o rest
      BY <1>1
    <2> HIDE DEF rest
    <2>2. /\ popped \o rest \in Seq(Items \cup {Uninit})
          /\ Len(popped \o rest) = popCount + (pushCount - popCount)
          /\ \A j \in 1 .. popCount + (pushCount - popCount) : (popped \o rest)[j] =
                IF j <= popCount THEN popped[j] ELSE rest[j - popCount]
      BY <1>1, <1>4, ConcatProperties DEF popCount
    <2> QED
      BY <1>2, <2>1, <2>2
  <1>6. popCount' = pushCount /\ pushCount' = pushCount
    BY <1>1, <1>2, <1>5 DEF popCount, pushCount
  <1>7. \A i \in Slots : slots'[i] = Uninit
    <2>1. ASSUME NEW i \in Slots, slots[i] # Uninit
          PROVE  i \in Occupied
      BY <1>1, <2>1 DEF IndInv, Ownership, Occupied
    <2> QED
      BY <1>1, <2>1
  <1>8. TypeOK'
    BY <1>1, <1>2, <1>5 DEF IndInv, TypeOK
  <1>9. Counters'
    BY <1>1, <1>2, <1>6, CapacityAssumption DEF IndInv, Counters
  <1>10. Ownership'
    BY <1>1, <1>2, <1>6, <1>7 DEF Ownership
  <1>11. FifoOrder'
    <2>1. ASSUME NEW j \in 1 .. pushCount
          PROVE  popped'[j] = pushed[j]
      <3>1. CASE j \in 1 .. popCount
        BY <1>5, <3>1 DEF IndInv, FifoOrder
      <3>2. CASE j \in popCount + 1 .. pushCount
        <4>1. j - popCount \in 1 .. pushCount - popCount /\ popCount + (j - popCount) = j
          BY <1>2, <3>2
        <4>2. popped'[j] = rest[j - popCount]
          BY <1>5, <4>1
        <4>3. rest[j - popCount] = pushed[popCount + (j - popCount)]
          BY <1>3, <4>1
        <4> QED
          BY <4>1, <4>2, <4>3
      <3> QED
        BY <1>2, <3>1, <3>2
    <2>2. pushed' = pushed
      BY <1>1
    <2> QED
      BY <1>2, <1>6, <2>1, <2>2 DEF FifoOrder
  <1> QED
    BY <1>8, <1>9, <1>10, <1>11 DEF IndInv

\* IndInv is inductive.
LEMMA StepInv == IndInv /\ [RingNext]_bufferVars => IndInv'
PROOF
  <1> SUFFICES ASSUME IndInv, [RingNext]_bufferVars PROVE IndInv'
    OBVIOUS
  <1>1. CASE PushFull
    BY <1>1, PushFullInv
  <1>2. CASE \E item \in Items : PushCheck(item)
    BY <1>2, PushCheckInv
  <1>3. CASE PushWrite
    BY <1>3, PushWriteInv
  <1>4. CASE PushPublish
    BY <1>4, PushPublishInv
  <1>5. CASE PopEmpty
    BY <1>5, PopEmptyInv
  <1>6. CASE PopCheck
    BY <1>6, PopCheckInv
  <1>7. CASE PopRead
    BY <1>7, PopReadInv
  <1>8. CASE PopRetire
    BY <1>8, PopRetireInv
  <1>9. CASE Clear
    BY <1>9, DrainAllInv DEF Clear
  <1>10. CASE DropBuffer
    BY <1>10, DrainAllInv DEF DropBuffer
  <1>11. CASE UNCHANGED bufferVars
    BY <1>11 DEF bufferVars, IndInv, TypeOK, Counters, Ownership, FifoOrder,
                 MovedOut, pushCount, popCount
  <1> QED
    BY <1>1, <1>2, <1>3, <1>4, <1>5, <1>6, <1>7, <1>8, <1>9, <1>10, <1>11
    DEF RingNext, Done

\* For every capacity the ring buffer keeps its indices, views and slots
\* consistent: the invariant the other theorems rest on.
THEOREM Invariance == RingSpec => []IndInv
BY InitInv, StepInv, PTL DEF RingSpec

\* pop returns what try_push accepted, in order, each item once, whatever
\* the capacity, the items and the staleness of the loads.
THEOREM FifoSafety == RingSpec => [](TypeOK /\ FifoOrder)
PROOF
  <1>1. IndInv => TypeOK /\ FifoOrder
    BY DEF IndInv
  <1> QED
    BY <1>1, Invariance, PTL

-----------------------------------------------------------------------------
(* The consequences for the code's unsafe blocks and for its callers.      *)

\* The item at tail is in its slot whenever the consumer is about to read.
LEMMA ReadsAreInitialised == IndInv => NoUninitRead
PROOF
  <1> SUFFICES ASSUME IndInv, cpc = "read" PROVE slots[tail] \in Items
    BY DEF NoUninitRead
  <1>1. popCount \in popCount .. pushCount - 1 /\ tail = IndexAfter(popCount)
    BY CountersAreNats DEF IndInv, Counters
  <1>2. slots[tail] = pushed[popCount + 1]
    BY <1>1 DEF IndInv, Ownership, MovedOut
  <1>3. popCount + 1 \in 1 .. pushCount /\ pushed \in Seq(Items)
    BY <1>1, CountersAreNats DEF IndInv, TypeOK
  <1> QED
    BY <1>2, <1>3 DEF pushCount

\* The slot at head belongs to the producer alone while it writes.
LEMMA WritesAreExclusive == IndInv => NoSlotRace
PROOF
  <1> SUFFICES ASSUME IndInv, pushpc = "write"
               PROVE  /\ cpc = "read" => head # tail
                      /\ pushCount - Capacity < popsSeen
                      /\ slots[head] = Uninit
    BY DEF NoSlotRace
  <1>1. cpc = "read" => head # tail
    <2> SUFFICES ASSUME cpc = "read" PROVE head # tail
      OBVIOUS
    <2>1. popCount \in popCount .. pushCount - 1 /\ tail = IndexAfter(popCount)
      BY CountersAreNats DEF IndInv, Counters
    <2> QED
      BY <2>1, HeadIsFree
  <1>2. pushCount - Capacity < popsSeen
    BY CountersAreNats, CapacityAssumption DEF IndInv, Counters
  <1>3. slots[head] = Uninit
    BY HeadIsFree DEF IndInv, TypeOK, Ownership
  <1> QED
    BY <1>1, <1>2, <1>3

\* assume_init_read never meets an uninitialised slot, and the UnsafeCell is
\* never accessed by both threads: the two unsafe blocks are sound.
THEOREM UnsafeBlocksSound == RingSpec => [](NoUninitRead /\ NoSlotRace)
BY Invariance, ReadsAreInitialised, WritesAreExclusive, PTL

\* Whatever an index load returns, len, is_full and is_empty are real counts.
LEMMA LoadsAreCounts == IndInv => SnapshotsExact
PROOF
  <1> SUFFICES ASSUME IndInv PROVE SnapshotsExact
    OBVIOUS
  <1>1. /\ head = IndexAfter(pushCount) /\ tail = IndexAfter(popCount)
        /\ popsSeen <= popCount /\ popCount <= pushesSeen /\ pushesSeen <= pushCount
        /\ pushCount - popsSeen <= Capacity - 1
        /\ pushCount \in Nat /\ popCount \in Nat /\ popsSeen \in Nat /\ pushesSeen \in Nat
    BY CountersAreNats DEF IndInv, Counters
  <1>2. ASSUME NEW k \in popsSeen .. popCount
        PROVE  LenOf(head, IndexAfter(k)) = pushCount - k
    <2>1. k \in Nat /\ k <= pushCount /\ pushCount - k < Capacity
      BY <1>1, CapacityAssumption
    <2> QED
      BY <1>1, <2>1, LenOfIndices
  <1>3. ASSUME NEW k \in pushesSeen .. pushCount
        PROVE  LenOf(IndexAfter(k), tail) = k - popCount
    <2>1. k \in Nat /\ popCount <= k /\ k - popCount < Capacity
      BY <1>1, CapacityAssumption
    <2> QED
      BY <1>1, <2>1, LenOfIndices
  <1>4. IsFull(head, tail) <=> pushCount - popCount = MaxSize
    <2>1. NextIndex(head) = IndexAfter(pushCount + 1)
      BY <1>1, NextIndexAfter
    <2>2. ASSUME pushCount - popCount = Capacity - 1
          PROVE  NextIndex(head) = tail
      <3>1. pushCount + 1 = popCount + Capacity
        BY <1>1, <2>2, CapacityAssumption
      <3> QED
        BY <1>1, <2>1, <3>1, IndexAfterPeriodic
    <2>3. ASSUME NextIndex(head) = tail
          PROVE  pushCount - popCount = Capacity - 1
      <3>1. SUFFICES ASSUME pushCount + 1 - popCount < Capacity PROVE FALSE
        BY <1>1, CapacityAssumption
      <3>2. IndexAfter(popCount) = IndexAfter(pushCount + 1)
        BY <1>1, <2>1, <2>3
      <3>3. popCount = pushCount + 1
        BY <1>1, <3>1, <3>2, IndexAfterInjective
      <3> QED
        BY <1>1, <3>3
    <2> QED
      BY <2>2, <2>3 DEF IsFull, MaxSize
  <1>5. IsEmpty(head, tail) <=> pushCount = popCount
    <2>1. head = tail => pushCount = popCount
      BY <1>1, CountersAreNats, IndexAfterInjective
    <2> QED
      BY <1>1, <2>1 DEF IsEmpty
  <1> QED
    BY <1>2, <1>3, <1>4, <1>5 DEF SnapshotsExact

\* len() and is_empty() never wrap around: what flush and close decide on.
THEOREM CountsExact == RingSpec => []SnapshotsExact
BY Invariance, LoadsAreCounts, PTL

\* A dropped buffer owns nothing.
LEMMA DroppedIsEmpty == IndInv => NoLeak
BY CountersAreNats DEF IndInv, Counters, Ownership, NoLeak

\* Every accepted entry is handed over or dropped, never leaked.
THEOREM NothingLeaks == RingSpec => []NoLeak
BY Invariance, DroppedIsEmpty, PTL

\* All that the unsafe blocks and the callers of the ring buffer rely on, for
\* every power-of-two capacity, every item and any number of pushes.
THEOREM RingAlwaysSafe == RingSpec => []RingSafe
PROOF
  <1>1. IndInv => RingSafe
    BY ReadsAreInitialised, WritesAreExclusive, LoadsAreCounts, DroppedIsEmpty
    DEF IndInv, RingSafe
  <1> QED
    BY <1>1, Invariance, PTL

-----------------------------------------------------------------------------
(* Refinement: the memory between the indices is the abstract queue.       *)

\* The i-th slot from tail is the slot of the i-th item not yet popped.
LEMMA SlotOfItem ==
  ASSUME NEW n \in Nat, NEW j \in Nat
  PROVE  (IndexAfter(n) + j) % Capacity = IndexAfter(n + j)
PROOF
  <1> DEFINE q == n \div Capacity
             r == n % Capacity
             p == (n + j) \div Capacity
             s == (n + j) % Capacity
             u == (r + j) % Capacity
             v == (r + j) \div Capacity
  <1>1. /\ n = Capacity * q + r /\ r \in Slots /\ q \in Int
        /\ n + j = Capacity * p + s /\ s \in Slots /\ p \in Int
    BY DivModExists
  <1>2. r + j \in Nat
    BY <1>1, CapacityAssumption DEF Slots
  <1>3. r + j = Capacity * v + u /\ u \in Slots /\ v \in Int
    BY <1>2, DivModExists
  <1> HIDE DEF q, r, p, s, u, v
  <1>4. Capacity * (q + v) + u = Capacity * p + s /\ q + v \in Int
    BY <1>1, <1>2, <1>3, CapacityAssumption DEF Slots
  <1>5. u = s
    BY <1>1, <1>3, <1>4, DivModUnique
  <1> QED
    BY <1>5 DEF u, s, r, IndexAfter

\* The items pushed and not yet popped.
Pending == [i \in 1 .. pushCount - popCount |-> pushed[popCount + i]]

\* The memory between the indices holds exactly the items pushed and not
\* yet popped.
LEMMA ContentsArePending ==
  IndInv => Contents = Pending /\ Len(Contents) = pushCount - popCount
PROOF
  <1> SUFFICES ASSUME IndInv
               PROVE  Contents = Pending /\ Len(Contents) = pushCount - popCount
    OBVIOUS
  <1>1. /\ pushCount \in Nat /\ popCount \in Nat /\ popCount <= pushCount
        /\ pushCount - popCount < Capacity /\ tail = IndexAfter(popCount)
        /\ head = IndexAfter(pushCount)
    BY CountersAreNats DEF IndInv, Counters
  <1>2. LenOf(head, tail) = pushCount - popCount
    BY <1>1, LenOfIndices
  <1>3. ASSUME NEW i \in 1 .. pushCount - popCount
        PROVE  (IF i = 1 /\ cpc = "retire"
                THEN cItem ELSE slots[(tail + i - 1) % Capacity]) = pushed[popCount + i]
    <2>1. CASE i = 1 /\ cpc = "retire"
      BY <2>1 DEF IndInv, Ownership
    <2>2. CASE ~(i = 1 /\ cpc = "retire")
      <3>1. /\ i - 1 \in Nat /\ popCount + (i - 1) \in popCount .. pushCount - 1
            /\ popCount + (i - 1) + 1 = popCount + i
        BY <1>1
      <3>2. tail \in Int /\ tail + i - 1 = tail + (i - 1)
        BY <1>1 DEF IndInv, TypeOK, Slots
      <3>3. (tail + i - 1) % Capacity = IndexAfter(popCount + (i - 1))
        BY <1>1, <3>1, <3>2, SlotOfItem
      <3>4. ~MovedOut(popCount + (i - 1))
        BY <1>1, <2>2, <3>1 DEF MovedOut
      <3>5. slots[IndexAfter(popCount + (i - 1))] = pushed[popCount + (i - 1) + 1]
        BY <3>1, <3>4 DEF IndInv, Ownership
      <3> QED
        BY <2>2, <3>1, <3>3, <3>5
    <2> QED
      BY <2>1, <2>2
  <1>4. Contents = Pending
    BY <1>2, <1>3 DEF Contents, Pending
  <1>5. Len(Pending) = pushCount - popCount
    BY <1>1 DEF Pending
  <1> QED
    BY <1>4, <1>5

\* The same after a step.
LEMMA ContentsArePendingNext ==
  (IndInv => Contents = Pending /\ Len(Contents) = pushCount - popCount)'
BY ContentsArePending, PTL

\* A step that leaves the histories alone leaves the abstract queue alone.
LEMMA QuietStep ==
  ASSUME IndInv, IndInv', UNCHANGED <<pushed, popped>>
  PROVE  UNCHANGED Fifo!fifoVars
PROOF
  <1>1. UNCHANGED <<pushCount, popCount>>
    BY DEF pushCount, popCount
  <1>2. Contents = Pending /\ Contents' = Pending'
    BY ContentsArePending, ContentsArePendingNext
  <1>3. Pending' = Pending
    BY <1>1 DEF Pending
  <1> QED
    BY <1>1, <1>2, <1>3 DEF Fifo!fifoVars

\* The store of head is the abstract Push.
LEMMA PublishPushes ==
  ASSUME IndInv, IndInv', PushPublish
  PROVE  \E item \in Items : Fifo!Push(item)
PROOF
  <1>1. /\ pushed \in Seq(Items) /\ pItem \in Items
        /\ pushed' = Append(pushed, pItem) /\ popped' = popped
    BY DEF IndInv, TypeOK, Counters, PushPublish
  <1>2. /\ pushCount \in Nat /\ popCount \in Nat /\ popCount <= pushCount
        /\ pushCount' = pushCount + 1 /\ popCount' = popCount
        /\ \A j \in 1 .. pushCount : pushed'[j] = pushed[j]
        /\ pushed'[pushCount + 1] = pItem
    BY <1>1, CountersAreNats DEF pushCount, popCount
  <1>3. pushCount - popCount < Capacity - 1
    BY CountersAreNats, CapacityAssumption DEF IndInv, Counters, PushPublish
  <1>4. /\ Contents = Pending /\ Len(Contents) = pushCount - popCount
        /\ Contents' = Pending'
    BY ContentsArePending, ContentsArePendingNext
  <1>5. Pending' = Append(Pending, pItem)
    <2>1. Pending' = [i \in 1 .. (pushCount - popCount) + 1 |-> pushed'[popCount + i]]
      BY <1>2 DEF Pending
    <2>2. Append(Pending, pItem) =
            [i \in 1 .. (pushCount - popCount) + 1 |->
               IF i = (pushCount - popCount) + 1 THEN pItem ELSE pushed[popCount + i]]
      BY <1>2 DEF Pending
    <2>3. ASSUME NEW i \in 1 .. (pushCount - popCount) + 1
          PROVE  pushed'[popCount + i] =
                   IF i = (pushCount - popCount) + 1 THEN pItem ELSE pushed[popCount + i]
      BY <1>2
    <2> QED
      BY <2>1, <2>2, <2>3
  <1>6. Fifo!Push(pItem)
    BY <1>2, <1>3, <1>4, <1>5 DEF Fifo!Push, MaxSize
  <1> QED
    BY <1>1, <1>6

\* The store of tail is the abstract Pop.
LEMMA RetirePops ==
  ASSUME IndInv, IndInv', PopRetire
  PROVE  Fifo!Pop
PROOF
  <1>1. /\ popped \in Seq(Items \cup {Uninit}) /\ pushed' = pushed
        /\ popped' = Append(popped, cItem)
    BY DEF IndInv, TypeOK, PopRetire
  <1>2. /\ pushCount \in Nat /\ popCount \in Nat /\ popCount < pushCount
        /\ pushCount' = pushCount /\ popCount' = popCount + 1
    BY <1>1, CountersAreNats DEF pushCount, popCount, IndInv, Counters, PopRetire
  <1>3. /\ Contents = Pending /\ Len(Contents) = pushCount - popCount
        /\ Contents' = Pending'
    BY ContentsArePending, ContentsArePendingNext
  <1>4. Pending' = Tail(Pending)
    <2>1. Pending' = [i \in 1 .. (pushCount - popCount) - 1 |-> pushed[popCount + 1 + i]]
      BY <1>1, <1>2 DEF Pending
    <2>2. Tail(Pending) = [i \in 1 .. (pushCount - popCount) - 1 |-> pushed[popCount + (i + 1)]]
      BY <1>2 DEF Pending
    <2>3. \A i \in 1 .. (pushCount - popCount) - 1 : popCount + 1 + i = popCount + (i + 1)
      BY <1>2
    <2> QED
      BY <2>1, <2>2, <2>3
  <1>5. Contents # <<>>
    BY <1>2, <1>3
  <1> QED
    BY <1>2, <1>3, <1>4, <1>5 DEF Fifo!Pop

\* clear() and drop() are the abstract Drain.
LEMMA DrainDrains ==
  ASSUME IndInv, IndInv', DrainAll
  PROVE  Fifo!Drain
PROOF
  <1>1. pushCount' = pushCount /\ popsSeen' = pushCount
    BY DEF DrainAll, pushCount
  <1>2. /\ pushCount \in Nat /\ popCount \in Nat /\ popCount <= pushCount
    BY CountersAreNats
  <1>3. /\ popCount' \in Nat /\ popsSeen' <= popCount' /\ popCount' <= pushCount'
    <2>1. IndInv' => popCount' \in Nat /\ popsSeen' <= popCount' /\ popCount' <= pushCount'
      BY DEF IndInv, TypeOK, Counters, FifoOrder, popCount
    <2> QED
      BY <2>1
  <1>4. popCount' = pushCount
    BY <1>1, <1>2, <1>3
  <1>5. /\ Len(Contents) = pushCount - popCount /\ Contents' = Pending'
    BY ContentsArePending, ContentsArePendingNext
  <1>6. Pending' = <<>>
    BY <1>1, <1>2, <1>4 DEF Pending
  <1> QED
    BY <1>2, <1>4, <1>5, <1>6 DEF Fifo!Drain

\* Every step of the ring buffer is a step of the bounded queue or none.
LEMMA StepRefines ==
  IndInv /\ IndInv' /\ [RingNext]_bufferVars => [Fifo!Next]_(Fifo!fifoVars)
PROOF
  <1> SUFFICES ASSUME IndInv, IndInv', [RingNext]_bufferVars
               PROVE  Fifo!Next \/ UNCHANGED Fifo!fifoVars
    OBVIOUS
  <1>1. CASE UNCHANGED <<pushed, popped>>
    BY <1>1, QuietStep
  <1>2. CASE PushPublish
    BY <1>2, PublishPushes DEF Fifo!Next
  <1>3. CASE PopRetire
    BY <1>3, RetirePops DEF Fifo!Next
  <1>4. CASE DrainAll
    BY <1>4, DrainDrains DEF Fifo!Next
  <1> QED
    BY <1>1, <1>2, <1>3, <1>4
    DEF RingNext, bufferVars, PushFull, PushCheck, PushWrite, PopEmpty, PopCheck,
        PopRead, Clear, DropBuffer, Done

\* new() is the empty queue.
LEMMA InitRefines == RingInit => Fifo!Init
PROOF
  <1> SUFFICES ASSUME RingInit PROVE Fifo!Init
    OBVIOUS
  <1>1. pushCount = 0 /\ popCount = 0
    BY DEF RingInit, pushCount, popCount
  <1>2. Contents = Pending
    BY InitInv, ContentsArePending
  <1> QED
    BY <1>1, <1>2 DEF Fifo!Init, Pending

\* For every power-of-two capacity the two-index, two-thread buffer
\* implements the bounded queue: callers may reason with BoundedFifo.
THEOREM Refinement == RingSpec => ImplementsFifo
BY Invariance, InitRefines, StepRefines, PTL
DEF RingSpec, ImplementsFifo, Fifo!Spec

-----------------------------------------------------------------------------
(* The writer and its background thread.                                   *)

\* Where the background thread has an entry in hand, and where it has an
\* entry that is in the file but not in the counts yet.
Holding == {"space", "headerSum", "payload", "position", "count", "timestamp"}
Unstored == {"space", "headerSum", "payload"}
Uncounted == {"position", "count"}

\* How many of the accepted entries have met their fate.
Handled == IF bpc \in Unstored THEN nPop - 1 ELSE nPop

\* The ring buffer is what was accepted and not popped, and neither side
\* sees more of the other than there is.
RingMirrors ==
  /\ nPush = Len(accepted) /\ Len(ring) = nPush - nPop
  /\ \A i \in 1 .. Len(ring) : ring[i] = accepted[nPop + i]
  /\ seenPops <= nPop /\ nPop <= seenPushes /\ seenPushes <= nPush
  /\ nPush - seenPops <= RingMax

\* The entry in hand is the one popped last.
HandHolds ==
  /\ bpc \in Holding <=> bEntry # NoEntry
  /\ bpc \in Holding => nPop >= 1 /\ bEntry = accepted[nPop]

\* Timestamps identify the entries of a session.
AcceptedInOrder ==
  /\ \A i, j \in DOMAIN accepted : i < j => accepted[i].ts < accepted[j].ts
  /\ \A i \in DOMAIN accepted : accepted[i].ts <= writes

\* Each of the first Handled entries is in the file or was dropped, and no other.
FateKnown ==
  /\ \A i \in 1 .. Handled : accepted[i] \in StoredSet \cup dropped
  /\ \A e \in StoredSet \cup dropped : \E i \in 1 .. Handled : accepted[i] = e
  /\ \A i, j \in DOMAIN stored : i < j => stored[i].ts < stored[j].ts
  /\ dropped # {} => degraded

\* The counts follow the file: records_written is late by the record that is
\* being finished, and as long as nothing was dropped every entry is a record.
CountsFollow ==
  /\ records_written = Len(stored) - (IF bpc \in Uncounted THEN 1 ELSE 0)
  /\ ~degraded => Len(stored) = Handled
  /\ ~degraded => sequence = Len(accepted)

\* There is room for what is being written and a footer.
RoomLeft ==
  /\ write_position + FILE_FOOTER_SIZE <= FileWords
  /\ bpc \in {"headerSum", "payload", "position"} => Fits(bEntry)
  /\ RECORD_HEADER_SIZE * Len(stored)
       <= write_position + (IF bpc = "position" THEN RECORD_HEADER_SIZE ELSE 0)

\* What shutdown promises: nothing is accepted after it, and the background
\* thread leaves only when it has popped everything.
Leaving ==
  /\ shutdown => session # "open" \/ ppc \in {"join", "footer"}
  /\ session = "closed" => shutdown
  /\ bpc \in {"exit", "exited"} => shutdown /\ seenPushes = nPush
  /\ bpc = "exited" => nPop = nPush
  /\ ppc = "footer" \/ session = "closed" => bpc = "exited" /\ recordCount = records_written

\* What a flush has seen.
Flushing ==
  /\ ppc \in {"flush", "flushDegraded", "flushEmpty"} => target = sequence
  /\ ppc = "flushEmpty" => degraded

WriterInv ==
  /\ WriterTypeOK /\ RingMirrors /\ HandHolds /\ AcceptedInOrder
  /\ FateKnown /\ CountsFollow /\ RoomLeft /\ Leaving /\ Flushing

-----------------------------------------------------------------------------
(* Types.                                                                  *)

\* What is copied into the mapped file stays a file.
LEMMA StoreType ==
  ASSUME file \in [Offsets -> Words], NEW from \in Int, NEW words,
         \A i \in DOMAIN words : words[i] \in Words
  PROVE  Store(from, words) \in [Offsets -> Words]
  BY DEF Store

\* The words of a header, a payload and a footer.
LEMMA WordTypes ==
  ASSUME NEW e \in Entries, NEW seq \in Nat
  PROVE  /\ TimestampWord(e) \in Words /\ SizeWord(e) \in Words
         /\ SumWord(seq, Crc(e)) \in Words
         /\ \A i \in 0 .. e.len - 1 : PayloadWord(e, i) \in Words
  <1>1. e.ts \in Nat /\ e.len \in Nat BY FileAssumption DEF Entries
  <1>2. Crc(e) \in Nat BY <1>1 DEF Crc
  <1>3. \A i \in 0 .. e.len - 1 : i \in Nat BY <1>1
  <1> QED BY <1>1, <1>2, <1>3 DEF TimestampWord, SizeWord, SumWord, PayloadWord, Word, Words, Zero, Kinds

\* A footer is made of words.
LEMMA FooterTypes ==
  ASSUME NEW i \in 0 .. 3, NEW records \in Nat, NEW bytes \in Nat, NEW timestamp \in Nat
  PROVE  FooterWord(i, records, bytes, timestamp) \in Words
  <1>1. i = 0 \/ i = 1 \/ i = 2 \/ i = 3 OBVIOUS
  <1> QED BY <1>1 DEF FooterWord, FooterMagic, Word, Words, Zero, Kinds

\* The types hold in a new writer.
LEMMA TypeInit == WriterInit => WriterTypeOK
  <1> SUFFICES ASSUME WriterInit PROVE WriterTypeOK OBVIOUS
  <1>1. file \in [Offsets -> Words]
    BY DEF WriterInit, Blank, Zero, Word, Words, Kinds
  <1>2. shutdown \in BOOLEAN /\ degraded \in BOOLEAN
    BY DEF WriterInit
  <1>3. 0 \in 0 .. SeqMod - 1 BY FileAssumption, WriterAssumption
  <1> QED BY <1>1, <1>2, <1>3 DEF WriterInit, WriterTypeOK

\* Every step keeps the types; a pop finds the ring buffer filled, and a store
\* has an entry in hand.
LEMMA TypeStep ==
  ASSUME WriterTypeOK, RingMirrors, HandHolds, [WriterNext]_writerVars
  PROVE  WriterTypeOK'
  <1> USE FileAssumption, WriterAssumption DEF WriterTypeOK
  <1>1. CASE AppendSession
    <2>1. shutdown' \in BOOLEAN /\ degraded' \in BOOLEAN
      BY <1>1 DEF AppendSession
    <2>2. 0 \in 0 .. SeqMod - 1 OBVIOUS
    <2> QED BY <1>1, <2>1, <2>2 DEF AppendSession, fileVars
  <1>2. CASE Kill
    BY <1>2 DEF Kill, fileVars, ringVars, sharedVars, producerVars, backgroundVars, historyVars
  <1>3. CASE Ended \/ UNCHANGED writerVars
    <2>1. UNCHANGED writerVars BY <1>3 DEF Ended
    <2> QED BY <2>1 DEF writerVars, fileVars, sessionVars, ringVars, sharedVars, producerVars,
                        backgroundVars, historyVars
  <1>4. CASE \E len \in Lens : WriteAccepted(len)
    <2>1. PICK len \in Lens : WriteAccepted(len) BY <1>4
    <2>2. NewEntry(len) \in Entries BY DEF NewEntry, Entries
    <2>3. seenPops' \in Nat BY <2>1 DEF WriteAccepted
    <2>4. sequence' \in 0 .. SeqMod - 1 BY <2>1 DEF WriteAccepted
    <2> QED BY <2>1, <2>2, <2>3, <2>4
            DEF WriteAccepted, fileVars, sharedVars, backgroundVars
  <1>5. CASE WriteRefused
    BY <1>5 DEF WriteRefused, fileVars, sharedVars, producerVars, backgroundVars
  <1>6. CASE FlushBegin \/ FlushNext
    <2> DEFINE Places == {"idle", "flush", "flushDegraded", "flushEmpty"}
    <2>0. \E from \in Places, to \in Places :
             /\ Producer(from, to) /\ UNCHANGED <<fileVars, sharedVars>>
             /\ target' \in {target, sequence}
      <3>1. CASE FlushBegin BY <3>1 DEF FlushBegin
      <3>2. CASE FlushNext
        <4>1. \E from \in Places, to \in Places : FlushStep(from, to)
          BY <3>2, Zenon DEF FlushNext, FlushWritten, FlushNotYet, FlushHealthy, FlushDegraded,
                             FlushGivesUp, FlushWaits
        <4> QED BY <4>1 DEF FlushStep
      <3> QED BY <1>6, <3>1, <3>2
    <2>1. ppc' \in Places /\ target' \in {target, sequence}
      BY <2>0 DEF Producer
    <2>2. UNCHANGED <<fileVars, sharedVars, ringVars, sessionVars, backgroundVars, historyVars,
                      sequence>>
      BY <2>0, Zenon DEF Producer
    <2> QED BY <2>1, <2>2 DEF fileVars, sessionVars, ringVars, sharedVars, backgroundVars,
                              historyVars
  <1>7. CASE CloseBegin \/ CloseHeader
    BY <1>7 DEF CloseBegin, CloseHeader, Producer, fileVars, sessionVars, ringVars,
                sharedVars, backgroundVars, historyVars
  <1>8. CASE CloseFooter
    <2>1. file' \in [Offsets -> Words]
      <3>1. CASE write_position + FILE_FOOTER_SIZE <= FileWords
        <4> DEFINE words == [i \in 0 .. FILE_FOOTER_SIZE - 1 |->
                              FooterWord(i, records_written,
                                         write_position + FILE_FOOTER_SIZE, last_timestamp)]
        <4>1. \A i \in 0 .. FILE_FOOTER_SIZE - 1 :
                FooterWord(i, records_written, write_position + FILE_FOOTER_SIZE, last_timestamp)
                  \in Words
          BY FooterTypes DEF FILE_FOOTER_SIZE
        <4>2. \A i \in DOMAIN words : words[i] \in Words BY <4>1
        <4>3. file' = Store(write_position, words) BY <1>8, <3>1 DEF CloseFooter
        <4> HIDE DEF words
        <4> QED BY <4>2, <4>3, StoreType
      <3> QED BY <1>8, <3>1 DEF CloseFooter
    <2> QED BY <1>8, <2>1 DEF CloseFooter, ringVars, sharedVars, backgroundVars, historyVars
  <1>9. CASE BgPop
    <2>1. nPop < nPush BY <1>9 DEF BgPop
    <2>2. ring # <<>> BY <2>1 DEF RingMirrors
    <2>3. Head(ring) \in Entries /\ Tail(ring) \in Seq(Entries) BY <2>2
    <2>4. seenPushes' \in Nat BY <1>9 DEF BgPop
    <2> QED BY <1>9, <2>3, <2>4 DEF BgPop, Background, sessionVars, producerVars
  <1>10. CASE BgPopNone \/ BgSpin \/ BgShutdown \/ BgExit \/ BgDrainMore
    BY <1>10 DEF BgPopNone, BgSpin, BgShutdown, BgExit, BgDrainMore, BgIdleStep, Background,
                 sessionVars, producerVars
  <1>11. CASE BgNoSpace
    <2>1. bEntry \in Entries BY <1>11 DEF BgNoSpace, Background, HandHolds, Holding
    <2>2. degraded' \in BOOLEAN BY <1>11 DEF BgNoSpace
    <2> QED BY <1>11, <2>1, <2>2 DEF BgNoSpace, Background, sessionVars, producerVars
  <1>12. CASE BgHeader \/ BgHeaderSum \/ BgPayload
    <2>1. bEntry \in Entries
      BY <1>12 DEF BgHeader, BgHeaderSum, BgPayload, BgStoreStep, Background, HandHolds, Holding
    <2>2. bEntry.len \in Nat BY <2>1 DEF Entries
    <2>3. file' \in [Offsets -> Words]
      <3>1. CASE BgHeader
        <4> DEFINE words == [i \in 0 .. 1 |-> IF i = 0 THEN TimestampWord(bEntry)
                                              ELSE SizeWord(bEntry)]
        <4>1. \A i \in DOMAIN words : words[i] \in Words BY <2>1, WordTypes
        <4>2. file' = Store(write_position, words) BY <3>1 DEF BgHeader
        <4> HIDE DEF words
        <4> QED BY <4>1, <4>2, StoreType
      <3>2. CASE BgHeaderSum
        <4> DEFINE words == [i \in {0} |-> SumWord(bSeq, Crc(bEntry))]
        <4>1. \A i \in DOMAIN words : words[i] \in Words BY <2>1, WordTypes
        <4>2. file' = Store(write_position + 2, words) BY <3>2 DEF BgHeaderSum
        <4> HIDE DEF words
        <4> QED BY <4>1, <4>2, StoreType
      <3>3. CASE BgPayload
        <4> DEFINE words == [i \in 0 .. bEntry.len - 1 |-> PayloadWord(bEntry, i)]
        <4>1. \A i \in DOMAIN words : words[i] \in Words BY <2>1, WordTypes
        <4>2. file' = Store(write_position + RECORD_HEADER_SIZE, words) BY <3>3 DEF BgPayload
        <4> HIDE DEF words
        <4> QED BY <4>1, <4>2, StoreType DEF RECORD_HEADER_SIZE
      <3> QED BY <1>12, <3>1, <3>2, <3>3
    <2>4. stored' \in Seq(Entries)
      <3>1. stored' = stored \/ stored' = Append(stored, bEntry)
        BY <1>12 DEF BgHeader, BgHeaderSum, BgPayload
      <3>2. Append(stored, bEntry) \in Seq(Entries) BY <2>1
      <3> QED BY <3>1, <3>2
    <2>5. bpc' \in {"headerSum", "payload", "position"}
      BY <1>12 DEF BgHeader, BgHeaderSum, BgPayload, BgStoreStep, Background
    <2>6. UNCHANGED <<recordCount, sessionVars, ringVars, sharedVars, producerVars, bEntry, bSeq,
                      accepted, dropped>>
      BY <1>12 DEF BgHeader, BgHeaderSum, BgPayload, BgStoreStep, Background, ringVars, sharedVars
    <2> QED BY <2>3, <2>4, <2>5, <2>6 DEF sessionVars, ringVars, sharedVars, producerVars
  <1>13. CASE BgPosition \/ BgCount \/ BgTimestamp
    <2>1. bEntry \in Entries
      BY <1>13 DEF BgPosition, BgCount, BgTimestamp, BgStoreStep, Background, HandHolds, Holding
    <2>2. bEntry.len \in Nat /\ bEntry.ts \in Nat BY <2>1 DEF Entries
    <2>3. write_position' \in Nat
      <3>1. write_position' = write_position
            \/ write_position' = write_position + RECORD_HEADER_SIZE + bEntry.len
        BY <1>13 DEF BgPosition, BgCount, BgTimestamp
      <3> QED BY <2>2, <3>1 DEF RECORD_HEADER_SIZE
    <2>4. bSeq' \in 0 .. SeqMod - 1
      BY <1>13 DEF BgPosition, BgCount, BgTimestamp, BgStoreStep
    <2>5. /\ bpc' \in {"count", "timestamp", "pop"} /\ bEntry' \in {bEntry, NoEntry}
          /\ last_timestamp' \in Nat /\ records_written' \in Nat
      <3>1. CASE BgPosition
        BY <3>1 DEF BgPosition, BgStoreStep, Background
      <3>2. CASE BgCount
        BY <3>2 DEF BgCount, BgStoreStep, Background
      <3>3. CASE BgTimestamp
        BY <2>2, <3>3 DEF BgTimestamp, Background
      <3> QED BY <1>13, <3>1, <3>2, <3>3
    <2>6. UNCHANGED <<fileVars, sessionVars, ringVars, shutdown, degraded, producerVars, historyVars>>
      BY <1>13 DEF BgPosition, BgCount, BgTimestamp, BgStoreStep, Background, fileVars, ringVars,
                   historyVars
    <2> QED BY <2>3, <2>4, <2>5, <2>6
            DEF fileVars, sessionVars, ringVars, producerVars, historyVars
  <1> QED BY <1>1, <1>2, <1>3, <1>4, <1>5, <1>6, <1>7, <1>8, <1>9, <1>10, <1>11, <1>12, <1>13
          DEF WriterNext, BackgroundNext
-----------------------------------------------------------------------------
(* What the steps leave alone, for the steps that have nothing to do with  *)
(* a part of the invariant.                                                *)

\* The caller's steps and the end of the process do not touch the ring
\* buffer, the entry in hand and the entries.
Quiet == Kill \/ Ended \/ FlushBegin \/ FlushNext \/ CloseBegin \/ CloseHeader \/ CloseFooter

\* What a quiet step leaves alone.
LEMMA QuietFrame ==
  ASSUME Quiet \/ UNCHANGED writerVars
  PROVE  /\ UNCHANGED <<ring, nPush, nPop, seenPops, seenPushes, backgroundVars, historyVars>>
         /\ UNCHANGED <<writes, sequence, degraded, records_written, write_position, sessions>>
  BY DEF Quiet, Kill, Ended, FlushBegin, FlushNext, FlushWritten, FlushNotYet, FlushHealthy,
         FlushDegraded, FlushGivesUp, FlushWaits, FlushStep, CloseBegin, CloseHeader, CloseFooter,
         Producer, writerVars, sessionVars, ringVars, sharedVars, producerVars

\* The steps of the background thread between taking an entry and being rid of it.
Storing == BgHeader \/ BgHeaderSum \/ BgPayload \/ BgPosition \/ BgCount

\* What a store of the background thread leaves alone.
LEMMA StoringFrame ==
  ASSUME Storing
  PROVE  /\ bpc \in Holding /\ bpc' \in Holding
         /\ UNCHANGED <<ring, nPush, nPop, seenPops, seenPushes, bEntry, accepted, dropped>>
         /\ UNCHANGED <<sessionVars, producerVars, shutdown, degraded, recordCount, bSeq>>
  BY DEF Storing, BgHeader, BgHeaderSum, BgPayload, BgPosition, BgCount, BgStoreStep, Background,
         Holding

\* The steps of the background thread without an entry, the pops excepted.
Idling == BgSpin \/ BgShutdown \/ BgExit \/ BgDrainMore

\* What a step of the idle background thread leaves alone.
LEMMA IdlingFrame ==
  ASSUME Idling
  PROVE  /\ bpc \in {"none", "exit"} /\ bpc' \in {"pop", "exit", "exited"}
         /\ UNCHANGED <<ring, nPush, nPop, seenPops, bEntry, historyVars>>
         /\ UNCHANGED <<sessionVars, producerVars, sharedVars, recordCount, bSeq>>
  BY DEF Idling, BgSpin, BgShutdown, BgExit, BgDrainMore, BgIdleStep, Background, historyVars, sharedVars

\* The steps, by what they have to do with the invariant.
LEMMA StepKinds ==
  ASSUME [WriterNext]_writerVars
  PROVE  \/ AppendSession
         \/ Quiet \/ UNCHANGED writerVars
         \/ \E len \in Lens : WriteAccepted(len)
         \/ WriteRefused
         \/ BgPop \/ BgPopNone \/ BgNoSpace \/ Storing \/ BgTimestamp \/ Idling
  BY DEF WriterNext, Quiet, BackgroundNext, Storing, Idling

-----------------------------------------------------------------------------
(* The queue and the entry in hand.                                        *)

\* A later view of the other end allows no less than the view it replaces.
LEMMA LaterView ==
  ASSUME NEW pushes \in Nat, NEW seen \in Nat, NEW max \in Nat, NEW later \in Nat
  PROVE  /\ pushes - seen <= max /\ seen <= later => pushes - later <= max
         /\ pushes - later < max => pushes + 1 - later <= max
  OBVIOUS

\* Every step keeps what is accepted in the file, in hand or in the ring.
LEMMA QueueStep ==
  ASSUME WriterInv, [WriterNext]_writerVars
  PROVE  RingMirrors' /\ HandHolds' /\ AcceptedInOrder'
  <1>0. /\ WriterTypeOK /\ RingMirrors /\ HandHolds /\ AcceptedInOrder
        /\ RingMax \in Nat \ {0} /\ NoEntry \notin Entries
    BY WriterAssumption DEF WriterInv
  <1>a. RingMax \in Nat BY <1>0
  <1>1. CASE AppendSession
    BY <1>0, <1>1 DEF AppendSession, RingMirrors, HandHolds, AcceptedInOrder, Holding, WriterTypeOK
  <1>2. CASE Quiet \/ UNCHANGED writerVars
    BY <1>0, <1>2, QuietFrame DEF RingMirrors, HandHolds, AcceptedInOrder, backgroundVars, historyVars
  <1>3. CASE \E len \in Lens : WriteAccepted(len)
    <2>1. PICK len \in Lens : WriteAccepted(len) BY <1>3
    <2> DEFINE e == NewEntry(len)
    <2>2. e \in Entries /\ e.ts = writes + 1
      BY <1>0 DEF NewEntry, Entries, WriterTypeOK
    <2>3. /\ accepted' = Append(accepted, e) /\ ring' = Append(ring, e)
          /\ nPush' = nPush + 1 /\ writes' = writes + 1
          /\ UNCHANGED <<nPop, seenPushes, bpc, bEntry>>
          /\ seenPops' \in seenPops .. nPop /\ nPush - seenPops' < RingMax
      BY <2>1 DEF WriteAccepted, backgroundVars
    <2> HIDE DEF e
    <2>4. /\ accepted \in Seq(Entries) /\ ring \in Seq(Entries)
          /\ nPush \in Nat /\ nPop \in Nat /\ seenPops \in Nat /\ seenPushes \in Nat /\ writes \in Nat
          /\ nPop <= nPush
      BY <1>0 DEF WriterTypeOK, RingMirrors
    <2>5. /\ Len(accepted') = Len(accepted) + 1 /\ accepted'[Len(accepted) + 1] = e
          /\ \A i \in 1 .. Len(accepted) : accepted'[i] = accepted[i]
          /\ Len(ring') = Len(ring) + 1 /\ ring'[Len(ring) + 1] = e
          /\ \A i \in 1 .. Len(ring) : ring'[i] = ring[i]
          /\ DOMAIN accepted' = 1 .. Len(accepted) + 1 /\ DOMAIN accepted = 1 .. Len(accepted)
      BY <2>2, <2>3, <2>4
    <2>6. RingMirrors'
      <3>1. \A i \in 1 .. Len(ring) + 1 : ring'[i] = accepted'[nPop + i]
        <4> SUFFICES ASSUME NEW i \in 1 .. Len(ring) + 1 PROVE ring'[i] = accepted'[nPop + i]
          OBVIOUS
        <4>1. Len(ring) \in Nat /\ Len(accepted) = nPop + Len(ring)
          BY <1>0, <2>4 DEF RingMirrors
        <4>2. CASE i = Len(ring) + 1 BY <2>5, <4>1, <4>2, <2>4
        <4>3. CASE i # Len(ring) + 1
          <5>1. i \in 1 .. Len(ring) /\ nPop + i \in 1 .. Len(accepted) BY <4>1, <4>3, <2>4
          <5> QED BY <1>0, <2>5, <5>1 DEF RingMirrors
        <4> QED BY <4>2, <4>3
      <3>2. nPush' = Len(accepted') /\ Len(ring') = nPush' - nPop'
        BY <1>0, <2>3, <2>4, <2>5 DEF RingMirrors
      <3>3. \A i \in 1 .. Len(ring') : ring'[i] = accepted'[nPop' + i]
        BY <2>3, <2>5, <3>1
      <3>4. /\ seenPops' <= nPop' /\ nPop' <= seenPushes' /\ seenPushes' <= nPush'
            /\ nPush' - seenPops' <= RingMax
        <4>1. nPop <= seenPushes /\ seenPushes <= nPush BY <1>0 DEF RingMirrors
        <4>2. seenPops' \in Nat /\ seenPops' <= nPop BY <2>3, <2>4
        <4>3. nPush + 1 - seenPops' <= RingMax BY <1>a, <2>3, <2>4, <4>2, LaterView
        <4> QED BY <2>3, <2>4, <4>1, <4>2, <4>3
      <3> QED BY <3>2, <3>3, <3>4 DEF RingMirrors
    <2>7. HandHolds'
      <3>1. bpc \in Holding => nPop \in 1 .. Len(accepted)
        BY <1>0, <2>4 DEF HandHolds, RingMirrors
      <3> QED BY <1>0, <2>3, <2>5, <3>1 DEF HandHolds
    <2>8. AcceptedInOrder'
      <3>1. \A i \in 1 .. Len(accepted) : accepted[i] \in Entries /\ accepted[i].ts <= writes
        BY <1>0, <2>4, <2>5 DEF AcceptedInOrder
      <3>2. \A i \in 1 .. Len(accepted) : accepted[i].ts \in Nat
        BY <3>1 DEF Entries
      <3>3. \A i \in 1 .. Len(accepted) + 1 : accepted'[i].ts <= writes + 1
        BY <2>2, <2>4, <2>5, <3>1, <3>2
      <3>4. \A i, j \in 1 .. Len(accepted) + 1 : i < j => accepted'[i].ts < accepted'[j].ts
        <4> SUFFICES ASSUME NEW i \in 1 .. Len(accepted) + 1, NEW j \in 1 .. Len(accepted) + 1, i < j
                     PROVE  accepted'[i].ts < accepted'[j].ts
          OBVIOUS
        <4>1. i \in 1 .. Len(accepted) BY <2>4
        <4>2. CASE j = Len(accepted) + 1 BY <2>2, <2>4, <2>5, <3>1, <3>2, <4>1, <4>2
        <4>3. CASE j # Len(accepted) + 1
          <5>1. j \in 1 .. Len(accepted) BY <2>4, <4>3
          <5> QED BY <1>0, <2>5, <4>1, <5>1 DEF AcceptedInOrder
        <4> QED BY <4>2, <4>3
      <3> QED BY <2>3, <2>5, <3>3, <3>4 DEF AcceptedInOrder
    <2> QED BY <2>6, <2>7, <2>8
  <1>4. CASE WriteRefused
    <2>1. /\ UNCHANGED <<ring, nPush, nPop, seenPushes, bpc, bEntry, accepted>>
          /\ writes' = writes + 1 /\ seenPops' \in seenPops .. nPop
      BY <1>4 DEF WriteRefused, backgroundVars
    <2>2. RingMirrors' /\ HandHolds'
      <3>1. /\ nPush \in Nat /\ seenPops \in Nat /\ nPop \in Nat /\ nPush - seenPops <= RingMax
        BY <1>0 DEF RingMirrors, WriterTypeOK
      <3>2. seenPops' \in Nat /\ seenPops <= seenPops' /\ seenPops' <= nPop BY <2>1, <3>1
      <3>3. nPush - seenPops' <= RingMax BY <1>a, <3>1, <3>2, LaterView
      <3> QED BY <1>0, <2>1, <3>2, <3>3 DEF RingMirrors, HandHolds
    <2>3. \A i \in DOMAIN accepted : accepted[i].ts \in Nat
      <3>1. accepted \in Seq(Entries) BY <1>0 DEF WriterTypeOK
      <3>2. \A i \in DOMAIN accepted : accepted[i] \in Entries BY <3>1
      <3> QED BY <3>2 DEF Entries
    <2>4. AcceptedInOrder'
      BY <1>0, <2>1, <2>3 DEF AcceptedInOrder, WriterTypeOK
    <2> QED BY <2>2, <2>4
  <1>5. CASE BgPop
    <2>1. /\ bEntry' = Head(ring) /\ ring' = Tail(ring) /\ nPop' = nPop + 1 /\ bpc' = "space"
          /\ seenPushes' \in seenPushes .. nPush /\ seenPushes' > nPop
          /\ UNCHANGED <<nPush, seenPops, accepted, writes>>
      BY <1>5 DEF BgPop, Background, sessionVars
    <2>2. /\ ring \in Seq(Entries) /\ nPush \in Nat /\ nPop \in Nat /\ seenPops \in Nat
          /\ seenPushes \in Nat /\ Len(ring) = nPush - nPop /\ nPop < nPush
      BY <1>0, <2>1 DEF WriterTypeOK, RingMirrors
    <2>3. /\ ring # <<>> /\ bEntry' = ring[1] /\ Len(ring') = Len(ring) - 1
          /\ \A i \in 1 .. Len(ring) - 1 : ring'[i] = ring[i + 1]
      BY <2>1, <2>2
    <2>4. RingMirrors'
      <3>1. \A i \in 1 .. Len(ring) - 1 : ring[i + 1] = accepted[nPop + 1 + i]
        <4> SUFFICES ASSUME NEW i \in 1 .. Len(ring) - 1 PROVE ring[i + 1] = accepted[nPop + 1 + i]
          OBVIOUS
        <4>1. Len(ring) \in Nat /\ i + 1 \in 1 .. Len(ring) BY <2>2
        <4>2. ring[i + 1] = accepted[nPop + (i + 1)] BY <1>0, <4>1 DEF RingMirrors
        <4>3. nPop + (i + 1) = nPop + 1 + i BY <2>2
        <4> QED BY <4>2, <4>3
      <3>2. nPush' = Len(accepted') /\ Len(ring') = nPush' - nPop'
        <4>1. nPush = Len(accepted) BY <1>0 DEF RingMirrors
        <4>2. nPush - nPop - 1 = nPush - (nPop + 1) BY <2>2
        <4> QED BY <2>1, <2>2, <2>3, <4>1, <4>2
      <3>3. \A i \in 1 .. Len(ring') : ring'[i] = accepted'[nPop' + i]
        BY <2>1, <2>3, <3>1
      <3>4. /\ seenPops' <= nPop' /\ nPop' <= seenPushes' /\ seenPushes' <= nPush'
            /\ nPush' - seenPops' <= RingMax
        <4>1. seenPops <= nPop /\ nPush - seenPops <= RingMax BY <1>0 DEF RingMirrors
        <4> QED BY <1>0, <2>1, <2>2, <4>1
      <3> QED BY <3>2, <3>3, <3>4 DEF RingMirrors
    <2>5. HandHolds'
      <3>1. bEntry' = accepted[nPop + 1] BY <1>0, <2>2, <2>3 DEF RingMirrors
      <3>2. bEntry' \in Entries BY <2>2, <2>3
      <3> QED BY <1>0, <2>1, <2>2, <3>1, <3>2 DEF HandHolds, Holding
    <2> QED BY <1>0, <2>1, <2>4, <2>5 DEF AcceptedInOrder
  <1>6. CASE BgPopNone
    BY <1>0, <1>6 DEF BgPopNone, Background, RingMirrors, HandHolds, AcceptedInOrder, Holding,
                      WriterTypeOK, sessionVars
  <1>7. CASE BgNoSpace \/ BgTimestamp
    BY <1>0, <1>7 DEF BgNoSpace, BgTimestamp, Background, RingMirrors, HandHolds, AcceptedInOrder,
                      Holding, sessionVars
  <1>8. CASE Storing
    BY <1>0, <1>8, StoringFrame DEF RingMirrors, HandHolds, AcceptedInOrder, sessionVars
  <1>9. CASE Idling
    <2>1. seenPushes' \in {seenPushes, nPush}
      BY <1>9 DEF Idling, BgSpin, BgShutdown, BgExit, BgDrainMore
    <2>2. /\ UNCHANGED <<ring, nPush, nPop, seenPops, bEntry, accepted, writes>>
          /\ bpc \notin Holding /\ bpc' \notin Holding
      BY <1>9, IdlingFrame DEF Holding, sessionVars, historyVars
    <2>3. RingMirrors'
      <3>1. nPop \in Nat /\ nPush \in Nat /\ nPop <= nPush BY <1>0 DEF RingMirrors, WriterTypeOK
      <3>2. nPop <= seenPushes' /\ seenPushes' <= nPush BY <1>0, <2>1, <3>1 DEF RingMirrors
      <3> QED BY <1>0, <2>2, <3>2 DEF RingMirrors
    <2>4. HandHolds' BY <1>0, <2>2 DEF HandHolds
    <2> QED BY <1>0, <2>2, <2>3, <2>4 DEF AcceptedInOrder
  <1> QED BY StepKinds, <1>1, <1>2, <1>3, <1>4, <1>5, <1>6, <1>7, <1>8, <1>9

-----------------------------------------------------------------------------
(* What became of the entries.                                             *)

\* The numbers the next proofs reason about.
LEMMA Shape ==
  ASSUME WriterInv
  PROVE  /\ nPop \in Nat /\ Len(accepted) \in Nat /\ nPop <= Len(accepted)
         /\ Handled \in Nat /\ Handled <= nPop /\ Len(stored) \in Nat
         /\ DOMAIN accepted = 1 .. Len(accepted) /\ DOMAIN stored = 1 .. Len(stored)
         /\ \A i \in 1 .. Len(accepted) : accepted[i] \in Entries /\ accepted[i].ts \in Nat
         /\ \A i \in 1 .. Len(stored) : stored[i] \in Entries /\ stored[i].ts \in Nat
  <1>1. /\ nPop \in Nat /\ accepted \in Seq(Entries) /\ stored \in Seq(Entries)
        /\ nPush = Len(accepted) /\ nPop <= seenPushes /\ seenPushes <= nPush /\ seenPushes \in Nat
    BY DEF WriterInv, WriterTypeOK, RingMirrors
  <1>2. bpc \in Unstored => nPop >= 1 BY DEF WriterInv, HandHolds, Holding, Unstored
  <1>3. \A e \in Entries : e.ts \in Nat BY DEF Entries
  <1>4. Handled \in Nat /\ Handled <= nPop BY <1>1, <1>2 DEF Handled
  <1>5. /\ Len(accepted) \in Nat /\ Len(stored) \in Nat /\ nPop <= Len(accepted)
        /\ DOMAIN accepted = 1 .. Len(accepted) /\ DOMAIN stored = 1 .. Len(stored)
    BY <1>1
  <1>6. /\ \A i \in 1 .. Len(accepted) : accepted[i] \in Entries
        /\ \A i \in 1 .. Len(stored) : stored[i] \in Entries
    BY <1>1
  <1> QED BY <1>1, <1>3, <1>4, <1>5, <1>6

\* A step that settles no entry leaves their fate known.
LEMMA FateFrame ==
  ASSUME FateKnown, UNCHANGED <<stored, dropped, degraded>>, Handled' = Handled,
         \A i \in 1 .. Handled : accepted'[i] = accepted[i]
  PROVE  FateKnown'
  BY DEF FateKnown, StoredSet

\* Every step keeps the fate of a record known: stored or dropped.
LEMMA FateStep ==
  ASSUME WriterInv, [WriterNext]_writerVars
  PROVE  FateKnown'
  <1>0. FateKnown BY DEF WriterInv
  <1>1. CASE AppendSession
    <2>1. /\ accepted' = <<>> /\ stored' = <<>> /\ dropped' = {} /\ nPop' = 0 /\ bpc' = "pop"
      BY <1>1 DEF AppendSession
    <2>2. Handled' = 0 BY <2>1 DEF Handled, Unstored
    <2> QED BY <2>1, <2>2 DEF FateKnown, StoredSet
  <1>2. CASE Quiet \/ UNCHANGED writerVars
    BY <1>0, <1>2, QuietFrame, FateFrame DEF Handled, backgroundVars, historyVars
  <1>3. CASE \E len \in Lens : WriteAccepted(len)
    <2>1. PICK len \in Lens : WriteAccepted(len) BY <1>3
    <2>2. /\ UNCHANGED <<stored, dropped, degraded, nPop, bpc>>
          /\ accepted' = Append(accepted, NewEntry(len))
      BY <2>1 DEF WriteAccepted, sharedVars, backgroundVars
    <2>3. accepted \in Seq(Entries) BY DEF WriterInv, WriterTypeOK
    <2>4. \A i \in 1 .. Len(accepted) : accepted'[i] = accepted[i] BY <2>2, <2>3
    <2>5. Len(accepted) \in Nat /\ Handled \in Nat /\ Handled <= Len(accepted) BY Shape
    <2>6. \A i \in 1 .. Handled : accepted'[i] = accepted[i] BY <2>4, <2>5
    <2> QED BY <1>0, <2>2, <2>6, FateFrame DEF Handled
  <1>4. CASE WriteRefused
    BY <1>0, <1>4, FateFrame DEF WriteRefused, Handled, backgroundVars, sharedVars
  <1>5. CASE BgPop \/ BgPopNone
    <2>1. UNCHANGED <<stored, dropped, degraded, accepted>>
      BY <1>5 DEF BgPop, BgPopNone, Background
    <2>2. Handled' = Handled
      BY <1>5, Shape DEF BgPop, BgPopNone, Background, Handled, Unstored
    <2> QED BY <1>0, <2>1, <2>2, FateFrame
  <1>6. CASE BgNoSpace
    <2>1. /\ bpc = "space" /\ bpc' = "pop" /\ dropped' = dropped \cup {bEntry}
          /\ UNCHANGED <<accepted, stored, nPop>>
      BY <1>6 DEF BgNoSpace, Background
    <2>2. degraded' BY <1>6 DEF BgNoSpace
    <2>3. nPop \in Nat /\ nPop >= 1 /\ bEntry = accepted[nPop]
      BY <2>1, Shape DEF WriterInv, HandHolds, Holding
    <2>4. Handled = nPop - 1 /\ Handled' = nPop BY <2>1 DEF Handled, Unstored
    <2>5. \A i \in 1 .. nPop : i \in 1 .. nPop - 1 \/ i = nPop BY <2>3
    <2>6. 1 .. nPop - 1 \subseteq 1 .. nPop /\ nPop \in 1 .. nPop BY <2>3
    <2>7. \A i \in 1 .. Handled' : accepted'[i] \in StoredSet' \cup dropped'
      BY <1>0, <2>1, <2>3, <2>4, <2>5 DEF FateKnown, StoredSet
    <2>8. \A e \in StoredSet' \cup dropped' : \E i \in 1 .. Handled' : accepted'[i] = e
      BY <1>0, <2>1, <2>3, <2>4, <2>6 DEF FateKnown, StoredSet
    <2> QED BY <1>0, <2>1, <2>2, <2>7, <2>8 DEF FateKnown
  <1>7. CASE BgPayload
    <2>1. /\ bpc = "payload" /\ bpc' = "position" /\ stored' = Append(stored, bEntry)
          /\ UNCHANGED <<accepted, dropped, nPop, degraded>>
      BY <1>7 DEF BgPayload, BgStoreStep, Background
    <2>2. nPop \in Nat /\ nPop >= 1 /\ bEntry = accepted[nPop]
      BY <2>1, Shape DEF WriterInv, HandHolds, Holding
    <2>3. Handled = nPop - 1 /\ Handled' = nPop BY <2>1 DEF Handled, Unstored
    <2>4. \A i \in 1 .. nPop : i \in 1 .. nPop - 1 \/ i = nPop BY <2>2
    <2>5. 1 .. nPop - 1 \subseteq 1 .. nPop /\ nPop \in 1 .. nPop BY <2>2
    <2>6. /\ DOMAIN stored' = 1 .. Len(stored) + 1 /\ DOMAIN stored = 1 .. Len(stored)
          /\ Len(stored) \in Nat
          /\ \A i \in 1 .. Len(stored) : stored'[i] = stored[i]
          /\ stored'[Len(stored) + 1] = bEntry
      <3>1. stored \in Seq(Entries) BY DEF WriterInv, WriterTypeOK
      <3> QED BY <2>1, <3>1
    <2>7. \A i \in 1 .. Len(stored) + 1 : i \in 1 .. Len(stored) \/ i = Len(stored) + 1
      BY <2>6
    <2>8. StoredSet' = StoredSet \cup {bEntry}
      <3>1. 1 .. Len(stored) \subseteq 1 .. Len(stored) + 1 /\ Len(stored) + 1 \in 1 .. Len(stored) + 1
        BY <2>6
      <3> QED BY <2>6, <2>7, <3>1 DEF StoredSet
    <2>9. \A i \in 1 .. Handled' : accepted'[i] \in StoredSet' \cup dropped'
      BY <1>0, <2>1, <2>2, <2>3, <2>4, <2>8 DEF FateKnown
    <2>10. \A e \in StoredSet' \cup dropped' : \E i \in 1 .. Handled' : accepted'[i] = e
      BY <1>0, <2>1, <2>2, <2>3, <2>5, <2>8 DEF FateKnown
    <2>11. \A i \in 1 .. Len(stored) : stored[i].ts < bEntry.ts
      <3> SUFFICES ASSUME NEW i \in 1 .. Len(stored) PROVE stored[i].ts < bEntry.ts
        OBVIOUS
      <3>1. stored[i] \in StoredSet BY <2>6 DEF StoredSet
      <3>2. PICK k \in 1 .. nPop - 1 : accepted[k] = stored[i] BY <1>0, <2>3, <3>1 DEF FateKnown
      <3>3. k \in DOMAIN accepted /\ nPop \in DOMAIN accepted /\ k < nPop
        BY <2>2, Shape
      <3> QED BY <2>2, <3>2, <3>3 DEF WriterInv, AcceptedInOrder
    <2>12. \A i, j \in DOMAIN stored' : i < j => stored'[i].ts < stored'[j].ts
      <3> SUFFICES ASSUME NEW i \in 1 .. Len(stored) + 1, NEW j \in 1 .. Len(stored) + 1, i < j
                   PROVE  stored'[i].ts < stored'[j].ts
        BY <2>6
      <3>1. i \in 1 .. Len(stored) BY <2>6
      <3>2. CASE j = Len(stored) + 1 BY <2>6, <2>11, <3>1, <3>2
      <3>3. CASE j \in 1 .. Len(stored) BY <1>0, <2>6, <3>1, <3>3 DEF FateKnown
      <3> QED BY <2>7, <3>2, <3>3
    <2>13. dropped' # {} => degraded' BY <1>0, <2>1 DEF FateKnown
    <2> QED BY <2>9, <2>10, <2>12, <2>13 DEF FateKnown
  <1>8. CASE Storing /\ ~BgPayload
    <2>1. UNCHANGED <<accepted, dropped, degraded, nPop>> BY <1>8, StoringFrame
    <2>2. stored' = stored
      BY <1>8 DEF Storing, BgHeader, BgHeaderSum, BgPosition, BgCount
    <2>3. bpc \in Unstored <=> bpc' \in Unstored
      BY <1>8 DEF Storing, BgHeader, BgHeaderSum, BgPosition, BgCount, BgStoreStep, Background, Unstored
    <2> QED BY <1>0, <2>1, <2>2, <2>3, FateFrame DEF Handled
  <1>9. CASE BgTimestamp
    <2>1. UNCHANGED <<accepted, dropped, stored, degraded, nPop>> BY <1>9 DEF BgTimestamp, Background
    <2>2. bpc \notin Unstored /\ bpc' \notin Unstored BY <1>9 DEF BgTimestamp, Background, Unstored
    <2> QED BY <1>0, <2>1, <2>2, FateFrame DEF Handled
  <1>10. CASE Idling
    <2>1. UNCHANGED <<accepted, dropped, stored, degraded, nPop>>
      BY <1>10, IdlingFrame DEF historyVars, sharedVars
    <2>2. bpc \notin Unstored /\ bpc' \notin Unstored BY <1>10, IdlingFrame DEF Unstored
    <2> QED BY <1>0, <2>1, <2>2, FateFrame DEF Handled
  <1> QED BY StepKinds, <1>1, <1>2, <1>3, <1>4, <1>5, <1>6, <1>7, <1>8, <1>9, <1>10

-----------------------------------------------------------------------------
(* The counts and the room in the file.                                    *)

\* A healthy writer has not accepted more records than its sequence numbers
\* can count: they are in the file, in hand or in the ring buffer.
LEMMA Countable ==
  ASSUME NEW pushes \in Nat, NEW pops \in Nat, NEW records \in Nat, NEW position \in Nat,
         NEW words \in Nat, NEW ringMax \in Nat,
         pushes <= ringMax + pops, pops <= records + 1,
         3 * records <= position + 3, position + 4 <= words
  PROVE  pushes <= words + ringMax
  OBVIOUS

\* Sequence numbers below the modulus do not wrap.
LEMMA SmallMod ==
  ASSUME NEW n \in Nat, NEW m \in Nat, n < m
  PROVE  n % m = n
  OBVIOUS

\* Every step keeps the counts in step with the stored records.
LEMMA CountsStep ==
  ASSUME WriterInv, [WriterNext]_writerVars
  PROVE  CountsFollow'
  <1>0. CountsFollow /\ records_written \in Nat BY DEF WriterInv, WriterTypeOK
  <1>1. CASE AppendSession
    <2>1. /\ accepted' = <<>> /\ stored' = <<>> /\ nPop' = 0 /\ bpc' = "pop"
          /\ records_written' = 0 /\ sequence' = 0
      BY <1>1 DEF AppendSession
    <2>2. Handled' = 0 BY <2>1 DEF Handled, Unstored
    <2> QED BY <2>1, <2>2 DEF CountsFollow, Uncounted
  <1>2. CASE Quiet \/ UNCHANGED writerVars
    BY <1>0, <1>2, QuietFrame DEF CountsFollow, Handled, backgroundVars, historyVars
  <1>3. CASE \E len \in Lens : WriteAccepted(len)
    <2>1. PICK len \in Lens : WriteAccepted(len) BY <1>3
    <2>2. /\ UNCHANGED <<stored, degraded, nPop, bpc, records_written>>
          /\ accepted' = Append(accepted, NewEntry(len)) /\ sequence' = (sequence + 1) % SeqMod
      BY <2>1 DEF WriteAccepted, sharedVars, backgroundVars
    <2>3. Handled' = Handled BY <2>2 DEF Handled
    <2>4. ASSUME ~degraded PROVE sequence' = Len(accepted')
      <3>1. sequence = Len(accepted) /\ Len(stored) = Handled BY <1>0, <2>4 DEF CountsFollow
      <3>2. accepted \in Seq(Entries) BY DEF WriterInv, WriterTypeOK
      <3>3. Len(accepted') = Len(accepted) + 1 /\ Len(accepted) \in Nat BY <2>2, <3>2
      <3>4. PICK k \in seenPops .. nPop : nPush - k < RingMax BY <2>1 DEF WriteAccepted
      <3>5. /\ nPush = Len(accepted) /\ seenPops \in Nat /\ nPop \in Nat /\ write_position \in Nat
            /\ RingMax \in Nat /\ FileWords \in Nat
        BY WriterAssumption, FileAssumption DEF WriterInv, RingMirrors, WriterTypeOK
      <3>6. Len(accepted) + 1 <= RingMax + nPop BY <3>3, <3>4, <3>5
      <3>7. nPop <= Len(stored) + 1 /\ Len(stored) \in Nat BY <3>1, Shape DEF Handled
      <3>8. 3 * Len(stored) <= write_position + 3 /\ write_position + 4 <= FileWords
        BY <3>5, <3>7 DEF WriterInv, RoomLeft, RECORD_HEADER_SIZE, FILE_FOOTER_SIZE
      <3>9. Len(accepted) + 1 <= FileWords + RingMax
        BY <3>3, <3>5, <3>6, <3>7, <3>8, Countable
      <3>10. SeqMod \in Nat /\ Len(accepted) + 1 < SeqMod BY <3>3, <3>5, <3>9, WriterAssumption
      <3> QED BY <2>2, <3>1, <3>3, <3>10, SmallMod
    <2> QED BY <1>0, <2>2, <2>3, <2>4 DEF CountsFollow
  <1>4. CASE WriteRefused
    BY <1>0, <1>4 DEF CountsFollow, WriteRefused, Handled, backgroundVars, sharedVars, producerVars
  <1>5. CASE BgPop \/ BgPopNone
    <2>1. UNCHANGED <<stored, degraded, accepted, records_written, sequence>>
      BY <1>5 DEF BgPop, BgPopNone, Background, producerVars
    <2>2. Handled' = Handled
      BY <1>5, Shape DEF BgPop, BgPopNone, Background, Handled, Unstored
    <2>3. bpc \notin Uncounted /\ bpc' \notin Uncounted
      BY <1>5 DEF BgPop, BgPopNone, Background, Uncounted
    <2> QED BY <1>0, <2>1, <2>2, <2>3 DEF CountsFollow
  <1>6. CASE BgNoSpace
    <2>1. /\ bpc \notin Uncounted /\ bpc' \notin Uncounted
          /\ UNCHANGED <<stored, records_written>>
      BY <1>6 DEF BgNoSpace, Background, Uncounted
    <2>2. degraded' BY <1>6 DEF BgNoSpace
    <2> QED BY <1>0, <2>1, <2>2 DEF CountsFollow
  <1>7. CASE BgPayload
    <2>1. /\ bpc = "payload" /\ bpc' = "position" /\ stored' = Append(stored, bEntry)
          /\ UNCHANGED <<accepted, nPop, degraded, records_written, sequence>>
      BY <1>7 DEF BgPayload, BgStoreStep, Background, producerVars
    <2>2. Handled = nPop - 1 /\ Handled' = nPop BY <2>1 DEF Handled, Unstored
    <2>3. stored \in Seq(Entries) BY DEF WriterInv, WriterTypeOK
    <2>4. Len(stored') = Len(stored) + 1 BY <2>1, <2>3
    <2>5. bpc \notin Uncounted /\ bpc' \in Uncounted BY <2>1 DEF Uncounted
    <2>6. ~degraded => Len(stored) + 1 = nPop BY <1>0, <2>2, Shape DEF CountsFollow
    <2>7. records_written = Len(stored) + 1 - 1 BY <1>0, <2>5, Shape DEF CountsFollow
    <2> QED BY <1>0, <2>1, <2>2, <2>4, <2>5, <2>6, <2>7 DEF CountsFollow
  <1>8. CASE BgHeader \/ BgHeaderSum \/ BgPosition
    <2>1. UNCHANGED <<accepted, stored, degraded, nPop, records_written, sequence>>
      BY <1>8 DEF BgHeader, BgHeaderSum, BgPosition, BgStoreStep, Background, producerVars
    <2>2. (bpc \in Unstored <=> bpc' \in Unstored) /\ (bpc \in Uncounted <=> bpc' \in Uncounted)
      BY <1>8 DEF BgHeader, BgHeaderSum, BgPosition, BgStoreStep, Background, Unstored, Uncounted
    <2> QED BY <1>0, <2>1, <2>2 DEF CountsFollow, Handled
  <1>9. CASE BgCount
    <2>1. /\ UNCHANGED <<accepted, stored, degraded, nPop, sequence>>
          /\ records_written' = records_written + 1
      BY <1>9 DEF BgCount, BgStoreStep, Background, producerVars
    <2>2. /\ bpc \notin Unstored /\ bpc' \notin Unstored
          /\ bpc \in Uncounted /\ bpc' \notin Uncounted
      BY <1>9 DEF BgCount, BgStoreStep, Background, Unstored, Uncounted
    <2>3. records_written + 1 = Len(stored) BY <1>0, <2>2, Shape DEF CountsFollow
    <2> QED BY <1>0, <2>1, <2>2, <2>3, Shape DEF CountsFollow, Handled
  <1>10. CASE BgTimestamp
    <2>1. UNCHANGED <<accepted, stored, degraded, nPop, records_written, sequence>>
      BY <1>10 DEF BgTimestamp, Background, producerVars
    <2>2. /\ bpc \notin Unstored /\ bpc' \notin Unstored
          /\ bpc \notin Uncounted /\ bpc' \notin Uncounted
      BY <1>10 DEF BgTimestamp, Background, Unstored, Uncounted
    <2> QED BY <1>0, <2>1, <2>2 DEF CountsFollow, Handled
  <1>11. CASE Idling
    <2>1. UNCHANGED <<accepted, stored, degraded, nPop, records_written, sequence>>
      BY <1>11, IdlingFrame DEF historyVars, sharedVars, producerVars
    <2>2. /\ bpc \notin Unstored /\ bpc' \notin Unstored
          /\ bpc \notin Uncounted /\ bpc' \notin Uncounted
      BY <1>11, IdlingFrame DEF Unstored, Uncounted
    <2> QED BY <1>0, <2>1, <2>2 DEF CountsFollow, Handled
  <1> QED BY StepKinds, <1>1, <1>2, <1>3, <1>4, <1>5, <1>6, <1>7, <1>8, <1>9, <1>10, <1>11
          DEF Storing

\* Every step leaves room for the footer.
LEMMA RoomStep ==
  ASSUME WriterInv, [WriterNext]_writerVars
  PROVE  RoomLeft'
  <1>0. RoomLeft /\ write_position \in Nat BY DEF WriterInv, WriterTypeOK
  <1>1. CASE AppendSession
    <2>1. /\ write_position' = 0 /\ stored' = <<>> /\ bpc' = "pop"
      BY <1>1 DEF AppendSession
    <2>2. 0 + FILE_FOOTER_SIZE <= FileWords BY FileAssumption DEF FILE_FOOTER_SIZE
    <2>3. RECORD_HEADER_SIZE * Len(stored') <= 0 BY <2>1 DEF RECORD_HEADER_SIZE
    <2> QED BY <2>1, <2>2, <2>3 DEF RoomLeft
  <1>2. CASE Quiet \/ UNCHANGED writerVars
    BY <1>0, <1>2, QuietFrame DEF RoomLeft, Fits, backgroundVars, historyVars
  <1>3. CASE (\E len \in Lens : WriteAccepted(len)) \/ WriteRefused
    <2>1. UNCHANGED <<stored, bpc, bEntry, write_position>>
      BY <1>3 DEF WriteAccepted, WriteRefused, backgroundVars, sharedVars
    <2> QED BY <1>0, <2>1 DEF RoomLeft, Fits
  <1>4. CASE BgPop \/ BgPopNone \/ BgNoSpace \/ BgTimestamp \/ Idling
    <2>1. UNCHANGED <<stored, write_position>>
      BY <1>4, IdlingFrame DEF BgPop, BgPopNone, BgNoSpace, BgTimestamp, historyVars, sharedVars
    <2>2. /\ bpc # "position"
          /\ bpc' \notin {"headerSum", "payload", "position"}
      BY <1>4, IdlingFrame DEF BgPop, BgPopNone, BgNoSpace, BgTimestamp, Background
    <2> QED BY <1>0, <2>1, <2>2 DEF RoomLeft
  <1>5. CASE BgHeader \/ BgHeaderSum
    <2>1. UNCHANGED <<stored, bEntry, write_position>> /\ bpc # "position" /\ bpc' # "position"
      BY <1>5 DEF BgHeader, BgHeaderSum, BgStoreStep, Background
    <2>2. Fits(bEntry)
      BY <1>0, <1>5 DEF BgHeader, BgHeaderSum, BgStoreStep, Background, RoomLeft
    <2> QED BY <1>0, <2>1, <2>2 DEF RoomLeft, Fits
  <1>6. CASE BgPayload
    <2>1. /\ UNCHANGED <<bEntry, write_position>> /\ bpc = "payload" /\ bpc' = "position"
          /\ stored' = Append(stored, bEntry)
      BY <1>6 DEF BgPayload, BgStoreStep, Background
    <2>2. stored \in Seq(Entries) BY DEF WriterInv, WriterTypeOK
    <2>3. Len(stored') = Len(stored) + 1 /\ Len(stored) \in Nat BY <2>1, <2>2
    <2>4. 3 * Len(stored) <= write_position BY <1>0, <2>1, <2>3 DEF RoomLeft, RECORD_HEADER_SIZE
    <2>5. RECORD_HEADER_SIZE * Len(stored') <= write_position + RECORD_HEADER_SIZE
      BY <1>0, <2>3, <2>4 DEF RECORD_HEADER_SIZE
    <2> QED BY <1>0, <2>1, <2>5 DEF RoomLeft, Fits
  <1>7. CASE BgPosition
    <2>1. /\ write_position' = write_position + RECORD_HEADER_SIZE + bEntry.len
          /\ bpc = "position" /\ bpc' = "count" /\ stored' = stored
      BY <1>7 DEF BgPosition, BgStoreStep, Background
    <2>2. bEntry \in Entries
      BY <2>1 DEF WriterInv, HandHolds, Holding, WriterTypeOK
    <2>3. bEntry.len \in Nat BY <2>2, FileAssumption DEF Entries
    <2>4. write_position + 3 + bEntry.len + 4 <= FileWords
      BY <1>0, <2>1 DEF RoomLeft, Fits, RECORD_HEADER_SIZE, FILE_FOOTER_SIZE
    <2>5. 3 * Len(stored) <= write_position + 3 BY <1>0, <2>1 DEF RoomLeft, RECORD_HEADER_SIZE
    <2>6. write_position' + FILE_FOOTER_SIZE <= FileWords
      BY <1>0, <2>1, <2>3, <2>4, FileAssumption DEF RECORD_HEADER_SIZE, FILE_FOOTER_SIZE
    <2>7. RECORD_HEADER_SIZE * Len(stored) <= write_position'
      BY <1>0, <2>1, <2>3, <2>5, Shape DEF RECORD_HEADER_SIZE
    <2> QED BY <2>1, <2>6, <2>7 DEF RoomLeft, RECORD_HEADER_SIZE
  <1>8. CASE BgCount
    <2>1. UNCHANGED <<stored, write_position>> /\ bpc = "count" /\ bpc' = "timestamp"
      BY <1>8 DEF BgCount, BgStoreStep, Background
    <2> QED BY <1>0, <2>1 DEF RoomLeft
  <1> QED BY StepKinds, <1>1, <1>2, <1>3, <1>4, <1>5, <1>6, <1>7, <1>8 DEF Storing

-----------------------------------------------------------------------------
(* The end of a session, and flush.                                        *)

\* Every step keeps the end of the background thread in order: it leaves only
\* an empty ring behind.
LEMMA LeavingStep ==
  ASSUME WriterInv, [WriterNext]_writerVars
  PROVE  Leaving'
  <1>0. Leaving BY DEF WriterInv
  <1>1. CASE AppendSession
    <2>1. ~shutdown' BY <1>1 DEF AppendSession
    <2> QED BY <1>1, <2>1 DEF AppendSession, Leaving
  <1>2. CASE Kill
    BY <1>0, <1>2 DEF Kill, Leaving, fileVars, ringVars, sharedVars, producerVars, backgroundVars
  <1>3. CASE Ended \/ UNCHANGED writerVars
    BY <1>0, <1>3 DEF Ended, Leaving, writerVars, fileVars, sessionVars, ringVars, sharedVars,
                      producerVars, backgroundVars
  <1>4. CASE (\E len \in Lens : WriteAccepted(len)) \/ WriteRefused
    <2>1. /\ session = "open" /\ ppc = "idle" /\ UNCHANGED <<session, ppc, shutdown, bpc>>
      BY <1>4 DEF WriteAccepted, WriteRefused, Ready, sharedVars, producerVars, backgroundVars
    <2>2. ~shutdown BY <1>0, <2>1 DEF Leaving
    <2> QED BY <1>0, <2>1, <2>2 DEF Leaving
  <1>5. CASE FlushBegin \/ FlushNext
    <2>1. /\ session = "open" /\ UNCHANGED <<session, shutdown, bpc, nPop>>
          /\ ppc \notin {"join", "footer"} /\ ppc' # "footer"
      BY <1>5 DEF FlushBegin, FlushNext, FlushWritten, FlushNotYet, FlushHealthy, FlushDegraded,
                  FlushGivesUp, FlushWaits, FlushStep, Producer, sessionVars, sharedVars,
                  backgroundVars, ringVars
    <2>2. ~shutdown BY <1>0, <2>1 DEF Leaving
    <2> QED BY <1>0, <2>1, <2>2 DEF Leaving
  <1>6. CASE CloseBegin
    <2>1. /\ session = "open" /\ ppc = "idle" /\ ppc' = "join"
          /\ UNCHANGED <<session, bpc, ringVars>>
      BY <1>6 DEF CloseBegin, Producer, sessionVars, backgroundVars
    <2>2. shutdown' BY <1>6 DEF CloseBegin
    <2> QED BY <1>0, <2>1, <2>2 DEF Leaving, ringVars
  <1>7. CASE CloseHeader
    <2>1. /\ session = "open" /\ ppc = "join" /\ ppc' = "footer" /\ bpc = "exited"
          /\ UNCHANGED <<session, bpc, ringVars, sharedVars>> /\ recordCount' = records_written
      BY <1>7 DEF CloseHeader, Producer, sessionVars, backgroundVars
    <2> QED BY <1>0, <2>1 DEF Leaving, ringVars, sharedVars
  <1>8. CASE CloseFooter
    <2>1. /\ ppc = "footer" /\ ppc' = "idle" /\ session' = "closed"
          /\ UNCHANGED <<bpc, ringVars, sharedVars, recordCount>>
      BY <1>8 DEF CloseFooter, backgroundVars
    <2>2. shutdown BY <1>0, <2>1 DEF Leaving
    <2> QED BY <1>0, <2>1, <2>2 DEF Leaving, ringVars, sharedVars
  <1>9. CASE BgPop \/ BgPopNone \/ BgNoSpace \/ Storing \/ BgTimestamp
    <2>1. /\ session = "open" /\ UNCHANGED <<session, shutdown, ppc>>
          /\ bpc \notin {"exit", "exited"} /\ bpc' \notin {"exit", "exited"}
      BY <1>9 DEF BgPop, BgPopNone, BgNoSpace, Storing, BgHeader, BgHeaderSum, BgPayload,
                  BgPosition, BgCount, BgTimestamp, BgStoreStep, Background, sessionVars, producerVars
    <2> QED BY <1>0, <2>1 DEF Leaving
  <1>10. CASE Idling
    <2>1. /\ session = "open" /\ UNCHANGED <<session, shutdown, ppc, nPush, nPop>>
          /\ bpc # "exited"
      BY <1>10, IdlingFrame DEF Idling, BgSpin, BgShutdown, BgExit, BgDrainMore, BgIdleStep,
                                Background, sessionVars, producerVars, sharedVars
    <2>2. ppc # "footer" BY <1>0, <2>1 DEF Leaving
    <2>3. bpc' \in {"exit", "exited"} => shutdown /\ seenPushes' = nPush
      BY <1>0, <1>10 DEF Leaving, Idling, BgSpin, BgShutdown, BgExit, BgDrainMore, BgIdleStep, Background
    <2>4. bpc' = "exited" => nPop = seenPushes'
      BY <1>10 DEF Idling, BgSpin, BgShutdown, BgExit, BgDrainMore, BgIdleStep, Background
    <2> QED BY <1>0, <2>1, <2>2, <2>3, <2>4 DEF Leaving
  <1> QED BY StepKinds, <1>1, <1>2, <1>3, <1>4, <1>5, <1>6, <1>7, <1>8, <1>9, <1>10 DEF Quiet

\* Every step keeps what a flush that waits has seen true.
LEMMA FlushingStep ==
  ASSUME WriterInv, [WriterNext]_writerVars
  PROVE  Flushing'
  <1>0. Flushing BY DEF WriterInv
  <1>1. CASE AppendSession
    BY <1>1 DEF AppendSession, Flushing
  <1>2. CASE Kill \/ Ended \/ UNCHANGED writerVars
    BY <1>0, <1>2 DEF Kill, Ended, Flushing, writerVars, sharedVars, producerVars
  <1>3. CASE (\E len \in Lens : WriteAccepted(len)) \/ WriteRefused
    <2>1. ppc' = "idle" BY <1>3 DEF WriteAccepted, WriteRefused, Ready, producerVars
    <2> QED BY <2>1 DEF Flushing
  <1>4. CASE FlushBegin
    <2>1. ppc' = "flush" /\ target' = sequence' BY <1>4 DEF FlushBegin, Producer
    <2> QED BY <2>1 DEF Flushing
  <1>5. CASE FlushNext
    <2>1. /\ UNCHANGED <<target, sequence, degraded>>
          /\ ppc \in {"flush", "flushDegraded", "flushEmpty"}
      BY <1>5 DEF FlushNext, FlushWritten, FlushNotYet, FlushHealthy, FlushDegraded,
                  FlushGivesUp, FlushWaits, FlushStep, Producer, sharedVars
    <2>2. ppc' = "flushEmpty" => degraded
      BY <1>5 DEF FlushNext, FlushWritten, FlushNotYet, FlushHealthy, FlushDegraded,
                  FlushGivesUp, FlushWaits, FlushStep, Producer
    <2> QED BY <1>0, <2>1, <2>2 DEF Flushing
  <1>6. CASE CloseBegin \/ CloseHeader \/ CloseFooter
    <2>1. ppc' \in {"join", "footer", "idle"} BY <1>6 DEF CloseBegin, CloseHeader, CloseFooter, Producer
    <2> QED BY <2>1 DEF Flushing
  <1>7. CASE BgPop \/ BgPopNone \/ Storing \/ BgTimestamp \/ Idling
    <2>1. UNCHANGED <<ppc, sequence, target, degraded>>
      BY <1>7, StoringFrame, IdlingFrame DEF BgPop, BgPopNone, BgTimestamp, Background,
                                             producerVars, sharedVars
    <2> QED BY <1>0, <2>1 DEF Flushing
  <1>8. CASE BgNoSpace
    <2>1. UNCHANGED <<ppc, sequence, target>> BY <1>8 DEF BgNoSpace, Background, producerVars
    <2>2. degraded' BY <1>8 DEF BgNoSpace
    <2> QED BY <1>0, <2>1, <2>2 DEF Flushing
  <1> QED BY StepKinds, <1>1, <1>2, <1>3, <1>4, <1>5, <1>6, <1>7, <1>8 DEF Quiet

-----------------------------------------------------------------------------
(* The theorems.                                                           *)

\* The invariant holds in a new writer.
LEMMA InvInit == WriterInit => WriterInv
  <1> SUFFICES ASSUME WriterInit PROVE WriterInv OBVIOUS
  <1>1. /\ ring = <<>> /\ nPush = 0 /\ nPop = 0 /\ seenPops = 0 /\ seenPushes = 0
        /\ records_written = 0 /\ write_position = 0 /\ sequence = 0 /\ session = "open"
        /\ bpc = "pop" /\ bEntry = NoEntry /\ ppc = "idle"
        /\ accepted = <<>> /\ stored = <<>> /\ dropped = {} /\ writes = 0
    BY DEF WriterInit
  <1>2. ~shutdown BY DEF WriterInit
  <1>3. Handled = 0 BY <1>1 DEF Handled, Unstored
  <1>4. RingMirrors /\ HandHolds /\ AcceptedInOrder
    BY <1>1, WriterAssumption DEF RingMirrors, HandHolds, AcceptedInOrder, Holding
  <1>5. FateKnown BY <1>1, <1>3 DEF FateKnown, StoredSet
  <1>6. CountsFollow BY <1>1, <1>3 DEF CountsFollow, Uncounted
  <1>7. RoomLeft BY <1>1, FileAssumption DEF RoomLeft, RECORD_HEADER_SIZE, FILE_FOOTER_SIZE
  <1>8. Leaving /\ Flushing BY <1>1, <1>2 DEF Leaving, Flushing
  <1> QED BY TypeInit, <1>4, <1>5, <1>6, <1>7, <1>8 DEF WriterInv

\* Every step keeps it.
LEMMA InvStep == WriterInv /\ [WriterNext]_writerVars => WriterInv'
  <1> SUFFICES ASSUME WriterInv, [WriterNext]_writerVars PROVE WriterInv' OBVIOUS
  <1>1. WriterTypeOK' BY TypeStep DEF WriterInv
  <1> QED BY <1>1, QueueStep, FateStep, CountsStep, RoomStep, LeavingStep, FlushingStep
          DEF WriterInv

\* The inductive invariant of the writer, through kills and later sessions.
THEOREM WriterAlwaysInv == WriterSpec => []WriterInv
  BY InvInit, InvStep, PTL DEF WriterSpec

\* The journal is kept: a clean close has stored or reported dropped every
\* record that a push accepted, in order and once, its header counts them, and
\* the footer always fits.
THEOREM JournalAlwaysKept == WriterSpec => []JournalKept
  <1>1. WriterInv => JournalKept
    <2> SUFFICES ASSUME WriterInv PROVE JournalKept OBVIOUS
    <2>1. FateKnown /\ CountsFollow /\ RoomLeft /\ Leaving /\ WriterTypeOK /\ RingMirrors
      BY DEF WriterInv
    <2>2. StoredInOrder
      <3>1. \A i \in 1 .. Handled : i \in DOMAIN accepted BY Shape
      <3> QED BY <2>1, <3>1 DEF FateKnown, StoredInOrder, AcceptedSet
    <2>3. ASSUME session = "closed" PROVE AcceptedSet = StoredSet \cup dropped /\ recordCount = Len(stored)
      <3>1. bpc = "exited" /\ nPop = nPush /\ recordCount = records_written
        BY <2>1, <2>3 DEF Leaving
      <3>2. Handled = Len(accepted) BY <2>1, <3>1 DEF Handled, Unstored, RingMirrors
      <3>3. DOMAIN accepted = 1 .. Handled BY <3>2, Shape
      <3>4. AcceptedSet = StoredSet \cup dropped BY <2>1, <3>3 DEF FateKnown, AcceptedSet
      <3>5. records_written = Len(stored) BY <2>1, <3>1, Shape DEF CountsFollow, Uncounted
      <3> QED BY <3>1, <3>4, <3>5
    <2>4. dropped # {} => degraded BY <2>1 DEF FateKnown
    <2>5. NothingLost BY <2>3, <2>4 DEF NothingLost
    <2>6. FooterFits BY <2>1 DEF RoomLeft, FooterFits
    <2> QED BY <2>1, <2>2, <2>5, <2>6 DEF JournalKept
  <1> QED BY WriterAlwaysInv, <1>1, PTL

\* A flush of a healthy writer returns only when every accepted record is in
\* the file.
THEOREM FlushIsDurable == WriterSpec => FlushDurable
  <1>1. WriterInv /\ [WriterNext]_writerVars
          => [FlushReturns /\ ~degraded => AcceptedSet = StoredSet]_writerVars
    <2> SUFFICES ASSUME WriterInv, WriterNext, FlushReturns, ~degraded
                 PROVE  AcceptedSet = StoredSet
      OBVIOUS
    <2>1. session = "open" /\ ppc = "flush" /\ ppc' = "idle"
      BY DEF FlushReturns, WriterInv, Flushing
    <2>2. FlushWritten
      <3>1. ~Kill /\ ~Ended /\ ~AppendSession /\ ~(\E len \in Lens : WriteAccepted(len)) /\ ~WriteRefused
        BY <2>1 DEF Kill, Ended, AppendSession, WriteAccepted, WriteRefused, Ready, producerVars
      <3>2. ~FlushBegin /\ ~CloseBegin /\ ~CloseHeader /\ ~CloseFooter
        BY <2>1 DEF FlushBegin, CloseBegin, CloseHeader, CloseFooter, Producer
      <3>3. ~BackgroundNext
        <4>1. BackgroundNext => ppc' = ppc
          BY DEF BackgroundNext, BgPop, BgPopNone, BgNoSpace, BgHeader, BgHeaderSum, BgPayload,
                 BgPosition, BgCount, BgTimestamp, BgSpin, BgShutdown, BgExit, BgDrainMore,
                 BgStoreStep, BgIdleStep, Background, producerVars
        <4> QED BY <2>1, <4>1
      <3>4. FlushNext BY <3>1, <3>2, <3>3 DEF WriterNext
      <3> QED BY <2>1, <3>4 DEF FlushNext, FlushNotYet, FlushHealthy, FlushDegraded, FlushGivesUp,
                                FlushWaits, FlushStep, Producer
    <2>3. records_written >= Len(accepted)
      BY <2>1, <2>2 DEF FlushWritten, WriterInv, Flushing, CountsFollow
    <2>4. /\ Len(stored) = Handled /\ records_written <= Len(stored) /\ records_written \in Nat
      BY Shape DEF WriterInv, CountsFollow, WriterTypeOK
    <2>5. Handled = Len(accepted) BY <2>3, <2>4, Shape
    <2>6. DOMAIN accepted = 1 .. Handled BY <2>5, Shape
    <2>7. dropped = {} BY DEF WriterInv, FateKnown
    <2> QED BY <2>6, <2>7 DEF WriterInv, FateKnown, AcceptedSet
  <1> QED BY WriterAlwaysInv, <1>1, PTL DEF WriterSpec, FlushDurable


-----------------------------------------------------------------------------
(* The file that one session leaves, whenever it ends.                     *)

\* Where the words of the last stored record end.
RecordsEnd == write_position + (IF bpc = "position" THEN 3 + bEntry.len ELSE 0)

\* The words at p are those of the record of entry.
RecordIn(p, entry) ==
  /\ file[p] = TimestampWord(entry) /\ file[p + 1] = SizeWord(entry)
  /\ file[p + 2].kind \in {"zero", "sum"} /\ file[p + 2].b = Crc(entry)
  /\ \A i \in 0 .. entry.len - 1 : file[p + 3 + i] = PayloadWord(entry, i)

\* The stored records lie one behind the other, the n-th one at at[n].
Layout(at) ==
  /\ at \in Seq(Nat) /\ Len(at) = Len(stored) + 1
  /\ at[1] = 0 /\ at[Len(stored) + 1] = RecordsEnd
  /\ \A n \in 1 .. Len(stored) :
       /\ at[n + 1] = at[n] + 3 + stored[n].len /\ at[n + 1] <= RecordsEnd
       /\ RecordIn(at[n], stored[n])

Blanks(from) == \A i \in Offsets : i >= from => file[i] = Zero

Partial == bpc \in {"headerSum", "payload"}

\* What is behind them: the footer of a closed journal, the header of the
\* record that is being written, or nothing.
TailKnown ==
  /\ session = "closed" => /\ file[RecordsEnd] = FooterMagic
                           /\ file[RecordsEnd + 1].a = records_written
  /\ session # "closed" /\ ~Partial => Blanks(RecordsEnd)
  /\ Partial => /\ file[RecordsEnd] = TimestampWord(bEntry)
                /\ file[RecordsEnd + 1] = SizeWord(bEntry)
                /\ Blanks(RecordsEnd + 3)
  /\ bpc = "headerSum" => file[RecordsEnd + 2] = Zero
  /\ bpc = "payload" => file[RecordsEnd + 2] = SumWord(bSeq, Crc(bEntry))

\* What a copy into the mapped file leaves there.
LEMMA StoreFacts ==
  ASSUME NEW from \in Int, NEW words, NEW i \in Offsets
  PROVE  /\ i - from \in DOMAIN words => Store(from, words)[i] = words[i - from]
         /\ i - from \notin DOMAIN words => Store(from, words)[i] = file[i]
  BY DEF Store

\* The room behind the records.
LEMMA EndFacts ==
  ASSUME WriterInv
  PROVE  /\ RecordsEnd \in Nat /\ RecordsEnd + 4 <= FileWords /\ FileWords \in Nat
         /\ write_position \in Nat
         /\ bpc \in Holding => bEntry \in Entries /\ bEntry.len \in Nat /\ bEntry.ts \in Nat \ {0}
         /\ Partial => RecordsEnd + 3 + bEntry.len + 4 <= FileWords
         /\ bpc # "position" => RecordsEnd = write_position
  <1>1. write_position \in Nat /\ FileWords \in Nat
    BY FileAssumption DEF WriterInv, WriterTypeOK
  <1>2. ASSUME bpc \in Holding
        PROVE  bEntry \in Entries /\ bEntry.len \in Nat /\ bEntry.ts \in Nat \ {0}
    <2>1. bEntry \in Entries BY <1>2 DEF WriterInv, HandHolds, WriterTypeOK
    <2> QED BY <2>1, FileAssumption DEF Entries
  <1>3. bpc = "position" \/ Partial => bpc \in Holding BY DEF Partial, Holding
  <1>4. /\ write_position + 4 <= FileWords
        /\ bpc = "position" \/ Partial => write_position + 3 + bEntry.len + 4 <= FileWords
    BY DEF WriterInv, RoomLeft, Fits, Partial, FILE_FOOTER_SIZE, RECORD_HEADER_SIZE
  <1>5. Partial => bpc # "position" BY DEF Partial
  <1>6. CASE bpc = "position" BY <1>1, <1>2, <1>3, <1>4, <1>5, <1>6 DEF RecordsEnd
  <1>7. CASE bpc # "position"
    <2>1. RecordsEnd = write_position BY <1>1, <1>7 DEF RecordsEnd
    <2> QED BY <1>1, <1>2, <1>3, <1>4, <1>7, <2>1
  <1> QED BY <1>6, <1>7

\* The sizes of the stored records, and where they are.
LEMMA LayoutFacts ==
  ASSUME WriterInv, NEW at, Layout(at), NEW n \in 1 .. Len(stored)
  PROVE  /\ at[n] \in Nat /\ stored[n] \in Entries /\ n \in Nat
         /\ stored[n].len \in Nat /\ stored[n].ts \in Nat \ {0}
         /\ at[n] + 3 + stored[n].len <= RecordsEnd
         /\ at[n + 1] = at[n] + 3 + stored[n].len
  <1>1. Len(stored) \in Nat /\ stored[n] \in Entries BY Shape
  <1>2. at \in Seq(Nat) /\ Len(at) = Len(stored) + 1 BY DEF Layout
  <1>3. n \in 1 .. Len(at) BY <1>1, <1>2
  <1>4. at[n] \in Nat BY <1>2, <1>3
  <1>5. stored[n].len \in Nat /\ stored[n].ts \in Nat \ {0} BY <1>1, FileAssumption DEF Entries
  <1> QED BY <1>1, <1>4, <1>5 DEF Layout

\* Words written behind the records leave them as they are.
LEMMA LayoutKept ==
  ASSUME WriterInv, NEW at, Layout(at), stored' = stored, RecordsEnd' = RecordsEnd,
         \A i \in Offsets : i < RecordsEnd => file'[i] = file[i]
  PROVE  Layout(at)'
  <1>0. RecordsEnd \in Nat /\ RecordsEnd + 4 <= FileWords /\ FileWords \in Nat BY EndFacts
  <1>1. ASSUME NEW n \in 1 .. Len(stored) PROVE RecordIn(at[n], stored[n])'
    <2>1. RecordIn(at[n], stored[n]) BY DEF Layout
    <2>2. /\ at[n] \in Nat /\ stored[n].len \in Nat
          /\ at[n] + 3 + stored[n].len <= RecordsEnd
      BY LayoutFacts
    <2> DEFINE p == at[n]
               len == stored[n].len
    <2>a. p \in Nat /\ len \in Nat /\ p + 3 + len <= RecordsEnd BY <2>2
    <2> HIDE DEF p, len
    <2>3. ASSUME NEW j \in Nat, j < 3 + len PROVE file'[p + j] = file[p + j]
      <3>1. p + j \in Offsets /\ p + j < RecordsEnd BY <1>0, <2>a, <2>3 DEF Offsets
      <3> QED BY <3>1
    <2>4. /\ file'[p + 0] = file[p + 0] /\ file'[p + 1] = file[p + 1] /\ file'[p + 2] = file[p + 2]
      BY <2>a, <2>3
    <2>5. file'[p] = file[p] BY <2>a, <2>4
    <2>6. ASSUME NEW i \in 0 .. len - 1 PROVE file'[p + 3 + i] = file[p + 3 + i]
      <3>1. 3 + i \in Nat /\ 3 + i < 3 + len /\ p + (3 + i) = p + 3 + i BY <2>a
      <3> QED BY <2>3, <3>1
    <2> USE DEF p, len
    <2> QED BY <2>1, <2>4, <2>5, <2>6
            DEF RecordIn, TimestampWord, SizeWord, PayloadWord, Crc
  <1> QED BY <1>1 DEF Layout


\* A step that writes no word leaves the file described.
LEMMA QuietLayout ==
  ASSUME WriterInv, TailKnown, NEW at, Layout(at), UNCHANGED <<file, stored, write_position>>,
         session' = "closed" <=> session = "closed",
         session = "closed" => UNCHANGED records_written,
         \/ UNCHANGED <<bpc, bEntry, bSeq>>
         \/ /\ bpc \notin {"position", "headerSum", "payload"}
            /\ bpc' \notin {"position", "headerSum", "payload"}
  PROVE  TailKnown' /\ Layout(at)'
  <1>1. RecordsEnd' = RecordsEnd BY DEF RecordsEnd
  <1>2. Layout(at)' BY <1>1, LayoutKept
  <1>3. Blanks(RecordsEnd)' <=> Blanks(RecordsEnd) BY <1>1 DEF Blanks
  <1>4. Blanks(RecordsEnd + 3)' <=> Blanks(RecordsEnd + 3) BY <1>1 DEF Blanks
  <1>5. CASE UNCHANGED <<bpc, bEntry, bSeq>>
    <2>1. Partial' <=> Partial BY <1>5 DEF Partial
    <2> QED BY <1>1, <1>2, <1>3, <1>4, <1>5, <2>1 DEF TailKnown, TimestampWord, SizeWord, Crc
  <1>6. CASE /\ bpc \notin {"position", "headerSum", "payload"}
             /\ bpc' \notin {"position", "headerSum", "payload"}
    <2>1. ~Partial /\ ~Partial' BY <1>6 DEF Partial
    <2> QED BY <1>1, <1>2, <1>3, <1>6, <2>1 DEF TailKnown
  <1> QED BY <1>5, <1>6

\* The first words of a record are copied behind the last one.
LEMMA HeaderLayout ==
  ASSUME WriterInv, TailKnown, NEW at, Layout(at), BgHeader \/ BgHeaderSum
  PROVE  TailKnown' /\ Layout(at)'
  <1>0. session # "closed" BY DEF BgHeader, BgHeaderSum, BgStoreStep, Background
  <1>1. /\ UNCHANGED <<stored, write_position, bEntry, bSeq, session>>
        /\ bpc # "position" /\ bpc' # "position" /\ bpc \in Holding
    BY DEF BgHeader, BgHeaderSum, BgStoreStep, Background, Holding, sessionVars
  <1>2. /\ RecordsEnd \in Nat /\ RecordsEnd + 4 <= FileWords /\ FileWords \in Nat
        /\ RecordsEnd = write_position /\ RecordsEnd' = RecordsEnd
    BY <1>1, EndFacts DEF RecordsEnd
  <1> DEFINE E == RecordsEnd
  <1>3. /\ E \in Offsets /\ E + 1 \in Offsets /\ E + 2 \in Offsets BY <1>2 DEF Offsets
  <1>4. CASE BgHeader
    <2> DEFINE w == [i \in 0 .. 1 |-> IF i = 0 THEN TimestampWord(bEntry) ELSE SizeWord(bEntry)]
    <2>1. file' = Store(E, w) /\ bpc = "space" /\ bpc' = "headerSum"
      BY <1>2, <1>4 DEF BgHeader, BgStoreStep, Background
    <2>2. Blanks(E) BY <1>0, <2>1 DEF TailKnown, Partial
    <2>3. DOMAIN w = 0 .. 1 /\ w[0] = TimestampWord(bEntry) /\ w[1] = SizeWord(bEntry) OBVIOUS
    <2> HIDE DEF w, E
    <2>4. ASSUME NEW i \in Offsets, i < E \/ i > E + 1 PROVE file'[i] = file[i]
      <3>1. E \in Int /\ i - E \notin 0 .. 1 BY <1>2, <2>4 DEF Offsets, E
      <3> QED BY <2>1, <2>3, <3>1, StoreFacts
    <2>5. file'[E] = TimestampWord(bEntry) /\ file'[E + 1] = SizeWord(bEntry)
      <3>1. E \in Int /\ E - E = 0 /\ (E + 1) - E = 1 /\ 0 \in 0 .. 1 /\ 1 \in 0 .. 1
        BY <1>2 DEF E
      <3> QED BY <1>3, <2>1, <2>3, <3>1, StoreFacts
    <2>6. \A i \in Offsets : i >= E + 2 => file'[i] = Zero
      <3> SUFFICES ASSUME NEW i \in Offsets, i >= E + 2 PROVE file'[i] = Zero OBVIOUS
      <3>1. i >= E /\ i > E + 1 BY <1>2 DEF Offsets, E
      <3> QED BY <2>2, <2>4, <3>1 DEF Blanks
    <2>7. Blanks(E + 3)' /\ file'[E + 2] = Zero
      <3>1. \A i \in Offsets : i >= E + 3 => i >= E + 2 BY <1>2 DEF E, Offsets
      <3>2. E' = E /\ E + 2 >= E + 2 BY <1>2 DEF E
      <3> QED BY <1>3, <2>6, <3>1, <3>2 DEF Blanks, E
    <2>8. Layout(at)'
      <3>1. \A i \in Offsets : i < E => file'[i] = file[i] BY <2>4
      <3> QED BY <1>1, <1>2, <3>1, LayoutKept DEF E
    <2> QED BY <1>0, <1>1, <1>2, <2>1, <2>5, <2>7, <2>8
            DEF TailKnown, E, Partial, TimestampWord, SizeWord
  <1>5. CASE BgHeaderSum
    <2> DEFINE w == [i \in {0} |-> SumWord(bSeq, Crc(bEntry))]
    <2>1. file' = Store(E + 2, w) /\ bpc = "headerSum" /\ bpc' = "payload"
      BY <1>2, <1>5 DEF BgHeaderSum, BgStoreStep, Background
    <2>2. /\ file[E] = TimestampWord(bEntry) /\ file[E + 1] = SizeWord(bEntry)
          /\ Blanks(E + 3)
      BY <2>1 DEF TailKnown, Partial
    <2>3. DOMAIN w = {0} /\ w[0] = SumWord(bSeq, Crc(bEntry)) OBVIOUS
    <2> HIDE DEF w, E
    <2>4. ASSUME NEW i \in Offsets, i # E + 2 PROVE file'[i] = file[i]
      <3>1. E + 2 \in Int /\ i - (E + 2) \notin {0} BY <1>2, <2>4 DEF Offsets, E
      <3> QED BY <2>1, <2>3, <3>1, StoreFacts
    <2>5. file'[E + 2] = SumWord(bSeq, Crc(bEntry))
      <3>1. E + 2 \in Int /\ (E + 2) - (E + 2) = 0 BY <1>2 DEF E
      <3> QED BY <1>3, <2>1, <2>3, <3>1, StoreFacts DEF E
    <2>6. file'[E] = TimestampWord(bEntry) /\ file'[E + 1] = SizeWord(bEntry)
      <3>1. E # E + 2 /\ E + 1 # E + 2 BY <1>2 DEF E
      <3> QED BY <1>3, <2>2, <2>4, <3>1 DEF E
    <2>7. Blanks(E + 3)'
      <3>1. \A i \in Offsets : i >= E + 3 => i # E + 2 BY <1>2 DEF E, Offsets
      <3>2. E' = E BY <1>2 DEF E
      <3> QED BY <2>2, <2>4, <3>1, <3>2 DEF Blanks
    <2>8. Layout(at)'
      <3>1. \A i \in Offsets : i < E => i # E + 2 BY <1>2 DEF E, Offsets
      <3>2. \A i \in Offsets : i < E => file'[i] = file[i] BY <2>4, <3>1
      <3> QED BY <1>1, <1>2, <3>2, LayoutKept DEF E
    <2> QED BY <1>0, <1>1, <1>2, <2>1, <2>5, <2>6, <2>7, <2>8
            DEF TailKnown, E, Partial, TimestampWord, SizeWord, Crc
  <1> QED BY <1>4, <1>5


\* The payload completes the record behind the last one.
LEMMA PayloadLayout ==
  ASSUME WriterInv, TailKnown, NEW at, Layout(at), BgPayload
  PROVE  TailKnown' /\ \E b : Layout(b)'
  <1>0. PICK p, e, N : p = RecordsEnd /\ e = bEntry /\ N = Len(stored) OBVIOUS
  <1>1. /\ UNCHANGED <<write_position, bEntry, bSeq, session>> /\ session # "closed"
        /\ bpc = "payload" /\ bpc' = "position" /\ stored' = Append(stored, e)
        /\ file' = Store(write_position + 3, [i \in 0 .. e.len - 1 |-> PayloadWord(e, i)])
    BY <1>0 DEF BgPayload, BgStoreStep, Background, sessionVars, RECORD_HEADER_SIZE
  <1> DEFINE len == e.len
             b == Append(at, p + 3 + len)
             w == [i \in 0 .. e.len - 1 |-> PayloadWord(e, i)]
  <1>2. /\ p \in Nat /\ FileWords \in Nat /\ p = write_position
        /\ e \in Entries /\ len \in Nat /\ p + 3 + len + 4 <= FileWords
    BY <1>0, <1>1, EndFacts DEF Holding, Partial
  <1>3. RecordsEnd' = p + 3 + len
    <2>1. RecordsEnd' = write_position + (3 + e.len) BY <1>0, <1>1 DEF RecordsEnd
    <2> HIDE DEF len
    <2>2. RecordsEnd' = p + (3 + len) BY <1>2, <2>1 DEF len
    <2> QED BY <1>2, <2>2
  <1>4. /\ file[p] = TimestampWord(e) /\ file[p + 1] = SizeWord(e)
        /\ file[p + 2] = SumWord(bSeq, Crc(e)) /\ Blanks(p + 3)
    BY <1>0, <1>1 DEF TailKnown, Partial
  <1>5. DOMAIN w = 0 .. len - 1 /\ \A i \in 0 .. len - 1 : w[i] = PayloadWord(e, i) OBVIOUS
  <1>6. N \in Nat /\ stored \in Seq(Entries) BY <1>0, Shape DEF WriterInv, WriterTypeOK
  <1>7. at \in Seq(Nat) /\ Len(at) = N + 1 /\ at[1] = 0 /\ at[N + 1] = p BY <1>0 DEF Layout
  <1> HIDE DEF w, len
  <1>8. ASSUME NEW i \in Offsets, i < p + 3 \/ i >= p + 3 + len PROVE file'[i] = file[i]
    <2>1. write_position + 3 \in Int /\ i - (write_position + 3) \notin 0 .. len - 1
      BY <1>2, <1>8 DEF Offsets
    <2> QED BY <1>1, <1>5, <2>1, StoreFacts DEF w
  <1>9. ASSUME NEW j \in 0 .. len - 1 PROVE file'[p + 3 + j] = PayloadWord(e, j)
    <2>1. /\ write_position + 3 \in Int /\ p + 3 + j \in Offsets
          /\ (p + 3 + j) - (write_position + 3) = j
      BY <1>2 DEF Offsets
    <2> QED BY <1>1, <1>5, <2>1, StoreFacts DEF w
  <1>10. Blanks(RecordsEnd)'
    <2> SUFFICES ASSUME NEW i \in Offsets, i >= p + 3 + len PROVE file'[i] = Zero BY <1>3 DEF Blanks
    <2>1. i >= p + 3 BY <1>2 DEF Offsets
    <2> QED BY <1>4, <1>8, <2>1 DEF Blanks
  <1>11. TailKnown' BY <1>1, <1>10 DEF TailKnown, Partial
  <1>12. /\ b \in Seq(Nat) /\ Len(b) = N + 2 /\ b[N + 2] = p + 3 + len
         /\ \A n \in 1 .. N + 1 : b[n] = at[n]
    <2>1. p + 3 + len \in Nat BY <1>2
    <2> QED BY <1>6, <1>7, <2>1
  <1>13. /\ Len(stored') = N + 1 /\ stored'[N + 1] = e
         /\ \A n \in 1 .. N : stored'[n] = stored[n]
    BY <1>0, <1>1, <1>2, <1>6
  <1>14. RecordIn(p, e)'
    <2>1. /\ p \in Offsets /\ p + 1 \in Offsets /\ p + 2 \in Offsets
          /\ p < p + 3 /\ p + 1 < p + 3 /\ p + 2 < p + 3
      BY <1>2 DEF Offsets
    <2>2. file'[p] = file[p] /\ file'[p + 1] = file[p + 1] /\ file'[p + 2] = file[p + 2]
      BY <1>8, <2>1
    <2>3. file[p + 2].kind \in {"zero", "sum"} /\ file[p + 2].b = Crc(e)
      BY <1>4 DEF SumWord, Zero, Word
    <2> QED BY <1>4, <1>9, <2>2, <2>3 DEF RecordIn, len
  <1>15. ASSUME NEW n \in 1 .. N PROVE RecordIn(at[n], stored[n])'
    <2> DEFINE q == at[n]
               l == stored[n].len
    <2>1. RecordIn(q, stored[n]) BY <1>0 DEF Layout
    <2>2. q \in Nat /\ l \in Nat /\ q + 3 + l <= p BY <1>0, LayoutFacts
    <2>3. stored'[n] = stored[n] BY <1>13
    <2> HIDE DEF q, l
    <2>4. ASSUME NEW j \in Nat, j < 3 + l PROVE file'[q + j] = file[q + j]
      <3>1. q + j \in Offsets /\ q + j < p + 3 BY <1>2, <2>2, <2>4 DEF Offsets
      <3> QED BY <1>8, <3>1
    <2>5. file'[q] = file[q] /\ file'[q + 1] = file[q + 1] /\ file'[q + 2] = file[q + 2]
      <3>1. q + 0 = q /\ 0 < 3 + l /\ 1 < 3 + l /\ 2 < 3 + l BY <2>2
      <3> QED BY <2>4, <3>1
    <2>6. ASSUME NEW i \in 0 .. l - 1 PROVE file'[q + 3 + i] = file[q + 3 + i]
      <3>1. 3 + i \in Nat /\ 3 + i < 3 + l /\ q + (3 + i) = q + 3 + i BY <2>2
      <3> QED BY <2>4, <3>1
    <2> USE DEF q, l
    <2> QED BY <2>1, <2>3, <2>5, <2>6 DEF RecordIn, TimestampWord, SizeWord, PayloadWord, Crc
  <1>16. ASSUME NEW n \in 1 .. N + 1
         PROVE  /\ b[n + 1] = b[n] + 3 + stored'[n].len /\ b[n + 1] <= RecordsEnd'
                /\ RecordIn(b[n], stored[n])'
    <2>1. CASE n = N + 1
      <3>1. n + 1 = N + 2 /\ b[n] = p BY <1>6, <1>7, <1>12, <2>1
      <3> QED BY <1>2, <1>3, <1>12, <1>13, <1>14, <2>1, <3>1 DEF len
    <2>2. CASE n # N + 1
      <3>1. n \in 1 .. N /\ n + 1 \in 1 .. N + 1 BY <1>6, <2>2
      <3>2. b[n] = at[n] /\ b[n + 1] = at[n + 1] /\ stored'[n] = stored[n] BY <1>12, <1>13, <3>1
      <3>3. /\ at[n + 1] = at[n] + 3 + stored[n].len /\ at[n] \in Nat /\ stored[n].len \in Nat
            /\ at[n] + 3 + stored[n].len <= p
        BY <1>0, <3>1, LayoutFacts
      <3>4. at[n + 1] <= p /\ at[n + 1] \in Nat BY <3>3
      <3>5. at[n + 1] <= RecordsEnd' BY <1>2, <1>3, <3>4
      <3> QED BY <1>15, <3>1, <3>2, <3>3, <3>5
    <2> QED BY <2>1, <2>2
  <1>17. b[1] = 0 /\ N + 1 + 1 = N + 2 BY <1>6, <1>7, <1>12
  <1> HIDE DEF b
  <1>18. Layout(b)' BY <1>3, <1>12, <1>13, <1>16, <1>17 DEF Layout
  <1> QED BY <1>11, <1>18

\* close writes the footer behind the last record.
LEMMA FooterLayout ==
  ASSUME WriterInv, TailKnown, NEW at, Layout(at), CloseFooter
  PROVE  TailKnown' /\ Layout(at)'
  <1>0. PICK p, r, w : /\ p = RecordsEnd /\ r = records_written
                       /\ w = [i \in 0 .. FILE_FOOTER_SIZE - 1 |->
                                 FooterWord(i, records_written,
                                   write_position + FILE_FOOTER_SIZE, last_timestamp)]
    OBVIOUS
  <1>1. bpc = "exited" /\ session' = "closed"
        /\ UNCHANGED <<stored, write_position, bpc, bEntry, bSeq, records_written>>
    BY DEF CloseFooter, WriterInv, Leaving, historyVars, sharedVars, backgroundVars
  <1>2. /\ p \in Nat /\ p + 4 <= FileWords /\ FileWords \in Nat /\ p = write_position
        /\ RecordsEnd' = p
    BY <1>0, <1>1, EndFacts DEF RecordsEnd
  <1>3. file' = Store(p, w)
    BY <1>0, <1>2 DEF CloseFooter, FILE_FOOTER_SIZE
  <1>4. /\ DOMAIN w = 0 .. 3 /\ w[0] = FooterMagic
        /\ w[1] = IF r = 0 THEN Zero ELSE Word("total_records", r, 0)
    BY <1>0 DEF FooterWord, FILE_FOOTER_SIZE
  <1>5. ASSUME NEW i \in Offsets, i < p PROVE file'[i] = file[i]
    <2>1. p \in Int /\ i - p \notin 0 .. 3 BY <1>2, <1>5 DEF Offsets
    <2> QED BY <1>3, <1>4, <2>1, StoreFacts
  <1>6. Layout(at)' BY <1>0, <1>1, <1>2, <1>5, LayoutKept
  <1>7. file'[p] = FooterMagic /\ file'[p + 1].a = r
    <2>1. /\ p \in Int /\ p \in Offsets /\ p + 1 \in Offsets /\ p - p = 0 /\ (p + 1) - p = 1
          /\ 0 \in 0 .. 3 /\ 1 \in 0 .. 3
      BY <1>2 DEF Offsets
    <2>2. file'[p] = w[0] /\ file'[p + 1] = w[1] BY <1>3, <1>4, <2>1, StoreFacts
    <2> QED BY <1>4, <2>2 DEF Zero, Word
  <1> QED BY <1>0, <1>1, <1>2, <1>6, <1>7 DEF TailKnown, Partial

\* Every step of the only session leaves the file described.
LEMMA LayoutStep ==
  ASSUME WriterInv, sessions = 1, MaxSessions = 1, TailKnown, NEW at, Layout(at),
         [WriterNext]_writerVars
  PROVE  sessions' = 1 /\ TailKnown' /\ \E b : Layout(b)'
  <1>1. ~AppendSession BY DEF AppendSession
  <1>2. sessions' = 1
    <2>1. CASE Storing BY <2>1, StoringFrame DEF sessionVars
    <2>2. CASE Idling BY <2>2, IdlingFrame DEF sessionVars
    <2>3. CASE Quiet \/ UNCHANGED writerVars BY <2>3, QuietFrame
    <2> QED BY StepKinds, <1>1, <2>1, <2>2, <2>3
            DEF WriteAccepted, WriteRefused, BgPop, BgPopNone, BgNoSpace, BgTimestamp, Background,
                sessionVars
  <1>3. CASE CloseFooter BY <1>2, <1>3, FooterLayout
  <1>4. CASE BgHeader \/ BgHeaderSum BY <1>2, <1>4, HeaderLayout
  <1>5. CASE BgPayload BY <1>2, <1>5, PayloadLayout
  <1>6. CASE (Quiet \/ UNCHANGED writerVars) /\ ~CloseFooter
    <2>1. UNCHANGED <<stored, write_position, bpc, bEntry, bSeq, records_written>>
      BY <1>6, QuietFrame DEF backgroundVars, historyVars
    <2>2. file' = file /\ (session' = "closed" <=> session = "closed")
      BY <1>6 DEF Quiet, Kill, Ended, FlushBegin, FlushNext, FlushWritten, FlushNotYet, FlushHealthy,
         FlushDegraded, FlushGivesUp, FlushWaits, FlushStep, CloseBegin, CloseHeader, Producer,
         writerVars, sessionVars, fileVars
    <2> QED BY <1>2, <2>1, <2>2, QuietLayout
  <1>7. CASE (\E len \in Lens : WriteAccepted(len)) \/ WriteRefused
    <2>1. UNCHANGED <<file, stored, write_position, bpc, bEntry, bSeq, records_written, session>>
      BY <1>7 DEF WriteAccepted, WriteRefused, backgroundVars, sharedVars, fileVars
    <2> QED BY <1>2, <2>1, QuietLayout
  <1>8. CASE BgPop \/ BgPopNone \/ BgNoSpace \/ BgTimestamp \/ Idling \/ BgCount
    <2>1. UNCHANGED <<file, stored, write_position, session>> /\ session # "closed"
      BY <1>8 DEF BgPop, BgPopNone, BgNoSpace, BgTimestamp, BgCount, BgStoreStep, Idling, BgSpin,
         BgShutdown, BgExit, BgDrainMore, BgIdleStep, Background, sessionVars
    <2>2. /\ bpc \notin {"position", "headerSum", "payload"}
          /\ bpc' \notin {"position", "headerSum", "payload"}
      BY <1>8, IdlingFrame DEF BgPop, BgPopNone, BgNoSpace, BgTimestamp, BgCount, BgStoreStep,
         Background
    <2> QED BY <1>2, <2>1, <2>2, QuietLayout
  <1>9. CASE BgPosition
    <2>1. /\ UNCHANGED <<file, stored, bEntry, session>> /\ session # "closed"
          /\ bpc = "position" /\ bpc' = "count"
          /\ write_position' = write_position + RECORD_HEADER_SIZE + bEntry.len
      BY <1>9 DEF BgPosition, BgStoreStep, Background, sessionVars
    <2>2. write_position \in Nat /\ bEntry.len \in Nat BY <2>1, EndFacts DEF Holding
    <2>3. RecordsEnd' = RecordsEnd BY <2>1, <2>2 DEF RecordsEnd, RECORD_HEADER_SIZE
    <2>4. Layout(at)' BY <2>1, <2>3, LayoutKept
    <2>5. ~Partial /\ ~Partial' BY <2>1 DEF Partial
    <2>6. Blanks(RecordsEnd)' BY <2>1, <2>3, <2>5 DEF TailKnown, Blanks
    <2>7. TailKnown' BY <2>1, <2>5, <2>6 DEF TailKnown
    <2> QED BY <1>2, <2>4, <2>7
  <1> QED BY StepKinds, <1>1, <1>3, <1>4, <1>5, <1>6, <1>7, <1>8, <1>9 DEF Storing


-----------------------------------------------------------------------------
(* What the reader finds in it.                                            *)

\* A record that is all there is read.
LEMMA ReadsRecord ==
  ASSUME FileWords \in Nat, NEW p \in Nat, NEW e \in Entries, RecordIn(p, e),
         p + 3 + e.len <= FileWords
  PROVE  /\ ~EndAt(p) /\ ~PastEnd(p) /\ ~CorruptAt(p)
         /\ After(p) = p + 3 + e.len /\ RecordAt(p) = e
  <1>1. e.len \in Nat /\ e.ts \in Nat \ {0} /\ e = [ts |-> e.ts, len |-> e.len]
    BY FileAssumption DEF Entries
  <1>2. file[p].kind = "timestamp" /\ file[p].a = e.ts BY DEF RecordIn, TimestampWord, Word
  <1>3. file[p + 1].kind = "size" /\ file[p + 1].a = e.len BY DEF RecordIn, SizeWord, Word
  <1>4. SizeAt(p) = e.len BY <1>3 DEF SizeAt
  <1>5. SumAt(p) = Crc(e) BY DEF SumAt, RecordIn
  <1>6. After(p) = p + 3 + e.len BY <1>4 DEF After, RECORD_HEADER_SIZE
  <1>7. ~PastEnd(p) BY <1>1, <1>6 DEF PastEnd
  <1>8. ~EndAt(p)
    <2>1. FooterMagic.kind = "footer" /\ Zero.kind = "zero" BY DEF FooterMagic, Zero, Word
    <2>2. file[p] # FooterMagic /\ file[p] # Zero BY <1>2, <2>1
    <2>3. ~(p + 3 > FileWords) /\ p \in p .. p + 3 - 1 BY <1>1
    <2> QED BY <2>2, <2>3 DEF EndAt, RECORD_HEADER_SIZE
  <1>9. ActualSum(p) = Crc(e)
    <2>1. CASE e.len = 0 BY <1>4, <2>1 DEF ActualSum, Crc
    <2>2. CASE e.len # 0
      <3>1. \A i \in 0 .. e.len - 1 : file[p + 3 + i] = Word("payload", e.ts, i)
        BY DEF RecordIn, PayloadWord
      <3>2. 0 \in 0 .. e.len - 1 /\ p + 3 + 0 = p + 3 BY <1>1, <2>2
      <3>a. file[p + 3] = Word("payload", e.ts, 0) BY <3>1, <3>2
      <3>3. file[p + 3].a = e.ts BY <3>a DEF Word
      <3>4. IntactAt(p) BY <1>4, <3>1, <3>3 DEF IntactAt, RECORD_HEADER_SIZE
      <3> QED BY <1>4, <2>2, <3>3, <3>4 DEF ActualSum, Crc, RECORD_HEADER_SIZE
    <2> QED BY <2>1, <2>2
  <1>10. ~CorruptAt(p) BY <1>5, <1>9 DEF CorruptAt
  <1>11. RecordAt(p) = e BY <1>1, <1>2, <1>4 DEF RecordAt
  <1> QED BY <1>6, <1>7, <1>8, <1>10, <1>11

\* A header whose payload is missing is not taken for the end.
LEMMA ReadsHeader ==
  ASSUME FileWords \in Nat, NEW p \in Nat, NEW e \in Entries,
         file[p] = TimestampWord(e), file[p + 1] = SizeWord(e), p + 3 + e.len <= FileWords
  PROVE  /\ ~EndAt(p) /\ ~PastEnd(p)
         /\ After(p) = p + 3 + e.len /\ RecordAt(p) = e
  <1>1. e.len \in Nat /\ e.ts \in Nat \ {0} /\ e = [ts |-> e.ts, len |-> e.len]
    BY FileAssumption DEF Entries
  <1>2. file[p].kind = "timestamp" /\ file[p].a = e.ts BY DEF TimestampWord, Word
  <1>3. file[p + 1].kind = "size" /\ file[p + 1].a = e.len BY DEF SizeWord, Word
  <1>4. SizeAt(p) = e.len BY <1>3 DEF SizeAt
  <1>5. After(p) = p + 3 + e.len BY <1>4 DEF After, RECORD_HEADER_SIZE
  <1>6. ~PastEnd(p) BY <1>1, <1>5 DEF PastEnd
  <1>7. ~EndAt(p)
    <2>1. FooterMagic.kind = "footer" /\ Zero.kind = "zero" BY DEF FooterMagic, Zero, Word
    <2>2. file[p] # FooterMagic /\ file[p] # Zero BY <1>2, <2>1
    <2>3. ~(p + 3 > FileWords) /\ p \in p .. p + 3 - 1 BY <1>1
    <2> QED BY <2>2, <2>3 DEF EndAt, RECORD_HEADER_SIZE
  <1>8. RecordAt(p) = e BY <1>1, <1>2, <1>4 DEF RecordAt
  <1> QED BY <1>5, <1>6, <1>7, <1>8

\* The part of the file that was never written is the end.
LEMMA ReadsBlank ==
  ASSUME FileWords \in Nat, NEW p \in Nat, Blanks(p)
  PROVE  EndAt(p)
  <1>1. CASE p + 3 > FileWords BY <1>1 DEF EndAt, RECORD_HEADER_SIZE
  <1>2. CASE p + 3 <= FileWords
    <2>1. \A i \in p .. p + 3 - 1 : i \in Offsets /\ i >= p BY <1>2 DEF Offsets
    <2> QED BY <2>1 DEF EndAt, Blanks, RECORD_HEADER_SIZE
  <1> QED BY <1>1, <1>2

\* Every offset where a header can be decoded is followed by a later one.
LEMMA GoesForward ==
  ASSUME file \in [Offsets -> Words], FileWords \in Nat, NEW p \in Nat, ~EndAt(p)
  PROVE  After(p) \in Nat /\ After(p) > p
  <1>1. p + 3 <= FileWords BY DEF EndAt, RECORD_HEADER_SIZE
  <1>2. p + 1 \in Offsets BY <1>1 DEF Offsets
  <1>3. file[p + 1].a \in Nat BY <1>2 DEF Words
  <1>4. SizeAt(p) \in Nat BY <1>3 DEF SizeAt
  <1> QED BY <1>4 DEF After, RECORD_HEADER_SIZE

-----------------------------------------------------------------------------
(* read_next calls itself: its recursion ends, wherever it starts.         *)

\* Induction over the naturals, as a fact about sets of numbers.
LEMMA LeastNatural ==
  ASSUME NEW T \in SUBSET Nat, T # {}
  PROVE  \E n \in T : \A m \in T : n <= m
  <1> DEFINE R == OpToRel(<, Nat)
  <1>1. IsWellFoundedOn(R, Nat) BY NatLessThanWellFounded
  <1>2. \A x, y \in Nat : x < y => <<x, y>> \in R BY DEF OpToRel
  <1> HIDE DEF R
  <1>3. PICK n \in T : \A y \in T : ~(<<y, n>> \in R) BY <1>1, WFMin
  <1>4. \A y \in T : y \in Nat /\ ~(y < n) BY <1>2, <1>3
  <1>5. n \in T /\ n \in Nat OBVIOUS
  <1> QED BY <1>4, <1>5

\* A set that has 0 and with every number the next one has them all.
LEMMA Induction ==
  ASSUME NEW S, 0 \in S, \A n \in Nat : n \in S => n + 1 \in S
  PROVE  Nat \subseteq S
  <1> SUFFICES ASSUME ~(Nat \subseteq S) PROVE FALSE OBVIOUS
  <1> DEFINE T == Nat \ S
  <1>1. T # {} /\ T \in SUBSET Nat OBVIOUS
  <1> HIDE DEF T
  <1>2. PICK n \in T : \A m \in T : n <= m BY <1>1, LeastNatural
  <1>3. n \in Nat /\ n # 0 /\ n \notin S BY DEF T
  <1>4. n - 1 \in Nat /\ n - 1 \notin T BY <1>2, <1>3, <1>1
  <1>5. n - 1 \in S BY <1>4 DEF T
  <1> QED BY <1>3, <1>4, <1>5

Rests(p) == EndAt(p) \/ PastEnd(p) \/ ~skip_corrupt \/ ~CorruptAt(p)

\* read_next at p, when f tells what it does at later offsets.
Resting(f, p) ==
  IF Rests(p) THEN [at |-> p, skipped |-> 0] ELSE [f[After(p)] EXCEPT !.skipped = @ + 1]

IsResting(f, n) == f = [p \in FileWords - n .. FileWords |-> Resting(f, p)]

\* The recursive function exists.
LEMMA RestingExists ==
  ASSUME file \in [Offsets -> Words], FileWords \in Nat
  PROVE  \E f : f = [p \in 0 .. FileWords |-> Resting(f, p)]
  <1> DEFINE S == {n \in Nat : n <= FileWords => \E f : IsResting(f, n)}
  <1>1. 0 \in S
    <2> DEFINE f == [p \in FileWords .. FileWords |-> [at |-> p, skipped |-> 0]]
    <2>1. \A p \in FileWords .. FileWords : p = FileWords /\ p + 3 > FileWords OBVIOUS
    <2>2. \A p \in FileWords .. FileWords : Rests(p)
      BY <2>1 DEF Rests, EndAt, RECORD_HEADER_SIZE
    <2>3. \A p \in FileWords .. FileWords : f[p] = Resting(f, p) BY <2>2 DEF Resting
    <2>4. f = [p \in FileWords - 0 .. FileWords |-> Resting(f, p)]
      <3>1. FileWords - 0 = FileWords OBVIOUS
      <3> QED BY <2>3, <3>1
    <2> HIDE DEF f
    <2> QED BY <2>4 DEF IsResting
  <1>2. ASSUME NEW m \in Nat, m \in S PROVE m + 1 \in S
    <2> SUFFICES ASSUME m + 1 <= FileWords PROVE \E f : IsResting(f, m + 1) OBVIOUS
    <2>1. PICK f : IsResting(f, m) BY <1>2
    <2> DEFINE q == FileWords - (m + 1)
               g == [p \in q .. FileWords |-> IF p > q THEN f[p] ELSE Resting(f, p)]
    <2>2. q \in Nat /\ q < FileWords /\ q + 1 = FileWords - m OBVIOUS
    <2>3. \A p \in q + 1 .. FileWords : f[p] = Resting(f, p) BY <2>1, <2>2 DEF IsResting
    <2> HIDE DEF q
    <2>4. \A p \in q + 1 .. FileWords : g[p] = f[p] BY <2>2
    <2>5. ASSUME NEW p \in q .. FileWords PROVE Resting(f, p) = Resting(g, p)
      <3>1. CASE Rests(p) BY <3>1 DEF Resting
      <3>2. CASE ~Rests(p)
        <4>1. ~EndAt(p) /\ ~PastEnd(p) /\ p \in Nat BY <2>2, <3>2 DEF Rests
        <4>2. After(p) \in Nat /\ After(p) > p /\ After(p) <= FileWords
          BY <4>1, GoesForward DEF PastEnd
        <4>3. After(p) \in q + 1 .. FileWords BY <2>2, <4>1, <4>2
        <4>4. g[After(p)] = f[After(p)] BY <2>4, <4>3
        <4> HIDE DEF g
        <4> QED BY <3>2, <4>4 DEF Resting
      <3> QED BY <3>1, <3>2
    <2>6. ASSUME NEW p \in q .. FileWords PROVE g[p] = Resting(g, p)
      <3>1. CASE p = q BY <2>2, <2>5, <3>1
      <3>2. CASE p # q
        <4>1. p \in q + 1 .. FileWords BY <2>2, <3>2
        <4> QED BY <2>3, <2>4, <2>5, <4>1
      <3> QED BY <3>1, <3>2
    <2>7. g = [p \in q .. FileWords |-> Resting(g, p)] BY <2>6
    <2> HIDE DEF g
    <2>8. IsResting(g, m + 1) BY <2>7 DEF IsResting, q
    <2> QED BY <2>8
  <1> HIDE DEF S
  <1>3. Nat \subseteq S BY <1>1, <1>2, Induction
  <1>4. \E f : IsResting(f, FileWords) BY <1>3 DEF S
  <1>5. FileWords - FileWords = 0 OBVIOUS
  <1> QED BY <1>4, <1>5 DEF IsResting

\* Where read_next comes to rest.
LEMMA RestingFacts ==
  ASSUME file \in [Offsets -> Words], FileWords \in Nat, NEW p \in 0 .. FileWords
  PROVE  /\ Rests(p) => RestingPlace[p] = [at |-> p, skipped |-> 0]
         /\ ~Rests(p) => RestingPlace[p] = [RestingPlace[After(p)] EXCEPT !.skipped = @ + 1]
  <1>1. RestingPlace = [q \in 0 .. FileWords |-> Resting(RestingPlace, q)]
    BY RestingExists DEF RestingPlace, Resting, Rests
  <1>2. RestingPlace[p] = Resting(RestingPlace, p) BY <1>1
  <1> QED BY <1>2 DEF Resting


-----------------------------------------------------------------------------
(* The reader follows the layout.                                          *)

\* The records the reader can meet: those stored, and the one whose header
\* the writer had begun.
Readable == Len(stored) + (IF Partial THEN 1 ELSE 0)
Meets(n) == IF n <= Len(stored) THEN stored[n] ELSE bEntry

\* Where the n-th of them is, and where the last one ends.
Place(at, n) == IF n <= Len(stored) + 1 THEN at[n] ELSE RecordsEnd + 3 + bEntry.len

\* What was returned is what there is, in order; reading goes on behind it,
\* and does not end before the last stored record.
ReaderFollows(at) ==
  /\ returned \in Seq(Entries) /\ offsets \in Seq(Nat) /\ Len(offsets) = Len(returned)
  /\ mode = "none" => returned = <<>> /\ read_position = 0 /\ ~finished
  /\ mode # "none" => session # "open"
  /\ Len(returned) <= Readable
  /\ \A n \in 1 .. Len(returned) : returned[n] = Meets(n) /\ offsets[n] = at[n]
  /\ ~finished => read_position = Place(at, Len(returned) + 1)
  /\ finished => Len(returned) >= Len(stored)
  /\ finished /\ session = "closed" =>
       result = "end" /\ Len(returned) = Len(stored) /\ read_position = RecordsEnd

\* What one call of read_next finds behind what was returned.
LEMMA ReadFacts ==
  ASSUME WriterInv, TailKnown, NEW at, Layout(at), ReaderFollows(at), ~finished
  PROVE  LET rest == RestingPlace[read_position]
             R == Len(returned)
         IN  \/ /\ R < Readable /\ rest.at = read_position
                /\ read_position = at[R + 1] /\ read_position \in Nat
                /\ ~EndAt(rest.at) /\ ~PastEnd(rest.at)
                /\ R < Len(stored) => ~CorruptAt(rest.at)
                /\ After(rest.at) = Place(at, R + 2) /\ RecordAt(rest.at) = Meets(R + 1)
             \/ /\ R >= Len(stored) /\ EndAt(rest.at)
                /\ session = "closed" => rest.at = RecordsEnd /\ R = Len(stored)
  <1> DEFINE p == read_position
             R == Len(returned)
             M == Len(stored)
             E == RecordsEnd
  <1>0. /\ file \in [Offsets -> Words] /\ FileWords \in Nat /\ E \in Nat /\ E + 4 <= FileWords
        /\ M \in Nat /\ R \in Nat /\ R <= Readable /\ Readable \in Nat
        /\ p = Place(at, R + 1) /\ at[M + 1] = E
    BY EndFacts, Shape DEF WriterInv, WriterTypeOK, ReaderFollows, Readable, Layout
  <1>1. Partial => /\ bEntry \in Entries /\ bEntry.len \in Nat /\ E + 3 + bEntry.len + 4 <= FileWords
                   /\ session # "closed"
    BY EndFacts DEF Partial, Holding, WriterInv, Leaving
  <1>2. ASSUME NEW q \in Nat, q <= FileWords, Rests(q) PROVE RestingPlace[q].at = q
    <2>1. q \in 0 .. FileWords BY <1>0, <1>2
    <2>2. Rests(q) => RestingPlace[q] = [at |-> q, skipped |-> 0] BY <1>0, <2>1, RestingFacts
    <2> QED BY <1>2, <2>2
  <1> HIDE DEF E, p, R, M
  <1>3. CASE R < M
    <2>1. R + 1 \in 1 .. M /\ R + 1 <= M + 1 BY <1>0, <1>3
    <2>2. p = at[R + 1] BY <1>0, <2>1 DEF Place, M
    <2>3. /\ at[R + 1] \in Nat /\ stored[R + 1] \in Entries /\ stored[R + 1].len \in Nat
          /\ at[R + 1] + 3 + stored[R + 1].len <= E
          /\ at[R + 1 + 1] = at[R + 1] + 3 + stored[R + 1].len
          /\ RecordIn(at[R + 1], stored[R + 1])
      BY <2>1, LayoutFacts DEF Layout, M, E
    <2>4. PICK e : e = stored[R + 1] OBVIOUS
    <2>5. p \in Nat /\ e \in Entries /\ e.len \in Nat /\ p + 3 + e.len <= FileWords /\ p <= FileWords
      BY <1>0, <2>2, <2>3, <2>4
    <2>6. RecordIn(p, e) BY <2>2, <2>3, <2>4
    <2>7. /\ ~EndAt(p) /\ ~PastEnd(p) /\ ~CorruptAt(p)
          /\ After(p) = p + 3 + e.len /\ RecordAt(p) = e
      BY <1>0, <2>5, <2>6, ReadsRecord
    <2>8. RestingPlace[p].at = p BY <1>2, <2>5, <2>7 DEF Rests
    <2>9. After(p) = Place(at, R + 2)
      <3>1. R + 2 = R + 1 + 1 /\ R + 2 <= M + 1 BY <1>0, <1>3
      <3>2. Place(at, R + 2) = at[R + 1 + 1] BY <3>1 DEF Place, M
      <3> QED BY <2>2, <2>3, <2>4, <2>7, <3>2
    <2>10. RecordAt(p) = Meets(R + 1) BY <2>1, <2>4, <2>7 DEF Meets, M
    <2>11. R < Readable BY <1>0, <1>3 DEF Readable, M
    <2> QED BY <2>2, <2>5, <2>7, <2>8, <2>9, <2>10, <2>11 DEF p, R, M
  <1>4. CASE R = M /\ ~Partial
    <2>1. p = E BY <1>0, <1>4 DEF Place, M
    <2>2. EndAt(p)
      <3>1. CASE session = "closed" BY <2>1, <3>1 DEF TailKnown, EndAt, E
      <3>2. CASE session # "closed" BY <1>0, <1>4, <2>1, <3>2, ReadsBlank DEF TailKnown, E
      <3> QED BY <3>1, <3>2
    <2>3. p <= FileWords /\ p \in Nat BY <1>0, <2>1
    <2>4. RestingPlace[p].at = p BY <1>2, <2>2, <2>3 DEF Rests
    <2> QED BY <1>0, <1>4, <2>1, <2>2, <2>4 DEF p, R, M, E
  <1>5. CASE R = M /\ Partial
    <2>1. p = E BY <1>0, <1>5 DEF Place, M
    <2>2. PICK e : e = bEntry OBVIOUS
    <2>3. /\ file[p] = TimestampWord(e) /\ file[p + 1] = SizeWord(e) /\ Blanks(p + 3)
      BY <1>5, <2>1, <2>2 DEF TailKnown, E
    <2>4. /\ p \in Nat /\ e \in Entries /\ e.len \in Nat /\ p + 3 + e.len + 4 <= FileWords
          /\ p + 3 + e.len <= FileWords /\ p <= FileWords
      BY <1>0, <1>1, <1>5, <2>1, <2>2
    <2>5. /\ ~EndAt(p) /\ ~PastEnd(p) /\ After(p) = p + 3 + e.len /\ RecordAt(p) = e
      BY <1>0, <2>3, <2>4, ReadsHeader
    <2>6. CASE Rests(p)
      <3>1. RestingPlace[p].at = p BY <1>2, <2>4, <2>6
      <3>2. R < Readable BY <1>0, <1>5 DEF Readable, M
      <3>3. p = at[R + 1] BY <1>0, <1>5, <2>1
      <3>4. ~(R + 2 <= M + 1) /\ ~(R + 1 <= M) /\ ~(R < M) BY <1>0, <1>5
      <3>5. After(p) = Place(at, R + 2) BY <2>1, <2>2, <2>5, <3>4 DEF Place, M, E
      <3>6. RecordAt(p) = Meets(R + 1) BY <2>2, <2>5, <3>4 DEF Meets, M
      <3> QED BY <2>4, <2>5, <3>1, <3>2, <3>3, <3>4, <3>5, <3>6 DEF p, R, M
    <2>7. CASE ~Rests(p)
      <3>1. PICK q : q = After(p) OBVIOUS
      <3>2. q \in Nat /\ q <= FileWords /\ q >= p + 3 BY <2>4, <2>5, <3>1
      <3>3. Blanks(q)
        <4>1. \A i \in Offsets : i >= q => i >= p + 3 BY <2>4, <3>2 DEF Offsets
        <4> QED BY <2>3, <4>1 DEF Blanks
      <3>4. EndAt(q) BY <1>0, <3>2, <3>3, ReadsBlank
      <3>5. q \in 0 .. FileWords /\ p \in 0 .. FileWords BY <1>0, <2>4, <3>2
      <3>6. RestingPlace[q] = [at |-> q, skipped |-> 0]
        BY <1>0, <3>4, <3>5, RestingFacts DEF Rests
      <3>7. RestingPlace[p] = [RestingPlace[q] EXCEPT !.skipped = @ + 1]
        BY <1>0, <2>7, <3>1, <3>5, RestingFacts
      <3>8. RestingPlace[p].at = q BY <3>6, <3>7
      <3> QED BY <1>0, <1>1, <1>5, <3>4, <3>8 DEF p, R, M
    <2> QED BY <2>6, <2>7
  <1>6. CASE R > M
    <2>1. Partial /\ R = M + 1 BY <1>0, <1>6 DEF Readable, M
    <2>2. ~(R + 1 <= M + 1) BY <1>0, <2>1
    <2>3. p = E + 3 + bEntry.len BY <1>0, <2>2 DEF Place, M, E
    <2>4. p \in Nat /\ p <= FileWords /\ p >= E + 3 BY <1>0, <1>1, <2>1, <2>3
    <2>5. Blanks(p)
      <3>1. \A i \in Offsets : i >= p => i >= E + 3 BY <1>0, <2>4 DEF Offsets
      <3> QED BY <2>1, <3>1 DEF TailKnown, Blanks, E
    <2>6. EndAt(p) BY <1>0, <2>4, <2>5, ReadsBlank
    <2>7. RestingPlace[p].at = p BY <1>2, <2>4, <2>6 DEF Rests
    <2> QED BY <1>0, <1>1, <1>6, <2>1, <2>6, <2>7 DEF p, R, M
  <1> QED BY <1>0, <1>3, <1>4, <1>5, <1>6

\* Every step of the reader keeps to the layout.
LEMMA ReaderStep ==
  ASSUME WriterInv, TailKnown, NEW at, Layout(at), ReaderFollows(at), session # "open",
         ReaderNext, UNCHANGED writerVars
  PROVE  ReaderFollows(at)'
  <1>0. /\ UNCHANGED <<stored, session, Readable, RecordsEnd, bEntry>>
        /\ \A n : Meets(n)' = Meets(n) /\ Place(at, n)' = Place(at, n)
    BY DEF writerVars, sessionVars, historyVars, backgroundVars, sharedVars, Readable, RecordsEnd,
           Meets, Place, Partial
  <1>1. /\ Len(stored) \in Nat /\ returned \in Seq(Entries) /\ offsets \in Seq(Nat)
        /\ Len(offsets) = Len(returned) /\ Len(returned) \in Nat /\ Len(returned) <= Readable
        /\ Readable \in Nat /\ at[1] = 0
        /\ Readable <= Len(stored) + 1
    BY Shape DEF ReaderFollows, Readable, Layout
  <1>2. \A n \in 1 .. Readable : Meets(n) \in Entries
    <2> SUFFICES ASSUME NEW n \in 1 .. Readable PROVE Meets(n) \in Entries OBVIOUS
    <2>1. CASE n <= Len(stored) BY <1>1, <2>1, Shape DEF Meets
    <2>2. CASE n > Len(stored)
      <3>1. Partial BY <1>1, <2>2 DEF Readable
      <3>2. bEntry \in Entries BY <3>1, EndFacts DEF Partial, Holding
      <3> QED BY <1>1, <2>2, <3>2 DEF Meets
    <2> QED BY <1>1, <2>1, <2>2
  <1>3. CASE \E config \in Modes : Open(config)
    <2>1. /\ mode = "none" /\ mode' # "none"
          /\ UNCHANGED <<read_position, finished, result, offsets, returned>>
      BY <1>3 DEF Open, Modes
    <2> QED BY <1>0, <1>1, <2>1 DEF ReaderFollows
  <1>4. CASE ReadNext
    <2> DEFINE rest == RestingPlace[read_position]
               R == Len(returned)
    <2>1. mode # "none" /\ ~finished /\ mode' = mode BY <1>4 DEF ReadNext
    <2>2. \/ /\ finished' = TRUE /\ UNCHANGED <<offsets, returned>> /\ read_position' = rest.at
             /\ EndAt(rest.at) /\ result' = "end"
          \/ /\ finished' = TRUE /\ UNCHANGED <<offsets, returned>> /\ read_position' = rest.at
             /\ ~EndAt(rest.at) /\ (PastEnd(rest.at) \/ CorruptAt(rest.at))
          \/ /\ ~EndAt(rest.at) /\ finished' = finished /\ read_position' = After(rest.at)
             /\ offsets' = Append(offsets, rest.at)
             /\ returned' = Append(returned, RecordAt(rest.at))
      BY <1>4 DEF ReadNext
    <2>3. \/ /\ R < Readable /\ rest.at = read_position
             /\ read_position = at[R + 1] /\ read_position \in Nat
             /\ ~EndAt(rest.at) /\ ~PastEnd(rest.at)
             /\ R < Len(stored) => ~CorruptAt(rest.at)
             /\ After(rest.at) = Place(at, R + 2) /\ RecordAt(rest.at) = Meets(R + 1)
          \/ /\ R >= Len(stored) /\ EndAt(rest.at)
             /\ session = "closed" => rest.at = RecordsEnd /\ R = Len(stored)
      BY <2>1, ReadFacts
    <2>4. session = "closed" => Readable = Len(stored)
      BY <1>1 DEF Readable, Partial, WriterInv, Leaving
    <2> HIDE DEF rest
    <2>5. CASE finished' = TRUE /\ UNCHANGED <<offsets, returned>> /\ read_position' = rest.at
               /\ EndAt(rest.at) /\ result' = "end"
      BY <1>0, <1>1, <2>1, <2>3, <2>5 DEF ReaderFollows
    <2>6. CASE finished' = TRUE /\ UNCHANGED <<offsets, returned>> /\ read_position' = rest.at
               /\ ~EndAt(rest.at) /\ (PastEnd(rest.at) \/ CorruptAt(rest.at))
      <3>1. R < Readable /\ ~(R < Len(stored)) BY <2>3, <2>6
      <3>2. session # "closed" BY <2>4, <3>1
      <3> QED BY <1>0, <1>1, <2>1, <2>6, <3>1, <3>2 DEF ReaderFollows
    <2>7. CASE /\ ~EndAt(rest.at) /\ finished' = finished /\ read_position' = After(rest.at)
               /\ offsets' = Append(offsets, rest.at)
               /\ returned' = Append(returned, RecordAt(rest.at))
      <3>1. /\ R < Readable /\ rest.at = at[R + 1] /\ rest.at \in Nat
            /\ read_position' = Place(at, R + 2)
            /\ returned' = Append(returned, Meets(R + 1))
        BY <2>3, <2>7
      <3>2. R + 1 \in 1 .. Readable BY <1>1, <3>1
      <3>3. Meets(R + 1) \in Entries BY <1>2, <3>2
      <3>4. /\ returned' \in Seq(Entries) /\ Len(returned') = R + 1
            /\ returned'[R + 1] = Meets(R + 1) /\ \A n \in 1 .. R : returned'[n] = returned[n]
        BY <1>1, <3>1, <3>3
      <3>5. /\ offsets' \in Seq(Nat) /\ Len(offsets') = R + 1
            /\ offsets'[R + 1] = at[R + 1] /\ \A n \in 1 .. R : offsets'[n] = offsets[n]
        BY <1>1, <2>7, <3>1
      <3>6. \A n \in 1 .. R + 1 : returned'[n] = Meets(n) /\ offsets'[n] = at[n]
        <4> SUFFICES ASSUME NEW n \in 1 .. R + 1 PROVE returned'[n] = Meets(n) /\ offsets'[n] = at[n]
          OBVIOUS
        <4>1. CASE n = R + 1 BY <3>4, <3>5, <4>1
        <4>2. CASE n # R + 1
          <5>1. n \in 1 .. R BY <1>1, <4>2
          <5> QED BY <3>4, <3>5, <5>1 DEF ReaderFollows
        <4> QED BY <4>1, <4>2
      <3>7. ~finished' BY <2>1, <2>7
      <3>8. R + 1 + 1 = R + 2 /\ R + 1 <= Readable BY <1>1, <3>2
      <3> HIDE DEF R
      <3> QED BY <1>0, <2>1, <3>1, <3>4, <3>5, <3>6, <3>7, <3>8 DEF ReaderFollows
    <2> QED BY <2>2, <2>5, <2>6, <2>7
  <1>5. CASE Rewind
    <2>1. /\ mode # "none" /\ mode' = mode /\ read_position' = 0 /\ ~finished'
          /\ offsets' = <<>> /\ returned' = <<>>
      BY <1>5 DEF Rewind
    <2>2. Place(at, 1) = 0 BY <1>1 DEF Place
    <2>3. Len(<<>>) = 0 /\ 0 + 1 = 1 /\ returned' \in Seq(Entries) /\ offsets' \in Seq(Nat)
      BY <2>1
    <2> QED BY <1>0, <1>1, <2>1, <2>2, <2>3 DEF ReaderFollows
  <1>6. CASE \E n \in 1 .. FileWords : Seek(n)
    <2>1. PICK n : /\ mode # "none" /\ mode' = mode /\ n \in DOMAIN offsets
                   /\ read_position' = offsets[n] /\ ~finished'
                   /\ offsets' = SubSeq(offsets, 1, n - 1)
                   /\ returned' = SubSeq(returned, 1, n - 1)
      BY <1>6 DEF Seek
    <2>2. n \in 1 .. Len(returned) BY <1>1, <2>1
    <2>a. 1 \in Nat /\ n - 1 \in Nat /\ n - 1 <= Len(returned) /\ 1 <= n - 1 + 1 /\ n \in Nat
      BY <1>1, <2>2
    <2>b. \A i \in 1 .. n - 1 : i \in 1 .. Len(returned) /\ 1 + i - 1 = i BY <1>1, <2>a
    <2>3. /\ returned' \in Seq(Entries) /\ Len(returned') = n - 1
          /\ \A i \in 1 .. n - 1 : returned'[i] = returned[i]
      BY <1>1, <2>1, <2>a, <2>b
    <2>4. /\ offsets' \in Seq(Nat) /\ Len(offsets') = n - 1
          /\ \A i \in 1 .. n - 1 : offsets'[i] = offsets[i]
      BY <1>1, <2>1, <2>a, <2>b
    <2>5. n - 1 + 1 = n /\ n <= Len(stored) + 1 /\ n - 1 <= Readable /\ n - 1 \in Nat
      BY <1>1, <2>2
    <2>6. read_position' = Place(at, n - 1 + 1) BY <2>1, <2>2, <2>5 DEF ReaderFollows, Place
    <2>7. \A i \in 1 .. n - 1 : returned'[i] = Meets(i) /\ offsets'[i] = at[i]
      <3>1. \A i \in 1 .. n - 1 : i \in 1 .. Len(returned) BY <1>1, <2>2
      <3> QED BY <2>3, <2>4, <3>1 DEF ReaderFollows
    <2> QED BY <1>0, <2>1, <2>3, <2>4, <2>5, <2>6, <2>7 DEF ReaderFollows
  <1> QED BY <1>3, <1>4, <1>5, <1>6 DEF ReaderNext


-----------------------------------------------------------------------------
(* A journal of one session, through the death of its writer, and read.    *)

\* The writer's invariant, the file as the writer left or is leaving it, and
\* the reader in it.
JournalInv ==
  /\ WriterInv /\ sessions = 1 /\ TailKnown
  /\ \E at : Layout(at) /\ ReaderFollows(at)

\* A new journal has no record and no reader.
LEMMA JournalInit == Init => JournalInv
  <1> SUFFICES ASSUME Init PROVE JournalInv OBVIOUS
  <1>1. WriterInit /\ ReaderInit BY DEF Init
  <1>2. WriterInv BY <1>1, InvInit
  <1>3. /\ file = Blank /\ sessions = 1 /\ stored = <<>> /\ write_position = 0 /\ bpc = "pop"
        /\ session = "open"
    BY <1>1 DEF WriterInit
  <1>4. RecordsEnd = 0 BY <1>3 DEF RecordsEnd
  <1>5. TailKnown BY <1>3 DEF TailKnown, Partial, Blanks, Blank
  <1> DEFINE at == <<0>>
  <1>6. at \in Seq(Nat) /\ Len(at) = 1 /\ at[1] = 0 /\ Len(stored) = 0 BY <1>3
  <1> HIDE DEF at
  <1>7. Layout(at) BY <1>4, <1>6 DEF Layout
  <1>8. ReaderFollows(at)
    <2>1. /\ mode = "none" /\ read_position = 0 /\ ~finished /\ offsets = <<>> /\ returned = <<>>
      BY <1>1 DEF ReaderInit
    <2>2. /\ returned \in Seq(Entries) /\ offsets \in Seq(Nat) /\ Len(returned) = 0
          /\ Len(offsets) = 0
      BY <2>1
    <2>3. Readable = 0 BY <1>3, <1>6 DEF Readable, Partial
    <2>4. Place(at, 0 + 1) = 0 BY <1>6 DEF Place
    <2> QED BY <2>1, <2>2, <2>3, <2>4 DEF ReaderFollows
  <1> QED BY <1>2, <1>3, <1>5, <1>7, <1>8 DEF JournalInv

\* Every step of the writer and of the reader keeps it.
LEMMA JournalStep ==
  ASSUME MaxSessions = 1, JournalInv, [Next]_vars
  PROVE  JournalInv'
  <1>0. WriterInv /\ sessions = 1 /\ TailKnown BY DEF JournalInv
  <1>1. PICK at : Layout(at) /\ ReaderFollows(at) BY DEF JournalInv
  <1>2. CASE mode = "none" /\ WriterNext /\ UNCHANGED readerVars
    <2>1. [WriterNext]_writerVars BY <1>2
    <2>2. WriterInv' BY <1>0, <2>1, InvStep
    <2>3. sessions' = 1 /\ TailKnown' /\ \E b : Layout(b)' BY <1>0, <1>1, <2>1, LayoutStep
    <2>4. PICK b : Layout(b)' BY <2>3
    <2>5. ReaderFollows(b)'
      <3>1. /\ mode' = "none" /\ read_position' = 0 /\ ~finished' /\ returned' = <<>>
            /\ offsets' \in Seq(Nat) /\ Len(offsets') = 0
        BY <1>1, <1>2 DEF readerVars, ReaderFollows
      <3>2. Len(returned') = 0 /\ returned' \in Seq(Entries) BY <3>1
      <3>3. b[1] = 0 /\ Len(stored') \in Nat BY <2>2, <2>4 DEF Layout, WriterInv, WriterTypeOK
      <3>4. 0 <= Readable' BY <3>3 DEF Readable
      <3>5. Place(b, 0 + 1)' = 0 BY <3>3 DEF Place
      <3> QED BY <3>1, <3>2, <3>4, <3>5 DEF ReaderFollows
    <2> QED BY <2>2, <2>3, <2>4, <2>5 DEF JournalInv
  <1>3. CASE session # "open" /\ ReaderNext /\ UNCHANGED writerVars
    <2>1. ReaderFollows(at)' BY <1>0, <1>1, <1>3, ReaderStep
    <2>2. [WriterNext]_writerVars BY <1>3
    <2>3. WriterInv' BY <1>0, <2>2, InvStep
    <2>4. UNCHANGED <<file, stored, write_position, bpc, bEntry, bSeq, session, sessions,
                      records_written>>
      BY <1>3 DEF writerVars, fileVars, historyVars, sharedVars, backgroundVars, sessionVars
    <2>5. TailKnown' /\ Layout(at)' BY <1>0, <1>1, <2>4, QuietLayout
    <2> QED BY <1>0, <2>1, <2>3, <2>4, <2>5 DEF JournalInv
  <1>4. CASE UNCHANGED vars
    <2>1. UNCHANGED writerVars /\ UNCHANGED readerVars BY <1>4 DEF vars
    <2>2. [WriterNext]_writerVars BY <2>1
    <2>3. WriterInv' BY <1>0, <2>2, InvStep
    <2>4. UNCHANGED <<file, stored, write_position, bpc, bEntry, bSeq, session, sessions,
                      records_written>>
      BY <2>1 DEF writerVars, fileVars, historyVars, sharedVars, backgroundVars, sessionVars
    <2>5. TailKnown' /\ Layout(at)' BY <1>0, <1>1, <2>4, QuietLayout
    <2>6. ReaderFollows(at)'
      BY <1>1, <2>1, <2>4 DEF ReaderFollows, readerVars, Readable, Meets, Place, Partial, RecordsEnd
    <2> QED BY <1>0, <2>3, <2>4, <2>5, <2>6 DEF JournalInv
  <1> QED BY <1>2, <1>3, <1>4 DEF Next

\* What the invariant says of the records that were returned.
LEMMA ReadsBackShown == JournalInv => ReadsBack
  <1> SUFFICES ASSUME JournalInv PROVE ReadsBack OBVIOUS
  <1>0. WriterInv /\ TailKnown BY DEF JournalInv
  <1>1. PICK at : Layout(at) /\ ReaderFollows(at) BY DEF JournalInv
  <1>2. /\ stored \in Seq(Entries) /\ Len(stored) \in Nat /\ returned \in Seq(Entries)
        /\ Len(returned) \in Nat /\ Len(returned) <= Readable
        /\ \A n \in 1 .. Len(returned) : returned[n] = Meets(n)
    BY <1>0, <1>1 DEF WriterInv, WriterTypeOK, ReaderFollows
  <1>3. /\ records_written \in Nat /\ records_written <= Len(stored)
        /\ session = "closed" => records_written = Len(stored) /\ ~Partial
    <2>1. records_written = Len(stored) - (IF bpc \in Uncounted THEN 1 ELSE 0)
      BY <1>0 DEF WriterInv, CountsFollow
    <2>2. session = "closed" => bpc = "exited" BY <1>0 DEF WriterInv, Leaving
    <2>3. records_written \in Nat BY <1>0 DEF WriterInv, WriterTypeOK
    <2> QED BY <1>2, <2>1, <2>2, <2>3 DEF Uncounted, Partial
  <1>4. ReadsPrefix
    <2>1. CASE Partial
      <3>1. bEntry \in Entries /\ bEntry # NoEntry
        BY <1>0, <2>1, EndFacts, WriterAssumption DEF Partial, Holding
      <3>2. InHand = <<bEntry>> BY <3>1 DEF InHand
      <3>3. /\ Len(stored \o InHand) = Len(stored) + 1
            /\ \A n \in 1 .. Len(stored) : (stored \o InHand)[n] = stored[n]
            /\ (stored \o InHand)[Len(stored) + 1] = bEntry
        BY <1>2, <3>1, <3>2
      <3>4. Readable = Len(stored) + 1 BY <2>1 DEF Readable
      <3>5. \A n \in 1 .. Len(returned) : n \in 1 .. Len(stored) \/ n = Len(stored) + 1
        BY <1>2, <3>4
      <3>6. \A n \in 1 .. Len(returned) : returned[n] = (stored \o InHand)[n]
        <4> SUFFICES ASSUME NEW n \in 1 .. Len(returned) PROVE Meets(n) = (stored \o InHand)[n]
          BY <1>2
        <4>1. CASE n \in 1 .. Len(stored) BY <1>2, <3>3, <4>1 DEF Meets
        <4>2. CASE n = Len(stored) + 1 BY <1>2, <3>3, <4>2 DEF Meets
        <4> QED BY <3>5, <4>1, <4>2
      <3>7. DOMAIN returned = 1 .. Len(returned) BY <1>2
      <3> QED BY <1>2, <3>3, <3>4, <3>6, <3>7 DEF ReadsPrefix
    <2>2. CASE ~Partial
      <3>1. Readable = Len(stored) BY <1>2, <2>2 DEF Readable
      <3>2. InHand \in Seq(Entries)
        <4>1. bEntry \in Entries \/ bEntry = NoEntry BY <1>0 DEF WriterInv, WriterTypeOK
        <4> QED BY <4>1 DEF InHand
      <3>3. /\ Len(stored \o InHand) >= Len(stored)
            /\ \A n \in 1 .. Len(stored) : (stored \o InHand)[n] = stored[n]
        BY <1>2, <3>2
      <3>4. \A n \in 1 .. Len(returned) : n \in 1 .. Len(stored) BY <1>2, <3>1
      <3>5. \A n \in 1 .. Len(returned) : returned[n] = (stored \o InHand)[n]
        BY <1>2, <3>3, <3>4 DEF Meets
      <3>6. Len(stored \o InHand) \in Nat /\ DOMAIN returned = 1 .. Len(returned) BY <1>2, <3>2
      <3>7. Len(returned) <= Len(stored \o InHand) BY <1>2, <3>1, <3>3, <3>6
      <3> QED BY <3>5, <3>6, <3>7 DEF ReadsPrefix
    <2> QED BY <2>1, <2>2
  <1>5. ReadsCounted BY <1>1, <1>2, <1>3 DEF ReadsCounted, ReaderFollows
  <1>6. ClosedReadsBack
    <2> SUFFICES ASSUME finished, session = "closed"
                 PROVE  /\ result = "end" /\ returned = stored
                        /\ ReadFooter /\ FooterRecords(read_position) = Len(stored)
      BY DEF ClosedReadsBack
    <2>1. result = "end" /\ Len(returned) = Len(stored) /\ read_position = RecordsEnd
      BY <1>1 DEF ReaderFollows
    <2>2. \A n \in 1 .. Len(stored) : returned[n] = stored[n] BY <1>2, <2>1 DEF Meets
    <2>3. returned = stored BY <1>2, <2>1, <2>2
    <2>4. file[RecordsEnd] = FooterMagic /\ file[RecordsEnd + 1].a = Len(stored)
      BY <1>0, <1>3 DEF TailKnown
    <2>5. RecordsEnd + 4 <= FileWords BY <1>0, EndFacts
    <2> QED BY <2>1, <2>3, <2>4, <2>5
            DEF ReadFooter, FooterAt, FooterRecords, FILE_FOOTER_SIZE
  <1> QED BY <1>4, <1>5, <1>6 DEF ReadsBack

\* Whenever the process dies in its only session, and after a clean close, a
\* reader in any configuration returns the records of the file from the first
\* one on without a gap, all that records_written() counted, and exactly those
\* of a closed journal; for any file, ring buffer, payload sizes and calls.
THEOREM JournalReadsBack ==
  ASSUME MaxSessions = 1
  PROVE  Spec => []ReadsBack
  <1>1. JournalInv /\ [Next]_vars => JournalInv' BY JournalStep
  <1> QED BY JournalInit, <1>1, ReadsBackShown, PTL DEF Spec

=============================================================================
