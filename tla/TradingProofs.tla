------------------------- MODULE TradingProofs -------------------------
(***************************************************************************)
(* Three of the parts that MCTrading puts side by side, for any values.    *)
(*                                                                         *)
(* The lock of flash/src/book/thread_safe.rs, for any finite set of        *)
(* threads, any handles and any number of calls: readers see whole writes, *)
(* only a nested call can block the threads for good, and the statistics   *)
(* account for every call (LockSafe of SharedBook).  LockInv is the        *)
(* inductive invariant.  WriterKnown ties the lock's writer bit to the     *)
(* place of the thread that has it, GuardsKnown the number of guards to    *)
(* the place of the thread that holds them, and Exclusive says that nobody *)
(* reads once a writer is past the wait for the readers.                   *)
(*                                                                         *)
(* The order manager of flash order/manager.rs with the journal of its     *)
(* requests (OrdersRecorded of MCTrading), in the second part.             *)
(*                                                                         *)
(* The stream client of flash bindings/stream.rs (StreamExact), in the     *)
(* third.  Solo is what holds as long as one thread reads at a time.       *)
(***************************************************************************)
EXTENDS MCTrading, FiniteSetTheorems, SequenceTheorems, TLAPS

\* Where a thread that has the writer bit can be, and where it may write.
HasBit == {"drain_write", "drain_once", "count_write", "batch_bid", "batch_ask"}
Writing == {"count_write", "batch_bid", "batch_ask"}

Places == {"idle", "reading", "want_read", "want_peek", "want_write", "want_once",
           "count_read", "miss_read", "miss_write"} \cup HasBit

LockStats == [reads : Nat, writes : Nat,
              read_contention_count : Nat, write_contention_count : Nat]

\* Type correctness of what the lock is about; a side of the book may be
\* anything a write puts there.
SharedTypeOK ==
  /\ handle \in [Threads -> Handles]
  /\ pc \in [Threads -> Places]
  /\ guards \in [Threads -> Nat]
  /\ writer \in Threads \cup {NoThread}
  /\ lockStats \in [Handles -> LockStats]
  /\ calls \in [Threads -> [Kinds -> Nat]]

\* The writer bit is set for exactly the thread that is past taking it.
WriterKnown == \A t \in Threads : pc[t] \in HasBit <=> writer = t

\* A thread at rest has no guard; one that reads has.
GuardsKnown ==
  \A t \in Threads :
    /\ pc[t] = "idle" => guards[t] = 0
    /\ pc[t] \in {"reading", "count_read"} => guards[t] > 0

\* Nobody has a read guard while somebody writes.
Exclusive == \A t \in Threads : pc[t] \in Writing => Drained

\* The book is one that a completed write has left, except between the two
\* steps of a batch; what has been seen is always such a book.
WholeBook ==
  /\ shown \in settled \/ \E t \in Threads : pc[t] = "batch_ask"
  /\ \A t \in Threads : seen[t] \in settled

LockInv ==
  SharedTypeOK /\ WriterKnown /\ GuardsKnown /\ Exclusive /\ WholeBook /\ StatsAccount

-----------------------------------------------------------------------------
\* What the counting of calls rests on: how the two sets of StatsAccount grow
\* and shrink when one thread takes one step.

\* Sets of threads can be counted.
LEMMA ThreadsFinite ==
  ASSUME NEW S, S \subseteq Threads
  PROVE  IsFiniteSet(S) /\ Cardinality(S) \in Nat
BY FS_Subset, FS_CardinalityType, SharedBookAssumption

\* Sets of calls can be counted.
LEMMA CallsFinite ==
  ASSUME NEW S, S \subseteq Threads \X (1 .. MaxLockCalls)
  PROVE  IsFiniteSet(S) /\ Cardinality(S) \in Nat
<1>1. IsFiniteSet(1 .. MaxLockCalls)
  BY FS_Interval, SharedBookAssumption
<1>2. IsFiniteSet(Threads \X (1 .. MaxLockCalls))
  BY <1>1, FS_Product, SharedBookAssumption
<1>3. QED
  BY <1>2, FS_Subset, FS_CardinalityType

\* A set that gains one member, and one that loses one.
LEMMA OneMore ==
  ASSUME NEW S, NEW T, NEW x, IsFiniteSet(S), x \notin S,
         \A y : y \in T <=> y \in S \/ y = x
  PROVE  Cardinality(T) = Cardinality(S) + 1
<1>1. T = S \cup {x}
  OBVIOUS
<1>2. QED
  BY <1>1, FS_AddElement

\* A step of a thread t that leaves alone what is counted of other threads:
\* it makes a call of this kind, or ends one and counts it, or neither.
Enters(t, kind) ==
  /\ pc[t] \notin Uncounted(kind) /\ pc'[t] \in Uncounted(kind)
  /\ calls[t][kind] < MaxLockCalls
  /\ calls'[t][kind] = calls[t][kind] + 1
  /\ \A h \in Handles : Recorded(h, kind)' = Recorded(h, kind)

LeavesLock(t, kind) ==
  /\ pc[t] \in Uncounted(kind) /\ pc'[t] \notin Uncounted(kind)
  /\ calls'[t][kind] = calls[t][kind]
  /\ \A h \in Handles :
       Recorded(h, kind)' = IF h = handle[t] THEN Recorded(h, kind) + 1 ELSE Recorded(h, kind)

Passes(t, kind) ==
  /\ pc[t] \in Uncounted(kind) <=> pc'[t] \in Uncounted(kind)
  /\ calls'[t][kind] = calls[t][kind]
  /\ \A h \in Handles : Recorded(h, kind)' = Recorded(h, kind)

\* Nothing else moves.
Alone(t) ==
  /\ handle' = handle
  /\ \A u \in Threads \ {t} : pc'[u] = pc[u] /\ calls'[u] = calls[u]

\* The statistics are natural numbers.
LEMMA RecordedType ==
  ASSUME SharedTypeOK, NEW h \in Handles, NEW kind \in {"read", "write"}
  PROVE  Recorded(h, kind) \in Nat
<1>1. lockStats[h] \in LockStats
  BY DEF SharedTypeOK
<1>2. QED
  BY <1>1 DEF Recorded, LockStats

\* A call that enters is made and inside at once.
LEMMA EntersAccounts ==
  ASSUME SharedTypeOK, NEW t \in Threads, NEW kind \in {"read", "write"},
         Alone(t), Enters(t, kind), NEW h \in Handles,
         Recorded(h, kind) + Cardinality(Inside(h, kind)) = Cardinality(CallsMade(h, kind))
  PROVE  (Recorded(h, kind) + Cardinality(Inside(h, kind)) = Cardinality(CallsMade(h, kind)))'
<1> DEFINE In == Inside(h, kind)
           InN == Inside(h, kind)'
           Made == CallsMade(h, kind)
           MadeN == CallsMade(h, kind)'
<1>0. /\ kind \in Kinds /\ calls[t][kind] \in Nat
      /\ Recorded(h, kind) \in Nat /\ Recorded(h, kind)' = Recorded(h, kind)
  BY RecordedType DEF SharedTypeOK, Kinds, Enters
<1>1. /\ IsFiniteSet(In) /\ Cardinality(In) \in Nat
      /\ IsFiniteSet(Made) /\ Cardinality(Made) \in Nat
  BY ThreadsFinite, CallsFinite DEF Inside, CallsMade
<1>2. CASE handle[t] # h
  <2>1. InN = In
    BY <1>2 DEF Inside, Alone
  <2>2. MadeN = Made
    BY <1>2 DEF CallsMade, Alone
  <2>3. QED
    BY <1>0, <2>1, <2>2
<1>3. CASE handle[t] = h
  <2>1. \A u : u \in InN <=> u \in In \/ u = t
    BY <1>3 DEF Inside, Alone, Enters
  <2>2. t \notin In
    BY DEF Inside, Enters
  <2>3. Cardinality(InN) = Cardinality(In) + 1
    BY <1>1, <2>1, <2>2, OneMore
  <2> DEFINE new == <<t, calls[t][kind] + 1>>
  <2>4. new \in Threads \X (1 .. MaxLockCalls)
    BY <1>0, SharedBookAssumption DEF Enters
  <2>5. new \notin Made
    BY <1>0 DEF CallsMade
  <2>6. ASSUME NEW c \in Threads \X (1 .. MaxLockCalls)
        PROVE  c \in MadeN <=> c \in Made \/ c = new
    <3>1. CASE c[1] = t
      <4>1. c = <<t, c[2]>> /\ c[2] \in Int
        BY <3>1
      <4>2. c[2] <= calls[t][kind] + 1 <=> c[2] <= calls[t][kind] \/ c[2] = calls[t][kind] + 1
        BY <1>0, <4>1
      <4>3. c \in MadeN <=> c[2] <= calls[t][kind] + 1
        BY <1>3, <3>1 DEF CallsMade, Alone, Enters
      <4>4. c \in Made <=> c[2] <= calls[t][kind]
        BY <1>3, <3>1 DEF CallsMade
      <4>5. QED
        BY <4>1, <4>2, <4>3, <4>4
    <3>2. CASE c[1] # t
      <4>1. c \in MadeN <=> c \in Made
        BY <3>2 DEF CallsMade, Alone
      <4>2. QED
        BY <3>2, <4>1
    <3>3. QED
      BY <3>1, <3>2
  <2>7. \A c : c \in MadeN <=> c \in Made \/ c = new
    BY <2>4, <2>6 DEF CallsMade
  <2>8. Cardinality(MadeN) = Cardinality(Made) + 1
    <3> HIDE DEF Made, MadeN, new
    <3> QED
      BY <1>1, <2>5, <2>7, OneMore
  <2>9. QED
    BY <1>0, <1>1, <2>3, <2>8
<1>4. QED
  BY <1>2, <1>3

\* A call that moves on inside is counted as before.
LEMMA PassesAccounts ==
  ASSUME NEW t \in Threads, NEW kind \in {"read", "write"},
         Alone(t), Passes(t, kind), NEW h \in Handles,
         Recorded(h, kind) + Cardinality(Inside(h, kind)) = Cardinality(CallsMade(h, kind))
  PROVE  (Recorded(h, kind) + Cardinality(Inside(h, kind)) = Cardinality(CallsMade(h, kind)))'
<1>1. Inside(h, kind)' = Inside(h, kind)
  BY DEF Inside, Alone, Passes
<1>2. CallsMade(h, kind)' = CallsMade(h, kind)
  BY DEF CallsMade, Alone, Passes
<1>3. Recorded(h, kind)' = Recorded(h, kind)
  BY DEF Passes
<1>4. QED
  BY <1>1, <1>2, <1>3

\* A call that leaves is recorded as it goes.
LEMMA LeavesAccounts ==
  ASSUME SharedTypeOK, NEW t \in Threads, NEW kind \in {"read", "write"},
         Alone(t), LeavesLock(t, kind), NEW h \in Handles,
         Recorded(h, kind) + Cardinality(Inside(h, kind)) = Cardinality(CallsMade(h, kind))
  PROVE  (Recorded(h, kind) + Cardinality(Inside(h, kind)) = Cardinality(CallsMade(h, kind)))'
<1> DEFINE In == Inside(h, kind)
           InN == Inside(h, kind)'
<1>0. /\ Recorded(h, kind) \in Nat
      /\ Recorded(h, kind)' = IF h = handle[t] THEN Recorded(h, kind) + 1 ELSE Recorded(h, kind)
  BY RecordedType DEF LeavesLock
<1>1. CallsMade(h, kind)' = CallsMade(h, kind)
  BY DEF CallsMade, Alone, LeavesLock
<1>2. CASE handle[t] # h
  <2>1. InN = In
    BY <1>2 DEF Inside, Alone
  <2>2. QED
    BY <1>0, <1>1, <1>2, <2>1
<1>3. CASE handle[t] = h
  <2>1. \A u : u \in In <=> u \in InN \/ u = t
    BY <1>3 DEF Inside, Alone, LeavesLock
  <2>2. t \notin InN
    BY DEF Inside, LeavesLock
  <2>3. IsFiniteSet(InN) /\ Cardinality(InN) \in Nat
    BY ThreadsFinite DEF Inside
  <2>4. Cardinality(In) = Cardinality(InN) + 1
    BY <2>1, <2>2, <2>3, OneMore
  <2>5. QED
    BY <1>0, <1>1, <1>3, <2>3, <2>4
<1>4. QED
  BY <1>2, <1>3

\* Counting a call: the field's kind of the thread's handle shows one more.
LEMMA CountedRecords ==
  ASSUME SharedTypeOK, NEW t \in Threads,
         NEW field \in {"reads", "read_contention_count", "writes", "write_contention_count"},
         Counted(t, field)
  PROVE  /\ lockStats' \in [Handles -> LockStats]
         /\ \A h \in Handles, kind \in {"read", "write"} :
              Recorded(h, kind)' =
                IF h = handle[t] /\ (kind = "read" <=> field \in {"reads", "read_contention_count"})
                THEN Recorded(h, kind) + 1 ELSE Recorded(h, kind)
<1>1. handle[t] \in Handles /\ lockStats \in [Handles -> LockStats]
  BY DEF SharedTypeOK
<1>2. lockStats' = [lockStats EXCEPT ![handle[t]] =
        [lockStats[handle[t]] EXCEPT ![field] = lockStats[handle[t]][field] + 1]]
  BY DEF Counted
<1>3. [lockStats[handle[t]] EXCEPT ![field] = lockStats[handle[t]][field] + 1] \in LockStats
  BY <1>1 DEF LockStats
<1>4. lockStats' \in [Handles -> LockStats]
  BY <1>1, <1>2, <1>3
<1>5. ASSUME NEW h \in Handles, NEW kind \in {"read", "write"}
      PROVE  Recorded(h, kind)' =
               IF h = handle[t] /\ (kind = "read" <=> field \in {"reads", "read_contention_count"})
               THEN Recorded(h, kind) + 1 ELSE Recorded(h, kind)
  <2>1. CASE h # handle[t]
    BY <1>1, <1>2, <2>1 DEF Recorded
  <2>2. CASE h = handle[t]
    <3>1. lockStats'[h] = [lockStats[h] EXCEPT ![field] = @ + 1] /\ lockStats[h] \in LockStats
      BY <1>1, <1>2, <2>2
    <3>2. QED
      BY <2>2, <3>1 DEF Recorded, LockStats
  <2>3. QED
    BY <2>1, <2>2
<1>6. QED
  BY <1>4, <1>5

\* Steps that leave the statistics alone record nothing.
LEMMA NotRecorded ==
  ASSUME lockStats' = lockStats
  PROVE  \A h \in Handles, kind \in {"read", "write"} : Recorded(h, kind)' = Recorded(h, kind)
BY DEF Recorded

\* A call that is made.
LEMMA CalledOnce ==
  ASSUME SharedTypeOK, NEW t \in Threads, NEW kind \in Kinds, MayCall(t), Called(t, kind)
  PROVE  /\ calls' \in [Threads -> [Kinds -> Nat]]
         /\ \A u \in Threads \ {t} : calls'[u] = calls[u]
         /\ calls'[t][kind] = calls[t][kind] + 1
         /\ \A k \in Kinds \ {kind} : calls'[t][k] = calls[t][k]
         /\ calls[t][kind] < MaxLockCalls
<1>1. calls[t] \in [Kinds -> Nat] /\ calls \in [Threads -> [Kinds -> Nat]]
  BY DEF SharedTypeOK
<1>2. calls' = [calls EXCEPT ![t] = [calls[t] EXCEPT ![kind] = calls[t][kind] + 1]]
  BY DEF Called
<1>3. [calls[t] EXCEPT ![kind] = @ + 1] \in [Kinds -> Nat]
  BY <1>1
<1>4. calls' \in [Threads -> [Kinds -> Nat]]
  BY <1>1, <1>2, <1>3
<1>5. /\ \A u \in Threads \ {t} : calls'[u] = calls[u]
      /\ calls'[t] = [calls[t] EXCEPT ![kind] = @ + 1]
  BY <1>1, <1>2
<1>6. /\ calls'[t][kind] = calls[t][kind] + 1
      /\ \A k \in Kinds \ {kind} : calls'[t][k] = calls[t][k]
  BY <1>1, <1>5
<1>7. calls[t][kind] < MaxLockCalls
  BY <1>1, SharedBookAssumption DEF MayCall, Kinds
<1>8. QED
  BY <1>4, <1>5, <1>6, <1>7

-----------------------------------------------------------------------------
\* The step of the statistics: every action makes, ends or passes by a call
\* of either kind.
Accounted(t) ==
  \A kind \in {"read", "write"} : Enters(t, kind) \/ LeavesLock(t, kind) \/ Passes(t, kind)

\* A step of one thread keeps every account.
LEMMA AccountedStep ==
  ASSUME SharedTypeOK, StatsAccount, NEW t \in Threads, Alone(t), Accounted(t)
  PROVE  StatsAccount'
<1> SUFFICES ASSUME NEW h \in Handles, NEW kind \in {"read", "write"}
             PROVE (Recorded(h, kind) + Cardinality(Inside(h, kind))
                      = Cardinality(CallsMade(h, kind)))'
  BY DEF StatsAccount
<1>1. Recorded(h, kind) + Cardinality(Inside(h, kind)) = Cardinality(CallsMade(h, kind))
  BY DEF StatsAccount
<1>2. Enters(t, kind) \/ LeavesLock(t, kind) \/ Passes(t, kind)
  BY DEF Accounted
<1>3. QED
  BY <1>1, <1>2, EntersAccounts, LeavesAccounts, PassesAccounts

\* The start of a call is one of these steps.
LEMMA CallAccounts ==
  ASSUME SharedTypeOK, NEW t \in Threads, NEW kind \in Kinds, Call(t, kind)
  PROVE  Alone(t) /\ Accounted(t) /\ SharedTypeOK'
<1> DEFINE next == [read |-> "want_read", peek |-> "want_peek",
                    write |-> "want_write", once |-> "want_once"][kind]
<1>1. /\ pc[t] \in {"idle", "reading"} /\ pc' = [pc EXCEPT ![t] = next]
      /\ MayCall(t) /\ Called(t, kind)
      /\ handle' = handle /\ lockStats' = lockStats /\ writer' = writer /\ guards' = guards
  BY DEF Call, Goto, MayCall
<1>2. next \in {"want_read", "want_peek", "want_write", "want_once"} /\ next \in Places
  BY DEF Kinds, Places
<1>3. /\ \A k \in {"read", "write"} : next \in Uncounted(k) <=> k = kind
      /\ \A k \in {"read", "write"} : pc[t] \notin Uncounted(k)
  BY <1>1 DEF Kinds, Uncounted
<1> HIDE DEF next
<1>4. /\ pc' \in [Threads -> Places] /\ pc'[t] = next
      /\ \A u \in Threads \ {t} : pc'[u] = pc[u]
  BY <1>1, <1>2 DEF SharedTypeOK
<1>5. SharedTypeOK'
  BY <1>1, <1>4, CalledOnce DEF SharedTypeOK
<1>6. Alone(t)
  BY <1>1, <1>4, CalledOnce DEF Alone
<1>7. ASSUME NEW k \in {"read", "write"} PROVE Enters(t, k) \/ Passes(t, k)
  <2>1. k \in Kinds /\ \A h \in Handles : Recorded(h, k)' = Recorded(h, k)
    BY <1>1, NotRecorded DEF Kinds
  <2>2. CASE k = kind
    BY <1>1, <1>3, <1>4, <2>1, <2>2, CalledOnce DEF Enters
  <2>3. CASE k # kind
    BY <1>1, <1>3, <1>4, <2>1, <2>3, CalledOnce DEF Passes
  <2>4. QED
    BY <2>2, <2>3
<1>8. QED
  BY <1>5, <1>6, <1>7 DEF Accounted

\* try_read and try_write make a call and end their attempt at once.
LEMMA TryAccounts ==
  ASSUME SharedTypeOK, NEW t \in Threads, NEW kind \in {"read", "write"},
         NEW next \in Uncounted(kind),
         MayCall(t), Called(t, kind), Goto(t, next), next \in Places,
         handle' = handle, lockStats' = lockStats
  PROVE  /\ Alone(t) /\ Accounted(t)
         /\ pc' \in [Threads -> Places] /\ calls' \in [Threads -> [Kinds -> Nat]]
<1>1. kind \in Kinds /\ pc[t] \in {"idle", "reading"}
  BY DEF Kinds, MayCall
<1>2. /\ pc' \in [Threads -> Places] /\ pc'[t] = next
      /\ \A u \in Threads \ {t} : pc'[u] = pc[u]
  BY DEF SharedTypeOK, Goto
<1>3. /\ \A k \in {"read", "write"} : next \in Uncounted(k) <=> k = kind
      /\ \A k \in {"read", "write"} : pc[t] \notin Uncounted(k)
  BY <1>1 DEF Uncounted
<1>4. Alone(t)
  BY <1>1, <1>2, CalledOnce DEF Alone
<1>5. ASSUME NEW k \in {"read", "write"} PROVE Enters(t, k) \/ Passes(t, k)
  <2>1. k \in Kinds /\ \A h \in Handles : Recorded(h, k)' = Recorded(h, k)
    BY NotRecorded DEF Kinds
  <2>2. CASE k = kind
    BY <1>1, <1>3, <1>2, <2>1, <2>2, CalledOnce DEF Enters
  <2>3. CASE k # kind
    BY <1>1, <1>3, <1>2, <2>1, <2>3, CalledOnce DEF Passes
  <2>4. QED
    BY <2>2, <2>3
<1>6. QED
  BY <1>1, <1>2, <1>4, <1>5, CalledOnce DEF Accounted

\* A step that is neither a call nor the count of one.
LEMMA MoveAccounts ==
  ASSUME SharedTypeOK, NEW t \in Threads, NEW next \in Places, Goto(t, next),
         handle' = handle, lockStats' = lockStats, calls' = calls,
         \A k \in {"read", "write"} : pc[t] \in Uncounted(k) <=> next \in Uncounted(k)
  PROVE  Alone(t) /\ Accounted(t) /\ pc' \in [Threads -> Places]
<1>1. /\ pc' \in [Threads -> Places] /\ pc'[t] = next
      /\ \A u \in Threads \ {t} : pc'[u] = pc[u]
  BY DEF SharedTypeOK, Goto
<1>2. Alone(t)
  BY <1>1 DEF Alone
<1>3. ASSUME NEW k \in {"read", "write"} PROVE Passes(t, k)
  BY <1>1, NotRecorded DEF Passes
<1>4. QED
  BY <1>1, <1>2, <1>3 DEF Accounted

\* The end of a counted call.
LEMMA CountAccounts ==
  ASSUME SharedTypeOK, NEW t \in Threads, NEW next \in {"idle", "reading", "batch_bid"},
         NEW kind \in {"read", "write"},
         NEW field \in IF kind = "read" THEN {"reads", "read_contention_count"}
                       ELSE {"writes", "write_contention_count"},
         pc[t] \in Uncounted(kind), Goto(t, next), Counted(t, field),
         handle' = handle, calls' = calls
  PROVE  /\ Alone(t) /\ Accounted(t)
         /\ pc' \in [Threads -> Places] /\ lockStats' \in [Handles -> LockStats]
<1>1. /\ pc' \in [Threads -> Places] /\ pc'[t] = next
      /\ \A u \in Threads \ {t} : pc'[u] = pc[u]
  BY DEF SharedTypeOK, Goto, Places, HasBit
<1>2. Alone(t)
  BY <1>1 DEF Alone
<1>3. /\ field \in {"reads", "read_contention_count", "writes", "write_contention_count"}
      /\ kind = "read" <=> field \in {"reads", "read_contention_count"}
  OBVIOUS
<1>4. ASSUME NEW k \in {"read", "write"} PROVE LeavesLock(t, k) \/ Passes(t, k)
  <2>1. CASE k = kind
    <3>1. pc'[t] \notin Uncounted(k)
      BY <1>1 DEF Uncounted
    <3>2. QED
      BY <1>1, <1>3, <2>1, <3>1, CountedRecords DEF LeavesLock
  <2>2. CASE k # kind
    <3>1. pc'[t] \notin Uncounted(k) /\ pc[t] \notin Uncounted(k)
      BY <1>1, <2>2 DEF Uncounted
    <3>2. QED
      BY <1>1, <1>3, <2>2, <3>1, CountedRecords DEF Passes
  <2>3. QED
    BY <2>1, <2>2
<1>5. QED
  BY <1>1, <1>2, <1>3, <1>4, CountedRecords DEF Accounted

-----------------------------------------------------------------------------
\* One step per action.  In each, the place of one thread changes; what that
\* does to the statistics is the matter of the lemmas above.
LEMMA LockInvStep == LockInv /\ [SharedNext]_sharedVars => LockInv'
<1> SUFFICES ASSUME LockInv, [SharedNext]_sharedVars PROVE LockInv'
  OBVIOUS
<1>0. /\ SharedTypeOK /\ WriterKnown /\ GuardsKnown /\ Exclusive /\ WholeBook /\ StatsAccount
      /\ \A t \in Threads : pc[t] \in Places /\ guards[t] \in Nat /\ t # NoThread
  BY SharedBookAssumption DEF LockInv, SharedTypeOK
<1>1. ASSUME NEW t \in Threads, NEW kind \in Kinds, Call(t, kind) PROVE LockInv'
  <2>1. SharedTypeOK' /\ StatsAccount'
    BY <1>0, <1>1, CallAccounts, AccountedStep
  <2>2. /\ pc[t] \in {"idle", "reading"}
        /\ pc'[t] \in {"want_read", "want_peek", "want_write", "want_once"}
        /\ \A u \in Threads \ {t} : pc'[u] = pc[u]
        /\ guards' = guards /\ writer' = writer /\ shown' = shown
        /\ settled' = settled /\ seen' = seen
    BY <1>0, <1>1 DEF Call, MayCall, Goto, SharedTypeOK, Kinds
  <2>3. WriterKnown'
    BY <1>0, <2>2 DEF WriterKnown, HasBit
  <2>4. GuardsKnown' /\ Exclusive'
    BY <1>0, <2>2 DEF GuardsKnown, Exclusive, Writing, Drained
  <2>5. WholeBook'
    BY <1>0, <2>2 DEF WholeBook
  <2>6. QED
    BY <2>1, <2>3, <2>4, <2>5 DEF LockInv
<1>2. ASSUME NEW t \in Threads, try_read(t) PROVE LockInv'
  <2> DEFINE next == IF Closed THEN "miss_read" ELSE "count_read"
  <2>1. /\ Goto(t, next) /\ MayCall(t) /\ Called(t, "read")
        /\ handle' = handle /\ lockStats' = lockStats /\ writer' = writer
        /\ shown' = shown /\ settled' = settled /\ seen' = seen
        /\ guards' = IF Closed THEN guards ELSE [guards EXCEPT ![t] = guards[t] + 1]
    BY <1>2 DEF try_read
  <2>2. next \in Uncounted("read") /\ next \in Places
    BY DEF Uncounted, Places
  <2>3. /\ Alone(t) /\ Accounted(t)
        /\ pc' \in [Threads -> Places] /\ calls' \in [Threads -> [Kinds -> Nat]]
    <3> HIDE DEF next
    <3> QED BY <1>0, <2>1, <2>2, TryAccounts
  <2>4. guards' \in [Threads -> Nat]
    BY <2>1 DEF LockInv, SharedTypeOK
  <2>5. SharedTypeOK' /\ StatsAccount'
    BY <1>0, <2>1, <2>3, <2>4, AccountedStep DEF SharedTypeOK
  <2>6. /\ pc[t] \in {"idle", "reading"} /\ pc'[t] = next
        /\ \A u \in Threads \ {t} : pc'[u] = pc[u] /\ guards'[u] = guards[u]
        /\ Closed => guards'[t] = guards[t]
        /\ ~Closed => guards'[t] = guards[t] + 1
    BY <1>0, <2>1 DEF MayCall, Goto, SharedTypeOK
  <2>7. WriterKnown'
    BY <1>0, <2>1, <2>6 DEF WriterKnown, HasBit
  <2>8. GuardsKnown'
    BY <1>0, <2>6 DEF GuardsKnown
  <2>9. Exclusive'
    <3>1. CASE Closed
      BY <1>0, <2>1, <2>6, <3>1 DEF Exclusive, Writing, Drained
    <3>2. CASE ~Closed
      BY <1>0, <2>6, <3>2 DEF Exclusive, Writing, WriterKnown, HasBit, Closed
    <3>3. QED
      BY <3>1, <3>2
  <2>10. WholeBook'
    BY <1>0, <2>1, <2>6 DEF WholeBook
  <2>11. QED
    BY <2>5, <2>7, <2>8, <2>9, <2>10 DEF LockInv
<1>3. ASSUME NEW t \in Threads, try_write(t) PROVE LockInv'
  <2> DEFINE next == IF Busy THEN "miss_write" ELSE "count_write"
  <2>1. /\ Goto(t, next) /\ MayCall(t) /\ Called(t, "write")
        /\ handle' = handle /\ lockStats' = lockStats /\ guards' = guards
        /\ shown' = shown /\ settled' = settled /\ seen' = seen
        /\ writer' = IF Busy THEN writer ELSE t
    BY <1>3 DEF try_write
  <2>2. next \in Uncounted("write") /\ next \in Places
    BY DEF Uncounted, Places, HasBit
  <2>3. /\ Alone(t) /\ Accounted(t)
        /\ pc' \in [Threads -> Places] /\ calls' \in [Threads -> [Kinds -> Nat]]
    <3> HIDE DEF next
    <3> QED BY <1>0, <2>1, <2>2, TryAccounts
  <2>4. SharedTypeOK' /\ StatsAccount'
    BY <1>0, <2>1, <2>3, AccountedStep DEF SharedTypeOK
  <2>5. /\ pc[t] \in {"idle", "reading"} /\ pc'[t] = next
        /\ \A u \in Threads \ {t} : pc'[u] = pc[u]
    BY <1>0, <2>1 DEF MayCall, Goto, SharedTypeOK
  <2>6. WriterKnown' /\ Exclusive'
    <3>1. CASE Busy
      BY <1>0, <2>1, <2>5, <3>1 DEF WriterKnown, Exclusive, HasBit, Writing, Drained
    <3>2. CASE ~Busy
      <4>1. writer = NoThread /\ \A u \in Threads : guards[u] = 0
        BY <1>0, <3>2 DEF Busy, Closed
      <4>2. QED
        BY <1>0, <2>1, <2>5, <3>2, <4>1 DEF WriterKnown, Exclusive, HasBit, Writing, Drained
    <3>3. QED
      BY <3>1, <3>2
  <2>7. GuardsKnown'
    BY <1>0, <2>1, <2>5 DEF GuardsKnown
  <2>8. WholeBook'
    BY <1>0, <2>1, <2>5 DEF WholeBook
  <2>9. QED
    BY <2>4, <2>6, <2>7, <2>8 DEF LockInv
<1>4. ASSUME NEW t \in Threads, TakeRead(t) PROVE LockInv'
  <2>1. /\ pc[t] = "want_read" /\ Goto(t, "count_read") /\ writer = NoThread
        /\ guards' = [guards EXCEPT ![t] = guards[t] + 1]
        /\ handle' = handle /\ lockStats' = lockStats /\ calls' = calls /\ writer' = writer
        /\ shown' = shown /\ settled' = settled /\ seen' = seen
    BY <1>4 DEF TakeRead, Closed
  <2>2. \A k \in {"read", "write"} : pc[t] \in Uncounted(k) <=> "count_read" \in Uncounted(k)
    BY <2>1 DEF Uncounted
  <2>3. "count_read" \in Places /\ guards' \in [Threads -> Nat]
    BY <2>1 DEF Places, LockInv, SharedTypeOK
  <2>4. Alone(t) /\ Accounted(t) /\ pc' \in [Threads -> Places]
    BY <1>0, <2>1, <2>2, <2>3, MoveAccounts
  <2>5. SharedTypeOK' /\ StatsAccount'
    BY <1>0, <2>1, <2>3, <2>4, AccountedStep DEF SharedTypeOK
  <2>6. /\ pc'[t] = "count_read" /\ guards'[t] = guards[t] + 1
        /\ \A u \in Threads \ {t} : pc'[u] = pc[u] /\ guards'[u] = guards[u]
    BY <1>0, <2>1 DEF Goto, SharedTypeOK
  <2>7. WriterKnown' /\ Exclusive'
    BY <1>0, <2>1, <2>6 DEF WriterKnown, Exclusive, HasBit, Writing
  <2>8. GuardsKnown' /\ WholeBook'
    BY <1>0, <2>1, <2>6 DEF GuardsKnown, WholeBook
  <2>9. QED
    BY <2>5, <2>7, <2>8 DEF LockInv
<1>5. ASSUME NEW t \in Threads, CountRead(t) PROVE LockInv'
  <2>1. /\ pc[t] = "count_read" /\ Goto(t, "reading") /\ Counted(t, "reads")
        /\ handle' = handle /\ guards' = guards /\ calls' = calls /\ writer' = writer
        /\ shown' = shown /\ settled' = settled /\ seen' = seen
    BY <1>5 DEF CountRead
  <2>2. /\ Alone(t) /\ Accounted(t)
        /\ pc' \in [Threads -> Places] /\ lockStats' \in [Handles -> LockStats]
    BY <1>0, <2>1, CountAccounts DEF Uncounted
  <2>3. SharedTypeOK' /\ StatsAccount'
    BY <1>0, <2>1, <2>2, AccountedStep DEF SharedTypeOK
  <2>4. pc'[t] = "reading" /\ \A u \in Threads \ {t} : pc'[u] = pc[u]
    BY <1>0, <2>1 DEF Goto, SharedTypeOK
  <2>5. WriterKnown' /\ Exclusive'
    BY <1>0, <2>1, <2>4 DEF WriterKnown, Exclusive, HasBit, Writing, Drained
  <2>6. GuardsKnown' /\ WholeBook'
    BY <1>0, <2>1, <2>4 DEF GuardsKnown, WholeBook
  <2>7. QED
    BY <2>3, <2>5, <2>6 DEF LockInv
<1>6. ASSUME NEW t \in Threads, DropRead(t) PROVE LockInv'
  <2> DEFINE next == IF guards[t] = 1 THEN "idle" ELSE "reading"
  <2>1. /\ pc[t] = "reading" /\ Goto(t, next)
        /\ guards' = [guards EXCEPT ![t] = guards[t] - 1]
        /\ handle' = handle /\ lockStats' = lockStats /\ calls' = calls /\ writer' = writer
        /\ shown' = shown /\ settled' = settled /\ seen' = seen
    BY <1>6 DEF DropRead
  <2>2. /\ \A k \in {"read", "write"} : pc[t] \in Uncounted(k) <=> next \in Uncounted(k)
        /\ next \in Places
    BY <2>1 DEF Uncounted, Places
  <2>3. guards[t] > 0 /\ guards' \in [Threads -> Nat]
    BY <1>0, <2>1 DEF GuardsKnown, SharedTypeOK
  <2>4. Alone(t) /\ Accounted(t) /\ pc' \in [Threads -> Places]
    <3> HIDE DEF next
    <3> QED BY <1>0, <2>1, <2>2, MoveAccounts
  <2>5. SharedTypeOK' /\ StatsAccount'
    BY <1>0, <2>1, <2>3, <2>4, AccountedStep DEF SharedTypeOK
  <2>6. /\ pc'[t] = next /\ guards'[t] = guards[t] - 1
        /\ \A u \in Threads \ {t} : pc'[u] = pc[u] /\ guards'[u] = guards[u]
    BY <1>0, <2>1 DEF Goto, SharedTypeOK
  <2>7. WriterKnown' /\ Exclusive'
    BY <1>0, <2>1, <2>3, <2>6 DEF WriterKnown, Exclusive, HasBit, Writing, Drained
  <2>8. GuardsKnown' /\ WholeBook'
    BY <1>0, <2>1, <2>3, <2>6 DEF GuardsKnown, WholeBook
  <2>9. QED
    BY <2>5, <2>7, <2>8 DEF LockInv
<1>7. ASSUME NEW t \in Threads, CountMiss(t) PROVE LockInv'
  <2>1. PICK kind \in {"read", "write"} :
             /\ pc[t] = (IF kind = "read" THEN "miss_read" ELSE "miss_write")
             /\ Missed(t, kind)
    BY <1>7 DEF CountMiss
  <2> DEFINE next == IF guards[t] = 0 THEN "idle" ELSE "reading"
             field == IF kind = "read" THEN "read_contention_count" ELSE "write_contention_count"
  <2>2. /\ Goto(t, next) /\ Counted(t, field)
        /\ handle' = handle /\ guards' = guards /\ calls' = calls /\ writer' = writer
        /\ shown' = shown /\ settled' = settled /\ seen' = seen
    BY <1>7, <2>1 DEF CountMiss, Missed
  <2>3. /\ next \in {"idle", "reading", "batch_bid"} /\ pc[t] \in Uncounted(kind)
        /\ field \in IF kind = "read" THEN {"reads", "read_contention_count"}
                     ELSE {"writes", "write_contention_count"}
    BY <2>1 DEF Uncounted
  <2>4. /\ Alone(t) /\ Accounted(t)
        /\ pc' \in [Threads -> Places] /\ lockStats' \in [Handles -> LockStats]
    <3> HIDE DEF next, field
    <3> QED BY <1>0, <2>2, <2>3, CountAccounts
  <2>5. SharedTypeOK' /\ StatsAccount'
    BY <1>0, <2>2, <2>4, AccountedStep DEF SharedTypeOK
  <2>6. pc'[t] = next /\ \A u \in Threads \ {t} : pc'[u] = pc[u]
    BY <1>0, <2>2 DEF Goto, SharedTypeOK
  <2>7. WriterKnown' /\ Exclusive'
    BY <1>0, <2>1, <2>2, <2>6 DEF WriterKnown, Exclusive, HasBit, Writing, Drained
  <2>8. GuardsKnown' /\ WholeBook'
    BY <1>0, <2>1, <2>2, <2>6 DEF GuardsKnown, WholeBook
  <2>9. QED
    BY <2>5, <2>7, <2>8 DEF LockInv
<1>8. ASSUME NEW t \in Threads, TakeWriterBit(t) PROVE LockInv'
  <2> DEFINE next == IF pc[t] = "want_write" THEN "drain_write" ELSE "drain_once"
  <2>1. /\ pc[t] \in {"want_write", "want_once"} /\ Goto(t, next) /\ writer = NoThread
        /\ writer' = t /\ guards' = guards
        /\ handle' = handle /\ lockStats' = lockStats /\ calls' = calls
        /\ shown' = shown /\ settled' = settled /\ seen' = seen
    BY <1>8 DEF TakeWriterBit, Closed
  <2>2. /\ \A k \in {"read", "write"} : pc[t] \in Uncounted(k) <=> next \in Uncounted(k)
        /\ next \in Places
    BY <2>1 DEF Uncounted, Places, HasBit
  <2>3. Alone(t) /\ Accounted(t) /\ pc' \in [Threads -> Places]
    <3> HIDE DEF next
    <3> QED BY <1>0, <2>1, <2>2, MoveAccounts
  <2>4. SharedTypeOK' /\ StatsAccount'
    BY <1>0, <2>1, <2>3, AccountedStep DEF SharedTypeOK
  <2>5. pc'[t] = next /\ \A u \in Threads \ {t} : pc'[u] = pc[u]
    BY <1>0, <2>1 DEF Goto, SharedTypeOK
  <2>6. WriterKnown' /\ Exclusive'
    BY <1>0, <2>1, <2>5 DEF WriterKnown, Exclusive, HasBit, Writing, Drained
  <2>7. GuardsKnown' /\ WholeBook'
    BY <1>0, <2>1, <2>5 DEF GuardsKnown, WholeBook
  <2>8. QED
    BY <2>4, <2>6, <2>7 DEF LockInv
<1>9. ASSUME NEW t \in Threads, TakeWrite(t) PROVE LockInv'
  <2>1. /\ pc[t] = "drain_write" /\ Goto(t, "count_write") /\ Drained
        /\ writer' = writer /\ guards' = guards
        /\ handle' = handle /\ lockStats' = lockStats /\ calls' = calls
        /\ shown' = shown /\ settled' = settled /\ seen' = seen
    BY <1>9 DEF TakeWrite
  <2>2. /\ \A k \in {"read", "write"} : pc[t] \in Uncounted(k) <=> "count_write" \in Uncounted(k)
        /\ "count_write" \in Places
    BY <2>1 DEF Uncounted, Places, HasBit
  <2>3. Alone(t) /\ Accounted(t) /\ pc' \in [Threads -> Places]
    BY <1>0, <2>1, <2>2, MoveAccounts
  <2>4. SharedTypeOK' /\ StatsAccount'
    BY <1>0, <2>1, <2>3, AccountedStep DEF SharedTypeOK
  <2>5. pc'[t] = "count_write" /\ \A u \in Threads \ {t} : pc'[u] = pc[u]
    BY <1>0, <2>1 DEF Goto, SharedTypeOK
  <2>6. WriterKnown' /\ Exclusive'
    BY <1>0, <2>1, <2>5 DEF WriterKnown, Exclusive, HasBit, Writing, Drained
  <2>7. GuardsKnown' /\ WholeBook'
    BY <1>0, <2>1, <2>5 DEF GuardsKnown, WholeBook
  <2>8. QED
    BY <2>4, <2>6, <2>7 DEF LockInv
<1>10. ASSUME NEW t \in Threads, CountWrite(t) PROVE LockInv'
  <2>1. /\ pc[t] = "count_write" /\ Goto(t, "batch_bid") /\ Counted(t, "writes")
        /\ handle' = handle /\ guards' = guards /\ calls' = calls /\ writer' = writer
        /\ shown' = shown /\ settled' = settled /\ seen' = seen
    BY <1>10 DEF CountWrite
  <2>2. /\ Alone(t) /\ Accounted(t)
        /\ pc' \in [Threads -> Places] /\ lockStats' \in [Handles -> LockStats]
    BY <1>0, <2>1, CountAccounts DEF Uncounted
  <2>3. SharedTypeOK' /\ StatsAccount'
    BY <1>0, <2>1, <2>2, AccountedStep DEF SharedTypeOK
  <2>4. pc'[t] = "batch_bid" /\ \A u \in Threads \ {t} : pc'[u] = pc[u]
    BY <1>0, <2>1 DEF Goto, SharedTypeOK
  <2>5. WriterKnown' /\ Exclusive'
    BY <1>0, <2>1, <2>4 DEF WriterKnown, Exclusive, HasBit, Writing, Drained
  <2>6. GuardsKnown' /\ WholeBook'
    BY <1>0, <2>1, <2>4 DEF GuardsKnown, WholeBook
  <2>7. QED
    BY <2>3, <2>5, <2>6 DEF LockInv
<1>11. ASSUME NEW t \in Threads, BatchBid(t) PROVE LockInv'
  <2>1. /\ pc[t] = "batch_bid" /\ Goto(t, "batch_ask")
        /\ writer' = writer /\ guards' = guards
        /\ handle' = handle /\ lockStats' = lockStats /\ calls' = calls
        /\ settled' = settled /\ seen' = seen
    BY <1>11 DEF BatchBid
  <2>2. /\ \A k \in {"read", "write"} : pc[t] \in Uncounted(k) <=> "batch_ask" \in Uncounted(k)
        /\ "batch_ask" \in Places
    BY <2>1 DEF Uncounted, Places, HasBit
  <2>3. Alone(t) /\ Accounted(t) /\ pc' \in [Threads -> Places]
    BY <1>0, <2>1, <2>2, MoveAccounts
  <2>4. SharedTypeOK' /\ StatsAccount'
    BY <1>0, <2>1, <2>3, AccountedStep DEF SharedTypeOK
  <2>5. pc'[t] = "batch_ask" /\ \A u \in Threads \ {t} : pc'[u] = pc[u]
    BY <1>0, <2>1 DEF Goto, SharedTypeOK
  <2>6. WriterKnown' /\ Exclusive'
    BY <1>0, <2>1, <2>5 DEF WriterKnown, Exclusive, HasBit, Writing, Drained
  <2>7. GuardsKnown' /\ WholeBook'
    BY <1>0, <2>1, <2>5 DEF GuardsKnown, WholeBook
  <2>8. QED
    BY <2>4, <2>6, <2>7 DEF LockInv
<1>12. ASSUME NEW t \in Threads, BatchAsk(t) \/ WriteOnce(t) PROVE LockInv'
  <2>1. /\ pc[t] \in {"batch_ask", "drain_once"} /\ Goto(t, "idle")
        /\ writer' = NoThread /\ guards' = guards
        /\ handle' = handle /\ lockStats' = lockStats /\ calls' = calls
        /\ shown' \in settled' /\ settled \subseteq settled' /\ seen' = seen
    BY <1>12 DEF BatchAsk, WriteOnce
  <2>2. /\ \A k \in {"read", "write"} : pc[t] \in Uncounted(k) <=> "idle" \in Uncounted(k)
        /\ "idle" \in Places
    BY <2>1 DEF Uncounted, Places
  <2>3. Alone(t) /\ Accounted(t) /\ pc' \in [Threads -> Places]
    BY <1>0, <2>1, <2>2, MoveAccounts
  <2>4. SharedTypeOK' /\ StatsAccount'
    BY <1>0, <2>1, <2>3, AccountedStep DEF SharedTypeOK
  <2>5. pc'[t] = "idle" /\ \A u \in Threads \ {t} : pc'[u] = pc[u]
    BY <1>0, <2>1 DEF Goto, SharedTypeOK
  <2>6. writer = t /\ Drained
    BY <1>0, <1>12, <2>1 DEF WriterKnown, Exclusive, HasBit, Writing, BatchAsk, WriteOnce
  <2>7. WriterKnown' /\ Exclusive'
    BY <1>0, <2>1, <2>5, <2>6 DEF WriterKnown, Exclusive, HasBit, Writing, Drained
  <2>8. GuardsKnown' /\ WholeBook'
    BY <1>0, <2>1, <2>5, <2>6 DEF GuardsKnown, WholeBook, Drained
  <2>9. QED
    BY <2>4, <2>7, <2>8 DEF LockInv
<1>13. ASSUME NEW t \in Threads, Peek(t) PROVE LockInv'
  <2> DEFINE next == IF guards[t] = 0 THEN "idle" ELSE "reading"
  <2>1. /\ pc[t] = "want_peek" /\ Goto(t, next) /\ writer = NoThread
        /\ writer' = writer /\ guards' = guards
        /\ handle' = handle /\ lockStats' = lockStats /\ calls' = calls
        /\ shown' = shown /\ settled' = settled /\ seen' = [seen EXCEPT ![t] = shown]
    BY <1>13 DEF Peek, Closed
  <2>2. /\ \A k \in {"read", "write"} : pc[t] \in Uncounted(k) <=> next \in Uncounted(k)
        /\ next \in Places
    BY <2>1 DEF Uncounted, Places
  <2>3. Alone(t) /\ Accounted(t) /\ pc' \in [Threads -> Places]
    <3> HIDE DEF next
    <3> QED BY <1>0, <2>1, <2>2, MoveAccounts
  <2>4. SharedTypeOK' /\ StatsAccount'
    BY <1>0, <2>1, <2>3, AccountedStep DEF SharedTypeOK
  <2>5. pc'[t] = next /\ \A u \in Threads \ {t} : pc'[u] = pc[u]
    BY <1>0, <2>1 DEF Goto, SharedTypeOK
  <2>6. WriterKnown' /\ Exclusive'
    BY <1>0, <2>1, <2>5 DEF WriterKnown, Exclusive, HasBit, Writing, Drained
  <2>7. shown \in settled
    BY <1>0, <2>1 DEF WholeBook, WriterKnown, HasBit
  <2>8. GuardsKnown' /\ WholeBook'
    BY <1>0, <2>1, <2>5, <2>7 DEF GuardsKnown, WholeBook
  <2>9. QED
    BY <2>4, <2>6, <2>8 DEF LockInv
<1>14. CASE UNCHANGED sharedVars
  <2>1. SharedTypeOK'
    BY <1>0, <1>14 DEF SharedTypeOK, sharedVars
  <2>2. WriterKnown' /\ GuardsKnown' /\ Exclusive' /\ WholeBook'
    BY <1>0, <1>14 DEF WriterKnown, GuardsKnown, Exclusive, Drained, WholeBook, sharedVars
  <2>3. StatsAccount'
    <3>1. \A h \in Handles, kind \in {"read", "write"} :
            /\ Recorded(h, kind)' = Recorded(h, kind)
            /\ Inside(h, kind)' = Inside(h, kind)
            /\ CallsMade(h, kind)' = CallsMade(h, kind)
      BY <1>14 DEF Recorded, Inside, CallsMade, sharedVars
    <3>2. QED
      BY <1>0, <3>1 DEF StatsAccount
  <2>4. QED
    BY <2>1, <2>2, <2>3 DEF LockInv
<1>15. QED
  BY <1>1, <1>2, <1>3, <1>4, <1>5, <1>6, <1>7, <1>8, <1>9, <1>10, <1>11, <1>12, <1>13, <1>14
  DEF SharedNext, SharedStep

\* Nobody has called.
LEMMA LockInvInit == SharedInit => LockInv
<1> SUFFICES ASSUME SharedInit PROVE LockInv
  OBVIOUS
<1>1. SharedTypeOK
  BY DEF SharedInit, SharedTypeOK, NewLockStats, LockStats, Places, Kinds
<1>2. WriterKnown /\ GuardsKnown /\ Exclusive /\ WholeBook
  BY SharedBookAssumption DEF SharedInit, WriterKnown, GuardsKnown, Exclusive, WholeBook,
     HasBit, Writing
<1>3. ASSUME NEW h \in Handles, NEW kind \in {"read", "write"}
      PROVE  Recorded(h, kind) + Cardinality(Inside(h, kind)) = Cardinality(CallsMade(h, kind))
  <2>1. Recorded(h, kind) = 0
    BY DEF SharedInit, Recorded, NewLockStats
  <2>2. Inside(h, kind) = {}
    BY DEF SharedInit, Inside, Uncounted
  <2>3. CallsMade(h, kind) = {}
    BY SharedBookAssumption DEF SharedInit, CallsMade, Kinds
  <2>4. QED
    BY <2>1, <2>2, <2>3, FS_EmptySet
<1>4. QED
  BY <1>1, <1>2, <1>3 DEF LockInv, StatsAccount

\* Threads that wait for each other in a cycle, none with a read guard, would
\* all wait for the writer; the writer is then one of them, waits for readers,
\* and there are none.
LEMMA OnlyNested == LockInv => StuckOnlyNested
<1> SUFFICES ASSUME LockInv, NEW S \in SUBSET Threads, Cycle(S),
                    \A t \in S : ~(guards[t] > 0)
             PROVE  FALSE
  BY DEF StuckOnlyNested
<1>1. \A t \in S : t \in Threads /\ t # NoThread
  BY SharedBookAssumption
<1>2. PICK t \in S : WaitsFor(t) \cap S # {}
  BY DEF Cycle
<1>3. ASSUME NEW u \in S PROVE pc[u] \notin {"drain_write", "drain_once"}
  <2> SUFFICES ASSUME pc[u] \in {"drain_write", "drain_once"} PROVE FALSE
    OBVIOUS
  <2>1. WaitsFor(u) = {v \in Threads : guards[v] > 0} /\ WaitsFor(u) \cap S # {}
    BY DEF WaitsFor, Cycle
  <2>2. QED
    BY <2>1
<1>4. writer \in S
  BY <1>2, <1>3 DEF WaitsFor
<1>5. pc[writer] \in HasBit
  BY <1>1, <1>4 DEF LockInv, WriterKnown
<1>6. pc[writer] \notin Waiting
  BY <1>3, <1>4, <1>5 DEF HasBit, Waiting
<1>7. WaitsFor(writer) = {}
  BY <1>3, <1>4, <1>6 DEF WaitsFor
<1>8. QED
  BY <1>4, <1>7 DEF Cycle

\* The lock's invariant: who has the writer bit and the read guards is known
\* from where each thread is, nobody reads while somebody writes, the book is
\* whole outside a batch, and the statistics balance (ThreadSafeOrderBook).
THEOREM LockAlwaysInv == SharedSpec => []LockInv
<1>1. SharedInit => LockInv
  BY LockInvInit
<1>2. LockInv /\ [SharedNext]_sharedVars => LockInv'
  BY LockInvStep
<1>3. QED
  BY <1>1, <1>2, PTL DEF SharedSpec

\* ThreadSafeOrderBook keeps its promises for any threads, handles and calls:
\* no reader sees a batch half applied, threads block each other for good only
\* if one asks for the lock while it holds a read guard, and the statistics of
\* every handle account for every call.
THEOREM LockAlwaysSafe == SharedSpec => []LockSafe
<1>1. LockInv => ReadersSeeWholeWrites
  BY DEF LockInv, SharedTypeOK, WholeBook, Exclusive, Writing, Drained, ReadersSeeWholeWrites
<1>2. LockInv => StatsAccount
  BY DEF LockInv
<1>3. LockInv => LockSafe
  BY <1>1, <1>2, OnlyNested DEF LockSafe
<1>4. QED
  BY <1>3, LockAlwaysInv, PTL


-----------------------------------------------------------------------------
(***************************************************************************)
(* The order manager and the journal of its requests, for any traders,     *)
(* prices, quantities and numbers of calls: OrdersRecorded of MCTrading.   *)
(*                                                                         *)
(* OrderInv is the inductive invariant.  To what the properties say it     *)
(* adds where an identifier can be at all: it was drawn, and it is with    *)
(* one trader, or tracked, or gone; while its trader has not recorded it   *)
(* the journal has no submission of it, and from then on the journal       *)
(* tells its request.                                                      *)
(***************************************************************************)

\* Induction over the naturals, as a fact about sets of numbers.
LEMMA LeastNatural ==
  ASSUME NEW T \in SUBSET Nat, T # {}
  PROVE  \E n \in T : \A m \in T : n <= m
<1> DEFINE R == OpToRel(<, Nat)
<1>1. IsWellFoundedOn(R, Nat) BY NatLessThanWellFounded
<1>2. \A x, y \in Nat : x < y => <<x, y>> \in R BY DEF OpToRel
<1> HIDE DEF R
<1>3. PICK n \in T : \A y \in T : ~(<<y, n>> \in R) BY <1>1, WFMin
<1>4. \A y \in T : y \in Nat /\ ~(y < n) BY <1>2, <1>3
<1>5. n \in T /\ n \in Nat OBVIOUS
<1> QED BY <1>4, <1>5

\* A set that has 0 and with every number the next one has them all.
LEMMA Induction ==
  ASSUME NEW S, 0 \in S, \A n \in Nat : n \in S => n + 1 \in S
  PROVE  Nat \subseteq S
<1> SUFFICES ASSUME ~(Nat \subseteq S) PROVE FALSE OBVIOUS
<1> DEFINE T == Nat \ S
<1>1. T # {} /\ T \in SUBSET Nat OBVIOUS
<1> HIDE DEF T
<1>2. PICK n \in T : \A m \in T : n <= m BY <1>1, LeastNatural
<1>3. n \in Nat /\ n # 0 /\ n \notin S BY DEF T
<1>4. n - 1 \in Nat /\ n - 1 \notin T BY <1>2, <1>3, <1>1
<1>5. n - 1 \in S BY <1>4 DEF T
<1> QED BY <1>3, <1>4, <1>5

-----------------------------------------------------------------------------
\* Reading the journal

\* What is known of an order after a record that may be of another one.
Learns(id, known, r) == IF RecordOf(id, r) THEN Tells(known, r) ELSE known

IsTelling(f, id, log, n) ==
  f = [k \in 0 .. n |-> IF k = 0 THEN <<>> ELSE Learns(id, f[k - 1], log[k])]

\* The recursive function exists, on any number of records.
LEMMA TellingExists ==
  ASSUME NEW id, NEW log, NEW n \in Nat
  PROVE  \E f : IsTelling(f, id, log, n)
<1> DEFINE S == {m \in Nat : \E f : IsTelling(f, id, log, m)}
<1>1. 0 \in S
  <2> DEFINE f == [k \in 0 .. 0 |-> <<>>]
  <2>1. IsTelling(f, id, log, 0) BY DEF IsTelling
  <2> QED BY <2>1
<1>2. ASSUME NEW m \in Nat, m \in S PROVE m + 1 \in S
  <2>1. PICK f : IsTelling(f, id, log, m) BY <1>2
  <2> DEFINE g == [k \in 0 .. m + 1 |-> IF k <= m THEN f[k] ELSE Learns(id, f[m], log[m + 1])]
  <2>2. \A k \in 0 .. m + 1 : g[k] = IF k = 0 THEN <<>> ELSE Learns(id, g[k - 1], log[k])
    <3> SUFFICES ASSUME NEW k \in 0 .. m + 1
                 PROVE  g[k] = IF k = 0 THEN <<>> ELSE Learns(id, g[k - 1], log[k])
      OBVIOUS
    <3>1. CASE k = 0 BY <2>1, <3>1 DEF IsTelling
    <3>2. CASE k # 0 /\ k <= m
      <4>1. k \in 0 .. m /\ k - 1 \in 0 .. m + 1 /\ k - 1 <= m BY <3>2
      <4>2. g[k] = f[k] /\ g[k - 1] = f[k - 1] BY <4>1
      <4>3. f[k] = Learns(id, f[k - 1], log[k]) BY <2>1, <3>2, <4>1 DEF IsTelling
      <4> QED BY <3>2, <4>2, <4>3
    <3>3. CASE k = m + 1
      <4>1. k - 1 = m /\ m \in 0 .. m + 1 /\ k # 0 /\ ~(k <= m) BY <3>3
      <4>2. g[k] = Learns(id, f[m], log[k]) /\ g[m] = f[m] BY <3>3, <4>1
      <4> QED BY <4>1, <4>2
    <3> QED BY <3>1, <3>2, <3>3
  <2>3. IsTelling(g, id, log, m + 1) BY <2>2 DEF IsTelling
  <2> HIDE DEF g
  <2> QED BY <2>3
<1> HIDE DEF S
<1>3. Nat \subseteq S BY <1>1, <1>2, Induction
<1> QED BY <1>3 DEF S

\* One record after the other.
LEMMA TellingSteps ==
  ASSUME NEW id, NEW log, Len(log) \in Nat
  PROVE  /\ Telling(id, log)[0] = <<>>
         /\ \A k \in 1 .. Len(log) :
              Telling(id, log)[k] = Learns(id, Telling(id, log)[k - 1], log[k])
<1> DEFINE f == Telling(id, log)
<1>1. f = [k \in 0 .. Len(log) |-> IF k = 0 THEN <<>> ELSE Learns(id, f[k - 1], log[k])]
  <2>0. \E g : IsTelling(g, id, log, Len(log)) BY TellingExists
  <2>1. \E g : g = [k \in 0 .. Len(log) |-> IF k = 0 THEN <<>> ELSE Learns(id, g[k - 1], log[k])]
    BY <2>0 DEF IsTelling
  <2> QED BY <2>1 DEF Telling, Learns
<1> HIDE DEF f
<1>2. f[0] = <<>> BY <1>1
<1>3. \A k \in 1 .. Len(log) : f[k] = Learns(id, f[k - 1], log[k]) BY <1>1
<1> QED BY <1>2, <1>3 DEF f

\* A record more changes nothing of what the ones before it told.
LEMMA TellingAppend ==
  ASSUME NEW id, NEW S, NEW log \in Seq(S), NEW r \in S
  PROVE  Telling(id, Append(log, r))[Len(log) + 1] = Learns(id, Telling(id, log)[Len(log)], r)
<1> DEFINE more == Append(log, r)
           f == Telling(id, log)
           g == Telling(id, more)
<1>1. /\ Len(log) \in Nat /\ Len(more) = Len(log) + 1 /\ Len(more) \in Nat
      /\ more[Len(log) + 1] = r /\ \A k \in 1 .. Len(log) : more[k] = log[k]
  OBVIOUS
<1> HIDE DEF more
<1>2. f[0] = <<>> /\ \A k \in 1 .. Len(log) : f[k] = Learns(id, f[k - 1], log[k])
  BY <1>1, TellingSteps
<1>3. g[0] = <<>> /\ \A k \in 1 .. Len(more) : g[k] = Learns(id, g[k - 1], more[k])
  BY <1>1, TellingSteps
<1> HIDE DEF f, g
<1> DEFINE T == {k \in Nat : k <= Len(log) => g[k] = f[k]}
<1>4. 0 \in T BY <1>2, <1>3
<1>5. ASSUME NEW k \in Nat, k \in T PROVE k + 1 \in T
  <2> SUFFICES ASSUME k + 1 <= Len(log) PROVE g[k + 1] = f[k + 1] OBVIOUS
  <2>1. /\ k + 1 \in 1 .. Len(log) /\ k + 1 \in 1 .. Len(more) /\ (k + 1) - 1 = k /\ k <= Len(log)
    BY <1>1
  <2>2. g[k] = f[k] BY <1>5, <2>1
  <2> QED BY <1>1, <1>2, <1>3, <2>1, <2>2
<1> HIDE DEF T
<1>6. Nat \subseteq T BY <1>4, <1>5, Induction
<1>7. g[Len(log)] = f[Len(log)] BY <1>1, <1>6 DEF T
<1>8. Len(log) + 1 \in 1 .. Len(more) /\ (Len(log) + 1) - 1 = Len(log) BY <1>1
<1>9. g[Len(log) + 1] = Learns(id, g[Len(log)], r) BY <1>1, <1>3, <1>8
<1> QED BY <1>7, <1>9 DEF f, g, more


-----------------------------------------------------------------------------
\* The invariant

RequestPrices == Prices \cup {NoPrice, Min(Prices)}
RequestQuantities == {Min(Quantities), Max(Quantities)}
Requests == [exchange : Exchanges, price : RequestPrices, stop_price : RequestPrices,
             quantity : RequestQuantities]
Statuses == {"Pending"} \cup Cancellable \cup Terminal
Counters == [orders_submitted : Nat, orders_cancelled : Nat, orders_modified : Nat,
             orders_filled : Nat, orders_rejected : Nat, pending_count : Nat]
Submissions == [at : {"drawn", "recorded"}, id : Nat, request : Requests]

\* What the tap writes.
Sources == {"deribit", "binance", "unknown"}
Payloads == [op : {"submit"}, id : Nat, request : Requests]
            \cup [op : {"cancel"}, id : Nat]
            \cup [op : {"modify"}, id : Nat, change : ModifyRequests]
Records == [kind : {"OrderSubmit"}, source : Sources, payload : Payloads]
           \cup [kind : {"Frame"}, source : Sources, payload : [op : {"frame"}]]
           \cup [kind : {"Checkpoint"}, source : Sources,
                 payload : [op : {"checkpoint"}, sequence : Nat]]

Drawn == 1 .. next_order - 1
Placing(t) == submitting[t].at # "none"

\* Type correctness.
OrderTypeOK ==
  /\ next_order \in Nat \ {0}
  /\ DOMAIN pending \subseteq Drawn /\ DOMAIN left \subseteq Drawn
  /\ \A id \in DOMAIN pending : pending[id] \in [request : Requests, status : Statuses \ Terminal]
  /\ stats \in Counters
  /\ submitting \in [Traders -> {NotSubmitting} \cup Submissions]
  /\ tapped \in BOOLEAN
  /\ journal \in Seq(Records) /\ missing \in Seq(Records) /\ checkpoint_seq \in Nat

Submits == {i \in DOMAIN journal :
              journal[i].kind = "OrderSubmit" /\ journal[i].payload.op = "submit"}

\* An identifier is with one trader, tracked or gone, and the journal has its
\* submission at most once and not before its trader has recorded it.
IdsApart ==
  /\ DOMAIN pending \cap DOMAIN left = {}
  /\ \A t \in Traders : Placing(t) => submitting[t].id \in Drawn \ (DOMAIN pending \cup DOMAIN left)
  /\ \A t, u \in Traders : Placing(t) /\ Placing(u) /\ submitting[t].id = submitting[u].id => t = u
  /\ \A i \in Submits : /\ journal[i].payload.id \in Drawn
                        /\ \A t \in Traders : submitting[t].at = "drawn"
                                                => submitting[t].id # journal[i].payload.id
  /\ \A i, k \in Submits : journal[i].payload.id = journal[k].payload.id => i = k

Gone(how) == {id \in DOMAIN left : left[id] = how}

\* The statistics count the orders where they are.
CountsRight ==
  /\ stats.orders_submitted = Cardinality(DOMAIN pending) + Cardinality(DOMAIN left)
  /\ stats.orders_cancelled = Cardinality(Gone("cancel"))
  /\ stats.orders_filled = Cardinality(Gone("Filled"))
  /\ stats.orders_rejected = Cardinality(Gone("Rejected"))
  /\ stats.pending_count = Cardinality(DOMAIN pending)

\* What the journal tells of an order none of whose records was lost.
ToldRight(id) ==
  /\ id \in DOMAIN pending => Told(id) = <<pending[id].request>>
  /\ id \in DOMAIN left => (left[id] = "cancel" => Told(id) = <<>>)
  /\ \A t \in Traders : submitting[t].at = "recorded" /\ submitting[t].id = id
                          => Told(id) = <<submitting[t].request>>

JournalTells == tapped => \A id \in Drawn : MissingOf(id) = {} => ToldRight(id)

Points(log) == {i \in DOMAIN log : log[i].kind = "Checkpoint"}
Numbers(log) == {log[i].payload.sequence : i \in Points(log)}

\* The checkpoints of the journal and the lost ones are those that were made.
PointsKnown ==
  /\ \A i \in Points(journal) : journal[i].payload.sequence \in 0 .. checkpoint_seq - 1
  /\ \A i, k \in Points(journal) :
       i < k => journal[i].payload.sequence < journal[k].payload.sequence
  /\ Numbers(missing) = (0 .. checkpoint_seq - 1) \ Numbers(journal)

OrderInv == OrderTypeOK /\ IdsApart /\ CountsRight /\ JournalTells /\ PointsKnown

-----------------------------------------------------------------------------
\* Recording

\* The requests that can be made have their type.
LEMMA RequestTypes == OrderRequests \subseteq Requests
<1> DEFINE q == Min(Quantities)
           s == Min(Prices)
<1>1. q \in RequestQuantities /\ s \in RequestPrices /\ NoPrice \in RequestPrices
      /\ Prices \subseteq RequestPrices
  BY DEF RequestQuantities, RequestPrices
<1>2. OrderRequests = {Market(e, q) : e \in Exchanges}
                      \cup {Limit(e, p, q) : e \in Exchanges, p \in Prices}
                      \cup {StopLimit(e, s, p, q) : e \in Exchanges, p \in Prices}
  BY DEF OrderRequests
<1> HIDE DEF q, s
<1>3. \A e \in Exchanges : Market(e, q) \in Requests BY <1>1 DEF Market, Requests
<1>4. \A e \in Exchanges, p \in Prices : Limit(e, p, q) \in Requests BY <1>1 DEF Limit, Requests
<1>5. \A e \in Exchanges, p \in Prices : StopLimit(e, s, p, q) \in Requests
  BY <1>1 DEF StopLimit, Requests
<1> QED BY <1>2, <1>3, <1>4, <1>5

\* A modification leaves a request, and the one that the journal tells.
LEMMA ModifyTypes ==
  ASSUME NEW m \in ModifyRequests, NEW request \in Requests
  PROVE  /\ Modified(request, m) \in Requests
         /\ Modified(request, m) =
              [request EXCEPT !.price = IF m.new_price = 0 THEN @ ELSE m.new_price,
                              !.quantity = IF m.new_quantity = 0 THEN @ ELSE m.new_quantity]
<1> DEFINE q == Max(Quantities)
<1>1. ModifyRequests =
        {[new_price |-> p, new_quantity |-> n] : p \in Prices \cup {0}, n \in {0, q}}
          \ {[new_price |-> 0, new_quantity |-> 0]}
  BY DEF ModifyRequests
<1>2. q \in RequestQuantities /\ Prices \subseteq RequestPrices
  BY DEF RequestQuantities, RequestPrices
<1> HIDE DEF q
<1>3. PICK p \in Prices \cup {0}, n \in {0, q} : m = [new_price |-> p, new_quantity |-> n]
  BY <1>1
<1>4. m.new_price = p /\ m.new_quantity = n BY <1>3
<1>5. (p # 0 => p \in RequestPrices) /\ (n # 0 => n \in RequestQuantities) BY <1>2
<1> QED BY <1>4, <1>5 DEF Modified, Requests

\* The exchange of an order survives the journal.
LEMMA ExchangeKept ==
  ASSUME NEW e \in Exchanges
  PROVE  /\ from_blackbox_exchange(to_blackbox_exchange(e)) = e
         /\ to_blackbox_exchange(e) \in Sources
BY OrderAssumption DEF from_blackbox_exchange, to_blackbox_exchange, Sources

\* A step either records nothing, or appends a record to the journal, or loses it.
Recording(r) ==
  \/ journal' = Append(journal, r) /\ missing' = missing
  \/ missing' = Append(missing, r) /\ journal' = journal

\* What a record adds to what the journal tells of an order.
LEMMA RecordTold ==
  ASSUME OrderTypeOK, NEW r \in Records, Recording(r), NEW id, MissingOf(id)' = {}
  PROVE  MissingOf(id) = {} /\ Told(id)' = Learns(id, Told(id), r)
<1>1. journal \in Seq(Records) /\ missing \in Seq(Records) BY DEF OrderTypeOK
<1>2. CASE journal' = Append(journal, r) /\ missing' = missing
  <2>1. Len(journal') = Len(journal) + 1 BY <1>1, <1>2
  <2>2. Told(id)' = Telling(id, Append(journal, r))[Len(journal) + 1]
    BY <1>2, <2>1 DEF Told, Telling
  <2>3. Told(id)' = Learns(id, Told(id), r) BY <1>1, <2>2, TellingAppend DEF Told
  <2>4. MissingOf(id) = {} BY <1>2 DEF MissingOf
  <2> QED BY <2>3, <2>4
<1>3. CASE missing' = Append(missing, r) /\ journal' = journal
  <2>1. /\ Len(missing) + 1 \in DOMAIN missing' /\ missing'[Len(missing) + 1] = r
        /\ \A i \in DOMAIN missing : i \in DOMAIN missing' /\ missing'[i] = missing[i]
    BY <1>1, <1>3
  <2>2. \A i \in DOMAIN missing' : ~RecordOf(id, missing'[i]) BY DEF MissingOf, RecordOf
  <2>3. MissingOf(id) = {} /\ ~RecordOf(id, r) BY <2>1, <2>2 DEF MissingOf
  <2>4. Told(id)' = Told(id) BY <1>3 DEF Told, Telling
  <2> QED BY <2>3, <2>4 DEF Learns
<1> QED BY <1>2, <1>3 DEF Recording


\* The submissions of the journal are those of before.
SameSubmits ==
  /\ Submits' = Submits
  /\ \A i \in Submits : journal'[i].payload.id = journal[i].payload.id

\* A record that is no checkpoint leaves those of the journal as they are, and
\* one that is no submission leaves those.
LEMMA RecordingKeeps ==
  ASSUME OrderTypeOK, NEW r \in Records, Recording(r)
  PROVE  /\ journal' \in Seq(Records) /\ missing' \in Seq(Records)
         /\ (r.kind # "Checkpoint" /\ PointsKnown /\ checkpoint_seq' = checkpoint_seq) => PointsKnown'
         /\ ~(r.kind = "OrderSubmit" /\ r.payload.op = "submit") => SameSubmits
<1>1. journal \in Seq(Records) /\ missing \in Seq(Records) BY DEF OrderTypeOK
<1>2. journal' \in Seq(Records) /\ missing' \in Seq(Records) BY <1>1 DEF Recording
<1>3. ASSUME NEW s \in Seq(Records), r.kind # "Checkpoint"
      PROVE  Points(Append(s, r)) = Points(s) /\ Numbers(Append(s, r)) = Numbers(s)
             /\ \A i \in Points(s) : Append(s, r)[i] = s[i]
  <2>1. /\ DOMAIN Append(s, r) = DOMAIN s \cup {Len(s) + 1} /\ Append(s, r)[Len(s) + 1] = r
        /\ \A i \in DOMAIN s : Append(s, r)[i] = s[i]
    OBVIOUS
  <2> DEFINE a == Append(s, r)
  <2> HIDE DEF a
  <2>2. Points(a) = Points(s) /\ \A i \in Points(s) : a[i] = s[i]
    BY <1>3, <2>1 DEF Points, a
  <2>3. Numbers(a) = Numbers(s) BY <2>2 DEF Numbers
  <2> QED BY <2>2, <2>3 DEF a
<1>4. ASSUME r.kind # "Checkpoint", PointsKnown, checkpoint_seq' = checkpoint_seq PROVE PointsKnown'
  <2>1. CASE journal' = Append(journal, r) /\ missing' = missing
    <3>1. Points(journal)' = Points(Append(journal, r)) /\ Numbers(journal)' = Numbers(Append(journal, r))
          /\ Numbers(missing)' = Numbers(missing)
      BY <2>1 DEF Points, Numbers
    <3>2. /\ Points(journal)' = Points(journal) /\ Numbers(journal)' = Numbers(journal)
          /\ \A i \in Points(journal) : journal'[i] = journal[i]
      BY <1>1, <1>3, <1>4, <2>1, <3>1
    <3> QED BY <1>4, <3>1, <3>2 DEF PointsKnown
  <2>2. CASE missing' = Append(missing, r) /\ journal' = journal
    <3>1. /\ Points(journal)' = Points(journal) /\ Numbers(journal)' = Numbers(journal)
          /\ Numbers(missing)' = Numbers(Append(missing, r))
      BY <2>2 DEF Points, Numbers
    <3>2. Numbers(missing)' = Numbers(missing) BY <1>1, <1>3, <1>4, <3>1
    <3> QED BY <1>4, <2>2, <3>1, <3>2 DEF PointsKnown
  <2> QED BY <2>1, <2>2 DEF Recording
<1>5. ASSUME ~(r.kind = "OrderSubmit" /\ r.payload.op = "submit") PROVE SameSubmits
  <2>1. CASE journal' = Append(journal, r)
    <3>1. /\ DOMAIN journal' = DOMAIN journal \cup {Len(journal) + 1}
          /\ journal'[Len(journal) + 1] = r
          /\ \A i \in DOMAIN journal : journal'[i] = journal[i]
      BY <1>1, <2>1
    <3> QED BY <1>5, <3>1 DEF SameSubmits, Submits
  <2>2. CASE journal' = journal BY <2>2 DEF SameSubmits, Submits
  <2> QED BY <2>1, <2>2 DEF Recording
<1> QED BY <1>2, <1>4, <1>5

\* The record of a request.
Written(e, payload) ==
  [kind |-> "OrderSubmit", source |-> to_blackbox_exchange(e), payload |-> payload]

\* A request is recorded, or there is no tap.
LEMMA EgressFacts ==
  ASSUME OrderTypeOK, NEW e \in Exchanges, NEW payload \in Payloads, record_egress(e, payload)
  PROVE  /\ Written(e, payload) \in Records
         /\ tapped => Recording(Written(e, payload))
         /\ ~tapped => UNCHANGED <<journal, missing>>
<1>1. Written(e, payload) \in Records BY ExchangeKept DEF Written, Records
<1>2. tapped => Record(Written(e, payload)) BY DEF record_egress, Written
<1>3. ~tapped => UNCHANGED <<journal, missing>> BY DEF record_egress
<1>4. Record(Written(e, payload)) => Recording(Written(e, payload)) BY DEF Record, Recording
<1> QED BY <1>1, <1>2, <1>3, <1>4

\* What a request does to the journal.
LEMMA EgressKeeps ==
  ASSUME OrderTypeOK, PointsKnown, checkpoint_seq' = checkpoint_seq,
         NEW e \in Exchanges, NEW payload \in Payloads, record_egress(e, payload)
  PROVE  /\ journal' \in Seq(Records) /\ missing' \in Seq(Records) /\ PointsKnown'
         /\ payload.op # "submit" => SameSubmits
         /\ tapped => \A id : MissingOf(id)' = {} =>
              MissingOf(id) = {} /\ Told(id)' = Learns(id, Told(id), Written(e, payload))
<1>1. CASE tapped
  <2> DEFINE r == Written(e, payload)
  <2>1. r \in Records /\ Recording(r) BY <1>1, EgressFacts
  <2>2. r.kind = "OrderSubmit" /\ r.payload = payload BY DEF Written
  <2> HIDE DEF r
  <2>3. /\ journal' \in Seq(Records) /\ missing' \in Seq(Records) /\ PointsKnown'
        /\ payload.op # "submit" => SameSubmits
    BY <2>1, <2>2, RecordingKeeps
  <2>4. ASSUME NEW id, MissingOf(id)' = {} PROVE MissingOf(id) = {} /\ Told(id)' = Learns(id, Told(id), r)
    BY <2>1, <2>4, RecordTold
  <2> QED BY <1>1, <2>3, <2>4 DEF r
<1>2. CASE ~tapped
  <2>1. UNCHANGED <<journal, missing>> BY <1>2, EgressFacts
  <2>2. PointsKnown' BY <2>1 DEF PointsKnown, Points, Numbers
  <2>3. SameSubmits BY <2>1 DEF SameSubmits, Submits
  <2> QED BY <1>2, <2>1, <2>2, <2>3 DEF OrderTypeOK
<1> QED BY <1>1, <1>2

\* A step that records nothing tells nothing.
LEMMA SilentKeeps ==
  ASSUME OrderTypeOK, PointsKnown, UNCHANGED <<journal, missing, checkpoint_seq>>
  PROVE  /\ journal' \in Seq(Records) /\ missing' \in Seq(Records) /\ PointsKnown' /\ SameSubmits
         /\ \A id : MissingOf(id)' = MissingOf(id) /\ Told(id)' = Told(id)
BY DEF OrderTypeOK, PointsKnown, Points, Numbers, SameSubmits, Submits, MissingOf, Told, Telling

-----------------------------------------------------------------------------
\* Counting

\* The identifiers drawn are finitely many.
LEMMA OrdersFinite ==
  ASSUME OrderTypeOK
  PROVE  /\ IsFiniteSet(DOMAIN pending) /\ IsFiniteSet(DOMAIN left)
         /\ Cardinality(DOMAIN pending) \in Nat /\ Cardinality(DOMAIN left) \in Nat
         /\ \A how : IsFiniteSet(Gone(how)) /\ Cardinality(Gone(how)) \in Nat
<1>1. IsFiniteSet(Drawn) BY FS_Interval DEF Drawn, OrderTypeOK
<1>2. IsFiniteSet(DOMAIN pending) /\ IsFiniteSet(DOMAIN left) BY <1>1, FS_Subset DEF OrderTypeOK
<1>3. \A how : Gone(how) \subseteq DOMAIN left BY DEF Gone
<1>4. \A how : IsFiniteSet(Gone(how)) BY <1>2, <1>3, FS_Subset
<1> QED BY <1>2, <1>4, FS_CardinalityType

\* One order leaves.
LEMMA LeftFacts ==
  ASSUME OrderTypeOK, NEW id, id \notin DOMAIN left, NEW v, left' = With(left, id, v)
  PROVE  /\ DOMAIN left' = DOMAIN left \cup {id} /\ left'[id] = v
         /\ \A k \in DOMAIN left : left'[k] = left[k]
         /\ Cardinality(DOMAIN left') = Cardinality(DOMAIN left) + 1
         /\ \A how : Cardinality(Gone(how))' =
              IF how = v THEN Cardinality(Gone(how)) + 1 ELSE Cardinality(Gone(how))
<1>1. /\ DOMAIN left' = DOMAIN left \cup {id} /\ left'[id] = v
      /\ \A k \in DOMAIN left : left'[k] = left[k]
  BY DEF With
<1>2. Cardinality(DOMAIN left') = Cardinality(DOMAIN left) + 1 BY <1>1, OrdersFinite, FS_AddElement
<1>3. ASSUME NEW how
      PROVE  Cardinality(Gone(how))' =
               IF how = v THEN Cardinality(Gone(how)) + 1 ELSE Cardinality(Gone(how))
  <2>1. CASE how = v
    <3>1. Gone(how)' = Gone(how) \cup {id} BY <1>1, <2>1 DEF Gone
    <3>2. id \notin Gone(how) BY DEF Gone
    <3>3. Cardinality(Gone(how) \cup {id}) = Cardinality(Gone(how)) + 1
      BY <3>2, OrdersFinite, FS_AddElement
    <3> QED BY <2>1, <3>1, <3>3
  <2>2. CASE how # v
    <3>1. Gone(how)' = Gone(how) BY <1>1, <2>2 DEF Gone
    <3> QED BY <2>2, <3>1
  <2> QED BY <2>1, <2>2
<1> QED BY <1>1, <1>2, <1>3

\* One order is tracked no more.
LEMMA RemovedFacts ==
  ASSUME OrderTypeOK, NEW id \in DOMAIN pending, pending' = Without(pending, id)
  PROVE  /\ DOMAIN pending' = DOMAIN pending \ {id}
         /\ \A k \in DOMAIN pending' : pending'[k] = pending[k]
         /\ Cardinality(DOMAIN pending') = Cardinality(DOMAIN pending) - 1
<1>1. /\ DOMAIN pending' = DOMAIN pending \ {id}
      /\ \A k \in DOMAIN pending' : pending'[k] = pending[k]
  BY DEF Without
<1>2. Cardinality(DOMAIN pending \ {id}) = Cardinality(DOMAIN pending) - 1
  BY OrdersFinite, FS_RemoveElement
<1> QED BY <1>1, <1>2


-----------------------------------------------------------------------------
\* The steps

\* What the invariant gives for the orders.
LEMMA OrderFacts ==
  ASSUME OrderInv
  PROVE  /\ OrderTypeOK /\ IdsApart /\ CountsRight /\ JournalTells /\ PointsKnown
         /\ next_order \in Nat \ {0}
         /\ \A t \in Traders : Placing(t) => /\ submitting[t] \in Submissions
                                          /\ submitting[t].id \in Nat
                                          /\ submitting[t].request \in Requests
                                          /\ submitting[t].at \in {"drawn", "recorded"}
         /\ \A id \in DOMAIN pending : /\ pending[id].request \in Requests /\ id \in Nat
                                       /\ pending[id].request.exchange \in Exchanges
                                       /\ pending[id].status \in Statuses \ Terminal
<1>1. OrderTypeOK /\ IdsApart /\ CountsRight /\ JournalTells /\ PointsKnown BY DEF OrderInv
<1>2. next_order \in Nat \ {0} /\ DOMAIN pending \subseteq Drawn BY <1>1 DEF OrderTypeOK
<1>3. \A id \in Drawn : id \in Nat BY <1>2 DEF Drawn
<1>4. \A t \in Traders : submitting[t] = NotSubmitting \/ submitting[t] \in Submissions
  BY <1>1 DEF OrderTypeOK
<1>5. NotSubmitting.at = "none" BY DEF NotSubmitting
<1>6. \A s \in Submissions : s.id \in Nat /\ s.request \in Requests /\ s.at \in {"drawn", "recorded"}
  BY DEF Submissions
<1>7. \A t \in Traders : Placing(t) => submitting[t] \in Submissions BY <1>4, <1>5 DEF Placing
<1>8. \A id \in DOMAIN pending : pending[id] \in [request : Requests, status : Statuses \ Terminal]
  BY <1>1 DEF OrderTypeOK
<1>9. \A r \in Requests : r.exchange \in Exchanges BY DEF Requests
<1> QED BY <1>1, <1>2, <1>3, <1>6, <1>7, <1>8, <1>9

\* submit_order draws an identifier that nobody has.
LEMMA DrawKeeps ==
  ASSUME OrderInv, NEW t \in Traders, NEW request \in OrderRequests, SubmitDraw(t, request)
  PROVE  OrderInv'
<1>0. OrderTypeOK /\ IdsApart /\ CountsRight /\ JournalTells /\ PointsKnown /\ next_order \in Nat \ {0}
  BY OrderFacts
<1> DEFINE s == [at |-> "drawn", id |-> next_order, request |-> request]
<1>1. /\ submitting' = [submitting EXCEPT ![t] = s] /\ next_order' = next_order + 1
      /\ UNCHANGED <<pending, stats, tapped, journal, checkpoint_seq, missing, left>>
      /\ submitting[t].at = "none"
  BY DEF SubmitDraw, DrawOrder
<1>2. s \in Submissions BY <1>0, RequestTypes DEF Submissions
<1>3. s.at = "drawn" /\ s.id = next_order OBVIOUS
<1> HIDE DEF s
<1>4. /\ submitting \in [Traders -> {NotSubmitting} \cup Submissions]
      /\ submitting'[t] = s /\ \A u \in Traders : u # t => submitting'[u] = submitting[u]
      /\ submitting' \in [Traders -> {NotSubmitting} \cup Submissions]
  BY <1>0, <1>1, <1>2 DEF OrderTypeOK
<1>5. Drawn \subseteq Drawn' /\ next_order \in Drawn' /\ next_order \notin Drawn
      /\ Drawn' = Drawn \cup {next_order}
  BY <1>0, <1>1 DEF Drawn
<1>6. OrderTypeOK'
  <2>1. tapped' \in BOOLEAN BY <1>0, <1>1 DEF OrderTypeOK
  <2> QED BY <1>0, <1>1, <1>4, <1>5, <2>1 DEF OrderTypeOK
<1>7. SameSubmits /\ PointsKnown' /\ \A id : MissingOf(id)' = MissingOf(id) /\ Told(id)' = Told(id)
  BY <1>0, <1>1, SilentKeeps
<1>8. \A i \in Submits : journal[i].payload.id \in Drawn BY <1>0 DEF IdsApart
<1>9. IdsApart'
  <2>1. \A u \in Traders : Placing(u)' =>
          submitting'[u].id \in Drawn' \ (DOMAIN pending \cup DOMAIN left)
    <3> SUFFICES ASSUME NEW u \in Traders, Placing(u)'
                 PROVE  submitting'[u].id \in Drawn' \ (DOMAIN pending \cup DOMAIN left)
      OBVIOUS
    <3>1. CASE u = t BY <1>0, <1>3, <1>4, <1>5, <3>1 DEF OrderTypeOK
    <3>2. CASE u # t BY <1>0, <1>4, <1>5, <3>2 DEF IdsApart, Placing
    <3> QED BY <3>1, <3>2
  <2>2. \A u \in Traders : u # t /\ Placing(u)' => submitting'[u].id \in Drawn
    BY <1>0, <1>4 DEF IdsApart, Placing
  <2>3. \A u, v \in Traders : Placing(u)' /\ Placing(v)' /\ submitting'[u].id = submitting'[v].id => u = v
    <3> SUFFICES ASSUME NEW u \in Traders, NEW v \in Traders, Placing(u)', Placing(v)',
                        submitting'[u].id = submitting'[v].id, u # v
                 PROVE  FALSE
      OBVIOUS
    <3>1. CASE u = t BY <1>3, <1>4, <1>5, <2>2, <3>1
    <3>2. CASE v = t BY <1>3, <1>4, <1>5, <2>2, <3>2
    <3>3. CASE u # t /\ v # t BY <1>0, <1>4, <3>3 DEF IdsApart, Placing
    <3> QED BY <3>1, <3>2, <3>3
  <2>4. \A i \in Submits, u \in Traders :
          submitting'[u].at = "drawn" => submitting'[u].id # journal[i].payload.id
    <3> SUFFICES ASSUME NEW i \in Submits, NEW u \in Traders, submitting'[u].at = "drawn"
                 PROVE  submitting'[u].id # journal[i].payload.id
      OBVIOUS
    <3>1. CASE u = t BY <1>3, <1>4, <1>5, <1>8, <3>1
    <3>2. CASE u # t BY <1>0, <1>4, <3>2 DEF IdsApart
    <3> QED BY <3>1, <3>2
  <2>5. DOMAIN pending' \cap DOMAIN left' = {} BY <1>0, <1>1 DEF IdsApart
  <2>6. Submits' = Submits /\ journal' = journal BY <1>1, <1>7 DEF SameSubmits
  <2>7. \A i \in Submits : journal[i].payload.id \in Drawn' BY <1>5, <1>8
  <2>8. \A i, k \in Submits : journal[i].payload.id = journal[k].payload.id => i = k
    BY <1>0 DEF IdsApart
  <2> QED BY <1>1, <2>1, <2>3, <2>4, <2>5, <2>6, <2>7, <2>8 DEF IdsApart
<1>10. CountsRight' BY <1>0, <1>1 DEF CountsRight, Gone
<1>11. JournalTells'
  <2> SUFFICES ASSUME tapped', NEW id \in Drawn', MissingOf(id)' = {} PROVE ToldRight(id)'
    BY DEF JournalTells
  <2>1. tapped BY <1>1
  <2>2. CASE id \in Drawn
    <3>1. ToldRight(id) BY <1>0, <1>7, <2>1, <2>2 DEF JournalTells
    <3>2. \A u \in Traders : submitting'[u].at = "recorded" => u # t BY <1>3, <1>4
    <3>3. \A u \in Traders : submitting'[u].at = "recorded" => submitting'[u] = submitting[u]
      BY <1>4, <3>2
    <3> QED BY <1>1, <1>7, <3>1, <3>3 DEF ToldRight
  <2>3. CASE id = next_order
    <3>1. id \notin DOMAIN pending /\ id \notin DOMAIN left BY <1>0, <1>5, <2>3 DEF OrderTypeOK
    <3>2. \A u \in Traders : submitting'[u].at = "recorded" => submitting'[u].id # id
      <4> SUFFICES ASSUME NEW u \in Traders, submitting'[u].at = "recorded"
                   PROVE  submitting'[u].id # id
        OBVIOUS
      <4>1. u # t BY <1>3, <1>4
      <4>2. submitting'[u].id \in Drawn BY <1>0, <1>4, <4>1 DEF IdsApart, Placing
      <4> QED BY <1>5, <2>3, <4>2
    <3> QED BY <1>1, <3>1, <3>2 DEF ToldRight
  <2> QED BY <1>5, <2>2, <2>3
<1> QED BY <1>6, <1>7, <1>9, <1>10, <1>11 DEF OrderInv

\* submit_order records the order: the journal tells it from then on.
LEMMA RecordKeeps ==
  ASSUME OrderInv, NEW t \in Traders, SubmitRecord(t)
  PROVE  OrderInv'
<1>0. OrderTypeOK /\ IdsApart /\ CountsRight /\ JournalTells /\ PointsKnown BY OrderFacts
<1>1. PICK s : s = submitting[t] OBVIOUS
<1>2. s.at = "drawn" BY <1>1 DEF SubmitRecord
<1>3. Placing(t) BY <1>1, <1>2 DEF Placing
<1>4. /\ s \in Submissions /\ s.id \in Nat /\ s.request \in Requests /\ s.request.exchange \in Exchanges
  BY <1>1, <1>3, OrderFacts DEF Requests
<1> DEFINE payload == [op |-> "submit", id |-> s.id, request |-> s.request]
           s2 == [s EXCEPT !.at = "recorded"]
<1>5. payload \in Payloads BY <1>4 DEF Payloads
<1>6. payload.op = "submit" /\ payload.id = s.id /\ payload.request = s.request OBVIOUS
<1>7. s2 \in Submissions /\ s2.at = "recorded" /\ s2.id = s.id /\ s2.request = s.request
  BY <1>4 DEF Submissions
<1>8. /\ record_egress(s.request.exchange, payload)
      /\ submitting' = [submitting EXCEPT ![t] = s2]
      /\ UNCHANGED <<next_order, pending, stats, tapped, checkpoint_seq, left>>
  BY <1>1 DEF SubmitRecord
<1> HIDE DEF payload, s2
<1>9. /\ submitting'[t] = s2 /\ \A u \in Traders : u # t => submitting'[u] = submitting[u]
      /\ submitting' \in [Traders -> {NotSubmitting} \cup Submissions]
  BY <1>0, <1>7, <1>8 DEF OrderTypeOK
<1>10. /\ journal' \in Seq(Records) /\ missing' \in Seq(Records) /\ PointsKnown'
       /\ tapped => \A id : MissingOf(id)' = {} =>
            MissingOf(id) = {} /\ Told(id)' = Learns(id, Told(id), Written(s.request.exchange, payload))
  BY <1>0, <1>4, <1>5, <1>8, EgressKeeps
<1>11. OrderTypeOK'
  <2>1. tapped' \in BOOLEAN BY <1>0, <1>8 DEF OrderTypeOK
  <2> QED BY <1>0, <1>8, <1>9, <1>10, <2>1 DEF OrderTypeOK, Drawn
<1> DEFINE r == Written(s.request.exchange, payload)
<1>12. /\ \A u \in Traders : Placing(u)' <=> Placing(u)
       /\ \A u \in Traders : Placing(u) => submitting'[u].id = submitting[u].id
  <2>1. Placing(t)' BY <1>7, <1>9 DEF Placing
  <2> QED BY <1>1, <1>3, <1>7, <1>9, <2>1 DEF Placing
<1>13. IdsApart'
  <2>1. DOMAIN pending' \cap DOMAIN left' = {} BY <1>0, <1>8 DEF IdsApart
  <2>2. \A u \in Traders : Placing(u)' =>
          submitting'[u].id \in Drawn' \ (DOMAIN pending' \cup DOMAIN left')
    BY <1>0, <1>8, <1>12 DEF IdsApart, Drawn
  <2>3. \A u, v \in Traders : Placing(u)' /\ Placing(v)' /\ submitting'[u].id = submitting'[v].id => u = v
    BY <1>0, <1>12 DEF IdsApart
  <2>4. \A u \in Traders : submitting'[u].at = "drawn" =>
          u # t /\ submitting[u].at = "drawn" /\ submitting'[u].id = submitting[u].id
    BY <1>7, <1>9
  <2>5. CASE SameSubmits
    <3>1. \A i \in Submits' : /\ journal'[i].payload.id \in Drawn'
                              /\ \A u \in Traders : submitting'[u].at = "drawn"
                                                      => submitting'[u].id # journal'[i].payload.id
      BY <1>0, <1>8, <2>4, <2>5 DEF IdsApart, SameSubmits, Drawn
    <3>2. \A i, k \in Submits' : journal'[i].payload.id = journal'[k].payload.id => i = k
      BY <1>0, <2>5 DEF IdsApart, SameSubmits
    <3> QED BY <2>1, <2>2, <2>3, <3>1, <3>2 DEF IdsApart
  <2>6. CASE journal' = Append(journal, r)
    <3>1. journal \in Seq(Records) /\ r \in Records
      BY <1>0, <1>4, <1>5, <1>8, EgressFacts DEF OrderTypeOK
    <3>2. r.kind = "OrderSubmit" /\ r.payload.op = "submit" /\ r.payload.id = s.id
      BY <1>6 DEF Written
    <3> HIDE DEF r
    <3> DEFINE n == Len(journal) + 1
    <3>3. /\ DOMAIN journal' = DOMAIN journal \cup {n} /\ journal'[n] = r
          /\ n \notin DOMAIN journal
          /\ \A i \in DOMAIN journal : journal'[i] = journal[i]
      BY <2>6, <3>1
    <3> HIDE DEF n
    <3>4. /\ Submits' = Submits \cup {n} /\ \A i \in Submits : journal'[i] = journal[i]
      BY <3>2, <3>3 DEF Submits
    <3>5. \A i \in Submits : journal[i].payload.id # s.id /\ journal[i].payload.id \in Drawn
      BY <1>0, <1>1, <1>2 DEF IdsApart
    <3>6. s.id \in Drawn BY <1>0, <1>1, <1>3 DEF IdsApart
    <3>7. \A u \in Traders : submitting'[u].at = "drawn" => submitting'[u].id # s.id
      <4> SUFFICES ASSUME NEW u \in Traders, submitting'[u].at = "drawn" PROVE submitting'[u].id # s.id
        OBVIOUS
      <4>1. u # t /\ submitting[u].at = "drawn" /\ submitting'[u].id = submitting[u].id BY <2>4
      <4>2. Placing(u) BY <4>1 DEF Placing
      <4> QED BY <1>0, <1>1, <1>3, <4>1, <4>2 DEF IdsApart
    <3>8. \A i \in Submits' : /\ journal'[i].payload.id \in Drawn'
                              /\ \A u \in Traders : submitting'[u].at = "drawn"
                                                      => submitting'[u].id # journal'[i].payload.id
      <4> SUFFICES ASSUME NEW i \in Submits'
                   PROVE  /\ journal'[i].payload.id \in Drawn
                          /\ \A u \in Traders : submitting'[u].at = "drawn"
                                                  => submitting'[u].id # journal'[i].payload.id
        BY <1>8 DEF Drawn
      <4>1. CASE i = n BY <3>2, <3>3, <3>6, <3>7, <4>1
      <4>2. CASE i \in Submits BY <1>0, <2>4, <3>4, <3>5, <4>2 DEF IdsApart
      <4> QED BY <3>4, <4>1, <4>2
    <3>9. \A i, k \in Submits' : journal'[i].payload.id = journal'[k].payload.id => i = k
      <4>1. \A i \in Submits : journal'[i].payload.id # journal'[n].payload.id
        BY <3>2, <3>3, <3>4, <3>5
      <4>2. \A i, k \in Submits : journal'[i].payload.id = journal'[k].payload.id => i = k
        BY <1>0, <3>4 DEF IdsApart
      <4> QED BY <3>4, <4>1, <4>2
    <3> QED BY <2>1, <2>2, <2>3, <3>8, <3>9 DEF IdsApart
  <2>7. journal' = journal \/ journal' = Append(journal, r)
    BY <1>4, <1>0, <1>5, <1>8, EgressFacts DEF Recording
  <2>8. journal' = journal => SameSubmits BY DEF SameSubmits, Submits
  <2> QED BY <2>5, <2>6, <2>7, <2>8
<1>14. CountsRight' BY <1>0, <1>8 DEF CountsRight, Gone
<1>15. JournalTells'
  <2> SUFFICES ASSUME tapped', NEW id \in Drawn', MissingOf(id)' = {} PROVE ToldRight(id)'
    BY DEF JournalTells
  <2>1. tapped /\ id \in Drawn BY <1>8 DEF Drawn
  <2>2. MissingOf(id) = {} /\ Told(id)' = Learns(id, Told(id), r) BY <1>10, <2>1
  <2>3. ToldRight(id) BY <1>0, <2>1, <2>2 DEF JournalTells
  <2>4. CASE id = s.id
    <3>1. Told(id)' = Tells(Told(id), r) BY <1>6, <2>2, <2>4 DEF Learns, RecordOf, Written
    <3>2. Tells(Told(id), r) = <<[s.request EXCEPT !.exchange = s.request.exchange]>>
      BY <1>4, <1>6, ExchangeKept DEF Tells, Written
    <3>3. [s.request EXCEPT !.exchange = s.request.exchange] = s.request BY <1>4 DEF Requests
    <3>4. Told(id)' = <<s.request>> BY <3>1, <3>2, <3>3
    <3>5. id \notin DOMAIN pending /\ id \notin DOMAIN left BY <1>0, <1>1, <1>3, <2>4 DEF IdsApart
    <3>6. \A u \in Traders : submitting'[u].at = "recorded" /\ submitting'[u].id = id => u = t
      <4> SUFFICES ASSUME NEW u \in Traders, submitting'[u].at = "recorded", submitting'[u].id = id,
                          u # t
                   PROVE  FALSE
        OBVIOUS
      <4>1. submitting[u].id = s.id /\ Placing(u) BY <1>9, <2>4 DEF Placing
      <4> QED BY <1>0, <1>1, <1>3, <4>1 DEF IdsApart
    <3> QED BY <1>7, <1>8, <1>9, <3>4, <3>5, <3>6 DEF ToldRight
  <2>5. CASE id # s.id
    <3>1. Told(id)' = Told(id) BY <1>6, <2>2, <2>5 DEF Learns, RecordOf, Written
    <3>2. \A u \in Traders : submitting'[u].id = id => submitting'[u] = submitting[u]
      BY <1>7, <1>9, <2>5
    <3> QED BY <1>8, <2>3, <3>1, <3>2 DEF ToldRight
  <2> QED BY <2>4, <2>5
<1> QED BY <1>10, <1>11, <1>13, <1>14, <1>15 DEF OrderInv

\* Where no order is submitted, the identifiers stay apart if the orders that
\* are tracked or gone are those of before.
LEMMA IdsKept ==
  ASSUME OrderInv, SameSubmits, UNCHANGED <<next_order, submitting>>,
         DOMAIN pending' \cap DOMAIN left' = {},
         DOMAIN pending' \cup DOMAIN left' = DOMAIN pending \cup DOMAIN left
  PROVE  IdsApart'
<1>1. IdsApart BY OrderFacts
<1>2. Drawn' = Drawn BY DEF Drawn
<1>3. \A t \in Traders : Placing(t)' <=> Placing(t) BY DEF Placing
<1>4. \A t \in Traders : Placing(t)' => submitting'[t].id \in Drawn' \ (DOMAIN pending' \cup DOMAIN left')
  BY <1>1, <1>2, <1>3 DEF IdsApart
<1>5. \A t, u \in Traders : Placing(t)' /\ Placing(u)' /\ submitting'[t].id = submitting'[u].id => t = u
  BY <1>1, <1>3 DEF IdsApart
<1>6. \A i \in Submits' : /\ journal'[i].payload.id \in Drawn'
                          /\ \A t \in Traders : submitting'[t].at = "drawn"
                                                  => submitting'[t].id # journal'[i].payload.id
  BY <1>1, <1>2 DEF IdsApart, SameSubmits
<1>7. \A i, k \in Submits' : journal'[i].payload.id = journal'[k].payload.id => i = k
  BY <1>1 DEF IdsApart, SameSubmits
<1> QED BY <1>4, <1>5, <1>6, <1>7 DEF IdsApart

\* submit_order tracks the order that it recorded.
LEMMA TrackKeeps ==
  ASSUME OrderInv, NEW t \in Traders, SubmitTrack(t)
  PROVE  OrderInv'
<1>0. OrderTypeOK /\ IdsApart /\ CountsRight /\ JournalTells /\ PointsKnown BY OrderFacts
<1>1. PICK s : s = submitting[t] OBVIOUS
<1>2. s.at = "recorded" BY <1>1 DEF SubmitTrack
<1>3. Placing(t) BY <1>1, <1>2 DEF Placing
<1>4. s.id \in Nat /\ s.request \in Requests /\ s.id \in Drawn
      /\ s.id \notin DOMAIN pending /\ s.id \notin DOMAIN left
  BY <1>0, <1>1, <1>3, OrderFacts DEF IdsApart
<1> DEFINE o == [request |-> s.request, status |-> "Pending"]
<1>5. /\ pending' = With(pending, s.id, o)
      /\ stats' = [stats EXCEPT !.orders_submitted = @ + 1, !.pending_count = Cardinality(DOMAIN pending')]
      /\ submitting' = [submitting EXCEPT ![t] = NotSubmitting]
      /\ UNCHANGED <<next_order, tapped, journal, checkpoint_seq, missing, left>>
  BY <1>1 DEF SubmitTrack
<1>6. o \in [request : Requests, status : Statuses \ Terminal] /\ o.request = s.request
  BY <1>4 DEF Statuses, Terminal
<1> HIDE DEF o
<1>7. /\ DOMAIN pending' = DOMAIN pending \cup {s.id} /\ pending'[s.id] = o
      /\ \A id \in DOMAIN pending : pending'[id] = pending[id]
  BY <1>4, <1>5 DEF With
<1>8. /\ submitting'[t] = NotSubmitting /\ \A u \in Traders : u # t => submitting'[u] = submitting[u]
      /\ submitting' \in [Traders -> {NotSubmitting} \cup Submissions]
  BY <1>0, <1>5 DEF OrderTypeOK
<1>9. NotSubmitting.at = "none" BY DEF NotSubmitting
<1>10. /\ SameSubmits /\ PointsKnown' /\ journal' = journal
       /\ \A id : MissingOf(id)' = MissingOf(id) /\ Told(id)' = Told(id)
  BY <1>0, <1>5, SilentKeeps
<1>11. Cardinality(DOMAIN pending') = Cardinality(DOMAIN pending) + 1
       /\ Cardinality(DOMAIN pending) \in Nat /\ Cardinality(DOMAIN left) \in Nat
  BY <1>0, <1>4, <1>7, OrdersFinite, FS_AddElement
<1>12. Drawn' = Drawn BY <1>5 DEF Drawn
<1>13. stats \in Counters BY <1>0 DEF OrderTypeOK
<1>14. /\ stats' \in Counters /\ stats'.orders_submitted = stats.orders_submitted + 1
       /\ stats'.pending_count = Cardinality(DOMAIN pending')
       /\ stats'.orders_cancelled = stats.orders_cancelled
       /\ stats'.orders_filled = stats.orders_filled /\ stats'.orders_rejected = stats.orders_rejected
  <2>1. PICK c \in Nat : c = Cardinality(DOMAIN pending') BY <1>11
  <2>2. PICK n \in Nat : n = stats.orders_submitted + 1 BY <1>13 DEF Counters
  <2>3. stats' = [stats EXCEPT !.orders_submitted = n, !.pending_count = c] BY <1>5, <2>1, <2>2
  <2> QED BY <1>13, <2>1, <2>2, <2>3 DEF Counters
<1>15. OrderTypeOK'
  <2>1. tapped' \in BOOLEAN BY <1>0, <1>5 DEF OrderTypeOK
  <2>2. \A id \in DOMAIN pending' : pending'[id] \in [request : Requests, status : Statuses \ Terminal]
    BY <1>0, <1>6, <1>7 DEF OrderTypeOK
  <2>3. DOMAIN pending' \subseteq Drawn' BY <1>0, <1>4, <1>7, <1>12 DEF OrderTypeOK
  <2> QED BY <1>0, <1>5, <1>8, <1>12, <1>14, <2>1, <2>2, <2>3 DEF OrderTypeOK
<1>16. IdsApart'
  <2>1. DOMAIN pending' \cap DOMAIN left' = {} BY <1>0, <1>4, <1>5, <1>7 DEF IdsApart
  <2>2. \A u \in Traders : Placing(u)' => u # t /\ Placing(u) /\ submitting'[u] = submitting[u]
    BY <1>8, <1>9 DEF Placing
  <2>3. \A u \in Traders : u # t /\ Placing(u) => submitting[u].id # s.id BY <1>0, <1>1, <1>3 DEF IdsApart
  <2>4. \A u \in Traders : Placing(u)' =>
          submitting'[u].id \in Drawn' \ (DOMAIN pending' \cup DOMAIN left')
    BY <1>0, <1>5, <1>7, <1>12, <2>2, <2>3 DEF IdsApart
  <2>5. \A u, v \in Traders : Placing(u)' /\ Placing(v)' /\ submitting'[u].id = submitting'[v].id => u = v
    BY <1>0, <2>2 DEF IdsApart
  <2>6. \A u \in Traders : submitting'[u].at = "drawn" => submitting'[u] = submitting[u]
    BY <1>8, <1>9
  <2>7. \A i \in Submits' : /\ journal'[i].payload.id \in Drawn'
                            /\ \A u \in Traders : submitting'[u].at = "drawn"
                                                    => submitting'[u].id # journal'[i].payload.id
    BY <1>0, <1>10, <1>12, <2>6 DEF IdsApart, SameSubmits
  <2>8. \A i, k \in Submits' : journal'[i].payload.id = journal'[k].payload.id => i = k
    BY <1>0, <1>10 DEF IdsApart, SameSubmits
  <2> QED BY <2>1, <2>4, <2>5, <2>7, <2>8 DEF IdsApart
<1>17. CountsRight' 
  <2>1. \A how : Gone(how)' = Gone(how) BY <1>5 DEF Gone
  <2> QED BY <1>0, <1>5, <1>11, <1>13, <1>14, <2>1 DEF CountsRight, Counters
<1>18. JournalTells'
  <2> SUFFICES ASSUME tapped', NEW id \in Drawn', MissingOf(id)' = {} PROVE ToldRight(id)'
    BY DEF JournalTells
  <2>1. tapped BY <1>5
  <2>2. ToldRight(id) BY <1>0, <1>10, <1>12, <2>1 DEF JournalTells
  <2>3. \A u \in Traders : submitting'[u].at = "recorded" => submitting'[u] = submitting[u]
    BY <1>8, <1>9
  <2>4. id \in DOMAIN pending' => Told(id) = <<pending'[id].request>>
    <3>1. CASE id = s.id BY <1>1, <1>2, <1>6, <1>7, <2>2, <3>1 DEF ToldRight
    <3>2. CASE id # s.id BY <1>7, <2>2, <3>2 DEF ToldRight
    <3> QED BY <3>1, <3>2
  <2> QED BY <1>5, <1>10, <2>2, <2>3, <2>4 DEF ToldRight
<1> QED BY <1>10, <1>15, <1>16, <1>17, <1>18 DEF OrderInv

\* An order that is cancelled leaves, and the journal tells it as gone.
LEMMA CancelKeeps ==
  ASSUME OrderInv, NEW id \in DOMAIN pending, cancel_order(id)
  PROVE  OrderInv'
<1>0. OrderTypeOK /\ IdsApart /\ CountsRight /\ JournalTells /\ PointsKnown BY OrderFacts
<1>1. PICK e \in Exchanges : e = pending[id].request.exchange BY OrderFacts
<1> DEFINE payload == [op |-> "cancel", id |-> id]
<1>2. payload \in Payloads BY OrderFacts DEF Payloads
<1>3. payload.op = "cancel" /\ payload.id = id OBVIOUS
<1>4. /\ record_egress(e, payload) /\ pending' = Without(pending, id)
      /\ stats' = [stats EXCEPT !.orders_cancelled = @ + 1, !.pending_count = Cardinality(DOMAIN pending')]
      /\ left' = With(left, id, "cancel")
      /\ UNCHANGED <<next_order, submitting, tapped, checkpoint_seq>>
  BY <1>1 DEF cancel_order
<1> HIDE DEF payload
<1> DEFINE r == Written(e, payload)
<1>5. r.kind = "OrderSubmit" /\ r.payload.op = "cancel" /\ r.payload.id = id BY <1>3 DEF Written
<1>6. /\ journal' \in Seq(Records) /\ missing' \in Seq(Records) /\ PointsKnown' /\ SameSubmits
      /\ tapped => \A k : MissingOf(k)' = {} => MissingOf(k) = {} /\ Told(k)' = Learns(k, Told(k), r)
  BY <1>0, <1>2, <1>3, <1>4, EgressKeeps
<1> HIDE DEF r
<1>7. id \in Drawn /\ id \notin DOMAIN left /\ Drawn' = Drawn BY <1>0, <1>4 DEF OrderTypeOK, IdsApart, Drawn
<1>8. /\ DOMAIN pending' = DOMAIN pending \ {id}
      /\ \A k \in DOMAIN pending' : pending'[k] = pending[k]
      /\ Cardinality(DOMAIN pending') = Cardinality(DOMAIN pending) - 1
  BY <1>0, <1>4, RemovedFacts
<1>9. /\ DOMAIN left' = DOMAIN left \cup {id} /\ left'[id] = "cancel"
      /\ \A k \in DOMAIN left : left'[k] = left[k]
      /\ Cardinality(DOMAIN left') = Cardinality(DOMAIN left) + 1
      /\ \A how : Cardinality(Gone(how))' =
           IF how = "cancel" THEN Cardinality(Gone(how)) + 1 ELSE Cardinality(Gone(how))
  BY <1>0, <1>4, <1>7, LeftFacts
<1>10. /\ Cardinality(DOMAIN pending) \in Nat /\ Cardinality(DOMAIN left) \in Nat
       /\ Cardinality(DOMAIN pending') \in Nat
  <2>1. IsFiniteSet(DOMAIN pending') BY <1>0, <1>8, OrdersFinite, FS_Subset
  <2> QED BY <1>0, <2>1, OrdersFinite, FS_CardinalityType
<1>11. stats \in Counters BY <1>0 DEF OrderTypeOK
<1>12. /\ stats' \in Counters /\ stats'.orders_submitted = stats.orders_submitted
       /\ stats'.pending_count = Cardinality(DOMAIN pending')
       /\ stats'.orders_cancelled = stats.orders_cancelled + 1
       /\ stats'.orders_filled = stats.orders_filled /\ stats'.orders_rejected = stats.orders_rejected
  <2>1. PICK c \in Nat : c = Cardinality(DOMAIN pending') BY <1>10
  <2>2. PICK n \in Nat : n = stats.orders_cancelled + 1 BY <1>11 DEF Counters
  <2>3. stats' = [stats EXCEPT !.orders_cancelled = n, !.pending_count = c] BY <1>4, <2>1, <2>2
  <2> QED BY <1>11, <2>1, <2>2, <2>3 DEF Counters
<1>13. OrderTypeOK'
  <2>1. tapped' \in BOOLEAN /\ submitting' \in [Traders -> {NotSubmitting} \cup Submissions]
    BY <1>0, <1>4 DEF OrderTypeOK
  <2>2. \A k \in DOMAIN pending' : pending'[k] \in [request : Requests, status : Statuses \ Terminal]
    BY <1>0, <1>8 DEF OrderTypeOK
  <2>3. DOMAIN pending' \subseteq Drawn' /\ DOMAIN left' \subseteq Drawn'
    BY <1>0, <1>7, <1>8, <1>9 DEF OrderTypeOK
  <2> QED BY <1>0, <1>4, <1>6, <1>12, <2>1, <2>2, <2>3 DEF OrderTypeOK
<1>14. IdsApart'
  <2>1. DOMAIN pending' \cap DOMAIN left' = {} BY <1>0, <1>8, <1>9 DEF IdsApart
  <2>2. DOMAIN pending' \cup DOMAIN left' = DOMAIN pending \cup DOMAIN left BY <1>8, <1>9
  <2> QED BY <1>4, <1>6, <2>1, <2>2, IdsKept
<1>15. CountsRight' BY <1>0, <1>8, <1>9, <1>10, <1>12 DEF CountsRight
<1>16. JournalTells'
  <2> SUFFICES ASSUME tapped', NEW k \in Drawn', MissingOf(k)' = {} PROVE ToldRight(k)'
    BY DEF JournalTells
  <2>1. tapped /\ k \in Drawn BY <1>4, <1>7
  <2>2. MissingOf(k) = {} /\ Told(k)' = Learns(k, Told(k), r) BY <1>6, <2>1
  <2>3. ToldRight(k) BY <1>0, <2>1, <2>2 DEF JournalTells
  <2>4. CASE k = id
    <3>1. Told(k)' = <<>> BY <1>5, <2>2, <2>4 DEF Learns, RecordOf, Tells
    <3>2. \A u \in Traders : ~(submitting[u].at = "recorded" /\ submitting[u].id = k)
      BY <1>0, <2>4 DEF IdsApart, Placing
    <3> QED BY <1>4, <1>8, <2>4, <3>1, <3>2 DEF ToldRight
  <2>5. CASE k # id
    <3>1. Told(k)' = Told(k) BY <1>5, <2>2, <2>5 DEF Learns, RecordOf
    <3> QED BY <1>4, <1>8, <1>9, <2>3, <2>5, <3>1 DEF ToldRight
  <2> QED BY <2>4, <2>5
<1> QED BY <1>6, <1>13, <1>14, <1>15, <1>16 DEF OrderInv

\* An order that is modified stays, and the journal tells it as it is now.
LEMMA ModifyKeeps ==
  ASSUME OrderInv, NEW id \in DOMAIN pending, NEW m \in ModifyRequests, modify_order(id, m)
  PROVE  OrderInv'
<1>0. OrderTypeOK /\ IdsApart /\ CountsRight /\ JournalTells /\ PointsKnown BY OrderFacts
<1>1. PICK o \in [request : Requests, status : Statuses \ Terminal] : o = pending[id]
  BY <1>0 DEF OrderTypeOK
<1>2. o.request \in Requests /\ o.request.exchange \in Exchanges BY <1>1, OrderFacts
<1> DEFINE payload == [op |-> "modify", id |-> id, change |-> m]
           e == o.request.exchange
           now == Modified(o.request, m)
           o2 == [o EXCEPT !.request = now]
<1>3. payload \in Payloads BY OrderFacts DEF Payloads
<1>4. payload.op = "modify" /\ payload.id = id /\ payload.change = m OBVIOUS
<1>5. /\ record_egress(e, payload) /\ pending' = [pending EXCEPT ![id] = o2]
      /\ stats' = [stats EXCEPT !.orders_modified = @ + 1]
      /\ UNCHANGED <<next_order, submitting, tapped, checkpoint_seq, left>>
  BY <1>1 DEF modify_order
<1>6. now \in Requests /\ e \in Exchanges BY <1>2, ModifyTypes
<1>7. now = [o.request EXCEPT !.price = IF m.new_price = 0 THEN @ ELSE m.new_price,
                              !.quantity = IF m.new_quantity = 0 THEN @ ELSE m.new_quantity]
  BY <1>2, ModifyTypes
<1> HIDE DEF now
<1>8. o2 \in [request : Requests, status : Statuses \ Terminal] /\ o2.request = now
  BY <1>6
<1> HIDE DEF payload, e, o2
<1> DEFINE r == Written(e, payload)
<1>9. /\ r.kind = "OrderSubmit" /\ r.payload.op = "modify" /\ r.payload.id = id
      /\ r.payload.change = m
  BY <1>4 DEF Written
<1>10. /\ journal' \in Seq(Records) /\ missing' \in Seq(Records) /\ PointsKnown' /\ SameSubmits
       /\ tapped => \A k : MissingOf(k)' = {} => MissingOf(k) = {} /\ Told(k)' = Learns(k, Told(k), r)
  BY <1>0, <1>3, <1>4, <1>5, <1>6, EgressKeeps
<1> HIDE DEF r
<1>11. /\ DOMAIN pending' = DOMAIN pending /\ pending'[id] = o2
       /\ \A k \in DOMAIN pending : k # id => pending'[k] = pending[k]
  BY <1>5
<1>12. Drawn' = Drawn BY <1>5 DEF Drawn
<1>13. stats \in Counters BY <1>0 DEF OrderTypeOK
<1>14. /\ stats' \in Counters /\ stats'.orders_submitted = stats.orders_submitted
       /\ stats'.pending_count = stats.pending_count
       /\ stats'.orders_cancelled = stats.orders_cancelled
       /\ stats'.orders_filled = stats.orders_filled /\ stats'.orders_rejected = stats.orders_rejected
  BY <1>5, <1>13 DEF Counters
<1>15. OrderTypeOK'
  <2>1. tapped' \in BOOLEAN /\ submitting' \in [Traders -> {NotSubmitting} \cup Submissions]
    BY <1>0, <1>5 DEF OrderTypeOK
  <2>2. \A k \in DOMAIN pending' : pending'[k] \in [request : Requests, status : Statuses \ Terminal]
    BY <1>0, <1>8, <1>11 DEF OrderTypeOK
  <2>3. DOMAIN pending' \subseteq Drawn' /\ DOMAIN left' \subseteq Drawn'
    BY <1>0, <1>5, <1>11, <1>12 DEF OrderTypeOK
  <2> QED BY <1>0, <1>5, <1>10, <1>14, <2>1, <2>2, <2>3 DEF OrderTypeOK
<1>16. IdsApart'
  <2>1. DOMAIN pending' \cap DOMAIN left' = {} BY <1>0, <1>5, <1>11 DEF IdsApart
  <2>2. DOMAIN pending' \cup DOMAIN left' = DOMAIN pending \cup DOMAIN left BY <1>5, <1>11
  <2> QED BY <1>5, <1>10, <2>1, <2>2, IdsKept
<1>17. CountsRight'
  <2>1. \A how : Gone(how)' = Gone(how) BY <1>5 DEF Gone
  <2> QED BY <1>0, <1>5, <1>11, <1>14, <2>1 DEF CountsRight
<1>18. JournalTells'
  <2> SUFFICES ASSUME tapped', NEW k \in Drawn', MissingOf(k)' = {} PROVE ToldRight(k)'
    BY DEF JournalTells
  <2>1. tapped /\ k \in Drawn BY <1>5, <1>12
  <2>2. MissingOf(k) = {} /\ Told(k)' = Learns(k, Told(k), r) BY <1>10, <2>1
  <2>3. ToldRight(k) BY <1>0, <2>1, <2>2 DEF JournalTells
  <2>4. CASE k = id
    <3>1. Told(k) = <<o.request>> BY <1>1, <2>3, <2>4 DEF ToldRight
    <3>2. Told(k)' = Tells(<<o.request>>, r) BY <1>9, <2>2, <2>4, <3>1 DEF Learns, RecordOf
    <3>3. Tells(<<o.request>>, r) = <<now>>
      <4>1. <<o.request>> # <<>> /\ <<o.request>>[1] = o.request OBVIOUS
      <4> QED BY <1>7, <1>9, <4>1 DEF Tells
    <3>4. \A u \in Traders : ~(submitting[u].at = "recorded" /\ submitting[u].id = k)
      BY <1>0, <2>4 DEF IdsApart, Placing
    <3>5. k \notin DOMAIN left BY <1>0, <2>4 DEF IdsApart
    <3> QED BY <1>5, <1>8, <1>11, <2>4, <3>2, <3>3, <3>4, <3>5 DEF ToldRight
  <2>5. CASE k # id
    <3>1. Told(k)' = Told(k) BY <1>9, <2>2, <2>5 DEF Learns, RecordOf
    <3> QED BY <1>5, <1>11, <2>3, <2>5, <3>1 DEF ToldRight
  <2> QED BY <2>4, <2>5
<1> QED BY <1>10, <1>15, <1>16, <1>17, <1>18 DEF OrderInv

\* An answer of the exchange that ends an order makes it leave.
LEMMA EndKeeps ==
  ASSUME OrderInv, NEW id \in DOMAIN pending, NEW status \in Statuses, update_status(id, status),
         Leaves(status)
  PROVE  OrderInv'
<1>0. OrderTypeOK /\ IdsApart /\ CountsRight /\ JournalTells /\ PointsKnown BY OrderFacts
<1>1. /\ pending' = Without(pending, id) /\ left' = With(left, id, status)
      /\ stats' = [stats EXCEPT !.orders_filled = IF status = "Filled" THEN @ + 1 ELSE @,
                                !.orders_rejected = IF status = "Rejected" THEN @ + 1 ELSE @,
                                !.pending_count = Cardinality(DOMAIN pending')]
      /\ UNCHANGED <<next_order, submitting, tapped, journal, checkpoint_seq, missing>>
  BY DEF update_status
<1>2. status # "cancel" BY DEF Leaves, Terminal
<1>3. /\ SameSubmits /\ PointsKnown'
      /\ \A k : MissingOf(k)' = MissingOf(k) /\ Told(k)' = Told(k)
  BY <1>0, <1>1, SilentKeeps
<1>4. id \in Drawn /\ id \notin DOMAIN left /\ Drawn' = Drawn BY <1>0, <1>1 DEF OrderTypeOK, IdsApart, Drawn
<1>5. /\ DOMAIN pending' = DOMAIN pending \ {id}
      /\ \A k \in DOMAIN pending' : pending'[k] = pending[k]
      /\ Cardinality(DOMAIN pending') = Cardinality(DOMAIN pending) - 1
  BY <1>0, <1>1, RemovedFacts
<1>6. /\ DOMAIN left' = DOMAIN left \cup {id} /\ left'[id] = status
      /\ \A k \in DOMAIN left : left'[k] = left[k]
      /\ Cardinality(DOMAIN left') = Cardinality(DOMAIN left) + 1
      /\ \A how : Cardinality(Gone(how))' =
           IF how = status THEN Cardinality(Gone(how)) + 1 ELSE Cardinality(Gone(how))
  BY <1>0, <1>1, <1>4, LeftFacts
<1>7. /\ Cardinality(DOMAIN pending) \in Nat /\ Cardinality(DOMAIN left) \in Nat
      /\ Cardinality(DOMAIN pending') \in Nat
  <2>1. IsFiniteSet(DOMAIN pending') BY <1>0, <1>5, OrdersFinite, FS_Subset
  <2> QED BY <1>0, <2>1, OrdersFinite, FS_CardinalityType
<1>8. stats \in Counters BY <1>0 DEF OrderTypeOK
<1>9. /\ stats' \in Counters /\ stats'.orders_submitted = stats.orders_submitted
      /\ stats'.pending_count = Cardinality(DOMAIN pending')
      /\ stats'.orders_cancelled = stats.orders_cancelled
      /\ stats'.orders_filled = IF status = "Filled" THEN stats.orders_filled + 1 ELSE stats.orders_filled
      /\ stats'.orders_rejected =
           IF status = "Rejected" THEN stats.orders_rejected + 1 ELSE stats.orders_rejected
  <2>1. PICK c \in Nat : c = Cardinality(DOMAIN pending') BY <1>7
  <2>2. PICK f \in Nat : f = IF status = "Filled" THEN stats.orders_filled + 1 ELSE stats.orders_filled
    BY <1>8 DEF Counters
  <2>3. PICK n \in Nat :
          n = IF status = "Rejected" THEN stats.orders_rejected + 1 ELSE stats.orders_rejected
    BY <1>8 DEF Counters
  <2>4. stats' = [stats EXCEPT !.orders_filled = f, !.orders_rejected = n, !.pending_count = c]
    BY <1>1, <2>1, <2>2, <2>3
  <2>5. /\ stats' \in Counters /\ stats'.orders_submitted = stats.orders_submitted
        /\ stats'.pending_count = c /\ stats'.orders_cancelled = stats.orders_cancelled
        /\ stats'.orders_filled = f /\ stats'.orders_rejected = n
    BY <1>8, <2>4 DEF Counters
  <2> QED BY <2>1, <2>2, <2>3, <2>5
<1>10. OrderTypeOK'
  <2>1. tapped' \in BOOLEAN /\ submitting' \in [Traders -> {NotSubmitting} \cup Submissions]
    BY <1>0, <1>1 DEF OrderTypeOK
  <2>2. \A k \in DOMAIN pending' : pending'[k] \in [request : Requests, status : Statuses \ Terminal]
    BY <1>0, <1>5 DEF OrderTypeOK
  <2>3. DOMAIN pending' \subseteq Drawn' /\ DOMAIN left' \subseteq Drawn'
    BY <1>0, <1>4, <1>5, <1>6 DEF OrderTypeOK
  <2> QED BY <1>0, <1>1, <1>9, <2>1, <2>2, <2>3 DEF OrderTypeOK
<1>11. IdsApart'
  <2>1. DOMAIN pending' \cap DOMAIN left' = {} BY <1>0, <1>5, <1>6 DEF IdsApart
  <2>2. DOMAIN pending' \cup DOMAIN left' = DOMAIN pending \cup DOMAIN left BY <1>5, <1>6
  <2> QED BY <1>1, <1>3, <2>1, <2>2, IdsKept
<1>12. CountsRight' BY <1>0, <1>2, <1>5, <1>6, <1>7, <1>9 DEF CountsRight
<1>13. JournalTells'
  <2> SUFFICES ASSUME tapped', NEW k \in Drawn', MissingOf(k)' = {} PROVE ToldRight(k)'
    BY DEF JournalTells
  <2>1. tapped BY <1>1
  <2>2. ToldRight(k) BY <1>0, <1>3, <1>4, <2>1 DEF JournalTells
  <2>3. k \in DOMAIN left' => (left'[k] = "cancel" => Told(k) = <<>>)
    BY <1>2, <1>6, <2>2 DEF ToldRight
  <2> QED BY <1>1, <1>3, <1>5, <2>2, <2>3 DEF ToldRight
<1> QED BY <1>3, <1>10, <1>11, <1>12, <1>13 DEF OrderInv

\* Another answer of the exchange changes the status of the order alone.
LEMMA AnswerKeeps ==
  ASSUME OrderInv, NEW id \in DOMAIN pending, NEW status \in Statuses, update_status(id, status),
         ~Leaves(status)
  PROVE  OrderInv'
<1>0. OrderTypeOK /\ IdsApart /\ CountsRight /\ JournalTells /\ PointsKnown BY OrderFacts
<1>1. PICK o \in [request : Requests, status : Statuses \ Terminal] : o = pending[id]
  BY <1>0 DEF OrderTypeOK
<1> DEFINE o2 == [o EXCEPT !.status = status]
<1>2. status # "Filled" /\ status # "Rejected" BY DEF Leaves, Terminal
<1>3. /\ pending' = [pending EXCEPT ![id] = o2] /\ left' = left
      /\ stats' = [stats EXCEPT !.orders_filled = @, !.orders_rejected = @,
                                !.pending_count = Cardinality(DOMAIN pending')]
      /\ UNCHANGED <<next_order, submitting, tapped, journal, checkpoint_seq, missing>>
  BY <1>1, <1>2 DEF update_status
<1>4. o2 \in [request : Requests, status : Statuses \ Terminal] /\ o2.request = o.request BY DEF Leaves
<1> HIDE DEF o2
<1>5. /\ SameSubmits /\ PointsKnown'
      /\ \A k : MissingOf(k)' = MissingOf(k) /\ Told(k)' = Told(k)
  BY <1>0, <1>3, SilentKeeps
<1>6. /\ DOMAIN pending' = DOMAIN pending /\ pending'[id] = o2
      /\ \A k \in DOMAIN pending : k # id => pending'[k] = pending[k]
  BY <1>3
<1>7. Drawn' = Drawn BY <1>3 DEF Drawn
<1>8. stats \in Counters BY <1>0 DEF OrderTypeOK
<1>9. /\ stats' \in Counters /\ stats'.orders_submitted = stats.orders_submitted
      /\ stats'.pending_count = Cardinality(DOMAIN pending)
      /\ stats'.orders_cancelled = stats.orders_cancelled
      /\ stats'.orders_filled = stats.orders_filled /\ stats'.orders_rejected = stats.orders_rejected
  <2>1. PICK c \in Nat : c = Cardinality(DOMAIN pending) BY <1>0, OrdersFinite
  <2>2. stats' = [stats EXCEPT !.orders_filled = @, !.orders_rejected = @, !.pending_count = c]
    BY <1>3, <1>6, <2>1
  <2> QED BY <1>8, <2>1, <2>2 DEF Counters
<1>10. OrderTypeOK'
  <2>1. tapped' \in BOOLEAN /\ submitting' \in [Traders -> {NotSubmitting} \cup Submissions]
    BY <1>0, <1>3 DEF OrderTypeOK
  <2>2. \A k \in DOMAIN pending' : pending'[k] \in [request : Requests, status : Statuses \ Terminal]
    BY <1>0, <1>4, <1>6 DEF OrderTypeOK
  <2>3. DOMAIN pending' \subseteq Drawn' /\ DOMAIN left' \subseteq Drawn'
    BY <1>0, <1>3, <1>6, <1>7 DEF OrderTypeOK
  <2> QED BY <1>0, <1>3, <1>9, <2>1, <2>2, <2>3 DEF OrderTypeOK
<1>11. IdsApart'
  <2>1. DOMAIN pending' \cap DOMAIN left' = {} BY <1>0, <1>3, <1>6 DEF IdsApart
  <2>2. DOMAIN pending' \cup DOMAIN left' = DOMAIN pending \cup DOMAIN left BY <1>3, <1>6
  <2> QED BY <1>3, <1>5, <2>1, <2>2, IdsKept
<1>12. CountsRight'
  <2>1. \A how : Gone(how)' = Gone(how) BY <1>3 DEF Gone
  <2> QED BY <1>0, <1>3, <1>6, <1>9, <2>1 DEF CountsRight
<1>13. JournalTells'
  <2> SUFFICES ASSUME tapped', NEW k \in Drawn', MissingOf(k)' = {} PROVE ToldRight(k)'
    BY DEF JournalTells
  <2>1. tapped BY <1>3
  <2>2. ToldRight(k) BY <1>0, <1>5, <1>7, <2>1 DEF JournalTells
  <2>3. k \in DOMAIN pending => pending'[k].request = pending[k].request BY <1>1, <1>4, <1>6
  <2> QED BY <1>3, <1>5, <1>6, <2>2, <2>3 DEF ToldRight
<1> QED BY <1>5, <1>10, <1>11, <1>12, <1>13 DEF OrderInv

\* clear lets every order go at once, in no way that the statistics count.
LEMMA ClearKeeps ==
  ASSUME OrderInv, clear
  PROVE  OrderInv'
<1>0. OrderTypeOK /\ IdsApart /\ CountsRight /\ JournalTells /\ PointsKnown BY OrderFacts
<1>1. /\ pending' = << >> /\ stats' = [stats EXCEPT !.pending_count = 0]
      /\ left' = [k \in DOMAIN left \cup DOMAIN pending |-> IF k \in DOMAIN left THEN left[k] ELSE "clear"]
      /\ UNCHANGED <<next_order, submitting, tapped, journal, checkpoint_seq, missing>>
  BY DEF clear
<1>2. /\ SameSubmits /\ PointsKnown'
      /\ \A k : MissingOf(k)' = MissingOf(k) /\ Told(k)' = Told(k)
  BY <1>0, <1>1, SilentKeeps
<1>3. DOMAIN pending' = {} BY <1>1
<1>4. /\ DOMAIN left' = DOMAIN left \cup DOMAIN pending
      /\ \A k \in DOMAIN left : left'[k] = left[k]
      /\ \A k \in DOMAIN pending : k \notin DOMAIN left => left'[k] = "clear"
  BY <1>1
<1>5. DOMAIN pending \cap DOMAIN left = {} BY <1>0 DEF IdsApart
<1>6. Drawn' = Drawn BY <1>1 DEF Drawn
<1>7. /\ Cardinality(DOMAIN left') = Cardinality(DOMAIN left) + Cardinality(DOMAIN pending)
      /\ Cardinality(DOMAIN pending') = 0
  <2>1. DOMAIN left \cap DOMAIN pending = {} BY <1>5
  <2>2. Cardinality({}) = 0 BY FS_EmptySet
  <2>3. /\ IsFiniteSet(DOMAIN left) /\ IsFiniteSet(DOMAIN pending)
        /\ Cardinality(DOMAIN left) \in Nat /\ Cardinality(DOMAIN pending) \in Nat
    BY <1>0, OrdersFinite
  <2>4. Cardinality(DOMAIN left \cup DOMAIN pending) =
          Cardinality(DOMAIN left) + Cardinality(DOMAIN pending) - Cardinality(DOMAIN left \cap DOMAIN pending)
    BY <2>3, FS_Union
  <2>5. Cardinality(DOMAIN left \cap DOMAIN pending) = 0 BY <2>1, <2>2
  <2>6. Cardinality(DOMAIN left') = Cardinality(DOMAIN left \cup DOMAIN pending) BY <1>4
  <2>7. Cardinality(DOMAIN pending') = 0 BY <1>3, <2>2
  <2> QED BY <2>3, <2>4, <2>5, <2>6, <2>7
<1>8. \A how : how # "clear" => Gone(how)' = Gone(how) BY <1>4, <1>5 DEF Gone
<1>9. stats \in Counters BY <1>0 DEF OrderTypeOK
<1>10. /\ stats' \in Counters /\ stats'.orders_submitted = stats.orders_submitted
       /\ stats'.pending_count = 0 /\ stats'.orders_cancelled = stats.orders_cancelled
       /\ stats'.orders_filled = stats.orders_filled /\ stats'.orders_rejected = stats.orders_rejected
  BY <1>1, <1>9 DEF Counters
<1>11. OrderTypeOK'
  <2>1. tapped' \in BOOLEAN /\ submitting' \in [Traders -> {NotSubmitting} \cup Submissions]
    BY <1>0, <1>1 DEF OrderTypeOK
  <2>2. DOMAIN left' \subseteq Drawn' BY <1>0, <1>4, <1>6 DEF OrderTypeOK
  <2> QED BY <1>0, <1>1, <1>3, <1>10, <2>1, <2>2 DEF OrderTypeOK
<1>12. IdsApart'
  <2>1. DOMAIN pending' \cap DOMAIN left' = {} BY <1>3
  <2>2. DOMAIN pending' \cup DOMAIN left' = DOMAIN pending \cup DOMAIN left BY <1>3, <1>4
  <2> QED BY <1>1, <1>2, <2>1, <2>2, IdsKept
<1>13. CountsRight'
  <2>1. Cardinality(DOMAIN left) \in Nat /\ Cardinality(DOMAIN pending) \in Nat BY <1>0, OrdersFinite
  <2>2. Gone("cancel")' = Gone("cancel") /\ Gone("Filled")' = Gone("Filled")
        /\ Gone("Rejected")' = Gone("Rejected")
    BY <1>8
  <2> QED BY <1>0, <1>7, <1>10, <2>1, <2>2 DEF CountsRight
<1>14. JournalTells'
  <2> SUFFICES ASSUME tapped', NEW k \in Drawn', MissingOf(k)' = {} PROVE ToldRight(k)'
    BY DEF JournalTells
  <2>1. tapped BY <1>1
  <2>2. ToldRight(k) BY <1>0, <1>2, <1>6, <2>1 DEF JournalTells
  <2>3. k \in DOMAIN left' => (left'[k] = "cancel" => Told(k) = <<>>)
    BY <1>4, <2>2 DEF ToldRight
  <2> QED BY <1>1, <1>2, <1>3, <2>2, <2>3 DEF ToldRight
<1> QED BY <1>2, <1>11, <1>12, <1>13, <1>14 DEF OrderInv

\* A record that is none of an order tells nothing of one.
LEMMA StrangeRecord ==
  ASSUME OrderInv, NEW r \in Records, Recording(r), r.kind # "OrderSubmit", PointsKnown',
         checkpoint_seq' \in Nat, UNCHANGED <<next_order, pending, stats, submitting, tapped, left>>
  PROVE  OrderInv'
<1>0. OrderTypeOK /\ IdsApart /\ CountsRight /\ JournalTells BY OrderFacts
<1>1. journal' \in Seq(Records) /\ missing' \in Seq(Records) /\ SameSubmits BY <1>0, RecordingKeeps
<1>2. Drawn' = Drawn BY DEF Drawn
<1>3. OrderTypeOK'
  <2>1. tapped' \in BOOLEAN BY <1>0 DEF OrderTypeOK
  <2> QED BY <1>0, <1>1, <1>2, <2>1 DEF OrderTypeOK
<1>4. IdsApart'
  <2>1. DOMAIN pending \cap DOMAIN left = {} BY <1>0 DEF IdsApart
  <2> QED BY <1>1, <2>1, IdsKept
<1>5. CountsRight' BY <1>0 DEF CountsRight, Gone
<1>6. JournalTells'
  <2> SUFFICES ASSUME tapped', NEW k \in Drawn', MissingOf(k)' = {} PROVE ToldRight(k)'
    BY DEF JournalTells
  <2>1. MissingOf(k) = {} /\ Told(k)' = Learns(k, Told(k), r) BY <1>0, RecordTold
  <2>2. Told(k)' = Told(k) BY <2>1 DEF Learns, RecordOf
  <2>3. ToldRight(k) BY <1>0, <1>2, <2>1 DEF JournalTells
  <2> QED BY <2>2, <2>3 DEF ToldRight
<1> QED BY <1>3, <1>4, <1>5, <1>6 DEF OrderInv

\* A frame that is recorded beside.
LEMMA FrameKeeps ==
  ASSUME OrderInv, NEW e \in Exchanges, RecordFrame(e)
  PROVE  OrderInv'
<1> DEFINE r == [kind |-> "Frame", source |-> to_blackbox_exchange(e), payload |-> [op |-> "frame"]]
<1>1. r \in Records /\ r.kind = "Frame" BY ExchangeKept DEF Records
<1>2. Recording(r) BY DEF RecordFrame, Record, Recording
<1>3. UNCHANGED <<next_order, pending, stats, submitting, tapped, checkpoint_seq, left>> BY DEF RecordFrame
<1> HIDE DEF r
<1>4. OrderTypeOK /\ PointsKnown /\ checkpoint_seq \in Nat BY OrderFacts DEF OrderTypeOK
<1>5. PointsKnown' BY <1>1, <1>2, <1>3, <1>4, RecordingKeeps
<1> QED BY <1>1, <1>2, <1>3, <1>4, <1>5, StrangeRecord

\* A checkpoint takes the next number, in the journal or among the lost.
LEMMA CheckpointKeeps ==
  ASSUME OrderInv, record_checkpoint
  PROVE  OrderInv'
<1>0. OrderTypeOK /\ PointsKnown BY OrderFacts
<1>1. PICK c \in Nat : c = checkpoint_seq BY <1>0 DEF OrderTypeOK
<1> DEFINE r == [kind |-> "Checkpoint", source |-> "unknown",
                 payload |-> [op |-> "checkpoint", sequence |-> c]]
<1>2. r \in Records /\ r.kind = "Checkpoint" /\ r.payload.sequence = c BY DEF Records, Sources
<1>3. Recording(r) BY <1>1 DEF record_checkpoint, Record, Recording
<1>4. /\ checkpoint_seq' = c + 1
      /\ UNCHANGED <<next_order, pending, stats, submitting, tapped, left>>
  BY <1>1 DEF record_checkpoint, NextCheckpoint
<1> HIDE DEF r
<1>5. journal \in Seq(Records) /\ missing \in Seq(Records) BY <1>0 DEF OrderTypeOK
<1>6. /\ \A i \in Points(journal) : journal[i].payload.sequence \in 0 .. c - 1
      /\ \A i, k \in Points(journal) :
           i < k => journal[i].payload.sequence < journal[k].payload.sequence
      /\ Numbers(missing) = (0 .. c - 1) \ Numbers(journal)
  BY <1>0, <1>1 DEF PointsKnown
<1>7. c \notin 0 .. c - 1 /\ 0 .. c = (0 .. c - 1) \cup {c} BY <1>1
<1>8. ASSUME NEW s \in Seq(Records)
      PROVE  /\ Points(Append(s, r)) = Points(s) \cup {Len(s) + 1}
             /\ Numbers(Append(s, r)) = Numbers(s) \cup {c}
             /\ Append(s, r)[Len(s) + 1] = r /\ \A i \in Points(s) : Append(s, r)[i] = s[i]
  <2>1. /\ DOMAIN Append(s, r) = DOMAIN s \cup {Len(s) + 1} /\ Append(s, r)[Len(s) + 1] = r
        /\ \A i \in DOMAIN s : Append(s, r)[i] = s[i]
    OBVIOUS
  <2> DEFINE a == Append(s, r)
  <2> HIDE DEF a
  <2>2. Points(a) = Points(s) \cup {Len(s) + 1} /\ a[Len(s) + 1] = r /\ \A i \in Points(s) : a[i] = s[i]
    BY <1>2, <2>1 DEF Points, a
  <2>3. Numbers(a) = Numbers(s) \cup {c} BY <1>2, <2>2 DEF Numbers
  <2> QED BY <2>2, <2>3 DEF a
<1>9. Numbers(journal) \subseteq 0 .. c - 1 BY <1>6 DEF Numbers
<1>10. PointsKnown'
  <2>1. checkpoint_seq' - 1 = c BY <1>1, <1>4
  <2>2. CASE journal' = Append(journal, r) /\ missing' = missing
    <3> DEFINE n == Len(journal) + 1
    <3>1. /\ Points(journal') = Points(journal) \cup {n} /\ Numbers(journal') = Numbers(journal) \cup {c}
          /\ journal'[n] = r /\ \A i \in Points(journal) : journal'[i] = journal[i]
          /\ Numbers(missing') = Numbers(missing)
      BY <1>5, <1>8, <2>2
    <3>2. \A i \in Points(journal) : i \in Nat /\ i < n BY <1>5 DEF Points
    <3>3. n \in Nat BY <1>5
    <3> HIDE DEF n
    <3>4. \A i \in Points(journal') : journal'[i].payload.sequence \in 0 .. c
      BY <1>2, <1>6, <1>7, <3>1
    <3>5. \A i, k \in Points(journal') :
            i < k => journal'[i].payload.sequence < journal'[k].payload.sequence
      <4> SUFFICES ASSUME NEW i \in Points(journal'), NEW k \in Points(journal'), i < k
                   PROVE  journal'[i].payload.sequence < journal'[k].payload.sequence
        OBVIOUS
      <4>1. i \in Points(journal) BY <3>1, <3>2, <3>3
      <4>2. CASE k = n BY <1>1, <1>2, <1>6, <3>1, <4>1, <4>2
      <4>3. CASE k \in Points(journal) BY <1>6, <3>1, <4>1, <4>3
      <4> QED BY <3>1, <4>2, <4>3
    <3>6. Numbers(missing') = (0 .. c) \ Numbers(journal') BY <1>6, <1>7, <3>1
    <3> QED BY <2>1, <3>4, <3>5, <3>6 DEF PointsKnown, Points, Numbers
  <2>3. CASE missing' = Append(missing, r) /\ journal' = journal
    <3>1. Numbers(missing') = Numbers(missing) \cup {c} BY <1>5, <1>8, <2>3
    <3>2. Numbers(missing') = (0 .. c) \ Numbers(journal) BY <1>6, <1>7, <1>9, <3>1
    <3>3. \A i \in Points(journal) : journal[i].payload.sequence \in 0 .. c BY <1>6, <1>7
    <3> QED BY <1>6, <2>1, <2>3, <3>2, <3>3 DEF PointsKnown, Points, Numbers
  <2> QED BY <1>3, <2>2, <2>3 DEF Recording
<1> QED BY <1>1, <1>2, <1>3, <1>4, <1>10, StrangeRecord

\* Every step of the order manager keeps its invariant.
LEMMA OrderInvStep == OrderInv /\ OrderNext => OrderInv'
<1> SUFFICES ASSUME OrderInv, OrderNext PROVE OrderInv'
  OBVIOUS
<1>1. ASSUME NEW t \in Traders, NEW r \in OrderRequests, SubmitDraw(t, r) PROVE OrderInv'
  BY <1>1, DrawKeeps
<1>2. ASSUME NEW t \in Traders, SubmitRecord(t) PROVE OrderInv' BY <1>2, RecordKeeps
<1>3. ASSUME NEW t \in Traders, SubmitTrack(t) PROVE OrderInv' BY <1>3, TrackKeeps
<1>4. ASSUME NEW id \in DOMAIN pending, cancel_order(id) PROVE OrderInv' BY <1>4, CancelKeeps
<1>5. ASSUME NEW id \in DOMAIN pending, NEW m \in ModifyRequests, modify_order(id, m) PROVE OrderInv'
  BY <1>5, ModifyKeeps
<1>6. ASSUME NEW id \in DOMAIN pending, NEW s \in {"Pending"} \cup Cancellable \cup Terminal,
             update_status(id, s)
      PROVE  OrderInv'
  <2>1. s \in Statuses BY <1>6 DEF Statuses
  <2>2. CASE Leaves(s) BY <1>6, <2>1, <2>2, EndKeeps
  <2>3. CASE ~Leaves(s) BY <1>6, <2>1, <2>3, AnswerKeeps
  <2> QED BY <2>2, <2>3
<1>7. CASE clear BY <1>7, ClearKeeps
<1>8. ASSUME NEW e \in Exchanges, RecordFrame(e) PROVE OrderInv' BY <1>8, FrameKeeps
<1>9. CASE record_checkpoint BY <1>9, CheckpointKeeps
<1> QED BY <1>1, <1>2, <1>3, <1>4, <1>5, <1>6, <1>7, <1>8, <1>9 DEF OrderNext

\* A step of another part leaves the orders alone.
LEMMA OrderInvStutter == OrderInv /\ UNCHANGED orderVars => OrderInv'
<1> SUFFICES ASSUME OrderInv, UNCHANGED orderVars PROVE OrderInv'
  OBVIOUS
<1>0. OrderTypeOK /\ IdsApart /\ CountsRight /\ JournalTells /\ PointsKnown BY OrderFacts
<1>1. UNCHANGED <<next_order, pending, stats, submitting, tapped, journal, checkpoint_seq, missing, left>>
  BY DEF orderVars
<1>2. /\ SameSubmits /\ PointsKnown' /\ \A k : MissingOf(k)' = MissingOf(k) /\ Told(k)' = Told(k)
  BY <1>0, <1>1, SilentKeeps
<1>3. OrderTypeOK'
  <2>1. tapped' \in BOOLEAN BY <1>0, <1>1 DEF OrderTypeOK
  <2> QED BY <1>0, <1>1, <2>1 DEF OrderTypeOK, Drawn
<1>4. IdsApart'
  <2>1. DOMAIN pending \cap DOMAIN left = {} BY <1>0 DEF IdsApart
  <2> QED BY <1>1, <1>2, <2>1, IdsKept
<1>5. CountsRight' BY <1>0, <1>1 DEF CountsRight, Gone
<1>6. JournalTells' 
  <2> SUFFICES ASSUME tapped', NEW k \in Drawn', MissingOf(k)' = {} PROVE ToldRight(k)'
    BY DEF JournalTells
  <2>1. tapped /\ k \in Drawn BY <1>1 DEF Drawn
  <2>2. ToldRight(k) BY <1>0, <1>2, <2>1 DEF JournalTells
  <2> QED BY <1>1, <1>2, <2>2 DEF ToldRight
<1> QED BY <1>2, <1>3, <1>4, <1>5, <1>6 DEF OrderInv

\* A new manager has no orders.
LEMMA OrderInvInit == OrderInit => OrderInv
<1> SUFFICES ASSUME OrderInit PROVE OrderInv
  OBVIOUS
<1>1. /\ next_order = 1 /\ pending = << >> /\ stats = OrderManagerStats
      /\ submitting = [t \in Traders |-> NotSubmitting]
      /\ journal = <<>> /\ checkpoint_seq = 0 /\ missing = <<>> /\ left = << >>
  BY DEF OrderInit
<1>2. tapped \in BOOLEAN BY DEF OrderInit
<1>3. DOMAIN pending = {} /\ DOMAIN left = {} /\ DOMAIN journal = {} /\ DOMAIN missing = {} BY <1>1
<1>4. \A t \in Traders : submitting[t].at = "none" BY <1>1 DEF NotSubmitting
<1>5. stats \in Counters BY <1>1 DEF OrderManagerStats, Counters
<1>6. journal \in Seq(Records) /\ missing \in Seq(Records) BY <1>1
<1>7. submitting \in [Traders -> {NotSubmitting} \cup Submissions] BY <1>1
<1>8. OrderTypeOK BY <1>1, <1>2, <1>3, <1>5, <1>6, <1>7 DEF OrderTypeOK
<1>9. IdsApart BY <1>3, <1>4 DEF IdsApart, Placing, Submits
<1>10. CountsRight
  <2>1. Cardinality({}) = 0 BY FS_EmptySet
  <2>2. \A how : Gone(how) = {} BY <1>3 DEF Gone
  <2>3. /\ Cardinality(DOMAIN pending) = 0 /\ Cardinality(DOMAIN left) = 0
        /\ \A how : Cardinality(Gone(how)) = 0
    BY <1>3, <2>1, <2>2
  <2> QED BY <1>1, <2>3 DEF CountsRight, OrderManagerStats
<1>11. JournalTells
  <2>1. Drawn = {} BY <1>1 DEF Drawn
  <2> QED BY <2>1 DEF JournalTells
<1>12. PointsKnown
  <2>1. Points(journal) = {} /\ Points(missing) = {} BY <1>3 DEF Points
  <2>2. Numbers(journal) = {} /\ Numbers(missing) = {} BY <2>1 DEF Numbers
  <2>3. 0 .. checkpoint_seq - 1 = {} BY <1>1
  <2> QED BY <2>1, <2>2, <2>3 DEF PointsKnown
<1> QED BY <1>8, <1>9, <1>10, <1>11, <1>12 DEF OrderInv

\* The invariant is enough for what the run checks.
LEMMA OrdersFollow == OrderInv => OrdersRecorded
<1> SUFFICES ASSUME OrderInv PROVE OrdersRecorded
  OBVIOUS
<1>0. OrderTypeOK /\ IdsApart /\ CountsRight /\ JournalTells /\ PointsKnown BY OrderFacts
<1>1. JournalTellsOrders
  <2> SUFFICES ASSUME tapped, NEW id \in DOMAIN pending \cup DOMAIN left, MissingOf(id) = {}
               PROVE  IF id \in DOMAIN pending THEN Told(id) = <<pending[id].request>>
                      ELSE left[id] = "cancel" => Told(id) = <<>>
    BY DEF JournalTellsOrders
  <2>1. id \in Drawn BY <1>0 DEF OrderTypeOK
  <2>2. ToldRight(id) BY <1>0, <2>1 DEF JournalTells
  <2> QED BY <2>2 DEF ToldRight
<1>2. OrdersConserved
  <2>1. \A id \in DOMAIN pending : pending[id].status \notin Terminal BY OrderFacts
  <2>2. DOMAIN pending \cap DOMAIN left = {} BY <1>0 DEF IdsApart
  <2> QED BY <1>0, <2>1, <2>2 DEF OrdersConserved, CountsRight, Gone
<1>3. OrderIdsUnique BY <1>0 DEF OrderIdsUnique, IdsApart, Submits, Placing
<1>4. CheckpointGapsTell BY <1>0 DEF CheckpointGapsTell, PointsKnown, Points, Numbers
<1> QED BY <1>1, <1>2, <1>3, <1>4 DEF OrdersRecorded

\* The flight recorder and the order manager agree, whatever threads submit,
\* cancel, modify and clear at the same time and whichever writes fail: an
\* order none of whose records was lost is told by the journal as it is, no
\* identifier is used twice, every order is counted where it is, and the gaps
\* in the numbers of the checkpoints are the checkpoints that were lost.
THEOREM OrdersAlwaysRecorded == TradingSpec => []OrdersRecorded
<1>1. TradingInit => OrderInv BY OrderInvInit DEF TradingInit
<1>2. OrderInv /\ [TradingNext]_tradingVars => OrderInv'
  <2> SUFFICES ASSUME OrderInv, [TradingNext]_tradingVars PROVE OrderInv'
    OBVIOUS
  <2>1. CASE TradingNext
    <3>1. OrderNext \/ UNCHANGED orderVars BY <2>1 DEF TradingNext
    <3> QED BY <3>1, OrderInvStep, OrderInvStutter
  <2>2. CASE UNCHANGED tradingVars
    <3>1. UNCHANGED orderVars BY <2>2 DEF tradingVars
    <3> QED BY <3>1, OrderInvStutter
  <2> QED BY <2>1, <2>2
<1>3. QED BY <1>1, <1>2, OrdersFollow, PTL DEF TradingSpec


-----------------------------------------------------------------------------
\* The stream client.

StreamEvents == [topic : StreamTopics, id : Nat]

\* What a call of next holds: positions in the streams, and messages of them.
CallWellTyped(r) ==
  /\ reader[r].at \in {"none", "connecting", "blocked", "processing"}
  /\ reader[r].at = "blocked" =>
       /\ reader[r] = [at |-> "blocked", from |-> reader[r].from]
       /\ reader[r].from \in [StreamTopics -> Nat]
       /\ \A t \in StreamTopics : reader[r].from[t] <= Len(streams[t])
  /\ reader[r].at = "processing" =>
       /\ reader[r] = [at |-> "processing", todo |-> reader[r].todo]
       /\ reader[r].todo \in [StreamTopics -> Seq(StreamEvents)]
       /\ \A t \in StreamTopics : \A k \in 1 .. Len(reader[r].todo[t]) :
            reader[r].todo[t][k].topic = t /\ reader[r].todo[t][k].id \in 1 .. Len(streams[t])

StreamTyped ==
  /\ streams \in [StreamTopics -> Seq(StreamMessages)]
  /\ last_ids \in [StreamTopics -> Int] /\ first \in [StreamTopics -> Int]
  /\ \A t \in StreamTopics : last_ids[t] = New \/ last_ids[t] \in 0 .. Len(streams[t])
  /\ buffer \in Seq(StreamEvents) /\ handed \in Seq(StreamEvents)
  /\ received_count \in Nat
  /\ client_stats \in [messages_received : Nat, deserialize_errors : Nat,
                       connection_errors : Nat]
  /\ shared \in BOOLEAN
  /\ reader = [r \in Readers |-> reader[r]]
  /\ \A r \in Readers : CallWellTyped(r)

\* Where the messages go on that are being processed.
ReadOn(t) == IF last_ids[t] = New THEN first[t] ELSE last_ids[t]

OneReader == \A q, r \in Readers : reader[q].at # "none" /\ reader[r].at # "none" => q = r

\* A topic is read from a position not after its last id, and has a last id
\* unless the first message of its first answer is still to come.
FirstKnown ==
  \A t \in StreamTopics : first[t] # New =>
    /\ first[t] \in 0 .. Len(streams[t])
    /\ last_ids[t] # New => first[t] <= last_ids[t]
    /\ last_ids[t] = New =>
         \E r \in Readers : reader[r].at = "processing" /\ reader[r].todo[t] # <<>>

\* XREAD asks for what follows the last id.
AsksOn ==
  \A r \in Readers, t \in StreamTopics :
    reader[r].at = "blocked" /\ last_ids[t] # New => reader[r].from[t] = last_ids[t]

\* What is to be processed follows what was.
GoesOn ==
  \A r \in Readers, t \in StreamTopics :
    reader[r].at = "processing" /\ reader[r].todo[t] # <<>> =>
      /\ first[t] # New
      /\ \A k \in 1 .. Len(reader[r].todo[t]) : reader[r].todo[t][k].id = ReadOn(t) + k

Sorted(s) == \A i, j \in 1 .. Len(s) : i < j /\ s[i].topic = s[j].topic => s[i].id < s[j].id

\* The parts of NothingSkipped, with what Cardinality needs.
AllReceived == {Received[i] : i \in 1 .. Len(Received)} = {e \in Passed : Good(e)}
ErrorsCounted ==
  /\ IsFiniteSet({e \in Passed : ~Good(e)})
  /\ client_stats.deserialize_errors = Cardinality({e \in Passed : ~Good(e)})

Solo ==
  /\ OneReader /\ FirstKnown /\ AsksOn /\ GoesOn
  /\ AllReceived /\ Sorted(Received) /\ ErrorsCounted

\* One thread at a time reads on where it stopped; with more, the events are
\* still counted.
StreamInv == StreamTyped /\ EventsCounted /\ (~shared => Solo)


\* Taking the first of one sequence to the end of the other moves nothing.
LEMMA HandOver ==
  ASSUME NEW S, NEW h \in Seq(S), NEW b \in Seq(S), b # <<>>
  PROVE  /\ Append(h, Head(b)) \in Seq(S) /\ Tail(b) \in Seq(S)
         /\ Append(h, Head(b)) \o Tail(b) = h \o b
         /\ Len(Append(h, Head(b))) = Len(h) + 1 /\ Len(Tail(b)) = Len(b) - 1
<1>1. Head(b) \in S /\ Tail(b) \in Seq(S) /\ Len(b) \in Nat \ {0} /\ Len(Tail(b)) = Len(b) - 1
  BY HeadTailProperties, EmptySeq, LenProperties
<1>2. Append(h, Head(b)) \in Seq(S) /\ Len(Append(h, Head(b))) = Len(h) + 1
  BY <1>1, AppendProperties
<1>3. Append(h, Head(b)) \o Tail(b) = h \o b BY <1>1, <1>2
<1> QED BY <1>1, <1>2, <1>3

LEMMA AppendOver ==
  ASSUME NEW S, NEW h \in Seq(S), NEW b \in Seq(S), NEW e \in S
  PROVE  h \o Append(b, e) = Append(h \o b, e) /\ h \o b \in Seq(S)
OBVIOUS

\* What NothingSkipped says is about the messages passed and received.
LEMMA SkippedSame ==
  ASSUME AllReceived, Sorted(Received), ErrorsCounted, Passed' = Passed,
         streams' = streams, Received' = Received,
         client_stats'.deserialize_errors = client_stats.deserialize_errors
  PROVE  AllReceived' /\ Sorted(Received)' /\ ErrorsCounted'
<1>1. {e \in Passed : Good(e)}' = {e \in Passed : Good(e)} BY DEF Good
<1>2. {e \in Passed : ~Good(e)}' = {e \in Passed : ~Good(e)} BY DEF Good
<1>3. AllReceived' BY <1>1 DEF AllReceived
<1>4. Sorted(Received)' BY DEF Sorted
<1>5. ErrorsCounted' BY <1>2 DEF ErrorsCounted
<1> QED BY <1>3, <1>4, <1>5

LEMMA PassedSame ==
  ASSUME last_ids' = last_ids, first' = first
  PROVE  Passed' = Passed
BY DEF Passed, ReadOf

\* An event is handed out, of the buffer or after a read; nothing else changes.
LEMMA HandedKeeps ==
  ASSUME StreamTyped, EventsCounted, Handed, UNCHANGED client_stats
  PROVE  /\ buffer' \in Seq(StreamEvents) /\ handed' \in Seq(StreamEvents)
         /\ received_count' \in Nat /\ EventsCounted' /\ Received' = Received
<1>1. buffer \in Seq(StreamEvents) /\ handed \in Seq(StreamEvents) /\ received_count \in Nat
  BY DEF StreamTyped
<1>2. /\ handed' \in Seq(StreamEvents) /\ buffer' \in Seq(StreamEvents)
      /\ handed' \o buffer' = handed \o buffer
      /\ Len(handed') = Len(handed) + 1 /\ Len(buffer') = Len(buffer) - 1
  BY <1>1, HandOver DEF Handed
<1>3. received_count' = received_count + 1 BY DEF Handed
<1>4. Len(buffer) \in Nat /\ Len(handed) \in Nat BY <1>1, LenProperties
<1>5. EventsCounted' BY <1>1, <1>2, <1>3, <1>4 DEF EventsCounted
<1> QED BY <1>1, <1>2, <1>3, <1>5 DEF Received


\* What was passed is there to be looked at.
LEMMA PassedThere ==
  ASSUME StreamTyped, FirstKnown, NEW e \in Passed
  PROVE  /\ e.topic \in StreamTopics /\ e.id \in 1 .. Len(streams[e.topic])
         /\ first[e.topic] # New /\ last_ids[e.topic] # New
         /\ e.id > first[e.topic] /\ e.id <= last_ids[e.topic]
         /\ e = [topic |-> e.topic, id |-> e.id]
<1>1. PICK t \in StreamTopics : e \in ReadOf(t) BY DEF Passed
<1>2. PICK n \in (first[t] + 1) .. last_ids[t] :
        e = [topic |-> t, id |-> n] /\ first[t] # New /\ last_ids[t] # New
  BY <1>1 DEF ReadOf
<1>3. first[t] \in 0 .. Len(streams[t]) /\ last_ids[t] \in 0 .. Len(streams[t])
  BY <1>2 DEF FirstKnown, StreamTyped
<1>4. Len(streams[t]) \in Nat BY LenProperties DEF StreamTyped
<1> QED BY <1>2, <1>3, <1>4

\* A stream only grows.
LEMMA StreamsGrow ==
  ASSUME StreamTyped, NEW t \in StreamTopics, NEW m \in StreamMessages, XAdd(t, m),
         NEW u \in StreamTopics
  PROVE  /\ Len(streams'[u]) >= Len(streams[u])
         /\ Len(streams[u]) \in Nat /\ Len(streams'[u]) \in Nat
         /\ \A n \in 1 .. Len(streams[u]) : streams'[u][n] = streams[u][n]
<1>1. streams \in [StreamTopics -> Seq(StreamMessages)] BY DEF StreamTyped
<1>2. streams' = [streams EXCEPT ![t] = Append(@, m)] BY DEF XAdd
<1>3. streams[u] \in Seq(StreamMessages) BY <1>1
<1>4. CASE u = t
  <2>1. streams'[u] = Append(streams[u], m) BY <1>1, <1>2, <1>4
  <2> QED BY <1>3, <2>1, AppendProperties, LenProperties
<1>5. CASE u # t
  <2>1. streams'[u] = streams[u] BY <1>1, <1>2, <1>5
  <2> QED BY <1>3, <2>1, LenProperties
<1> QED BY <1>4, <1>5

LEMMA XAddKeeps ==
  ASSUME StreamInv, NEW t \in StreamTopics, NEW m \in StreamMessages, XAdd(t, m)
  PROVE  StreamInv'
<1>0. /\ StreamTyped /\ EventsCounted
      /\ UNCHANGED <<last_ids, buffer, client_stats, received_count, reader, handed, first, shared>>
  BY DEF StreamInv, XAdd
<1>1. \A u \in StreamTopics : /\ Len(streams'[u]) >= Len(streams[u])
                              /\ Len(streams[u]) \in Nat /\ Len(streams'[u]) \in Nat
                              /\ \A n \in 1 .. Len(streams[u]) : streams'[u][n] = streams[u][n]
  BY <1>0, StreamsGrow
<1>2. streams' \in [StreamTopics -> Seq(StreamMessages)]
  <2>1. streams[t] \in Seq(StreamMessages) BY <1>0 DEF StreamTyped
  <2>2. Append(streams[t], m) \in Seq(StreamMessages) BY <2>1, AppendProperties
  <2> QED BY <1>0, <2>2 DEF StreamTyped, XAdd
<1>3. \A r \in Readers : CallWellTyped(r)'
  <2> SUFFICES ASSUME NEW r \in Readers PROVE CallWellTyped(r)' OBVIOUS
  <2>1. CallWellTyped(r) BY <1>0 DEF StreamTyped
  <2>2. reader' = reader BY <1>0
  <2>3. ASSUME reader[r].at = "blocked", NEW u \in StreamTopics
        PROVE  reader[r].from[u] <= Len(streams'[u])
    BY <1>1, <2>1, <2>3 DEF CallWellTyped
  <2>4. ASSUME reader[r].at = "processing", NEW u \in StreamTopics,
               NEW k \in 1 .. Len(reader[r].todo[u])
        PROVE  reader[r].todo[u][k].id \in 1 .. Len(streams'[u])
    BY <1>1, <2>1, <2>4 DEF CallWellTyped
  <2> QED BY <2>1, <2>2, <2>3, <2>4 DEF CallWellTyped
<1>4. StreamTyped'
  <2>1. \A u \in StreamTopics : last_ids'[u] = New \/ last_ids'[u] \in 0 .. Len(streams'[u])
    BY <1>0, <1>1 DEF StreamTyped, New
  <2>2. shared' \in BOOLEAN BY <1>0 DEF StreamTyped
  <2> QED BY <1>0, <1>2, <1>3, <2>1, <2>2 DEF StreamTyped, New
<1>5. EventsCounted' BY <1>0 DEF EventsCounted
<1>6. ASSUME ~shared' PROVE Solo'
  <2>0. Solo BY <1>0, <1>6 DEF StreamInv
  <2>1. Passed' = Passed BY <1>0, PassedSame
  <2>2. \A e \in Passed : Good(e)' <=> Good(e)
    <3> SUFFICES ASSUME NEW e \in Passed PROVE Good(e)' <=> Good(e) OBVIOUS
    <3>1. e.topic \in StreamTopics /\ e.id \in 1 .. Len(streams[e.topic])
      BY <1>0, <2>0, PassedThere DEF Solo
    <3>2. streams'[e.topic][e.id] = streams[e.topic][e.id] BY <1>1, <3>1
    <3> QED BY <3>2 DEF Good
  <2>3. {e \in Passed : Good(e)}' = {e \in Passed : Good(e)} BY <2>1, <2>2
  <2>4. {e \in Passed : ~Good(e)}' = {e \in Passed : ~Good(e)} BY <2>1, <2>2
  <2>5. AllReceived' BY <1>0, <2>0, <2>3 DEF AllReceived, Solo, Received
  <2>6. Sorted(Received)' BY <1>0, <2>0 DEF Sorted, Solo, Received
  <2>7. ErrorsCounted' BY <1>0, <2>0, <2>4 DEF ErrorsCounted, Solo
  <2>8. OneReader' /\ AsksOn' /\ GoesOn' BY <1>0, <2>0 DEF OneReader, AsksOn, GoesOn, Solo, ReadOn, New
  <2>9. FirstKnown' BY <1>0, <1>1, <2>0 DEF FirstKnown, Solo, New
  <2> QED BY <2>5, <2>6, <2>7, <2>8, <2>9 DEF Solo
<1> QED BY <1>4, <1>5, <1>6 DEF StreamInv

\* A step that leaves the streams, the positions and the calls alone and
\* receives nothing.
LEMMA QuietKeeps ==
  ASSUME StreamInv, UNCHANGED <<streams, last_ids, first, reader, client_stats, shared>>,
         buffer' \in Seq(StreamEvents), handed' \in Seq(StreamEvents), received_count' \in Nat,
         EventsCounted', Received' = Received
  PROVE  StreamInv'
<1>0. StreamTyped BY DEF StreamInv
<1>1. StreamTyped'
  <2>1. \A r \in Readers : CallWellTyped(r)' BY <1>0 DEF StreamTyped, CallWellTyped
  <2>2. shared' \in BOOLEAN BY <1>0 DEF StreamTyped
  <2> QED BY <1>0, <2>1, <2>2 DEF StreamTyped, New
<1>2. ASSUME ~shared' PROVE Solo'
  <2>0. Solo BY <1>2 DEF StreamInv
  <2>1. AllReceived' /\ Sorted(Received)' /\ ErrorsCounted'
    BY <2>0, SkippedSame, PassedSame DEF Solo
  <2>2. OneReader' /\ AsksOn' /\ GoesOn' /\ FirstKnown'
    BY <2>0 DEF OneReader, AsksOn, GoesOn, FirstKnown, Solo, ReadOn, New
  <2> QED BY <2>1, <2>2 DEF Solo
<1> QED BY <1>1, <1>2 DEF StreamInv

LEMMA stopKeeps ==
  ASSUME StreamInv, stop
  PROVE  StreamInv'
<1>1. /\ StreamTyped /\ EventsCounted
      /\ UNCHANGED <<streams, last_ids, first, reader, client_stats, shared, buffer, handed,
                     received_count>>
  BY DEF StreamInv, stop
<1>2. /\ buffer' \in Seq(StreamEvents) /\ handed' \in Seq(StreamEvents) /\ received_count' \in Nat
      /\ EventsCounted' /\ Received' = Received
  BY <1>1 DEF StreamTyped, EventsCounted, Received
<1> QED BY <1>1, <1>2, QuietKeeps

LEMMA NextBufferedKeeps ==
  ASSUME StreamInv, NEW r \in Readers, NextBuffered(r)
  PROVE  StreamInv'
<1>1. /\ StreamTyped /\ EventsCounted /\ Handed
      /\ UNCHANGED <<streams, last_ids, first, reader, client_stats, shared>>
  BY DEF StreamInv, NextBuffered
<1> QED BY <1>1, HandedKeeps, QuietKeeps


\* A call goes on with nothing to process, before or after; it receives nothing.
LEMMA CallKeeps ==
  ASSUME StreamInv, NEW r \in Readers, NEW c, reader' = [reader EXCEPT ![r] = c],
         UNCHANGED <<streams, last_ids, first>>,
         buffer' \in Seq(StreamEvents), handed' \in Seq(StreamEvents), received_count' \in Nat,
         EventsCounted', Received' = Received,
         client_stats' \in [messages_received : Nat, deserialize_errors : Nat,
                            connection_errors : Nat],
         client_stats'.deserialize_errors = client_stats.deserialize_errors,
         shared' \in BOOLEAN, ~shared' => ~shared /\ OneReader',
         CallWellTyped(r)',
         reader[r].at = "processing" => \A t \in StreamTopics : reader[r].todo[t] = <<>>,
         c.at = "processing" => \A t \in StreamTopics : c.todo[t] = <<>>,
         c.at = "blocked" => \A t \in StreamTopics : last_ids[t] # New => c.from[t] = last_ids[t]
  PROVE  StreamInv'
<1>0. StreamTyped BY DEF StreamInv
<1>1. reader'[r] = c /\ \A q \in Readers \ {r} : reader'[q] = reader[q] BY <1>0 DEF StreamTyped
<1>2. StreamTyped'
  <2>1. \A q \in Readers : CallWellTyped(q)'
    <3> SUFFICES ASSUME NEW q \in Readers, q # r PROVE CallWellTyped(q)' OBVIOUS
    <3>1. CallWellTyped(q) /\ reader'[q] = reader[q] BY <1>0, <1>1 DEF StreamTyped
    <3> QED BY <3>1 DEF CallWellTyped
  <2>2. reader' = [q \in Readers |-> reader'[q]] BY <1>0 DEF StreamTyped
  <2>3. /\ streams' \in [StreamTopics -> Seq(StreamMessages)]
        /\ last_ids' \in [StreamTopics -> Int] /\ first' \in [StreamTopics -> Int]
        /\ \A t \in StreamTopics : last_ids'[t] = New' \/ last_ids'[t] \in 0 .. Len(streams'[t])
    BY <1>0 DEF StreamTyped, New
  <2> QED BY <2>1, <2>2, <2>3 DEF StreamTyped
<1>3. ASSUME ~shared' PROVE Solo'
  <2>0. Solo /\ OneReader' BY <1>3 DEF StreamInv
  <2>1. AllReceived' /\ Sorted(Received)' /\ ErrorsCounted'
    BY <2>0, SkippedSame, PassedSame DEF Solo
  <2>2. AsksOn' BY <1>1, <2>0 DEF AsksOn, Solo, New
  <2>3. GoesOn' BY <1>1, <2>0 DEF GoesOn, Solo, ReadOn, New
  <2>4. FirstKnown' BY <1>1, <2>0 DEF FirstKnown, Solo, New
  <2> QED BY <2>0, <2>1, <2>2, <2>3, <2>4 DEF Solo
<1> QED BY <1>2, <1>3 DEF StreamInv

\* The facts of CallKeeps for a step that hands nothing out.
LEMMA HoldsBack ==
  ASSUME StreamInv, UNCHANGED <<buffer, handed, received_count>>,
         client_stats'.messages_received = client_stats.messages_received
  PROVE  /\ buffer' \in Seq(StreamEvents) /\ handed' \in Seq(StreamEvents)
         /\ received_count' \in Nat /\ EventsCounted' /\ Received' = Received
BY DEF StreamInv, StreamTyped, EventsCounted, Received

LEMMA NextReadsKeeps ==
  ASSUME StreamInv, NEW r \in Readers, NextReads(r)
  PROVE  StreamInv'
<1> DEFINE c == [at |-> "connecting"]
<1>0. /\ StreamTyped /\ reader[r].at = "none" /\ reader' = [reader EXCEPT ![r] = c]
      /\ UNCHANGED <<streams, last_ids, first, buffer, handed, received_count, client_stats>>
  BY DEF StreamInv, NextReads
<1>1. reader'[r] = c /\ \A q \in Readers \ {r} : reader'[q] = reader[q]
  BY <1>0 DEF StreamTyped
<1>2. shared' \in BOOLEAN BY <1>0 DEF StreamTyped, NextReads
<1>3. ASSUME ~shared' PROVE ~shared /\ OneReader'
  <2>1. ~shared /\ \A q \in Readers \ {r} : reader[q].at = "none" BY <1>3 DEF NextReads
  <2> QED BY <1>1, <2>1 DEF OneReader
<1>4. CallWellTyped(r)' BY <1>1 DEF CallWellTyped
<1>5. client_stats' \in [messages_received : Nat, deserialize_errors : Nat,
                         connection_errors : Nat]
  BY <1>0 DEF StreamTyped
<1> HIDE DEF c
<1>6. c.at = "connecting" BY DEF c
<1> QED BY <1>0, <1>2, <1>3, <1>4, <1>5, <1>6, HoldsBack, CallKeeps

LEMMA OneReaderStays ==
  ASSUME StreamInv, NEW r \in Readers, reader[r].at # "none", shared' = shared,
         \A q \in Readers \ {r} : reader'[q] = reader[q]
  PROVE  shared' \in BOOLEAN /\ (~shared' => ~shared /\ OneReader')
<1>1. shared' \in BOOLEAN BY DEF StreamInv, StreamTyped
<1>2. ASSUME ~shared PROVE OneReader' BY <1>2 DEF StreamInv, Solo, OneReader
<1> QED BY <1>1, <1>2

LEMMA XreadFailsKeeps ==
  ASSUME StreamInv, NEW r \in Readers, XreadFails(r)
  PROVE  StreamInv'
<1> DEFINE c == [at |-> "none"]
<1>0. /\ StreamTyped /\ reader[r].at \in {"connecting", "blocked"}
      /\ reader' = [reader EXCEPT ![r] = c]
      /\ client_stats' = [client_stats EXCEPT !.connection_errors = @ + 1]
      /\ UNCHANGED <<streams, last_ids, first, buffer, handed, received_count, shared>>
  BY DEF StreamInv, XreadFails, NotReading
<1>1. reader'[r] = c /\ \A q \in Readers \ {r} : reader'[q] = reader[q]
  BY <1>0 DEF StreamTyped
<1>2. CallWellTyped(r)' BY <1>1 DEF CallWellTyped
<1>3. /\ client_stats' \in [messages_received : Nat, deserialize_errors : Nat,
                            connection_errors : Nat]
      /\ client_stats'.messages_received = client_stats.messages_received
      /\ client_stats'.deserialize_errors = client_stats.deserialize_errors
  <2>1. client_stats \in [messages_received : Nat, deserialize_errors : Nat,
                          connection_errors : Nat]
    BY <1>0 DEF StreamTyped
  <2>2. client_stats' = [client_stats EXCEPT !.connection_errors =
                           client_stats.connection_errors + 1]
    BY <1>0
  <2>3. client_stats.connection_errors + 1 \in Nat BY <2>1
  <2> QED BY <2>1, <2>2, <2>3
<1>4. shared' \in BOOLEAN /\ (~shared' => ~shared /\ OneReader')
  BY <1>0, <1>1, OneReaderStays
<1> HIDE DEF c
<1>5. c.at = "none" BY DEF c
<1> QED BY <1>0, <1>2, <1>3, <1>4, <1>5, HoldsBack, CallKeeps

LEMMA XreadSentKeeps ==
  ASSUME StreamInv, NEW r \in Readers, XreadSent(r)
  PROVE  StreamInv'
<1> DEFINE from == [t \in StreamTopics |->
                      IF last_ids[t] = New THEN Len(streams[t]) ELSE last_ids[t]]
           c == [at |-> "blocked", from |-> from]
<1>0. /\ StreamTyped /\ reader[r].at = "connecting" /\ reader' = [reader EXCEPT ![r] = c]
      /\ UNCHANGED <<streams, last_ids, first, buffer, handed, received_count, shared,
                     client_stats>>
  BY DEF StreamInv, XreadSent
<1>1. reader'[r] = c /\ \A q \in Readers \ {r} : reader'[q] = reader[q]
  BY <1>0 DEF StreamTyped
<1>2. from \in [StreamTopics -> Nat] /\ \A t \in StreamTopics : from[t] <= Len(streams[t])
  <2> SUFFICES ASSUME NEW t \in StreamTopics
               PROVE  from[t] \in Nat /\ from[t] <= Len(streams[t])
    OBVIOUS
  <2>1. Len(streams[t]) \in Nat BY <1>0, LenProperties DEF StreamTyped
  <2>2. last_ids[t] = New \/ last_ids[t] \in 0 .. Len(streams[t]) BY <1>0 DEF StreamTyped
  <2> QED BY <2>1, <2>2
<1>3. \A t \in StreamTopics : last_ids[t] # New => from[t] = last_ids[t] OBVIOUS
<1> HIDE DEF from
<1>4. CallWellTyped(r)' BY <1>0, <1>1, <1>2 DEF CallWellTyped
<1>5. client_stats' \in [messages_received : Nat, deserialize_errors : Nat,
                         connection_errors : Nat]
  BY <1>0 DEF StreamTyped
<1>6. shared' \in BOOLEAN /\ (~shared' => ~shared /\ OneReader')
  BY <1>0, <1>1, OneReaderStays
<1>7. c.at = "blocked" /\ c.from = from OBVIOUS
<1> HIDE DEF c
<1> QED BY <1>0, <1>3, <1>4, <1>5, <1>6, <1>7, HoldsBack, CallKeeps

LEMMA XreadTimesOutKeeps ==
  ASSUME StreamInv, NEW r \in Readers, XreadTimesOut(r)
  PROVE  StreamInv'
<1> DEFINE todo == [t \in StreamTopics |-> <<>>]
           c == [at |-> "processing", todo |-> todo]
<1>0. /\ StreamTyped /\ reader[r].at = "blocked" /\ reader' = [reader EXCEPT ![r] = c]
      /\ UNCHANGED <<streams, last_ids, first, buffer, handed, received_count, shared,
                     client_stats>>
  BY DEF StreamInv, XreadTimesOut
<1>1. reader'[r] = c /\ \A q \in Readers \ {r} : reader'[q] = reader[q]
  BY <1>0 DEF StreamTyped
<1>2. todo \in [StreamTopics -> Seq(StreamEvents)] /\ \A t \in StreamTopics : todo[t] = <<>>
  OBVIOUS
<1> HIDE DEF todo
<1>3. c.at = "processing" /\ c.todo = todo OBVIOUS
<1>4. CallWellTyped(r)'
  <2>1. reader'[r] = [at |-> "processing", todo |-> todo] BY <1>1
  <2>2. \A t \in StreamTopics : Len(todo[t]) = 0 BY <1>2
  <2> QED BY <1>2, <2>1, <2>2 DEF CallWellTyped
<1>5. client_stats' \in [messages_received : Nat, deserialize_errors : Nat,
                         connection_errors : Nat]
  BY <1>0 DEF StreamTyped
<1>6. shared' \in BOOLEAN /\ (~shared' => ~shared /\ OneReader')
  BY <1>0, <1>1, OneReaderStays
<1> HIDE DEF c
<1> QED BY <1>0, <1>2, <1>3, <1>4, <1>5, <1>6, HoldsBack, CallKeeps

LEMMA NextReturnsKeeps ==
  ASSUME StreamInv, NEW r \in Readers, NextReturns(r)
  PROVE  StreamInv'
<1> DEFINE c == [at |-> "none"]
<1>0. /\ StreamTyped /\ EventsCounted /\ reader[r].at = "processing"
      /\ \A t \in StreamTopics : reader[r].todo[t] = <<>>
      /\ reader' = [reader EXCEPT ![r] = c]
      /\ UNCHANGED <<streams, last_ids, first, shared, client_stats>>
      /\ Handed \/ UNCHANGED <<handed, buffer, received_count>>
  BY DEF StreamInv, NextReturns, NotReading
<1>1. reader'[r] = c /\ \A q \in Readers \ {r} : reader'[q] = reader[q]
  BY <1>0 DEF StreamTyped
<1>2. CallWellTyped(r)' BY <1>1 DEF CallWellTyped
<1>3. client_stats' \in [messages_received : Nat, deserialize_errors : Nat,
                         connection_errors : Nat]
  BY <1>0 DEF StreamTyped
<1>4. shared' \in BOOLEAN /\ (~shared' => ~shared /\ OneReader')
  BY <1>0, <1>1, OneReaderStays
<1>5. /\ buffer' \in Seq(StreamEvents) /\ handed' \in Seq(StreamEvents)
      /\ received_count' \in Nat /\ EventsCounted' /\ Received' = Received
  BY <1>0, HandedKeeps, HoldsBack
<1> HIDE DEF c
<1>6. c.at = "none" BY DEF c
<1> QED BY <1>0, <1>2, <1>3, <1>4, <1>5, <1>6, CallKeeps


\* What is fresh of a stream follows the position asked for.
LEMMA FreshFacts ==
  ASSUME StreamTyped, NEW r \in Readers, reader[r].at = "blocked", NEW t \in StreamTopics
  PROVE  /\ Fresh(r, t) \in Seq(StreamEvents)
         /\ \A k \in 1 .. Len(Fresh(r, t)) :
              /\ Fresh(r, t)[k].topic = t /\ Fresh(r, t)[k].id = reader[r].from[t] + k
              /\ Fresh(r, t)[k].id \in 1 .. Len(streams[t])
<1>1. PICK from, n : from = reader[r].from[t] /\ n = Len(streams[t]) OBVIOUS
<1>2. from \in Nat /\ n \in Nat /\ from <= n
  <2>1. CallWellTyped(r) /\ streams[t] \in Seq(StreamMessages) BY DEF StreamTyped
  <2> QED BY <1>1, <2>1, LenProperties DEF CallWellTyped
<1>3. PICK to : to = IF XreadCount > 0 /\ n > from + XreadCount THEN from + XreadCount ELSE n
  OBVIOUS
<1>4. to \in Nat /\ to - from \in Nat /\ to <= n BY <1>2, <1>3, StreamAssumption
<1>5. Fresh(r, t) = [k \in 1 .. (to - from) |-> [topic |-> t, id |-> from + k]]
  BY <1>1, <1>3 DEF Fresh
<1>6. PICK len \in Nat : len = to - from BY <1>4
<1>7. \A k \in 1 .. len : [topic |-> t, id |-> from + k] \in StreamEvents
  BY <1>2 DEF StreamEvents
<1>8. Fresh(r, t) \in Seq(StreamEvents) /\ Len(Fresh(r, t)) = len
  <2>1. Fresh(r, t) \in [1 .. len -> StreamEvents] BY <1>5, <1>6, <1>7
  <2>2. PICK s \in [1 .. len -> StreamEvents] : s = Fresh(r, t) BY <2>1
  <2>3. s \in Seq(StreamEvents) /\ Len(s) = len BY <1>6, SeqDef
  <2> QED BY <2>2, <2>3
<1>9. \A k \in 1 .. len : from + k \in 1 .. n BY <1>2, <1>4, <1>6
<1> QED BY <1>1, <1>5, <1>6, <1>8, <1>9

\* Unless it is processed, a topic that was read from has a last id.
LEMMA NothingPending ==
  ASSUME Solo, NEW r \in Readers, reader[r].at = "blocked", NEW t \in StreamTopics,
         first[t] # New
  PROVE  last_ids[t] # New
BY DEF Solo, FirstKnown, OneReader

LEMMA XreadAnsweredKeeps ==
  ASSUME StreamInv, NEW r \in Readers, XreadAnswered(r)
  PROVE  StreamInv'
<1> DEFINE todo == [t \in StreamTopics |-> Fresh(r, t)]
           from == reader[r].from
<1>0. /\ StreamTyped /\ EventsCounted /\ reader[r].at = "blocked"
      /\ reader' = [reader EXCEPT ![r] = [at |-> "processing", todo |-> todo]]
      /\ first' = [t \in StreamTopics |->
                     IF first[t] = New /\ todo[t] # <<>> THEN from[t] ELSE first[t]]
      /\ UNCHANGED <<streams, last_ids, buffer, handed, received_count, shared, client_stats>>
  BY DEF StreamInv, XreadAnswered
<1>1. /\ reader'[r] = [at |-> "processing", todo |-> todo]
      /\ \A q \in Readers \ {r} : reader'[q] = reader[q]
  BY <1>0 DEF StreamTyped
<1>2. /\ todo \in [StreamTopics -> Seq(StreamEvents)]
      /\ \A t \in StreamTopics : \A k \in 1 .. Len(todo[t]) :
           todo[t][k].topic = t /\ todo[t][k].id \in 1 .. Len(streams[t])
      /\ \A t \in StreamTopics : \A k \in 1 .. Len(todo[t]) : todo[t][k].id = from[t] + k
  BY <1>0, FreshFacts
<1>3. /\ from \in [StreamTopics -> Nat]
      /\ \A t \in StreamTopics : from[t] <= Len(streams[t]) /\ from[t] # New
  <2>1. CallWellTyped(r) BY <1>0 DEF StreamTyped
  <2> QED BY <1>0, <2>1 DEF CallWellTyped, New
<1> HIDE DEF todo, from
<1>4. \A q \in Readers : CallWellTyped(q)'
  <2>1. ASSUME NEW q \in Readers, q # r PROVE CallWellTyped(q)'
    <3>1. CallWellTyped(q) /\ reader'[q] = reader[q] BY <1>0, <1>1, <2>1 DEF StreamTyped
    <3> QED BY <1>0, <3>1 DEF CallWellTyped
  <2>2. CallWellTyped(r)' BY <1>0, <1>1, <1>2 DEF CallWellTyped
  <2> QED BY <2>1, <2>2
<1>5. StreamTyped'
  <2>1. first' \in [StreamTopics -> Int] BY <1>0, <1>3 DEF StreamTyped
  <2>2. reader' = [q \in Readers |-> reader'[q]] BY <1>0 DEF StreamTyped
  <2>3. shared' \in BOOLEAN BY <1>0 DEF StreamTyped
  <2> QED BY <1>0, <1>4, <2>1, <2>2, <2>3 DEF StreamTyped, New
<1>6. EventsCounted' BY <1>0 DEF EventsCounted
<1>7. ASSUME ~shared' PROVE Solo'
  <2>0. Solo BY <1>0, <1>7 DEF StreamInv
  <2>1. \A t \in StreamTopics : first[t] # New => last_ids[t] # New
    BY <1>0, <2>0, NothingPending
  <2>2. \A t \in StreamTopics : last_ids[t] # New => from[t] = last_ids[t]
    BY <1>0, <2>0 DEF Solo, AsksOn, from
  <2>3. \A q \in Readers \ {r} : reader'[q].at = "none" BY <1>0, <1>1, <2>0 DEF Solo, OneReader
  <2>4. OneReader' BY <2>3 DEF OneReader
  <2>5. AsksOn' BY <1>1, <2>3 DEF AsksOn
  <2>6. GoesOn'
    <3> SUFFICES ASSUME NEW t \in StreamTopics, todo[t] # <<>>
                 PROVE  /\ first'[t] # New
                        /\ \A k \in 1 .. Len(todo[t]) : todo[t][k].id = ReadOn(t)' + k
      BY <1>1, <2>3 DEF GoesOn, New
    <3>1. first'[t] # New BY <1>0, <1>3
    <3>2. ReadOn(t)' = from[t] BY <1>0, <2>1, <2>2 DEF ReadOn, New
    <3> QED BY <1>2, <3>1, <3>2
  <2>7. FirstKnown'
    <3> SUFFICES ASSUME NEW t \in StreamTopics, first'[t] # New
                 PROVE  /\ first'[t] \in 0 .. Len(streams[t])
                        /\ last_ids[t] # New => first'[t] <= last_ids[t]
                        /\ last_ids[t] = New => todo[t] # <<>>
      BY <1>0, <1>1 DEF FirstKnown, New
    <3>1. CASE first[t] # New BY <1>0, <2>0, <2>1, <3>1 DEF Solo, FirstKnown
    <3>2. CASE first[t] = New
      <4>1. first'[t] = from[t] /\ todo[t] # <<>> BY <1>0, <3>2
      <4>2. from[t] \in Nat /\ from[t] <= Len(streams[t]) BY <1>3
      <4>3. Len(streams[t]) \in Nat BY <1>0, LenProperties DEF StreamTyped
      <4> QED BY <2>2, <4>1, <4>2, <4>3
    <3> QED BY <3>1, <3>2
  <2>8. Passed' = Passed
    <3>1. ASSUME NEW t \in StreamTopics PROVE ReadOf(t)' = ReadOf(t)
      <4>1. CASE first'[t] = first[t] BY <1>0, <4>1 DEF ReadOf, New
      <4>2. CASE first'[t] # first[t]
        <5>1. first[t] = New /\ first'[t] = from[t] BY <1>0, <4>2
        <5>2. ReadOf(t) = {} BY <5>1 DEF ReadOf
        <5>3. last_ids[t] # New => first'[t] = last_ids[t] BY <2>2, <5>1
        <5>4. last_ids[t] \in Int BY <1>0 DEF StreamTyped
        <5>5. last_ids[t] # New => (first'[t] + 1) .. last_ids[t] = {} BY <5>3, <5>4
        <5>6. ReadOf(t)' = {} BY <1>0, <5>5 DEF ReadOf, New
        <5> QED BY <5>2, <5>6
      <4> QED BY <4>1, <4>2
    <3> QED BY <3>1 DEF Passed
  <2>9. AllReceived' /\ Sorted(Received)' /\ ErrorsCounted'
    <3>1. Received' = Received BY <1>0 DEF Received
    <3> QED BY <1>0, <2>0, <2>8, <3>1, SkippedSame DEF Solo
  <2> QED BY <2>4, <2>5, <2>6, <2>7, <2>9 DEF Solo
<1> QED BY <1>5, <1>6, <1>7 DEF StreamInv


\* What a call has left of its messages after the first of a topic.
LEMMA ProcessTyped ==
  ASSUME StreamTyped, NEW r \in Readers, NEW t \in StreamTopics, ProcessMessage(r, t)
  PROVE  LET todo == reader[r].todo
             m == Head(todo[t])
         IN  /\ m \in StreamEvents /\ m = todo[t][1] /\ m = [topic |-> t, id |-> m.id]
             /\ m.id \in 1 .. Len(streams[t]) /\ Len(streams[t]) \in Nat
             /\ reader'[r].at = "processing"
             /\ reader'[r].todo \in [StreamTopics -> Seq(StreamEvents)]
             /\ \A u \in StreamTopics \ {t} : reader'[r].todo[u] = todo[u]
             /\ Len(todo[t]) \in Nat \ {0} /\ Len(reader'[r].todo[t]) = Len(todo[t]) - 1
             /\ \A k \in 1 .. (Len(todo[t]) - 1) : reader'[r].todo[t][k] = todo[t][k + 1]
             /\ CallWellTyped(r)'
<1> DEFINE todo == reader[r].todo
           m == Head(todo[t])
           rest == [todo EXCEPT ![t] = Tail(@)]
<1>1. /\ CallWellTyped(r) /\ reader[r].at = "processing" /\ todo[t] # <<>>
      /\ UNCHANGED streams
  BY DEF StreamTyped, ProcessMessage, Turn
<1>2. /\ todo \in [StreamTopics -> Seq(StreamEvents)]
      /\ \A u \in StreamTopics : \A k \in 1 .. Len(todo[u]) :
           todo[u][k].topic = u /\ todo[u][k].id \in 1 .. Len(streams[u])
      /\ reader[r] = [at |-> "processing", todo |-> todo]
  BY <1>1 DEF CallWellTyped
<1>3. reader'[r] = [at |-> "processing", todo |-> rest]
  BY DEF ProcessMessage, StreamTyped
<1>4. /\ m \in StreamEvents /\ Tail(todo[t]) \in Seq(StreamEvents) /\ m = todo[t][1]
      /\ Len(todo[t]) \in Nat \ {0} /\ Len(Tail(todo[t])) = Len(todo[t]) - 1
      /\ \A k \in 1 .. (Len(todo[t]) - 1) : Tail(todo[t])[k] = todo[t][k + 1]
  <2>1. PICK s \in Seq(StreamEvents) : s = todo[t] BY <1>2
  <2>2. s # <<>> BY <1>1, <2>1
  <2>3. /\ Head(s) \in StreamEvents /\ Tail(s) \in Seq(StreamEvents) /\ Head(s) = s[1]
        /\ Len(s) \in Nat \ {0} /\ Len(Tail(s)) = Len(s) - 1
        /\ \A k \in 1 .. (Len(s) - 1) : Tail(s)[k] = s[k + 1]
    BY <2>2, HeadTailProperties, EmptySeq, LenProperties
  <2> QED BY <2>1, <2>3
<1>5. /\ rest \in [StreamTopics -> Seq(StreamEvents)] /\ rest[t] = Tail(todo[t])
      /\ \A u \in StreamTopics \ {t} : rest[u] = todo[u]
  BY <1>2, <1>4
<1>6. m.topic = t /\ m.id \in 1 .. Len(streams[t]) BY <1>2, <1>4
<1>7. m = [topic |-> t, id |-> m.id] BY <1>4, <1>6 DEF StreamEvents
<1>8. Len(streams[t]) \in Nat BY LenProperties DEF StreamTyped
<1> HIDE DEF rest, m, todo
<1>9. \A u \in StreamTopics : \A k \in 1 .. Len(rest[u]) :
        rest[u][k].topic = u /\ rest[u][k].id \in 1 .. Len(streams[u])
  <2> SUFFICES ASSUME NEW u \in StreamTopics, NEW k \in 1 .. Len(rest[u])
               PROVE  rest[u][k].topic = u /\ rest[u][k].id \in 1 .. Len(streams[u])
    OBVIOUS
  <2>1. CASE u # t BY <1>2, <1>5, <2>1
  <2>2. CASE u = t
    <3>1. k \in 1 .. (Len(todo[t]) - 1) /\ k + 1 \in 1 .. Len(todo[t]) BY <1>4, <1>5, <2>2
    <3>2. rest[u][k] = todo[t][k + 1] BY <1>4, <1>5, <2>2, <3>1
    <3> QED BY <1>2, <2>2, <3>1, <3>2
  <2> QED BY <2>1, <2>2
<1>10. CallWellTyped(r)' BY <1>1, <1>3, <1>5, <1>9 DEF CallWellTyped
<1>11. reader'[r].at = "processing" /\ reader'[r].todo = rest BY <1>3
<1> QED BY <1>4, <1>5, <1>6, <1>7, <1>8, <1>10, <1>11 DEF todo, m

\* One message moves the counts by one, of those received or of the errors.
LEMMA ProcessCounts ==
  ASSUME StreamTyped, EventsCounted, NEW r \in Readers, NEW t \in StreamTopics,
         ProcessMessage(r, t), NEW m \in StreamEvents, m = Head(reader[r].todo[t]),
         m = [topic |-> t, id |-> m.id]
  PROVE  /\ client_stats' \in [messages_received : Nat, deserialize_errors : Nat,
                               connection_errors : Nat]
         /\ buffer' \in Seq(StreamEvents) /\ EventsCounted'
         /\ Good(m) => /\ Received' = Append(Received, m)
                       /\ client_stats'.deserialize_errors = client_stats.deserialize_errors
         /\ ~Good(m) => /\ Received' = Received
                        /\ client_stats'.deserialize_errors = client_stats.deserialize_errors + 1
<1>1. /\ buffer \in Seq(StreamEvents) /\ handed \in Seq(StreamEvents) /\ received_count \in Nat
      /\ client_stats \in [messages_received : Nat, deserialize_errors : Nat,
                           connection_errors : Nat]
  BY DEF StreamTyped
<1>2. UNCHANGED <<received_count, handed>> BY DEF ProcessMessage
<1>3. m.topic = t OBVIOUS
<1>4. CASE Good(m)
  <2>1. /\ buffer' = Append(buffer, m)
        /\ client_stats' = [client_stats EXCEPT !.messages_received =
                              client_stats.messages_received + 1]
    BY <1>3, <1>4 DEF ProcessMessage, Good
  <2>2. buffer' \in Seq(StreamEvents) /\ Len(buffer') = Len(buffer) + 1
    BY <1>1, <2>1, AppendProperties
  <2>3. client_stats.messages_received + 1 \in Nat BY <1>1
  <2>4. /\ client_stats' \in [messages_received : Nat, deserialize_errors : Nat,
                              connection_errors : Nat]
        /\ client_stats'.messages_received = client_stats.messages_received + 1
        /\ client_stats'.deserialize_errors = client_stats.deserialize_errors
    BY <1>1, <2>1, <2>3
  <2>5. Len(buffer) \in Nat BY <1>1, LenProperties
  <2>6. EventsCounted'
    <3>1. /\ client_stats.messages_received = received_count + Len(buffer)
          /\ received_count = Len(handed)
      BY DEF EventsCounted
    <3>2. client_stats.messages_received + 1 = received_count + (Len(buffer) + 1)
      BY <1>1, <2>5, <3>1
    <3> QED BY <1>2, <2>2, <2>4, <3>1, <3>2 DEF EventsCounted
  <2>7. Received' = Append(Received, m) BY <1>1, <1>2, <2>1, AppendOver DEF Received
  <2> QED BY <1>4, <2>2, <2>4, <2>6, <2>7
<1>5. CASE ~Good(m)
  <2>1. /\ buffer' = buffer
        /\ client_stats' = [client_stats EXCEPT !.deserialize_errors =
                              client_stats.deserialize_errors + 1]
    BY <1>3, <1>5 DEF ProcessMessage, Good
  <2>2. client_stats.deserialize_errors + 1 \in Nat BY <1>1
  <2>3. /\ client_stats' \in [messages_received : Nat, deserialize_errors : Nat,
                              connection_errors : Nat]
        /\ client_stats'.messages_received = client_stats.messages_received
        /\ client_stats'.deserialize_errors = client_stats.deserialize_errors + 1
    BY <1>1, <2>1, <2>2
  <2>4. EventsCounted' BY <1>2, <2>1, <2>3 DEF EventsCounted
  <2>5. Received' = Received BY <1>2, <2>1 DEF Received
  <2> QED BY <1>1, <1>5, <2>1, <2>3, <2>4, <2>5
<1> QED BY <1>4, <1>5


LEMMA ProcessKeeps ==
  ASSUME StreamInv, NEW r \in Readers, NEW t \in StreamTopics, ProcessMessage(r, t)
  PROVE  StreamInv'
<1> DEFINE todo == reader[r].todo
           rest == reader'[r].todo
<1>0. /\ StreamTyped /\ EventsCounted /\ reader[r].at = "processing" /\ todo[t] # <<>>
      /\ UNCHANGED <<streams, handed, received_count, first, shared>>
  BY DEF StreamInv, ProcessMessage, Turn
<1>1. PICK m : m = Head(todo[t]) OBVIOUS
<1>2. /\ m \in StreamEvents /\ m = todo[t][1] /\ m = [topic |-> t, id |-> m.id]
      /\ m.id \in 1 .. Len(streams[t]) /\ Len(streams[t]) \in Nat
      /\ reader'[r].at = "processing"
      /\ rest \in [StreamTopics -> Seq(StreamEvents)]
      /\ \A u \in StreamTopics \ {t} : rest[u] = todo[u]
      /\ Len(todo[t]) \in Nat \ {0} /\ Len(rest[t]) = Len(todo[t]) - 1
      /\ \A k \in 1 .. (Len(todo[t]) - 1) : rest[t][k] = todo[t][k + 1]
      /\ CallWellTyped(r)'
  BY <1>0, <1>1, ProcessTyped
<1>3. \A q \in Readers \ {r} : reader'[q] = reader[q]
  BY <1>0 DEF StreamTyped, ProcessMessage
<1>4. /\ last_ids' \in [StreamTopics -> Int] /\ last_ids'[t] = m.id
      /\ \A u \in StreamTopics \ {t} : last_ids'[u] = last_ids[u]
  <2>1. last_ids' = [last_ids EXCEPT ![t] = m.id] BY <1>1 DEF ProcessMessage, LastId
  <2> QED BY <1>0, <1>2, <2>1 DEF StreamTyped
<1>5. /\ client_stats' \in [messages_received : Nat, deserialize_errors : Nat,
                            connection_errors : Nat]
      /\ buffer' \in Seq(StreamEvents) /\ EventsCounted'
      /\ Good(m) => /\ Received' = Append(Received, m)
                    /\ client_stats'.deserialize_errors = client_stats.deserialize_errors
      /\ ~Good(m) => /\ Received' = Received
                     /\ client_stats'.deserialize_errors = client_stats.deserialize_errors + 1
  BY <1>0, <1>1, <1>2, ProcessCounts
<1> HIDE DEF todo, rest
<1>6. StreamTyped'
  <2>1. \A q \in Readers : CallWellTyped(q)'
    <3> SUFFICES ASSUME NEW q \in Readers, q # r PROVE CallWellTyped(q)' BY <1>2
    <3>1. CallWellTyped(q) /\ reader'[q] = reader[q] BY <1>0, <1>3 DEF StreamTyped
    <3> QED BY <1>0, <3>1 DEF CallWellTyped
  <2>2. reader' = [q \in Readers |-> reader'[q]] BY <1>0 DEF StreamTyped, ProcessMessage
  <2>3. shared' \in BOOLEAN BY <1>0 DEF StreamTyped
  <2>4. \A u \in StreamTopics : last_ids'[u] = New \/ last_ids'[u] \in 0 .. Len(streams[u])
    <3>1. m.id \in 0 .. Len(streams[t]) BY <1>2
    <3>2. \A u \in StreamTopics : last_ids[u] = New \/ last_ids[u] \in 0 .. Len(streams[u])
      BY <1>0 DEF StreamTyped
    <3> QED BY <1>4, <3>1, <3>2
  <2> QED BY <1>0, <1>4, <1>5, <2>1, <2>2, <2>3, <2>4 DEF StreamTyped, New
<1>7. ASSUME ~shared' PROVE Solo'
  <2>0. Solo BY <1>0, <1>7 DEF StreamInv
  <2>1. \A q \in Readers \ {r} : reader'[q].at = "none" /\ reader[q].at = "none"
    BY <1>0, <1>3, <2>0 DEF Solo, OneReader
  <2>2. OneReader' BY <2>1 DEF OneReader
  <2>3. AsksOn' BY <1>2, <2>1 DEF AsksOn
  <2>4. /\ first[t] # New /\ first[t] \in 0 .. Len(streams[t])
        /\ \A k \in 1 .. Len(todo[t]) : todo[t][k].id = ReadOn(t) + k
        /\ last_ids[t] # New => first[t] <= last_ids[t]
    BY <1>0, <2>0 DEF Solo, GoesOn, FirstKnown, todo
  <2>5. m.id = ReadOn(t) + 1 /\ ReadOn(t) \in Nat /\ first[t] <= ReadOn(t)
    <3>1. 1 \in 1 .. Len(todo[t]) BY <1>2
    <3>2. ReadOn(t) \in Nat /\ first[t] <= ReadOn(t)
      BY <1>0, <1>2, <2>4 DEF ReadOn, StreamTyped
    <3> QED BY <1>2, <2>4, <3>1, <3>2
  <2>6. last_ids'[t] # New BY <1>2, <1>4 DEF New
  <2>7. GoesOn'
    <3> SUFFICES ASSUME NEW u \in StreamTopics, rest[u] # <<>>
                 PROVE  /\ first[u] # New
                        /\ \A k \in 1 .. Len(rest[u]) : rest[u][k].id = ReadOn(u)' + k
      BY <1>0, <1>2, <2>1 DEF GoesOn, rest, New
    <3>1. CASE u = t
      <4>1. ReadOn(t)' = m.id BY <1>4, <2>6 DEF ReadOn, New
      <4>2. ASSUME NEW k \in 1 .. Len(rest[t]) PROVE rest[t][k].id = m.id + k
        <5>1. k \in 1 .. (Len(todo[t]) - 1) /\ k + 1 \in 1 .. Len(todo[t]) BY <1>2
        <5>2. rest[t][k].id = ReadOn(t) + (k + 1) BY <1>2, <2>4, <5>1
        <5> QED BY <2>5, <5>2
      <4> QED BY <2>4, <3>1, <4>1, <4>2
    <3>2. CASE u # t
      <4>1. ReadOn(u)' = ReadOn(u) BY <1>0, <1>4, <3>2 DEF ReadOn, New
      <4>2. rest[u] = todo[u] BY <1>2, <3>2
      <4>3. /\ first[u] # New
            /\ \A k \in 1 .. Len(todo[u]) : todo[u][k].id = ReadOn(u) + k
        BY <1>0, <2>0, <4>2 DEF Solo, GoesOn, todo
      <4> QED BY <4>1, <4>2, <4>3
    <3> QED BY <3>1, <3>2
  <2>8. FirstKnown'
    <3> SUFFICES ASSUME NEW u \in StreamTopics, first[u] # New
                 PROVE  /\ first[u] \in 0 .. Len(streams[u])
                        /\ last_ids'[u] # New => first[u] <= last_ids'[u]
                        /\ last_ids'[u] = New => rest[u] # <<>>
      BY <1>0, <1>2 DEF FirstKnown, rest, New
    <3>1. CASE u = t
      <4>1. first[t] <= m.id BY <2>4, <2>5
      <4> QED BY <1>4, <2>4, <2>6, <3>1, <4>1
    <3>2. CASE u # t
      <4>1. last_ids'[u] = last_ids[u] /\ rest[u] = todo[u] BY <1>2, <1>4, <3>2
      <4>2. last_ids[u] = New => todo[u] # <<>>
        BY <2>0, <2>1 DEF Solo, FirstKnown, todo
      <4> QED BY <2>0, <4>1, <4>2 DEF Solo, FirstKnown
    <3> QED BY <3>1, <3>2
  <2>9. Passed' = Passed \cup {m}
    <3>1. \A u \in StreamTopics \ {t} : ReadOf(u)' = ReadOf(u) BY <1>0, <1>4 DEF ReadOf, New
    <3>2. ReadOf(t)' = {[topic |-> t, id |-> n] : n \in (first[t] + 1) .. m.id}
      BY <1>0, <1>4, <2>4, <2>6 DEF ReadOf, New
    <3>3. ReadOf(t) = {[topic |-> t, id |-> n] : n \in (first[t] + 1) .. ReadOn(t)}
      <4>1. CASE last_ids[t] = New
        <5>1. ReadOf(t) = {} BY <4>1 DEF ReadOf
        <5>2. (first[t] + 1) .. ReadOn(t) = {} BY <2>4, <4>1 DEF ReadOn
        <5> QED BY <5>1, <5>2
      <4>2. CASE last_ids[t] # New BY <2>4, <4>2 DEF ReadOf, ReadOn
      <4> QED BY <4>1, <4>2
    <3>4. (first[t] + 1) .. m.id = ((first[t] + 1) .. ReadOn(t)) \cup {m.id} BY <2>4, <2>5
    <3>5. ReadOf(t)' = ReadOf(t) \cup {[topic |-> t, id |-> m.id]} BY <3>2, <3>3, <3>4
    <3>6. ReadOf(t)' = ReadOf(t) \cup {m} BY <1>2, <3>5
    <3> QED BY <3>1, <3>6 DEF Passed
  <2>10. ASSUME NEW e \in Passed, e.topic = t PROVE e.id \in Nat /\ e.id < m.id
    <3>1. /\ e.id \in 1 .. Len(streams[t]) /\ last_ids[t] # New /\ e.id <= last_ids[t]
      BY <1>0, <2>0, <2>10, PassedThere DEF Solo
    <3>2. ReadOn(t) = last_ids[t] BY <3>1 DEF ReadOn
    <3> QED BY <2>5, <3>1, <3>2
  <2>11. m \notin Passed
    <3>1. m.topic = t /\ m.id \in Nat BY <1>2 DEF StreamEvents
    <3> QED BY <2>10, <3>1
  <2>12. \A e : Good(e)' <=> Good(e) BY <1>0 DEF Good
  <2>13. /\ {e \in Passed : Good(e)}' = {e \in Passed : Good(e)} \cup (IF Good(m) THEN {m} ELSE {})
         /\ {e \in Passed : ~Good(e)}' =
              {e \in Passed : ~Good(e)} \cup (IF Good(m) THEN {} ELSE {m})
    BY <2>9, <2>12
  <2>14. Received \in Seq(StreamEvents) BY <1>0, AppendOver, ConcatProperties DEF StreamTyped, Received
  <2>15. \A i \in 1 .. Len(Received) : Received[i].topic = t => Received[i].id < m.id
    <3> SUFFICES ASSUME NEW i \in 1 .. Len(Received), Received[i].topic = t
                 PROVE  Received[i].id < m.id
      OBVIOUS
    <3>1. Received[i] \in Passed BY <2>0 DEF Solo, AllReceived
    <3> QED BY <2>10, <3>1
  <2>16. AllReceived' /\ Sorted(Received)' /\ ErrorsCounted'
    <3>1. CASE Good(m)
      <4>1. Received' = Append(Received, m) BY <1>5, <3>1
      <4>2. PICK rec, more : rec = Received /\ more = Received' OBVIOUS
      <4>3. /\ Len(more) = Len(rec) + 1 /\ more[Len(rec) + 1] = m /\ Len(rec) \in Nat
            /\ \A i \in 1 .. Len(rec) : more[i] = rec[i]
        BY <1>2, <2>14, <4>1, <4>2, AppendProperties, LenProperties
      <4>4. {more[i] : i \in 1 .. Len(more)} = {rec[i] : i \in 1 .. Len(rec)} \cup {m}
        <5>1. 1 .. Len(more) = (1 .. Len(rec)) \cup {Len(rec) + 1} BY <4>3
        <5> QED BY <4>3, <5>1
      <4>5. AllReceived'
        <5>1. {e \in Passed : Good(e)}' = {e \in Passed : Good(e)} \cup {m} BY <2>13, <3>1
        <5>2. {rec[i] : i \in 1 .. Len(rec)} = {e \in Passed : Good(e)}
          BY <2>0, <4>2 DEF Solo, AllReceived
        <5> QED BY <4>2, <4>4, <5>1, <5>2 DEF AllReceived
      <4>6. Sorted(Received)'
        <5>1. m.topic = t BY <1>2
        <5> SUFFICES ASSUME NEW i \in 1 .. Len(more), NEW j \in 1 .. Len(more), i < j,
                            more[i].topic = more[j].topic
                     PROVE  more[i].id < more[j].id
          BY <4>2 DEF Sorted
        <5>2. i \in 1 .. Len(rec) BY <4>3
        <5>3. CASE j = Len(rec) + 1 BY <2>15, <4>2, <4>3, <5>1, <5>2, <5>3
        <5>4. CASE j # Len(rec) + 1
          <6>1. j \in 1 .. Len(rec) BY <4>3, <5>4
          <6>2. Sorted(rec) BY <2>0, <4>2 DEF Solo
          <6> QED BY <4>3, <5>2, <6>1, <6>2 DEF Sorted
        <5> QED BY <5>3, <5>4
      <4>7. ErrorsCounted'
        <5>1. {e \in Passed : ~Good(e)}' = {e \in Passed : ~Good(e)} BY <2>13, <3>1
        <5> QED BY <1>5, <2>0, <3>1, <5>1 DEF Solo, ErrorsCounted
      <4> QED BY <4>5, <4>6, <4>7
    <3>2. CASE ~Good(m)
      <4>1. Received' = Received BY <1>5, <3>2
      <4>2. {e \in Passed : Good(e)}' = {e \in Passed : Good(e)} BY <2>13, <3>2
      <4>3. AllReceived' BY <2>0, <4>1, <4>2 DEF Solo, AllReceived
      <4>4. Sorted(Received)' BY <2>0, <4>1 DEF Solo, Sorted
      <4>5. {e \in Passed : ~Good(e)}' = {e \in Passed : ~Good(e)} \cup {m} BY <2>13, <3>2
      <4>6. PICK B : B = {e \in Passed : ~Good(e)} OBVIOUS
      <4>7. IsFiniteSet(B) /\ m \notin B BY <2>0, <2>11, <4>6 DEF Solo, ErrorsCounted
      <4>8. IsFiniteSet(B \cup {m}) /\ Cardinality(B \cup {m}) = Cardinality(B) + 1
        BY <4>7, FS_AddElement
      <4>9. ErrorsCounted'
        BY <1>5, <2>0, <3>2, <4>5, <4>6, <4>8 DEF Solo, ErrorsCounted
      <4> QED BY <4>3, <4>4, <4>9
    <3> QED BY <3>1, <3>2
  <2> QED BY <2>2, <2>3, <2>7, <2>8, <2>16 DEF Solo
<1> QED BY <1>5, <1>6, <1>7 DEF StreamInv


LEMMA StreamInvStep == StreamInv /\ ClientNext => StreamInv'
<1> SUFFICES ASSUME StreamInv, ClientNext PROVE StreamInv' OBVIOUS
<1>1. CASE \E t \in StreamTopics, m \in StreamMessages : XAdd(t, m) BY <1>1, XAddKeeps
<1>2. CASE stop BY <1>2, stopKeeps
<1>3. ASSUME NEW r \in Readers,
             NextBuffered(r) \/ NextReads(r) \/ XreadFails(r) \/ ReaderStep(r)
      PROVE  StreamInv'
  <2>1. CASE NextBuffered(r) BY <2>1, NextBufferedKeeps
  <2>2. CASE NextReads(r) BY <2>2, NextReadsKeeps
  <2>3. CASE XreadFails(r) BY <2>3, XreadFailsKeeps
  <2>4. CASE XreadSent(r) BY <2>4, XreadSentKeeps
  <2>5. CASE XreadAnswered(r) BY <2>5, XreadAnsweredKeeps
  <2>6. CASE XreadTimesOut(r) BY <2>6, XreadTimesOutKeeps
  <2>7. CASE \E t \in StreamTopics : ProcessMessage(r, t) BY <2>7, ProcessKeeps
  <2>8. CASE NextReturns(r) BY <2>8, NextReturnsKeeps
  <2> QED BY <1>3, <2>1, <2>2, <2>3, <2>4, <2>5, <2>6, <2>7, <2>8 DEF ReaderStep
<1> QED BY <1>1, <1>2, <1>3 DEF ClientNext

LEMMA StreamInvStutter == StreamInv /\ UNCHANGED clientVars => StreamInv'
<1> SUFFICES ASSUME StreamInv, UNCHANGED clientVars PROVE StreamInv' OBVIOUS
<1>1. UNCHANGED <<streams, last_ids, first, reader, client_stats, shared, buffer, handed,
                  received_count>>
  BY DEF clientVars
<1>2. /\ buffer' \in Seq(StreamEvents) /\ handed' \in Seq(StreamEvents) /\ received_count' \in Nat
      /\ EventsCounted' /\ Received' = Received
  BY <1>1, HoldsBack
<1> QED BY <1>1, <1>2, QuietKeeps

LEMMA StreamInvInit == ClientInit => StreamInv
<1> SUFFICES ASSUME ClientInit PROVE StreamInv OBVIOUS
<1>1. /\ streams = [t \in StreamTopics |-> <<>>] /\ buffer = <<>> /\ handed = <<>>
      /\ client_stats = NoStats /\ received_count = 0
      /\ reader = [r \in Readers |-> [at |-> "none"]]
      /\ first = [t \in StreamTopics |-> New] /\ shared = FALSE
  BY DEF ClientInit, NotReading
<1>2. PICK start \in {New, 0} : last_ids = [t \in StreamTopics |-> start] BY DEF ClientInit
<1>3. /\ streams \in [StreamTopics -> Seq(StreamMessages)]
      /\ \A t \in StreamTopics : streams[t] = <<>> /\ Len(streams[t]) = 0
      /\ buffer \in Seq(StreamEvents) /\ handed \in Seq(StreamEvents)
  BY <1>1
<1>4. last_ids \in [StreamTopics -> Int] /\ first \in [StreamTopics -> Int]
  BY <1>1, <1>2 DEF New
<1>5. \A t \in StreamTopics : last_ids[t] = New \/ last_ids[t] \in 0 .. Len(streams[t])
  BY <1>2, <1>3
<1>6. client_stats \in [messages_received : Nat, deserialize_errors : Nat,
                        connection_errors : Nat]
  BY <1>1 DEF NoStats
<1>7. \A r \in Readers : reader[r].at = "none" BY <1>1
<1>8. \A r \in Readers : CallWellTyped(r) BY <1>7 DEF CallWellTyped
<1>9. StreamTyped BY <1>1, <1>3, <1>4, <1>5, <1>6, <1>8 DEF StreamTyped
<1>10. EventsCounted BY <1>1 DEF EventsCounted, NoStats
<1>11. Received = <<>> /\ Len(Received) = 0 BY <1>1 DEF Received
<1>12. Passed = {} BY <1>1 DEF Passed, ReadOf
<1>13. AllReceived /\ Sorted(Received)
  <2>1. {Received[i] : i \in 1 .. Len(Received)} = {} BY <1>11
  <2>2. AllReceived BY <1>12, <2>1 DEF AllReceived
  <2>3. Sorted(Received) BY <1>11 DEF Sorted
  <2> QED BY <2>2, <2>3
<1>14. ErrorsCounted
  <2>1. {e \in Passed : ~Good(e)} = {} BY <1>12
  <2>2. client_stats.deserialize_errors = 0 BY <1>1 DEF NoStats
  <2> QED BY <2>1, <2>2, FS_EmptySet DEF ErrorsCounted
<1>15. OneReader /\ FirstKnown /\ AsksOn /\ GoesOn
  BY <1>1, <1>7 DEF OneReader, FirstKnown, AsksOn, GoesOn
<1> QED BY <1>9, <1>10, <1>13, <1>14, <1>15 DEF StreamInv, Solo

LEMMA StreamFollows == StreamInv => StreamExact
<1> SUFFICES ASSUME StreamInv PROVE StreamExact OBVIOUS
<1>1. EventsCounted BY DEF StreamInv
<1>2. NothingSkipped
  <2> SUFFICES ASSUME ~shared
               PROVE  /\ ToSet(Received) = {e \in Passed : Good(e)}
                      /\ \A i, j \in DOMAIN Received :
                           i < j /\ Received[i].topic = Received[j].topic =>
                             Received[i].id < Received[j].id
                      /\ client_stats.deserialize_errors = Cardinality({e \in Passed : ~Good(e)})
    BY DEF NothingSkipped
  <2>1. Solo BY DEF StreamInv
  <2>2. Received \in Seq(StreamEvents)
    BY ConcatProperties DEF StreamInv, StreamTyped, Received
  <2>3. DOMAIN Received = 1 .. Len(Received) BY <2>2, LenProperties
  <2>4. ToSet(Received) = {Received[i] : i \in 1 .. Len(Received)} BY <2>3 DEF ToSet
  <2> QED BY <2>1, <2>3, <2>4 DEF Solo, AllReceived, Sorted, ErrorsCounted
<1> QED BY <1>1, <1>2 DEF StreamExact

\* One thread that iterates over the streams gets every message that can be
\* decoded once and in order, from where it first read to where it is,
\* whatever calls fail or time out in between, and each undecodable one is
\* counted once; and however many threads iterate, no decoded event is lost
\* between the counts of the client and of the iterator.
THEOREM StreamAlwaysExact == TradingSpec => []StreamExact
<1>1. TradingInit => StreamInv BY StreamInvInit DEF TradingInit
<1>2. StreamInv /\ [TradingNext]_tradingVars => StreamInv'
  <2> SUFFICES ASSUME StreamInv, [TradingNext]_tradingVars PROVE StreamInv'
    OBVIOUS
  <2>1. CASE TradingNext
    <3>1. ClientNext \/ UNCHANGED clientVars BY <2>1 DEF TradingNext
    <3> QED BY <3>1, StreamInvStep, StreamInvStutter
  <2>2. CASE UNCHANGED tradingVars
    <3>1. UNCHANGED clientVars BY <2>2 DEF tradingVars
    <3> QED BY <3>1, StreamInvStutter
  <2> QED BY <2>1, <2>2
<1>3. QED BY <1>1, <1>2, StreamFollows, PTL DEF TradingSpec

=============================================================================
