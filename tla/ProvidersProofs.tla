-------------------------- MODULE ProvidersProofs ---------------------------
(***************************************************************************)
(* Proofs about what stands beside the correlation gate, for any number of *)
(* threads, operations and positions and any timeouts: the guard and the   *)
(* audit log of GateSecurity, and the providers of BrokerProvider and      *)
(* SimProvider.                                                            *)
(***************************************************************************)
EXTENDS MCProviders, FiniteSetTheorems, SequenceTheorems, TLAPS

(***************************************************************************)
(* AtomicGateGuard and StateVersionTracker.  GuardInv adds to GuardAtomic  *)
(* that each nested operation remembers the id of the one around it        *)
(* (Nested), which a release restores, and that a version that was matched *)
(* is past (Past).                                                         *)
(***************************************************************************)

Frame == [id : Nat, old : Nat]

GuardTypeOK ==
  /\ guard_owner \in GuardThreads \cup {NoOwner}
  /\ operation_id \in [GuardThreads -> Nat]
  /\ stack \in [GuardThreads -> Seq(Frame)]
  /\ version \in Nat /\ operations \in Nat
  /\ expected \in [GuardThreads -> Nat]
  /\ matched \in Seq(Nat)

Nested ==
  \A t \in GuardThreads : \A i \in 1 .. Len(stack[t]) :
    stack[t][i].old = IF i = 1 THEN NoOperation ELSE stack[t][i - 1].id

Past == \A i \in 1 .. Len(matched) : matched[i] < version

GuardInv == GuardTypeOK /\ OperationsAtomic /\ Nested /\ Past /\ OneMatches

\* execute_atomic enters an operation, nested in that of its thread or not.
LEMMA GuardAcquireKeeps ==
  ASSUME GuardInv, NEW t \in GuardThreads, GuardAcquire(t)
  PROVE  GuardInv'
<1> DEFINE f == [id |-> operations, old |-> operation_id[t]]
           s == stack[t]
           n == Append(s, f)
<1>1. /\ guard_owner \in {NoOwner, t} /\ guard_owner' = t
      /\ stack' = [stack EXCEPT ![t] = n]
      /\ operation_id' = [operation_id EXCEPT ![t] = operations]
      /\ UNCHANGED <<version, expected, matched, operations>>
  BY DEF GuardAcquire
<1>2. /\ stack \in [GuardThreads -> Seq(Frame)] /\ s \in Seq(Frame) /\ f \in Frame
      /\ operation_id \in [GuardThreads -> Nat] /\ operations \in Nat
  BY DEF GuardInv, GuardTypeOK, Frame
<1>3. /\ n \in Seq(Frame) /\ Len(n) = Len(s) + 1 /\ Len(s) \in Nat
      /\ \A i \in 1 .. Len(s) : n[i] = s[i]
      /\ n[Len(s) + 1] = f /\ n # <<>>
  BY <1>2, AppendProperties, LenProperties
<1>4. f.id = operations /\ f.old = operation_id[t]
  OBVIOUS
<1>5. operation_id[t] = IF Len(s) = 0 THEN NoOperation ELSE s[Len(s)].id
  <2>1. s = <<>> <=> Len(s) = 0
    BY <1>2, EmptySeq
  <2>2. QED
    BY <2>1 DEF GuardInv, OperationsAtomic, Last
<1> HIDE DEF f, n
<1>6. /\ stack'[t] = n /\ \A u \in GuardThreads \ {t} : stack'[u] = stack[u]
      /\ operation_id'[t] = operations
      /\ \A u \in GuardThreads \ {t} : operation_id'[u] = operation_id[u]
  BY <1>1, <1>2
<1>7. GuardTypeOK'
  BY <1>1, <1>2, <1>3 DEF GuardInv, GuardTypeOK
<1>8. OperationsAtomic'
  <2>1. \A u \in GuardThreads \ {t} : stack'[u] = <<>>
    BY <1>1, <1>6, GuardAssumption DEF GuardInv, OperationsAtomic
  <2>2. \A u \in GuardThreads : stack'[u] # <<>> <=> guard_owner' = u
    BY <1>1, <1>3, <1>6, <2>1
  <2>3. \A u \in GuardThreads :
          operation_id'[u] = IF stack'[u] = <<>> THEN NoOperation ELSE Last(stack'[u]).id
    <3> SUFFICES ASSUME NEW u \in GuardThreads
                 PROVE  operation_id'[u] = IF stack'[u] = <<>> THEN NoOperation
                                           ELSE Last(stack'[u]).id
      OBVIOUS
    <3>1. CASE u = t
      BY <1>3, <1>4, <1>6, <3>1 DEF Last
    <3>2. CASE u # t
      BY <1>6, <3>2 DEF GuardInv, OperationsAtomic
    <3>3. QED
      BY <3>1, <3>2
  <2>4. QED
    BY <2>2, <2>3 DEF OperationsAtomic
<1>9. Nested'
  <2> SUFFICES ASSUME NEW u \in GuardThreads, NEW i \in 1 .. Len(stack'[u])
               PROVE  stack'[u][i].old = IF i = 1 THEN NoOperation ELSE stack'[u][i - 1].id
    BY DEF Nested
  <2>1. CASE u # t
    BY <1>6, <2>1 DEF GuardInv, Nested
  <2>2. CASE u = t /\ i <= Len(s)
    <3>1. i \in 1 .. Len(s) /\ (i # 1 => i - 1 \in 1 .. Len(s))
      BY <1>3, <1>6, <2>2
    <3>2. s[i].old = IF i = 1 THEN NoOperation ELSE s[i - 1].id
      BY <3>1 DEF GuardInv, Nested
    <3>3. QED
      BY <1>3, <1>6, <2>2, <3>1, <3>2
  <2>3. CASE u = t /\ i = Len(s) + 1
    <3>1. i # 1 => i - 1 \in 1 .. Len(s) /\ i - 1 = Len(s)
      BY <1>3, <2>3
    <3>2. QED
      BY <1>3, <1>4, <1>5, <1>6, <2>3, <3>1
  <2>4. QED
    BY <1>3, <1>6, <2>1, <2>2, <2>3
<1>10. Past' /\ OneMatches'
  BY <1>1 DEF GuardInv, Past, OneMatches
<1>11. QED
  BY <1>7, <1>8, <1>9, <1>10 DEF GuardInv

\* An operation returns or raises, and its thread is in the one around it.
LEMMA GuardReleaseKeeps ==
  ASSUME GuardInv, NEW t \in GuardThreads, GuardRelease(t)
  PROVE  GuardInv'
<1> DEFINE s == stack[t]
           n == SubSeq(s, 1, Len(s) - 1)
<1>1. /\ s # <<>> /\ guard_owner' = (IF Len(s) = 1 THEN NoOwner ELSE t)
      /\ stack' = [stack EXCEPT ![t] = n]
      /\ operation_id' = [operation_id EXCEPT ![t] = s[Len(s)].old]
      /\ UNCHANGED <<version, expected, matched, operations>>
  BY DEF GuardRelease, Restored, Last, Front
<1>2. /\ stack \in [GuardThreads -> Seq(Frame)] /\ s \in Seq(Frame)
      /\ operation_id \in [GuardThreads -> Nat]
  BY DEF GuardInv, GuardTypeOK
<1>3. Len(s) \in Nat \ {0} /\ Len(s) - 1 \in Nat /\ \A i \in 1 .. Len(s) : s[i] \in Frame
  BY <1>1, <1>2, EmptySeq, ElementOfSeq
<1>4. /\ n \in Seq(Frame) /\ Len(n) = Len(s) - 1
      /\ \A i \in 1 .. Len(s) - 1 : n[i] = s[i]
  <2>1. \A i \in 1 .. Len(s) - 1 : s[i] \in Frame
    BY <1>3
  <2>2. QED
    BY <1>3, <2>1, SubSeqProperties
<1> HIDE DEF n
<1>5. n = <<>> <=> Len(s) = 1
  <2>1. n = <<>> <=> Len(n) = 0
    BY <1>4, EmptySeq
  <2>2. Len(s) - 1 = 0 <=> Len(s) = 1
    BY <1>3
  <2>3. QED
    BY <1>4, <2>1, <2>2
<1>6. /\ s[Len(s)].old = (IF Len(s) = 1 THEN NoOperation ELSE s[Len(s) - 1].id)
      /\ s[Len(s)].old \in Nat
  <2>1. Len(s) \in 1 .. Len(s)
    BY <1>3
  <2>2. s[Len(s)] \in Frame
    BY <1>3, <2>1
  <2>3. s[Len(s)].old = IF Len(s) = 1 THEN NoOperation ELSE s[Len(s) - 1].id
    BY <2>1 DEF GuardInv, Nested
  <2>4. QED
    BY <2>2, <2>3 DEF Frame
<1>7. guard_owner = t /\ \A u \in GuardThreads \ {t} : stack[u] = <<>>
  BY <1>1 DEF GuardInv, OperationsAtomic
<1>8. /\ stack'[t] = n /\ \A u \in GuardThreads \ {t} : stack'[u] = stack[u]
      /\ operation_id'[t] = s[Len(s)].old
      /\ \A u \in GuardThreads \ {t} : operation_id'[u] = operation_id[u]
  BY <1>1, <1>2
<1>9. GuardTypeOK'
  BY <1>1, <1>2, <1>4, <1>6 DEF GuardInv, GuardTypeOK
<1>10. OperationsAtomic'
  <2>1. \A u \in GuardThreads : stack'[u] # <<>> <=> guard_owner' = u
    BY <1>1, <1>5, <1>7, <1>8, GuardAssumption
  <2>2. \A u \in GuardThreads :
          operation_id'[u] = IF stack'[u] = <<>> THEN NoOperation ELSE Last(stack'[u]).id
    <3> SUFFICES ASSUME NEW u \in GuardThreads
                 PROVE  operation_id'[u] = IF stack'[u] = <<>> THEN NoOperation
                                           ELSE Last(stack'[u]).id
      OBVIOUS
    <3>1. CASE u = t /\ Len(s) = 1
      BY <1>5, <1>6, <1>8, <3>1
    <3>2. CASE u = t /\ Len(s) # 1
      <4>1. Len(s) - 1 \in 1 .. Len(s) - 1 /\ n[Len(n)] = s[Len(s) - 1]
        <5>0. \A k \in Nat \ {0} : k # 1 => k - 1 \in 1 .. k - 1
          OBVIOUS
        <5>1. Len(s) - 1 \in 1 .. Len(s) - 1
          BY <1>3, <3>2, <5>0
        <5>2. n[Len(s) - 1] = s[Len(s) - 1]
          BY <1>4, <5>1
        <5>3. Len(n) = Len(s) - 1
          BY <1>4
        <5>4. QED
          BY <5>1, <5>2, <5>3
      <4>2. QED
        BY <1>5, <1>6, <1>8, <3>2, <4>1 DEF Last
    <3>3. CASE u # t
      BY <1>8, <3>3 DEF GuardInv, OperationsAtomic
    <3>4. QED
      BY <3>1, <3>2, <3>3
  <2>3. QED
    BY <2>1, <2>2 DEF OperationsAtomic
<1>11. Nested'
  <2> SUFFICES ASSUME NEW u \in GuardThreads, NEW i \in 1 .. Len(stack'[u])
               PROVE  stack'[u][i].old = IF i = 1 THEN NoOperation ELSE stack'[u][i - 1].id
    BY DEF Nested
  <2>1. CASE u # t
    BY <1>8, <2>1 DEF GuardInv, Nested
  <2>2. CASE u = t
    <3>1. /\ i \in 1 .. Len(s) - 1 /\ i \in 1 .. Len(s)
          /\ (i # 1 => i - 1 \in 1 .. Len(s) - 1)
      BY <1>3, <1>4, <1>8, <2>2
    <3>2. s[i].old = IF i = 1 THEN NoOperation ELSE s[i - 1].id
      BY <3>1 DEF GuardInv, Nested
    <3>3. QED
      BY <1>4, <1>8, <2>2, <3>1, <3>2
  <2>3. QED
    BY <2>1, <2>2
<1>12. Past' /\ OneMatches'
  BY <1>1 DEF GuardInv, Past, OneMatches
<1>13. QED
  BY <1>9, <1>10, <1>11, <1>12 DEF GuardInv

\* The tracker's operations: a version that matches is newer than all that
\* did before, since every check moves on.
LEMMA VersionKeeps ==
  ASSUME GuardInv, NEW t \in GuardThreads,
         GetVersion(t) \/ check_and_increment(t)
  PROVE  GuardInv'
<1>1. UNCHANGED <<guard_owner, operation_id, stack, operations>>
  BY DEF GetVersion, check_and_increment
<1>2. version \in Nat /\ expected \in [GuardThreads -> Nat] /\ matched \in Seq(Nat)
  BY DEF GuardInv, GuardTypeOK
<1>3. OperationsAtomic' /\ Nested'
  BY <1>1 DEF GuardInv, OperationsAtomic, Nested
<1>4. Len(matched) \in Nat /\ DOMAIN matched = 1 .. Len(matched)
      /\ \A i \in 1 .. Len(matched) : matched[i] \in Nat
  BY <1>2, LenProperties, ElementOfSeq
<1>5. CASE GetVersion(t)
  <2>1. UNCHANGED <<version, matched>> /\ expected' = [expected EXCEPT ![t] = version]
    BY <1>5 DEF GetVersion
  <2>2. GuardTypeOK'
    BY <1>1, <1>2, <2>1 DEF GuardInv, GuardTypeOK
  <2>3. QED
    BY <1>3, <2>1, <2>2 DEF GuardInv, Past, OneMatches
<1>6. CASE version' = version + 1 /\ UNCHANGED <<matched, expected>>
  <2>1. GuardTypeOK'
    BY <1>1, <1>2, <1>6 DEF GuardInv, GuardTypeOK
  <2>2. Past'
    <3>1. \A i \in 1 .. Len(matched) : matched[i] < version
      BY DEF GuardInv, Past
    <3>2. \A i \in 1 .. Len(matched) : matched[i] < version + 1
      BY <1>2, <1>4, <3>1
    <3>3. QED
      BY <1>6, <3>2 DEF Past
  <2>3. QED
    BY <1>3, <1>6, <2>1, <2>2 DEF GuardInv, OneMatches
<1>7. CASE version' = version + 1 /\ matched' = Append(matched, version) /\ UNCHANGED expected
  <2>1. /\ matched' \in Seq(Nat) /\ Len(matched') = Len(matched) + 1
        /\ \A i \in 1 .. Len(matched) : matched'[i] = matched[i]
        /\ matched'[Len(matched) + 1] = version
    BY <1>2, <1>7, AppendProperties
  <2>2. DOMAIN matched' = 1 .. Len(matched) + 1
    BY <2>1, LenProperties
  <2>3. GuardTypeOK'
    BY <1>1, <1>2, <1>7, <2>1 DEF GuardInv, GuardTypeOK
  <2>4. \A i \in 1 .. Len(matched) : matched[i] < version
    BY DEF GuardInv, Past
  <2>5. Past'
    BY <1>2, <1>4, <1>7, <2>1, <2>4 DEF Past
  <2>6. OneMatches'
    <3>1. \A i, k \in 1 .. Len(matched) : matched[i] = matched[k] => i = k
      BY <1>4 DEF GuardInv, OneMatches
    <3>2. ASSUME NEW i \in 1 .. Len(matched) + 1, NEW k \in 1 .. Len(matched) + 1,
                 matched'[i] = matched'[k]
          PROVE  i = k
      <4>1. \A j \in 1 .. Len(matched) : matched'[j] \in Nat /\ matched'[j] < version
        BY <1>4, <2>1, <2>4
      <4>2. CASE i \in 1 .. Len(matched) /\ k \in 1 .. Len(matched)
        BY <2>1, <3>1, <3>2, <4>2
      <4>3. CASE i = Len(matched) + 1 /\ k \in 1 .. Len(matched)
        BY <1>2, <1>4, <2>1, <3>2, <4>1, <4>3
      <4>4. CASE k = Len(matched) + 1 /\ i \in 1 .. Len(matched)
        BY <1>2, <1>4, <2>1, <3>2, <4>1, <4>4
      <4>5. Len(matched) \in Nat
        BY <1>4
      <4>6. QED
        BY <3>2, <4>2, <4>3, <4>4, <4>5
    <3>3. QED
      BY <2>2, <3>2 DEF OneMatches
  <2>7. QED
    BY <1>3, <2>3, <2>5, <2>6 DEF GuardInv
<1>8. QED
  BY <1>5, <1>6, <1>7 DEF check_and_increment, NextVersion

\* Guarded operations never overlap, however they nest, time out or raise,
\* each thread always sees the id of its innermost one, and at most one of
\* those that saw a version is told that it matched, for any number of
\* threads and operations (execute_atomic, check_and_increment).
THEOREM GuardAlwaysAtomic == GuardSpec => []GuardAtomic
<1>1. GuardInit => GuardInv
  <2> SUFFICES ASSUME GuardInit PROVE GuardInv
    OBVIOUS
  <2>1. GuardTypeOK
    BY EmptySeq DEF GuardInit, GuardTypeOK, NoOperation
  <2>2. OperationsAtomic
    BY GuardAssumption DEF GuardInit, OperationsAtomic
  <2>3. Nested /\ Past /\ OneMatches
    BY DEF GuardInit, Nested, Past, OneMatches
  <2>4. QED
    BY <2>1, <2>2, <2>3 DEF GuardInv
<1>2. GuardInv /\ [GuardNext]_guardVars => GuardInv'
  <2> SUFFICES ASSUME GuardInv, [GuardNext]_guardVars PROVE GuardInv'
    OBVIOUS
  <2>1. CASE UNCHANGED <<guard_owner, operation_id, stack, version, expected, matched>>
             /\ (operations' = operations \/ operations' = operations + 1)
    <3>1. GuardTypeOK'
      BY <2>1 DEF GuardInv, GuardTypeOK
    <3>2. QED
      BY <2>1, <3>1 DEF GuardInv, OperationsAtomic, Nested, Past, OneMatches
  <2>2. CASE UNCHANGED guardVars
    BY <2>1, <2>2 DEF guardVars
  <2>3. CASE Increment
    <3>1. version \in Nat /\ version' = version + 1
          /\ UNCHANGED <<guard_owner, operation_id, stack, expected, matched, operations>>
      BY <2>3 DEF GuardInv, GuardTypeOK, Increment
    <3>2. GuardTypeOK'
      BY <3>1 DEF GuardInv, GuardTypeOK
    <3>3. Past'
      <4>1. \A i \in 1 .. Len(matched) : matched[i] \in Nat
        BY ElementOfSeq DEF GuardInv, GuardTypeOK
      <4>2. QED
        BY <3>1, <4>1 DEF GuardInv, Past
    <3>4. QED
      BY <3>1, <3>2, <3>3 DEF GuardInv, OperationsAtomic, Nested, OneMatches
  <2>4. ASSUME NEW t \in GuardThreads,
               \/ GuardWait(t) \/ GuardAcquire(t) \/ GuardTimeout(t) \/ GuardRelease(t)
               \/ GetVersion(t) \/ check_and_increment(t)
        PROVE  GuardInv'
    <3>1. CASE GuardWait(t) \/ GuardTimeout(t)
      BY <2>1, <3>1 DEF GuardWait, GuardTimeout
    <3>2. QED
      BY <2>4, <3>1, GuardAcquireKeeps, GuardReleaseKeeps, VersionKeeps
  <2>5. QED
    BY <2>2, <2>3, <2>4 DEF GuardNext
<1>3. GuardInv => GuardAtomic
  BY DEF GuardInv, GuardAtomic
<1>4. QED
  BY <1>1, <1>2, <1>3, PTL DEF GuardSpec

-----------------------------------------------------------------------------
(***************************************************************************)
(* FallbackPositionProvider over OandaPositionProvider.                    *)
(*                                                                         *)
(* FallbackInv explains why a primary that failed is spared: while it is   *)
(* in use it has not failed FailureThreshold times, and while it is not,   *)
(* the attempt that the recovery interval counts from is no earlier than   *)
(* the last time it was asked.                                             *)
(***************************************************************************)

FallbackInv ==
  /\ clock \in Nat /\ primary_started \in Int /\ primary_started <= clock
  /\ streak \in Nat /\ primary_failures \in Nat /\ last_primary_attempt \in Int
  /\ using_fallback \in BOOLEAN
  /\ fallback_call.at = "fetch" => ~using_fallback
  /\ fallback_call.at = "recover" => using_fallback
  /\ ~using_fallback =>
       streak = primary_failures /\ (streak # 0 => streak < FailureThreshold)
  /\ using_fallback => last_primary_attempt # Never /\ primary_started <= last_primary_attempt

\* Nobody has been asked.
LEMMA FallbackInvInit == BrokerInit => FallbackInv
<1> SUFFICES ASSUME BrokerInit PROVE FallbackInv
  OBVIOUS
<1>1. clock = 0 /\ primary_started = -1 /\ streak = 0 /\ primary_failures = 0
      /\ last_primary_attempt = -1 /\ using_fallback = FALSE
  BY DEF BrokerInit, Never
<1>2. fallback_call.at = "none"
  BY DEF BrokerInit, NoFallbackCall
<1>3. 0 \in Nat /\ -1 \in Int /\ -1 <= 0
  OBVIOUS
<1>4. QED
  BY <1>1, <1>2, <1>3 DEF FallbackInv

\* A step that leaves the fallback provider and its lock alone.
LEMMA FallbackRests ==
  ASSUME FallbackInv, clock' = clock \/ clock' = clock + 1, UNCHANGED fallbackVars
  PROVE  FallbackInv'
BY DEF FallbackInv, fallbackVars

\* fetch_positions takes the lock and asks the primary, to recover it or not,
\* or the fallback.
LEMMA FetchWrappedKeeps ==
  ASSUME FallbackInv, NEW c \in Callers, FetchWrapped(c)
  PROVE  FallbackInv'
<1>1. CASE ~using_fallback
  <2>1. /\ fallback_call' = [at |-> "fetch", by |-> c] /\ primary_started' = clock
        /\ UNCHANGED <<clock, using_fallback, primary_failures, streak, last_primary_attempt>>
    BY <1>1 DEF FetchWrapped, AskPrimary
  <2>2. QED
    BY <1>1, <2>1 DEF FallbackInv
<1>2. CASE using_fallback /\ should_try_recovery
  <2>1. /\ fallback_call' = [at |-> "recover", by |-> c] /\ primary_started' = clock
        /\ last_primary_attempt' = clock
        /\ UNCHANGED <<clock, using_fallback, primary_failures, streak>>
    BY <1>2 DEF FetchWrapped, AskPrimary, RecoveryAttempt
  <2>2. QED
    BY <1>2, <2>1 DEF FallbackInv, Never
<1>3. CASE using_fallback /\ ~should_try_recovery
  <2>1. /\ fallback_call' = [at |-> "fallback", by |-> c]
        /\ UNCHANGED <<clock, using_fallback, primary_failures, streak, last_primary_attempt,
                       primary_started>>
    BY <1>3 DEF FetchWrapped
  <2>2. QED
    BY <1>3, <2>1 DEF FallbackInv
<1>4. QED
  BY <1>1, <1>2, <1>3

\* The primary has returned or raised.
LEMMA FallbackStepKeeps ==
  ASSUME FallbackInv, NEW c \in Callers, FallbackSteps(c)
  PROVE  FallbackInv'
<1>1. CASE Recovered(c)
  <2>1. /\ fallback_call' = [at |-> "fetch", by |-> c] /\ primary_started' = clock
        /\ using_fallback' = FALSE /\ primary_failures' = 0 /\ streak' = 0
        /\ UNCHANGED <<clock, last_primary_attempt>>
    BY <1>1 DEF Recovered, AskPrimary
  <2>2. clock' \in Nat /\ primary_started' \in Int /\ primary_started' <= clock'
        /\ last_primary_attempt' \in Int /\ 0 \in Nat
    BY <2>1 DEF FallbackInv
  <2>3. fallback_call'.at = "fetch"
    BY <2>1
  <2>4. QED
    BY <2>1, <2>2, <2>3 DEF FallbackInv
<1>2. CASE NotRecovered(c)
  <2>1. /\ fallback_call.at = "recover" /\ fallback_call' = [at |-> "fallback", by |-> c]
        /\ streak' = streak + 1
        /\ UNCHANGED <<clock, using_fallback, primary_failures, last_primary_attempt,
                       primary_started>>
    BY <1>2 DEF NotRecovered
  <2>2. QED
    BY <2>1 DEF FallbackInv
<1>3. CASE PrimaryReturned(c)
  <2>1. /\ fallback_call.at = "fetch" /\ fallback_call'.at = "none"
        /\ primary_failures' = 0 /\ streak' = 0
        /\ UNCHANGED <<clock, using_fallback, last_primary_attempt, primary_started>>
    BY <1>3 DEF PrimaryReturned, NoFallbackCall
  <2>2. ~using_fallback
    BY <2>1 DEF FallbackInv
  <2>3. QED
    BY <2>1, <2>2 DEF FallbackInv
<1>4. CASE PrimaryRaised(c)
  <2>1. /\ fallback_call.at = "fetch" /\ fallback_call' = [at |-> "fallback", by |-> c]
        /\ primary_failures' = primary_failures + 1 /\ streak' = streak + 1
        /\ UNCHANGED <<clock, primary_started>>
    BY <1>4 DEF PrimaryRaised
  <2>2. CASE primary_failures' >= FailureThreshold
    <3>1. using_fallback' = TRUE /\ last_primary_attempt' = clock
      BY <1>4, <2>2 DEF PrimaryRaised
    <3>2. QED
      BY <2>1, <3>1 DEF FallbackInv, Never
  <2>3. CASE ~(primary_failures' >= FailureThreshold)
    <3>1. UNCHANGED <<using_fallback, last_primary_attempt>>
      BY <1>4, <2>3 DEF PrimaryRaised
    <3>2. QED
      BY <2>1, <2>3, <3>1, BrokerAssumption DEF FallbackInv
  <2>4. QED
    BY <2>2, <2>3
<1>5. QED
  BY <1>1, <1>2, <1>3, <1>4 DEF FallbackSteps

\* Every step of the two providers keeps the invariant.
LEMMA FallbackInvStep == FallbackInv /\ [BrokerNext]_brokerVars => FallbackInv'
<1> SUFFICES ASSUME FallbackInv, [BrokerNext]_brokerVars PROVE FallbackInv'
  OBVIOUS
<1>1. CASE UNCHANGED brokerVars \/ BrokerTick \/ InvalidateCache
  <2>1. (clock' = clock \/ clock' = clock + 1) /\ UNCHANGED fallbackVars
    BY <1>1 DEF brokerVars, fallbackVars, BrokerTick, InvalidateCache
  <2>2. QED
    BY <2>1, FallbackRests
<1>2. CASE FallbackAnswers
  <2>1. /\ fallback_call' = [at |-> "none"]
        /\ UNCHANGED <<clock, using_fallback, primary_failures, last_primary_attempt, streak,
                       primary_started>>
    BY <1>2 DEF FallbackAnswers, NoFallbackCall
  <2>2. QED
    BY <2>1 DEF FallbackInv
<1>3. CASE force_fallback
  <2>1. /\ fallback_call.at = "none" /\ using_fallback' = TRUE /\ last_primary_attempt' = clock
        /\ UNCHANGED <<clock, fallback_call, primary_failures, streak, primary_started>>
    BY <1>3 DEF force_fallback
  <2>2. QED
    BY <2>1 DEF FallbackInv, Never
<1>4. CASE force_primary
  <2>1. /\ fallback_call.at = "none" /\ using_fallback' = FALSE /\ primary_failures' = 0
        /\ streak' = 0 /\ UNCHANGED <<clock, fallback_call, last_primary_attempt, primary_started>>
    BY <1>4 DEF force_primary
  <2>2. QED
    BY <2>1 DEF FallbackInv
<1>5. ASSUME NEW c \in Callers, FetchOanda(c) \/ OandaSteps(c) PROVE FallbackInv'
  <2>1. UNCHANGED <<clock, fallbackVars>>
    BY <1>5 DEF FetchOanda, OandaSteps, Serve, AnswerOk, AnswerRefused, AnswerOdd, AnswerFails,
                Retry, FetchEnds
  <2>2. QED
    BY <2>1, FallbackRests
<1>6. QED
  BY <1>1, <1>2, <1>3, <1>4, <1>5, FetchWrappedKeeps, FallbackStepKeeps DEF BrokerNext

\* A primary that failed failure_threshold times running is left alone for
\* the recovery interval, whoever asks, forces or recovers it in between, for
\* any thresholds and intervals (fallback.py fetch_positions).
THEOREM PrimaryAlwaysSpared == BrokerSpec => PrimarySpared
<1> DEFINE Spared == (fallback_call' # fallback_call /\ fallback_call'.at \in {"fetch", "recover"}
                      /\ streak >= FailureThreshold /\ streak' # 0) =>
                       clock - primary_started >= RecoveryInterval
<1>1. FallbackInv /\ [BrokerNext]_brokerVars => [Spared]_brokerVars
  <2> SUFFICES ASSUME FallbackInv, BrokerNext, fallback_call' # fallback_call,
                      fallback_call'.at \in {"fetch", "recover"},
                      streak >= FailureThreshold, streak' # 0
               PROVE  clock - primary_started >= RecoveryInterval
    OBVIOUS
  <2>1. PICK c \in Callers : FetchWrapped(c) \/ FallbackSteps(c)
    <3>1. ~BrokerTick /\ ~InvalidateCache
      BY DEF BrokerTick, InvalidateCache, fallbackVars
    <3>2. ~FallbackAnswers
      BY DEF FallbackAnswers, NoFallbackCall
    <3>3. ~force_fallback /\ ~force_primary
      BY DEF force_fallback, force_primary
    <3>4. \A c \in Callers : ~FetchOanda(c) /\ ~OandaSteps(c)
      BY DEF FetchOanda, OandaSteps, Serve, AnswerOk, AnswerRefused, AnswerOdd, AnswerFails,
             Retry, FetchEnds, fallbackVars
    <3>5. QED
      BY <3>1, <3>2, <3>3, <3>4 DEF BrokerNext
  <2>2. FetchWrapped(c) /\ streak' = streak
    <3>1. ~FallbackSteps(c)
      BY DEF FallbackSteps, Recovered, NotRecovered, PrimaryReturned, PrimaryRaised, NoFallbackCall
    <3>2. QED
      BY <2>1, <3>1 DEF FetchWrapped
  <2>3. using_fallback
    BY <2>2, BrokerAssumption DEF FallbackInv
  <2>4. should_try_recovery
    BY <2>2, <2>3 DEF FetchWrapped
  <2>5. QED
    BY <2>3, <2>4, BrokerAssumption DEF FallbackInv, should_try_recovery
<1>2. QED
  BY <1>1, FallbackInvInit, FallbackInvStep, PTL DEF BrokerSpec, PrimarySpared


-----------------------------------------------------------------------------
(***************************************************************************)
(* OandaPositionProvider, alone or below the fallback provider.            *)
(*                                                                         *)
(* FetchInv bounds ages from both ends: an answer was read by the broker   *)
(* while its request was out, and what is stored was read no longer than   *)
(* one request timeout before it was stored.  A caller may store over      *)
(* another's answer and another may clear the cache in between, which      *)
(* disturbs neither bound.                                                 *)
(***************************************************************************)

RequestFields == {"at", "sent", "attempt", "cached", "read"}

\* What is cached was read during the request that fetched it.
CacheTimed(cache) ==
  cache # Empty => /\ cache.positions \in Nat /\ cache.fetch_time \in Nat
                   /\ cache.fetch_time <= cache.positions + RequestTimeout

\* A request is not older than its timeout, and is read while it is out.
RequestTimed(call, now) ==
  call.at = "request" =>
    /\ DOMAIN call = RequestFields
    /\ call.sent \in Nat /\ call.sent <= now /\ now <= call.sent + RequestTimeout
    /\ call.read # Never => call.read \in Nat /\ call.sent <= call.read

ReturnFresh(call) ==
  call.at = "returned" => call.failed \/ call.age <= Ttl + RequestTimeout

FetchInv ==
  /\ clock \in Nat
  /\ DOMAIN http = Callers
  /\ CacheTimed(oanda_cache)
  /\ \A c \in Callers : RequestTimed(http[c], clock)
  /\ \A c \in Callers : ReturnFresh(http[c])

\* One caller's call changes, and perhaps the cache.
LEMMA CallChanges ==
  ASSUME FetchInv, NEW c \in Callers, NEW call, HttpAt(c, call), clock' = clock,
         CacheTimed(oanda_cache'), RequestTimed(call, clock), ReturnFresh(call)
  PROVE  FetchInv'
<1>1. /\ DOMAIN http' = Callers
      /\ \A d \in Callers : http'[d] = IF d = c THEN call ELSE http[d]
  BY DEF FetchInv, HttpAt
<1>2. \A d \in Callers : RequestTimed(http'[d], clock') /\ ReturnFresh(http'[d])
  BY <1>1 DEF FetchInv
<1>3. QED
  BY <1>1, <1>2 DEF FetchInv

\* Neither kind of call that is over is bound by the time.
LEMMA CallOver ==
  ASSUME NEW call, call.at # "request", call.at # "returned"
  PROVE  RequestTimed(call, clock) /\ ReturnFresh(call)
BY DEF RequestTimed, ReturnFresh

\* A new request, the first of a call or a retry.
LEMMA RequestStarts ==
  ASSUME FetchInv, NEW c, NEW attempt, NEW cached
  PROVE  RequestTimed(Request(c, attempt, cached), clock) /\ ReturnFresh(Request(c, attempt, cached))
<1> DEFINE q == Request(c, attempt, cached)
<1>1. q.at = "request" /\ q.sent = clock /\ q.read = Never /\ DOMAIN q = RequestFields
  BY DEF Request, RequestFields
<1>2. clock \in Nat /\ clock <= clock + RequestTimeout
  BY BrokerAssumption DEF FetchInv
<1> HIDE DEF q
<1>3. RequestTimed(q, clock) /\ ReturnFresh(q)
  BY <1>1, <1>2 DEF RequestTimed, ReturnFresh
<1>4. QED
  BY <1>3 DEF q

\* A fetch is answered from the cache or asks the API.
LEMMA FetchStarts ==
  ASSUME FetchInv, NEW c
  PROVE  RequestTimed(StartFetch(c), clock) /\ ReturnFresh(StartFetch(c))
<1>1. CASE OandaStale(oanda_cache)
  BY <1>1, RequestStarts DEF StartFetch
<1>2. CASE ~OandaStale(oanda_cache)
  <2> DEFINE q == Returns(c, oanda_cache.positions, FALSE)
  <2>1. StartFetch(c) = q
    BY <1>2 DEF StartFetch
  <2>2. q.at = "returned" /\ q.age = clock - oanda_cache.positions
    BY DEF Returns
  <2>3. clock - oanda_cache.positions <= Ttl + RequestTimeout
    BY <1>2, BrokerAssumption DEF OandaStale, FetchInv, CacheTimed
  <2> HIDE DEF q
  <2>4. QED
    BY <2>1, <2>2, <2>3 DEF RequestTimed, ReturnFresh
<1>3. QED
  BY <1>1, <1>2

\* The broker reads the account.
LEMMA ServeKeeps ==
  ASSUME FetchInv, NEW c \in Callers, Serve(c)
  PROVE  FetchInv'
<1> DEFINE q == [http[c] EXCEPT !.read = clock]
<1>1. http[c].at = "request" /\ HttpAt(c, q) /\ UNCHANGED <<clock, oanda_cache>>
  BY DEF Serve
<1>2. /\ DOMAIN http[c] = RequestFields
      /\ http[c].sent \in Nat /\ http[c].sent <= clock /\ clock <= http[c].sent + RequestTimeout
      /\ clock \in Nat
  BY <1>1 DEF FetchInv, RequestTimed
<1>3. q.at = "request" /\ q.sent = http[c].sent /\ q.read = clock /\ DOMAIN q = RequestFields
  BY <1>1, <1>2 DEF RequestFields
<1> HIDE DEF q
<1>4. RequestTimed(q, clock) /\ ReturnFresh(q)
  BY <1>2, <1>3 DEF RequestTimed, ReturnFresh
<1>5. CacheTimed(oanda_cache')
  BY <1>1 DEF FetchInv
<1>6. QED
  BY <1>1, <1>4, <1>5, CallChanges

\* The answer is stored and returned.
LEMMA AnswerKeeps ==
  ASSUME FetchInv, NEW c \in Callers, AnswerOk(c)
  PROVE  FetchInv'
<1> DEFINE q == Returns(c, http[c].read, FALSE)
<1> DEFINE k == [positions |-> http[c].read, fetch_time |-> clock]
<1>1. /\ http[c].at = "request" /\ http[c].read # Never
      /\ HttpAt(c, q) /\ oanda_cache' = k /\ clock' = clock
  BY DEF AnswerOk
<1>2. http[c].read \in Nat /\ clock \in Nat /\ clock <= http[c].read + RequestTimeout
  BY <1>1, BrokerAssumption DEF FetchInv, RequestTimed
<1>3. q.at = "returned" /\ q.age = clock - http[c].read
  BY DEF Returns
<1>4. CacheTimed(k)
  BY <1>2 DEF CacheTimed
<1> HIDE DEF q, k
<1>5. RequestTimed(q, clock) /\ ReturnFresh(q)
  BY <1>2, <1>3, BrokerAssumption DEF RequestTimed, ReturnFresh
<1>6. QED
  BY <1>1, <1>4, <1>5, CallChanges

\* A call that gives up says so in "failed".
LEMMA GivingUpKeeps ==
  ASSUME FetchInv, NEW c \in Callers, GivesUp(c), clock' = clock
  PROVE  FetchInv'
<1>1. CacheTimed(oanda_cache')
  BY DEF GivesUp, StoredAfter, FetchInv
<1>2. CASE http[c].cached # Empty
  <2> DEFINE q == Returns(c, http[c].cached.positions, TRUE)
  <2>1. HttpAt(c, q)
    BY <1>2 DEF GivesUp
  <2>2. q.at = "returned" /\ q.failed = TRUE
    BY DEF Returns
  <2> HIDE DEF q
  <2>3. RequestTimed(q, clock) /\ ReturnFresh(q)
    BY <2>2 DEF RequestTimed, ReturnFresh
  <2>4. QED
    BY <1>1, <2>1, <2>3, CallChanges
<1>3. CASE ~(http[c].cached # Empty)
  <2>1. HttpAt(c, Raises(c))
    BY <1>3 DEF GivesUp
  <2>2. Raises(c).at = "raised"
    BY DEF Raises
  <2>3. RequestTimed(Raises(c), clock) /\ ReturnFresh(Raises(c))
    BY <2>2, CallOver
  <2>4. QED
    BY <1>1, <2>1, <2>3, CallChanges
<1>4. QED
  BY <1>2, <1>3

\* The API fails, refuses or answers oddly.
LEMMA FailureKeeps ==
  ASSUME FetchInv, NEW c \in Callers, AnswerFails(c) \/ AnswerRefused(c) \/ AnswerOdd(c)
  PROVE  FetchInv'
<1>1. CASE AnswerOdd(c)
  BY <1>1, GivingUpKeeps DEF AnswerOdd
<1>2. CASE AnswerRefused(c)
  <2>1. HttpAt(c, Raises(c)) /\ UNCHANGED <<clock, oanda_cache>>
    BY <1>2 DEF AnswerRefused
  <2>2. Raises(c).at = "raised"
    BY DEF Raises
  <2>3. RequestTimed(Raises(c), clock) /\ ReturnFresh(Raises(c))
    BY <2>2, CallOver
  <2>4. CacheTimed(oanda_cache')
    BY <2>1 DEF FetchInv
  <2>5. QED
    BY <2>1, <2>3, <2>4, CallChanges
<1>3. CASE AnswerFails(c) /\ http[c].attempt < MaxRetries
  <2> DEFINE q == [at |-> "sleep", until |-> clock + 2 ^ http[c].attempt,
                   attempt |-> http[c].attempt, cached |-> http[c].cached]
  <2>1. HttpAt(c, q) /\ UNCHANGED <<clock, oanda_cache>>
    BY <1>3 DEF AnswerFails
  <2>2. q.at = "sleep"
    OBVIOUS
  <2> HIDE DEF q
  <2>3. RequestTimed(q, clock) /\ ReturnFresh(q)
    BY <2>2, CallOver
  <2>4. CacheTimed(oanda_cache')
    BY <2>1 DEF FetchInv
  <2>5. QED
    BY <2>1, <2>3, <2>4, CallChanges
<1>4. CASE AnswerFails(c) /\ ~(http[c].attempt < MaxRetries)
  <2>1. GivesUp(c) /\ clock' = clock
    BY <1>4 DEF AnswerFails
  <2>2. QED
    BY <2>1, GivingUpKeeps
<1>5. QED
  BY <1>1, <1>2, <1>3, <1>4

\* A call starts, retries or is over.
LEMMA FetchMoves ==
  ASSUME FetchInv, NEW c \in Callers, UNCHANGED <<clock, oanda_cache>>,
         \/ HttpAt(c, StartFetch(c)) \/ HttpAt(c, Idle)
         \/ \E attempt, cached : HttpAt(c, Request(c, attempt, cached))
  PROVE  FetchInv'
<1>1. CacheTimed(oanda_cache')
  BY DEF FetchInv
<1>2. CASE HttpAt(c, StartFetch(c))
  BY <1>1, <1>2, FetchStarts, CallChanges
<1>3. CASE HttpAt(c, Idle)
  <2>1. Idle.at = "none"
    BY DEF Idle
  <2>2. RequestTimed(Idle, clock) /\ ReturnFresh(Idle)
    BY <2>1, CallOver
  <2>3. QED
    BY <1>1, <1>3, <2>2, CallChanges
<1>4. ASSUME NEW attempt, NEW cached, HttpAt(c, Request(c, attempt, cached)) PROVE FetchInv'
  BY <1>1, <1>4, RequestStarts, CallChanges
<1>5. QED
  BY <1>2, <1>3, <1>4

\* Every step of the two providers keeps the bounds.
LEMMA FetchInvStep == FetchInv /\ [BrokerNext]_brokerVars => FetchInv'
<1> SUFFICES ASSUME FetchInv, [BrokerNext]_brokerVars PROVE FetchInv'
  OBVIOUS
<1>1. CASE UNCHANGED <<clock, oanda_cache, http>>
  BY <1>1 DEF FetchInv
<1>2. CASE BrokerTick
  <2>1. /\ clock' = clock + 1 /\ UNCHANGED <<oanda_cache, http>>
        /\ \A c \in Callers : http[c].at = "request" => clock < http[c].sent + RequestTimeout
    BY <1>2 DEF BrokerTick
  <2>2. \A c \in Callers : RequestTimed(http[c], clock + 1)
    BY <2>1, BrokerAssumption DEF FetchInv, RequestTimed
  <2>3. clock + 1 \in Nat
    BY DEF FetchInv
  <2>4. QED
    BY <2>1, <2>2, <2>3 DEF FetchInv
<1>3. CASE InvalidateCache
  <2>1. oanda_cache' = Empty /\ UNCHANGED <<clock, http>>
    BY <1>3 DEF InvalidateCache
  <2>2. CacheTimed(Empty)
    BY DEF CacheTimed
  <2>3. QED
    BY <2>1, <2>2 DEF FetchInv
<1>4. CASE FallbackAnswers \/ force_fallback \/ force_primary
  BY <1>1, <1>4 DEF FallbackAnswers, force_fallback, force_primary
<1>5. ASSUME NEW c \in Callers, FetchOanda(c) \/ FetchWrapped(c) \/ OandaSteps(c) \/ FallbackSteps(c)
      PROVE  FetchInv'
  <2>1. CASE OandaSteps(c) /\ ~Retry(c) /\ ~FetchEnds(c)
    BY <2>1, ServeKeeps, AnswerKeeps, FailureKeeps DEF OandaSteps
  <2>2. CASE FetchWrapped(c) /\ using_fallback /\ ~should_try_recovery
    BY <1>1, <2>2 DEF FetchWrapped
  <2>3. CASE FetchOanda(c) \/ (FetchWrapped(c) /\ (~using_fallback \/ should_try_recovery))
             \/ Recovered(c)
    <3>1. UNCHANGED <<clock, oanda_cache>> /\ HttpAt(c, StartFetch(c))
      BY <2>3 DEF FetchOanda, FetchWrapped, Recovered, AskPrimary
    <3>2. QED
      BY <3>1, FetchMoves
  <2>4. CASE FetchEnds(c) \/ NotRecovered(c) \/ PrimaryReturned(c) \/ PrimaryRaised(c)
    <3>1. UNCHANGED <<clock, oanda_cache>> /\ HttpAt(c, Idle)
      BY <2>4 DEF FetchEnds, NotRecovered, PrimaryReturned, PrimaryRaised
    <3>2. QED
      BY <3>1, FetchMoves
  <2>5. CASE Retry(c)
    <3>1. /\ UNCHANGED <<clock, oanda_cache>>
          /\ HttpAt(c, Request(c, http[c].attempt + 1, http[c].cached))
      BY <2>5 DEF Retry
    <3>2. QED
      BY <3>1, FetchMoves
  <2>6. QED
    BY <1>5, <2>1, <2>2, <2>3, <2>4, <2>5 DEF OandaSteps, FallbackSteps
<1>6. QED
  BY <1>1, <1>2, <1>3, <1>4, <1>5 DEF BrokerNext, brokerVars

\* fetch_positions returns positions older than the cache's time to live and
\* one request only when that very call failed, for any number of overlapping
\* callers and any time to live, timeout and retries (oanda.py
\* fetch_positions).
THEOREM PositionsFreshOrFailed == BrokerSpec => []FreshOrFailed
<1>1. BrokerInit => FetchInv
  <2> SUFFICES ASSUME BrokerInit PROVE FetchInv
    OBVIOUS
  <2>1. clock = 0 /\ oanda_cache = Empty /\ http = [c \in Callers |-> Idle]
    BY DEF BrokerInit
  <2>2. Idle.at = "none"
    BY DEF Idle
  <2>3. CacheTimed(oanda_cache)
    BY <2>1 DEF CacheTimed
  <2>4. \A c \in Callers : RequestTimed(http[c], clock) /\ ReturnFresh(http[c])
    BY <2>1, <2>2, CallOver
  <2>5. QED
    BY <2>1, <2>3, <2>4 DEF FetchInv
<1>2. FetchInv => FreshOrFailed
  BY DEF FetchInv, FreshOrFailed, ReturnFresh
<1>3. QED
  BY <1>1, <1>2, FetchInvStep, PTL DEF BrokerSpec


-----------------------------------------------------------------------------
(***************************************************************************)
(* SimulatorPositionProvider over InMemoryPortfolioAccessor.               *)
(*                                                                         *)
(* SimInv follows the two locks: who holds the provider's is between its   *)
(* acquisition and its release, who holds the accessor's notifies of a     *)
(* change, so that the portfolio stands still from the change to the       *)
(* telling.  Once the cache is cleared, and unless a fetch raced with      *)
(* that, everything that is stored was read from this very portfolio.      *)
(***************************************************************************)

\* A call that holds the provider's lock between two steps.
HoldsProvider(call) == call.at \in {"read", "store", "listen", "unlisten"}

\* A call that notifies of a change and so holds the accessor's lock.
Notifies(call) ==
  \/ call.at \in {"changed", "invalidated", "tell"}
  \/ call.at \in {"fetch", "read", "store"} /\ call.of # Nothing

\* ... after the cache was cleared.
HasCleared(call) == Notifies(call) /\ call.at # "changed"

SimLocks ==
  /\ DOMAIN sim_call = SimThreads
  /\ \A t \in SimThreads : HoldsProvider(sim_call[t]) <=> provider_lock = t
  /\ \A t \in SimThreads : Notifies(sim_call[t]) <=> accessor_lock = t

\* The listener is as the subscriptions ask for, or its owner is changing it.
Listening ==
  /\ listener \in BOOLEAN
  /\ ListensWhileSubscribed
  /\ \A t \in SimThreads : sim_call[t].at = "listen" => callbacks # {}
  /\ \A t \in SimThreads : sim_call[t].at = "unlisten" => callbacks = {}

\* What a fetch may find or store while a change is being told.
Refetched ==
  \A t \in SimThreads : HasCleared(sim_call[t]) /\ ~raced =>
    /\ sim_cache.positions \subseteq {portfolio}
    /\ \A u \in SimThreads : sim_call[u].at = "store" => sim_call[u].positions = portfolio

SimInv ==
  /\ DOMAIN sim_cache = {"positions", "stale"}
  /\ injected \subseteq {Mock}
  /\ SimLocks /\ Listening /\ Refetched /\ ToldCurrent

\* Nobody has called.
LEMMA SimInvInit == SimInit => SimInv
<1> SUFFICES ASSUME SimInit PROVE SimInv
  OBVIOUS
<1>1. \A t \in SimThreads : sim_call[t].at = "none"
  BY DEF SimInit, NoCall
<1>2. SimLocks
  BY <1>1, SimAssumption DEF SimInit, SimLocks, HoldsProvider, Notifies
<1>3. DOMAIN sim_cache = {"positions", "stale"} /\ injected \subseteq {Mock}
  BY DEF SimInit, NoCache, Nothing
<1>4. Refetched /\ ToldCurrent
  BY <1>1 DEF Refetched, ToldCurrent, HasCleared, Notifies
<1>5. listener = FALSE /\ callbacks = {}
  BY DEF SimInit
<1>6. Listening
  BY <1>1, <1>5 DEF Listening, ListensWhileSubscribed
<1>7. QED
  BY <1>2, <1>3, <1>4, <1>6 DEF SimInv


\* What a step of one thread leaves of the others' calls.
LEMMA ThreadMoves ==
  ASSUME SimInv, NEW t \in SimThreads, NEW call, At(t, call)
  PROVE  /\ DOMAIN sim_call' = SimThreads
         /\ sim_call'[t] = call
         /\ \A u \in SimThreads \ {t} : sim_call'[u] = sim_call[u]
BY DEF SimInv, SimLocks, At

\* A step inside a fetch or a notification that moves neither lock nor
\* listener, and after which the call is told or stores only what it may.
LEMMA FetchStepKeeps ==
  ASSUME SimInv, NEW t \in SimThreads, NEW call, At(t, call),
         HoldsProvider(call) <=> HoldsProvider(sim_call[t]),
         Notifies(call) <=> Notifies(sim_call[t]),
         HasCleared(call) => HasCleared(sim_call[t]),
         call.at \notin {"listen", "unlisten"}, sim_call[t].at \notin {"listen", "unlisten"},
         call.at = "store" => call.positions = portfolio,
         call.at = "tell" => call.positions \in {portfolio, Mock} \/ raced,
         UNCHANGED <<portfolio, listener, accessor_lock, provider_lock, sim_cache, injected,
                     callbacks, raced>>
  PROVE  SimInv'
<1>1. /\ DOMAIN sim_call' = SimThreads
      /\ sim_call'[t] = call
      /\ \A u \in SimThreads \ {t} : sim_call'[u] = sim_call[u]
  BY ThreadMoves
<1>2. SimLocks'
  BY <1>1 DEF SimInv, SimLocks
<1>3. Listening'
  <2>1. \A u \in SimThreads : \A a \in {"listen", "unlisten"} : sim_call'[u].at = a <=> sim_call[u].at = a
    BY <1>1
  <2>2. QED
    BY <2>1 DEF SimInv, Listening, ListensWhileSubscribed
<1>4. Refetched'
  BY <1>1 DEF SimInv, Refetched
<1>5. ToldCurrent'
  BY <1>1 DEF SimInv, ToldCurrent
<1>6. QED
  BY <1>2, <1>3, <1>4, <1>5 DEF SimInv

\* fetch_positions begins.
LEMMA FetchBeginsKeeps ==
  ASSUME SimInv, NEW t \in SimThreads, FetchBegins(t)
  PROVE  SimInv'
<1> DEFINE call == [at |-> "fetch", of |-> Nothing]
<1>1. /\ At(t, call) /\ sim_call[t].at = "none"
      /\ UNCHANGED <<portfolio, listener, accessor_lock, provider_lock, sim_cache, injected,
                     callbacks, raced>>
  BY DEF FetchBegins, Begins
<1>2. call.at = "fetch" /\ call.of = Nothing
  OBVIOUS
<1> HIDE DEF call
<1>3. ~Notifies(call) /\ ~HoldsProvider(call) /\ ~Notifies(sim_call[t]) /\ ~HoldsProvider(sim_call[t])
  BY <1>1, <1>2 DEF Notifies, HoldsProvider
<1>4. QED
  BY <1>1, <1>2, <1>3, FetchStepKeeps DEF HasCleared

\* A fetch returns what it found, to a user or to the notification.
LEMMA ReturnedCall ==
  ASSUME NEW t \in SimThreads, NEW positions, Returned(t, positions)
  PROVE  \E call : /\ At(t, call)
                   /\ sim_call[t].of = Nothing => call.at = "none"
                   /\ sim_call[t].of # Nothing => call.at = "tell" /\ call.positions = positions
BY DEF Returned, NoCall

\* A fetch finds injected or cached positions.
LEMMA FetchKnownKeeps ==
  ASSUME SimInv, NEW t \in SimThreads, FetchKnown(t)
  PROVE  SimInv'
<1>1. /\ sim_call[t].at = "fetch"
      /\ UNCHANGED <<portfolio, listener, accessor_lock, provider_lock, sim_cache, injected,
                     callbacks, raced>>
  BY DEF FetchKnown
<1>2. PICK positions \in (IF injected # Nothing THEN injected ELSE sim_cache.positions) :
              Returned(t, positions)
  BY DEF FetchKnown
<1>3. PICK call : /\ At(t, call)
                  /\ sim_call[t].of = Nothing => call.at = "none"
                  /\ sim_call[t].of # Nothing => call.at = "tell" /\ call.positions = positions
  BY <1>2, ReturnedCall
<1>4. /\ ~HoldsProvider(call) /\ ~HoldsProvider(sim_call[t])
      /\ Notifies(call) <=> Notifies(sim_call[t])
      /\ HasCleared(call) <=> HasCleared(sim_call[t])
  BY <1>1, <1>3 DEF HoldsProvider, Notifies, HasCleared
<1>5. call.at = "tell" => call.positions \in {portfolio, Mock} \/ raced
  <2>1. SUFFICES ASSUME call.at = "tell", ~raced PROVE positions \in {portfolio, Mock}
    BY <1>3
  <2>2. HasCleared(sim_call[t])
    BY <1>4, <2>1 DEF HasCleared, Notifies
  <2>3. sim_cache.positions \subseteq {portfolio} /\ injected \subseteq {Mock}
    BY <2>1, <2>2 DEF SimInv, Refetched
  <2>4. QED
    BY <2>3
<1>6. call.at \notin {"listen", "unlisten", "store"}
  BY <1>3
<1>7. QED
  BY <1>1, <1>3, <1>4, <1>5, <1>6, FetchStepKeeps

\* A fetch reads the portfolio.
LEMMA FetchReadsKeeps ==
  ASSUME SimInv, NEW t \in SimThreads, FetchReads(t)
  PROVE  SimInv'
<1> DEFINE call == [at |-> "store", of |-> sim_call[t].of, positions |-> portfolio]
<1>1. /\ At(t, call) /\ sim_call[t].at = "read"
      /\ UNCHANGED <<portfolio, listener, accessor_lock, provider_lock, sim_cache, injected,
                     callbacks, raced>>
  BY DEF FetchReads
<1>2. call.at = "store" /\ call.of = sim_call[t].of /\ call.positions = portfolio
  OBVIOUS
<1> HIDE DEF call
<1>3. /\ HoldsProvider(call) /\ HoldsProvider(sim_call[t])
      /\ Notifies(call) <=> Notifies(sim_call[t])
      /\ HasCleared(call) <=> HasCleared(sim_call[t])
  BY <1>1, <1>2 DEF Notifies, HoldsProvider, HasCleared
<1>4. QED
  BY <1>1, <1>2, <1>3, FetchStepKeeps

\* The notification takes the callbacks and fetches.
LEMMA ChangeNotifiesKeeps ==
  ASSUME SimInv, NEW t \in SimThreads, ChangeNotifies(t)
  PROVE  SimInv'
<1> DEFINE call == [at |-> "fetch", of |-> {callbacks}]
<1>1. /\ At(t, call) /\ sim_call[t].at = "invalidated"
      /\ UNCHANGED <<portfolio, listener, accessor_lock, provider_lock, sim_cache, injected,
                     callbacks, raced>>
  BY DEF ChangeNotifies
<1>2. call.at = "fetch" /\ call.of # Nothing
  BY DEF Nothing
<1> HIDE DEF call
<1>3. /\ ~HoldsProvider(call) /\ ~HoldsProvider(sim_call[t])
      /\ Notifies(call) /\ Notifies(sim_call[t])
      /\ HasCleared(call) /\ HasCleared(sim_call[t])
  BY <1>1, <1>2 DEF Notifies, HoldsProvider, HasCleared
<1>4. QED
  BY <1>1, <1>2, <1>3, FetchStepKeeps


\* A fetch takes the provider's lock to read and store.
LEMMA FetchLocksKeeps ==
  ASSUME SimInv, NEW t \in SimThreads, FetchLocks(t)
  PROVE  SimInv'
<1> DEFINE call == [at |-> "read", of |-> sim_call[t].of]
<1>1. /\ At(t, call) /\ sim_call[t].at = "fetch" /\ provider_lock \in {Nobody, t}
      /\ provider_lock' = t
      /\ UNCHANGED <<portfolio, listener, accessor_lock, sim_cache, injected, callbacks, raced>>
  BY DEF FetchLocks, Free
<1>2. call.at = "read" /\ call.of = sim_call[t].of
  OBVIOUS
<1> HIDE DEF call
<1>3. /\ DOMAIN sim_call' = SimThreads
      /\ sim_call'[t] = call
      /\ \A u \in SimThreads \ {t} : sim_call'[u] = sim_call[u]
  BY <1>1, ThreadMoves
<1>4. /\ HoldsProvider(call)
      /\ Notifies(call) <=> Notifies(sim_call[t])
      /\ HasCleared(call) <=> HasCleared(sim_call[t])
  BY <1>1, <1>2 DEF Notifies, HoldsProvider, HasCleared
<1>5. SimLocks'
  <2>1. \A u \in SimThreads \ {t} : ~HoldsProvider(sim_call[u])
    BY <1>1, SimAssumption DEF SimInv, SimLocks
  <2>2. QED
    BY <1>1, <1>3, <1>4, <2>1 DEF SimInv, SimLocks
<1>6. Listening'
  <2>1. \A u \in SimThreads : \A a \in {"listen", "unlisten"} : sim_call'[u].at = a <=> sim_call[u].at = a
    BY <1>1, <1>2, <1>3
  <2>2. QED
    BY <1>1, <2>1 DEF SimInv, Listening, ListensWhileSubscribed
<1>7. Refetched'
  BY <1>1, <1>2, <1>3, <1>4 DEF SimInv, Refetched
<1>8. ToldCurrent'
  BY <1>1, <1>2, <1>3 DEF SimInv, ToldCurrent
<1>9. QED
  BY <1>1, <1>5, <1>6, <1>7, <1>8 DEF SimInv

\* A fetch stores what it has read and releases the lock.
LEMMA FetchStoresKeeps ==
  ASSUME SimInv, NEW t \in SimThreads, FetchStores(t)
  PROVE  SimInv'
<1>1. /\ sim_call[t].at = "store" /\ Returned(t, sim_call[t].positions)
      /\ sim_cache' = [positions |-> {sim_call[t].positions}, stale |-> FALSE]
      /\ provider_lock' = Nobody
      /\ UNCHANGED <<portfolio, listener, accessor_lock, injected, callbacks, raced>>
  BY DEF FetchStores, Unlocked
<1>2. PICK call : /\ At(t, call)
                  /\ sim_call[t].of = Nothing => call.at = "none"
                  /\ sim_call[t].of # Nothing =>
                       call.at = "tell" /\ call.positions = sim_call[t].positions
  BY <1>1, ReturnedCall
<1>3. /\ DOMAIN sim_call' = SimThreads
      /\ sim_call'[t] = call
      /\ \A u \in SimThreads \ {t} : sim_call'[u] = sim_call[u]
  BY <1>2, ThreadMoves
<1>4. /\ ~HoldsProvider(call) /\ HoldsProvider(sim_call[t])
      /\ Notifies(call) <=> Notifies(sim_call[t])
      /\ HasCleared(call) <=> HasCleared(sim_call[t])
  BY <1>1, <1>2 DEF HoldsProvider, Notifies, HasCleared
<1>5. SimLocks'
  <2>1. \A u \in SimThreads \ {t} : ~HoldsProvider(sim_call[u])
    BY <1>4 DEF SimInv, SimLocks
  <2>2. QED
    BY <1>1, <1>3, <1>4, <2>1, SimAssumption DEF SimInv, SimLocks
<1>6. Listening'
  <2>1. \A u \in SimThreads : \A a \in {"listen", "unlisten"} : sim_call'[u].at = a <=> sim_call[u].at = a
    BY <1>1, <1>2, <1>3
  <2>2. QED
    BY <1>1, <2>1 DEF SimInv, Listening, ListensWhileSubscribed
<1>7. \A u \in SimThreads : HasCleared(sim_call[u]) /\ ~raced =>
        /\ sim_call[t].positions = portfolio
        /\ \A w \in SimThreads : sim_call[w].at = "store" => sim_call[w].positions = portfolio
  BY <1>1 DEF SimInv, Refetched
<1>8. sim_cache'.positions = {sim_call[t].positions} /\ DOMAIN sim_cache' = {"positions", "stale"}
  BY <1>1
<1>9. Refetched'
  BY <1>1, <1>2, <1>3, <1>4, <1>7, <1>8 DEF Refetched
<1>10. ToldCurrent'
  <2>1. call.at = "tell" => call.positions = portfolio \/ raced
    BY <1>2, <1>4, <1>7 DEF HasCleared, Notifies
  <2>2. QED
    BY <1>1, <1>3, <2>1 DEF SimInv, ToldCurrent
<1>11. QED
  BY <1>1, <1>5, <1>6, <1>8, <1>9, <1>10 DEF SimInv

\* While nobody holds the accessor's lock there is nothing to tell.
LEMMA NobodyNotifies ==
  ASSUME SimInv, accessor_lock = Nobody
  PROVE  \A u \in SimThreads : ~Notifies(sim_call[u])
BY SimAssumption DEF SimInv, SimLocks

\* While nobody holds the provider's lock the listener is as it should be.
LEMMA NobodyHolds ==
  ASSUME SimInv, provider_lock = Nobody
  PROVE  /\ \A u \in SimThreads : ~HoldsProvider(sim_call[u])
         /\ \A u \in SimThreads : sim_call[u].at \notin {"listen", "unlisten"}
         /\ listener <=> callbacks # {}
<1>1. \A u \in SimThreads : ~HoldsProvider(sim_call[u])
  BY SimAssumption DEF SimInv, SimLocks
<1>2. \A u \in SimThreads : sim_call[u].at \notin {"listen", "unlisten"}
  BY <1>1 DEF HoldsProvider
<1>3. QED
  BY <1>1, <1>2 DEF SimInv, Listening, ListensWhileSubscribed

\* add_position or remove_position changes the portfolio.
LEMMA ChangeBeginsKeeps ==
  ASSUME SimInv, NEW t \in SimThreads, NEW p \in SimPositions, ChangeBegins(t, p)
  PROVE  SimInv'
<1>1. /\ sim_call[t].at = "none" /\ accessor_lock = Nobody
      /\ UNCHANGED <<listener, provider_lock, sim_cache, injected, callbacks, raced>>
  BY DEF ChangeBegins, Begins
<1>2. \A u \in SimThreads : ~Notifies(sim_call[u]) /\ sim_call[u].at # "tell"
  BY <1>1, NobodyNotifies DEF Notifies
<1>3. CASE listener
  <2> DEFINE call == [at |-> "changed"]
  <2>1. At(t, call) /\ accessor_lock' = t
    BY <1>3 DEF ChangeBegins
  <2>2. call.at = "changed"
    OBVIOUS
  <2> HIDE DEF call
  <2>3. /\ DOMAIN sim_call' = SimThreads
        /\ sim_call'[t] = call
        /\ \A u \in SimThreads \ {t} : sim_call'[u] = sim_call[u]
    BY <2>1, ThreadMoves
  <2>4. /\ ~HoldsProvider(call) /\ ~HoldsProvider(sim_call[t])
        /\ Notifies(call) /\ ~HasCleared(call)
    BY <1>1, <2>2 DEF HoldsProvider, Notifies, HasCleared
  <2>5. SimLocks'
    BY <1>1, <1>2, <2>1, <2>3, <2>4 DEF SimInv, SimLocks
  <2>6. Listening'
    <3>1. \A u \in SimThreads : \A a \in {"listen", "unlisten"} : sim_call'[u].at = a <=> sim_call[u].at = a
      BY <1>1, <2>2, <2>3
    <3>2. QED
      BY <1>1, <3>1 DEF SimInv, Listening, ListensWhileSubscribed
  <2>7. Refetched' /\ ToldCurrent'
    BY <1>2, <2>2, <2>3, <2>4 DEF Refetched, ToldCurrent, HasCleared
  <2>8. QED
    BY <1>1, <2>5, <2>6, <2>7 DEF SimInv
<1>4. CASE ~listener
  <2>1. UNCHANGED <<accessor_lock, sim_call>>
    BY <1>4 DEF ChangeBegins
  <2>2. Refetched' /\ ToldCurrent'
    BY <1>2, <2>1 DEF Refetched, ToldCurrent, HasCleared
  <2>3. SimLocks' /\ Listening'
    BY <1>1, <2>1 DEF SimInv, SimLocks, Listening, ListensWhileSubscribed
  <2>4. QED
    BY <1>1, <2>2, <2>3 DEF SimInv
<1>5. QED
  BY <1>3, <1>4

\* _on_position_change clears the cache.
LEMMA ChangeInvalidatesKeeps ==
  ASSUME SimInv, NEW t \in SimThreads, ChangeInvalidates(t)
  PROVE  SimInv'
<1> DEFINE call == [at |-> "invalidated"]
<1>1. /\ sim_call[t].at = "changed" /\ At(t, call) /\ sim_cache' = NoCache
      /\ UNCHANGED <<portfolio, listener, accessor_lock, provider_lock, injected, callbacks>>
  BY DEF ChangeInvalidates, Invalidated
<1>2. raced' <=> \E u \in SimThreads : sim_call[u].at = "store"
  BY DEF ChangeInvalidates
<1>3. call.at = "invalidated"
  OBVIOUS
<1> HIDE DEF call
<1>4. /\ DOMAIN sim_call' = SimThreads
      /\ sim_call'[t] = call
      /\ \A u \in SimThreads \ {t} : sim_call'[u] = sim_call[u]
  BY <1>1, ThreadMoves
<1>5. /\ ~HoldsProvider(call) /\ ~HoldsProvider(sim_call[t])
      /\ Notifies(call) /\ Notifies(sim_call[t])
  BY <1>1, <1>3 DEF HoldsProvider, Notifies
<1>6. SimLocks'
  BY <1>1, <1>4, <1>5 DEF SimInv, SimLocks
<1>7. Listening'
  <2>1. \A u \in SimThreads : \A a \in {"listen", "unlisten"} : sim_call'[u].at = a <=> sim_call[u].at = a
    BY <1>1, <1>3, <1>4
  <2>2. QED
    BY <1>1, <2>1 DEF SimInv, Listening, ListensWhileSubscribed
<1>8. sim_cache'.positions = {} /\ DOMAIN sim_cache' = {"positions", "stale"}
  BY <1>1 DEF NoCache, Nothing
<1>9. \A u \in SimThreads \ {t} : sim_call[u].at # "tell"
  BY <1>5 DEF SimInv, SimLocks, Notifies
<1>10. Refetched'
  BY <1>2, <1>3, <1>4, <1>8 DEF Refetched
<1>11. ToldCurrent'
  BY <1>3, <1>4, <1>9 DEF ToldCurrent
<1>12. QED
  BY <1>1, <1>6, <1>7, <1>8, <1>10, <1>11 DEF SimInv

\* The callbacks are called.
LEMMA ChangeTellsKeeps ==
  ASSUME SimInv, NEW t \in SimThreads, ChangeTells(t)
  PROVE  SimInv'
<1>1. /\ sim_call[t].at = "tell" /\ At(t, NoCall) /\ accessor_lock' = Nobody
      /\ UNCHANGED <<portfolio, listener, provider_lock, sim_cache, injected, callbacks, raced>>
  BY DEF ChangeTells
<1>2. NoCall.at = "none"
  BY DEF NoCall
<1>3. /\ DOMAIN sim_call' = SimThreads
      /\ sim_call'[t] = NoCall
      /\ \A u \in SimThreads \ {t} : sim_call'[u] = sim_call[u]
  BY <1>1, ThreadMoves
<1>4. /\ ~HoldsProvider(NoCall) /\ ~HoldsProvider(sim_call[t])
      /\ ~Notifies(NoCall) /\ Notifies(sim_call[t])
  BY <1>1, <1>2 DEF HoldsProvider, Notifies
<1>5. \A u \in SimThreads \ {t} : ~Notifies(sim_call[u])
  BY <1>4 DEF SimInv, SimLocks
<1>6. SimLocks'
  BY <1>1, <1>3, <1>4, <1>5, SimAssumption DEF SimInv, SimLocks
<1>7. Listening'
  <2>1. \A u \in SimThreads : \A a \in {"listen", "unlisten"} : sim_call'[u].at = a <=> sim_call[u].at = a
    BY <1>1, <1>2, <1>3
  <2>2. QED
    BY <1>1, <2>1 DEF SimInv, Listening, ListensWhileSubscribed
<1>8. Refetched' /\ ToldCurrent'
  <2>1. \A u \in SimThreads : ~Notifies(sim_call'[u])
    BY <1>3, <1>4, <1>5
  <2>2. QED
    BY <2>1 DEF Refetched, ToldCurrent, HasCleared, Notifies
<1>9. QED
  BY <1>1, <1>6, <1>7, <1>8 DEF SimInv


\* The parts of SimInv that the listener and its subscriptions do not touch,
\* when a call of neither lock's becomes one of the provider's or back.
LEMMA SubscriptionRests ==
  ASSUME SimInv, NEW t \in SimThreads, NEW call, At(t, call),
         call.at \in {"none", "listen", "unlisten"},
         sim_call[t].at \in {"none", "listen", "unlisten"},
         UNCHANGED <<portfolio, accessor_lock, sim_cache, injected, raced>>
  PROVE  /\ DOMAIN sim_cache' = {"positions", "stale"} /\ injected' \subseteq {Mock}
         /\ Refetched' /\ ToldCurrent'
         /\ \A u \in SimThreads : Notifies(sim_call'[u]) <=> accessor_lock' = u
<1>1. /\ sim_call'[t] = call
      /\ \A u \in SimThreads \ {t} : sim_call'[u] = sim_call[u]
  BY ThreadMoves
<1>2. ~Notifies(call) /\ ~Notifies(sim_call[t]) /\ call.at # "store" /\ call.at # "tell"
  BY DEF Notifies
<1>3. Refetched'
  BY <1>1, <1>2 DEF SimInv, Refetched, HasCleared
<1>4. ToldCurrent'
  BY <1>1, <1>2 DEF SimInv, ToldCurrent
<1>5. QED
  BY <1>1, <1>2, <1>3, <1>4 DEF SimInv, SimLocks

\* The provider's lock is taken to listen, or to listen no longer.
LEMMA TakesProvider ==
  ASSUME SimInv, NEW t \in SimThreads, NEW call, At(t, call), provider_lock = Nobody,
         sim_call[t].at = "none", provider_lock' = t,
         \/ call.at = "listen" /\ callbacks' # {}
         \/ call.at = "unlisten" /\ callbacks' = {},
         UNCHANGED <<portfolio, listener, accessor_lock, sim_cache, injected, raced>>
  PROVE  SimInv'
<1>1. /\ DOMAIN sim_call' = SimThreads
      /\ sim_call'[t] = call
      /\ \A u \in SimThreads \ {t} : sim_call'[u] = sim_call[u]
  BY ThreadMoves
<1>2. \A u \in SimThreads : ~HoldsProvider(sim_call[u]) /\ sim_call[u].at \notin {"listen", "unlisten"}
  BY NobodyHolds
<1>3. HoldsProvider(call)
  BY DEF HoldsProvider
<1>4. /\ DOMAIN sim_cache' = {"positions", "stale"} /\ injected' \subseteq {Mock}
      /\ Refetched' /\ ToldCurrent'
      /\ \A u \in SimThreads : Notifies(sim_call'[u]) <=> accessor_lock' = u
  BY SubscriptionRests
<1>5. SimLocks'
  BY <1>1, <1>2, <1>3, <1>4 DEF SimLocks
<1>6. Listening'
  <2>1. \A u \in SimThreads \ {t} : sim_call'[u].at \notin {"listen", "unlisten"}
    BY <1>1, <1>2
  <2>2. listener' \in BOOLEAN
    BY DEF SimInv, Listening
  <2>3. QED
    BY <1>1, <2>1, <2>2 DEF Listening, ListensWhileSubscribed
<1>7. QED
  BY <1>4, <1>5, <1>6 DEF SimInv

\* It is released, and the listener is as the subscriptions ask for.
LEMMA ReleasesProvider ==
  ASSUME SimInv, NEW t \in SimThreads, At(t, NoCall), sim_call[t].at \in {"listen", "unlisten"},
         provider_lock' = Nobody, callbacks' = callbacks, listener' \in BOOLEAN,
         listener' <=> callbacks # {},
         UNCHANGED <<portfolio, accessor_lock, sim_cache, injected, raced>>
  PROVE  SimInv'
<1>1. /\ DOMAIN sim_call' = SimThreads
      /\ sim_call'[t] = NoCall
      /\ \A u \in SimThreads \ {t} : sim_call'[u] = sim_call[u]
  BY ThreadMoves
<1>2. NoCall.at = "none"
  BY DEF NoCall
<1>3. ~HoldsProvider(NoCall) /\ HoldsProvider(sim_call[t])
  BY <1>2 DEF HoldsProvider
<1>4. \A u \in SimThreads \ {t} : ~HoldsProvider(sim_call[u])
  BY <1>3 DEF SimInv, SimLocks
<1>5. /\ DOMAIN sim_cache' = {"positions", "stale"} /\ injected' \subseteq {Mock}
      /\ Refetched' /\ ToldCurrent'
      /\ \A u \in SimThreads : Notifies(sim_call'[u]) <=> accessor_lock' = u
  BY <1>2, SubscriptionRests
<1>6. SimLocks'
  BY <1>1, <1>3, <1>4, <1>5, SimAssumption DEF SimLocks
<1>7. Listening'
  <2>1. \A u \in SimThreads : sim_call'[u].at \notin {"listen", "unlisten"}
    BY <1>1, <1>2, <1>4 DEF HoldsProvider
  <2>2. QED
    BY <2>1 DEF Listening, ListensWhileSubscribed
<1>8. QED
  BY <1>5, <1>6, <1>7 DEF SimInv

\* One subscription among others comes or goes.
LEMMA AnotherSubscribed ==
  ASSUME SimInv, provider_lock = Nobody, callbacks # {}, callbacks' # {},
         UNCHANGED <<portfolio, listener, accessor_lock, provider_lock, sim_cache, injected,
                     sim_call, raced>>
  PROVE  SimInv'
<1>1. \A u \in SimThreads : sim_call[u].at \notin {"listen", "unlisten"}
  BY NobodyHolds
<1>2. listener
  BY NobodyHolds
<1>3. Listening'
  BY <1>1, <1>2 DEF SimInv, Listening, ListensWhileSubscribed
<1>4. SimLocks' /\ Refetched' /\ ToldCurrent'
  BY DEF SimInv, SimLocks, Refetched, ToldCurrent
<1>5. QED
  BY <1>3, <1>4 DEF SimInv

\* subscribe_changes and unsubscribe_changes begin.
LEMMA SubscriptionKeeps ==
  ASSUME SimInv, NEW t \in SimThreads, NEW s \in Subscribers,
         SubscribeBegins(t, s) \/ UnsubscribeBegins(t, s)
  PROVE  SimInv'
<1>1. /\ sim_call[t].at = "none" /\ provider_lock = Nobody
      /\ UNCHANGED <<portfolio, listener, accessor_lock, sim_cache, injected, raced>>
  BY DEF SubscribeBegins, UnsubscribeBegins, Begins
<1>2. CASE SubscribeBegins(t, s) /\ callbacks = {}
  <2> DEFINE call == [at |-> "listen"]
  <2>1. At(t, call) /\ provider_lock' = t /\ callbacks' # {}
    BY <1>2 DEF SubscribeBegins
  <2>2. call.at = "listen"
    OBVIOUS
  <2> HIDE DEF call
  <2>3. QED
    BY <1>1, <2>1, <2>2, TakesProvider
<1>3. CASE UnsubscribeBegins(t, s) /\ LastOne(s)
  <2> DEFINE call == [at |-> "unlisten"]
  <2>1. At(t, call) /\ provider_lock' = t /\ callbacks' = {}
    BY <1>3 DEF UnsubscribeBegins, LastOne
  <2>2. call.at = "unlisten"
    OBVIOUS
  <2> HIDE DEF call
  <2>3. QED
    BY <1>1, <2>1, <2>2, TakesProvider
<1>4. CASE SubscribeBegins(t, s) /\ callbacks # {}
  <2>1. callbacks' # {} /\ UNCHANGED <<provider_lock, sim_call>>
    BY <1>4 DEF SubscribeBegins
  <2>2. QED
    BY <1>1, <1>4, <2>1, AnotherSubscribed
<1>5. CASE UnsubscribeBegins(t, s) /\ ~LastOne(s)
  <2>1. callbacks # {} /\ callbacks' # {} /\ UNCHANGED <<provider_lock, sim_call>>
    BY <1>5 DEF UnsubscribeBegins, LastOne
  <2>2. QED
    BY <1>1, <2>1, AnotherSubscribed
<1>6. QED
  BY <1>2, <1>3, <1>4, <1>5

\* The provider starts or stops to listen.
LEMMA ListenerKeeps ==
  ASSUME SimInv, NEW t \in SimThreads, SubscribeListens(t) \/ UnsubscribeStops(t)
  PROVE  SimInv'
<1>1. CASE SubscribeListens(t)
  <2>1. /\ At(t, NoCall) /\ sim_call[t].at = "listen" /\ provider_lock' = Nobody
        /\ listener' = TRUE
        /\ UNCHANGED <<portfolio, accessor_lock, sim_cache, injected, callbacks, raced>>
    BY <1>1 DEF SubscribeListens
  <2>2. callbacks # {}
    BY <2>1 DEF SimInv, Listening
  <2>3. listener' \in BOOLEAN /\ (listener' <=> callbacks # {})
    BY <2>1, <2>2
  <2>4. QED
    BY <2>1, <2>3, ReleasesProvider
<1>2. CASE UnsubscribeStops(t)
  <2>1. /\ At(t, NoCall) /\ sim_call[t].at = "unlisten" /\ provider_lock' = Nobody
        /\ listener' = FALSE
        /\ UNCHANGED <<portfolio, accessor_lock, sim_cache, injected, callbacks, raced>>
    BY <1>2 DEF UnsubscribeStops
  <2>2. callbacks = {}
    BY <2>1 DEF SimInv, Listening
  <2>3. listener' \in BOOLEAN /\ (listener' <=> callbacks # {})
    BY <2>1, <2>2
  <2>4. QED
    BY <2>1, <2>3, ReleasesProvider
<1>3. QED
  BY <1>1, <1>2

\* The cache expires or positions are injected: no call moves.
LEMMA SimRests ==
  ASSUME SimInv,
         UNCHANGED <<portfolio, listener, accessor_lock, provider_lock, callbacks, sim_call, raced>>,
         DOMAIN sim_cache' = {"positions", "stale"}, sim_cache'.positions = sim_cache.positions,
         injected' \subseteq {Mock}
  PROVE  SimInv'
<1>1. SimLocks' /\ Listening'
  BY DEF SimInv, SimLocks, Listening, ListensWhileSubscribed
<1>2. Refetched' /\ ToldCurrent'
  BY DEF SimInv, Refetched, ToldCurrent
<1>3. QED
  BY <1>1, <1>2 DEF SimInv

\* Every step of the provider and its accessor keeps the invariant.
LEMMA SimInvStep == SimInv /\ [SimNext]_simVars => SimInv'
<1> SUFFICES ASSUME SimInv, [SimNext]_simVars PROVE SimInv'
  OBVIOUS
<1>1. CASE UNCHANGED simVars
  <2>1. /\ UNCHANGED <<portfolio, listener, accessor_lock, provider_lock, callbacks, sim_call, raced>>
        /\ UNCHANGED <<sim_cache, injected>>
    BY <1>1 DEF simVars
  <2>2. QED
    BY <2>1, SimRests DEF SimInv
<1>2. CASE CacheExpires
  <2>1. /\ UNCHANGED <<portfolio, listener, accessor_lock, provider_lock, callbacks, sim_call, raced>>
        /\ UNCHANGED injected /\ sim_cache' = [sim_cache EXCEPT !.stale = TRUE]
    BY <1>2 DEF CacheExpires
  <2>2. DOMAIN sim_cache' = {"positions", "stale"} /\ sim_cache'.positions = sim_cache.positions
    BY <2>1 DEF SimInv
  <2>3. QED
    BY <2>1, <2>2, SimRests DEF SimInv
<1>3. ASSUME NEW t \in SimThreads, Continues(t) PROVE SimInv'
  BY <1>3, FetchKnownKeeps, FetchLocksKeeps, FetchReadsKeeps, FetchStoresKeeps,
     ChangeInvalidatesKeeps, ChangeNotifiesKeeps, ChangeTellsKeeps, ListenerKeeps DEF Continues
<1>4. ASSUME NEW t \in SimThreads, Inject(t) PROVE SimInv'
  <2>1. /\ UNCHANGED <<portfolio, listener, accessor_lock, provider_lock, callbacks, sim_call, raced>>
        /\ UNCHANGED sim_cache /\ injected' = IF injected = Nothing THEN {Mock} ELSE Nothing
    BY <1>4 DEF Inject
  <2>2. injected' \subseteq {Mock}
    BY <2>1 DEF Nothing
  <2>3. QED
    BY <2>1, <2>2, SimRests DEF SimInv
<1>5. QED
  BY <1>1, <1>2, <1>3, <1>4, FetchBeginsKeeps, ChangeBeginsKeeps, SubscriptionKeeps DEF SimNext

\* A subscriber is told the portfolio of that very moment, or injected
\* positions, unless a fetch raced with the clearing of the cache, for any
\* number of threads, positions and subscribers (simulator.py
\* _on_position_change).
THEOREM AlwaysToldCurrent == SimSpec => []ToldCurrent
<1>1. SimInv => ToldCurrent
  BY DEF SimInv
<1>2. QED
  BY <1>1, SimInvInit, SimInvStep, PTL DEF SimSpec

\* The provider listens to the simulator exactly while somebody is subscribed,
\* in whatever order threads subscribe and unsubscribe (simulator.py
\* subscribe_changes, unsubscribe_changes).
THEOREM AlwaysListens == SimSpec => []ListensWhileSubscribed
<1>1. SimInv => ListensWhileSubscribed
  BY DEF SimInv, Listening
<1>2. QED
  BY <1>1, SimInvInit, SimInvStep, PTL DEF SimSpec


-----------------------------------------------------------------------------
(***************************************************************************)
(* ProviderHealthMonitor.                                                  *)
(*                                                                         *)
(* MonitorInv says that the window is the end of the history and names the *)
(* last success and the last failure in the history (Newest): the maxima   *)
(* that get_health takes exist because each record makes the next one, so  *)
(* no induction over the window is needed.                                 *)
(***************************************************************************)

Good(s) == {i \in DOMAIN s : s[i]}
Bad(s) == {i \in DOMAIN s : ~s[i]}

\* k is the largest of the set, 0 for none.
Newest(k, S) == k \in {0} \cup S /\ \A y \in S : y <= k

Window(n) == IF n > WindowSize THEN WindowSize ELSE n

MonitorInv ==
  /\ metrics \in Seq(BOOLEAN) /\ outcomes \in Seq(BOOLEAN)
  /\ Len(metrics) = Window(Len(outcomes))
  /\ \A i \in 1 .. Len(metrics) : metrics[i] = outcomes[Len(outcomes) - Len(metrics) + i]
  /\ \E k \in Nat : Newest(k, Good(outcomes))
  /\ \E k \in Nat : Newest(k, Bad(outcomes))

\* Max of the library is what it should be on the sets of get_health.
LEMMA MaxIsNewest ==
  ASSUME NEW S, S \subseteq Nat, NEW k \in Nat, Newest(k, S)
  PROVE  Max({0} \cup S) = k
<1>1. k \in {0} \cup S /\ \A y \in {0} \cup S : k >= y
  BY DEF Newest
<1>2. \A x \in {0} \cup S : (\A y \in {0} \cup S : x >= y) => x = k
  BY <1>1
<1>3. QED
  BY <1>1, <1>2 DEF Max

\* Successes and failures divide the positions of a sequence.
LEMMA Divided ==
  ASSUME NEW s \in Seq(BOOLEAN)
  PROVE  /\ Good(s) \subseteq 1 .. Len(s) /\ Bad(s) \subseteq 1 .. Len(s)
         /\ \A i \in 1 .. Len(s) : i \in Good(s) <=> s[i]
         /\ \A i \in 1 .. Len(s) : i \in Bad(s) <=> i \notin Good(s)
<1>1. DOMAIN s = 1 .. Len(s)
  BY LenProperties
<1>2. QED
  BY <1>1 DEF Good, Bad

\* The outcome that is recorded becomes the newest of its kind.
LEMMA DividedAfter ==
  ASSUME NEW s \in Seq(BOOLEAN), NEW ok \in BOOLEAN
  PROVE  /\ Good(Append(s, ok)) = IF ok THEN Good(s) \cup {Len(s) + 1} ELSE Good(s)
         /\ Bad(Append(s, ok)) = IF ok THEN Bad(s) ELSE Bad(s) \cup {Len(s) + 1}
<1> DEFINE a == Append(s, ok)
           n == Len(s)
<1>1. /\ a \in Seq(BOOLEAN) /\ Len(a) = n + 1 /\ n \in Nat
      /\ \A i \in 1 .. n : a[i] = s[i]
      /\ a[n + 1] = ok
  BY AppendProperties, LenProperties
<1>2. /\ Good(a) \subseteq 1 .. Len(a) /\ Bad(a) \subseteq 1 .. Len(a)
      /\ \A i \in 1 .. Len(a) : i \in Good(a) <=> a[i]
      /\ \A i \in 1 .. Len(a) : i \in Bad(a) <=> i \notin Good(a)
  BY <1>1, Divided
<1>3. /\ Good(s) \subseteq 1 .. n /\ Bad(s) \subseteq 1 .. n
      /\ \A i \in 1 .. n : i \in Good(s) <=> s[i]
      /\ \A i \in 1 .. n : i \in Bad(s) <=> i \notin Good(s)
  BY Divided
<1>4. \A i \in 1 .. n : i \in Good(a) <=> i \in Good(s)
  <2>1. \A i \in 1 .. n : i \in 1 .. Len(a)
    BY <1>1
  <2> HIDE DEF a, n
  <2>2. QED
    BY <1>1, <1>2, <1>3, <2>1
<1>5. n + 1 \in Good(a) <=> ok
  <2>1. n + 1 \in 1 .. Len(a)
    BY <1>1
  <2> HIDE DEF a, n
  <2>2. QED
    BY <1>1, <1>2, <2>1
<1>6. \A i : i \in 1 .. Len(a) <=> i \in 1 .. n \/ i = n + 1
  BY <1>1
<1> HIDE DEF a, n
<1>7. CASE ok
  <2>1. Good(a) = Good(s) \cup {n + 1}
    BY <1>2, <1>3, <1>4, <1>5, <1>6, <1>7
  <2>2. Bad(a) = Bad(s)
    <3>1. n + 1 \notin 1 .. n
      BY <1>1
    <3>2. QED
      BY <1>2, <1>3, <1>4, <1>5, <1>6, <1>7, <3>1
  <2>3. QED
    BY <1>7, <2>1, <2>2 DEF a, n
<1>8. CASE ~ok
  <2>1. Good(a) = Good(s)
    BY <1>2, <1>3, <1>4, <1>5, <1>6, <1>8
  <2>2. Bad(a) = Bad(s) \cup {n + 1}
    <3>1. n + 1 \notin 1 .. n
      BY <1>1
    <3>2. QED
      BY <1>2, <1>3, <1>4, <1>5, <1>6, <1>8, <3>1
  <2>3. QED
    BY <1>8, <2>1, <2>2 DEF a, n
<1>9. QED
  BY <1>7, <1>8

\* What is recorded last is the newest.
LEMMA NewestAfter ==
  ASSUME NEW n \in Nat, NEW S, S \subseteq 1 .. n, \E k \in Nat : Newest(k, S)
  PROVE  \E k \in Nat : Newest(k, S \cup {n + 1})
<1>1. Newest(n + 1, S \cup {n + 1})
  BY DEF Newest
<1>2. QED
  BY <1>1

\* Every record keeps the window at the end of the history.
LEMMA MonitorInvStep == MonitorInv /\ [HealthNext]_healthVars => MonitorInv'
<1> SUFFICES ASSUME MonitorInv, [HealthNext]_healthVars PROVE MonitorInv'
  OBVIOUS
<1>1. CASE UNCHANGED healthVars
  BY <1>1 DEF healthVars, MonitorInv
<1>2. ASSUME NEW ok \in BOOLEAN, RecordOutcome(ok) PROVE MonitorInv'
  <2> DEFINE n == Len(outcomes)
             w == Len(metrics)
  <2>1. metrics \in Seq(BOOLEAN) /\ outcomes \in Seq(BOOLEAN) /\ n \in Nat /\ w \in Nat
    BY LenProperties DEF MonitorInv
  <2>2. outcomes' = Append(outcomes, ok) /\ metrics' = Recorded(ok)
    BY <1>2 DEF RecordOutcome
  <2>3. /\ outcomes' \in Seq(BOOLEAN) /\ Len(outcomes') = n + 1
        /\ \A i \in 1 .. n : outcomes'[i] = outcomes[i]
        /\ outcomes'[n + 1] = ok
    BY <2>1, <2>2, AppendProperties
  <2>4. w = Window(n) /\ WindowSize \in Nat \ {0}
        /\ \A i \in 1 .. w : metrics[i] = outcomes[n - w + i]
    BY HealthAssumption DEF MonitorInv
  <2>5. (\E k \in Nat : Newest(k, Good(outcomes'))) /\ (\E k \in Nat : Newest(k, Bad(outcomes')))
    <3>1. Good(outcomes) \subseteq 1 .. n /\ Bad(outcomes) \subseteq 1 .. n
      BY <2>1, Divided
    <3>2. /\ \E k \in Nat : Newest(k, Good(outcomes))
          /\ \E k \in Nat : Newest(k, Bad(outcomes))
      BY DEF MonitorInv
    <3>3. /\ \E k \in Nat : Newest(k, Good(outcomes) \cup {n + 1})
          /\ \E k \in Nat : Newest(k, Bad(outcomes) \cup {n + 1})
      BY <2>1, <3>1, <3>2, NewestAfter
    <3>4. /\ Good(outcomes') \in {Good(outcomes), Good(outcomes) \cup {n + 1}}
          /\ Bad(outcomes') \in {Bad(outcomes), Bad(outcomes) \cup {n + 1}}
      BY <2>1, <2>2, DividedAfter
    <3>5. QED
      BY <3>2, <3>3, <3>4
  <2>6. CASE w = WindowSize
    <3> DEFINE r == Tail(metrics)
    <3>1. metrics # <<>>
      BY <2>1, <2>4, <2>6, EmptySeq
    <3>2. r \in Seq(BOOLEAN) /\ Len(r) = w - 1 /\ \A i \in 1 .. w - 1 : r[i] = metrics[i + 1]
      BY <2>1, <3>1, HeadTailProperties
    <3>3. metrics' = Append(r, ok)
      BY <2>2, <2>6 DEF Recorded
    <3> HIDE DEF r
    <3>4. /\ metrics' \in Seq(BOOLEAN) /\ Len(metrics') = w - 1 + 1
          /\ \A i \in 1 .. w - 1 : metrics'[i] = r[i]
          /\ metrics'[w - 1 + 1] = ok
      BY <3>2, <3>3, AppendProperties
    <3>5. Len(metrics') = w /\ metrics'[w] = ok
      <4>1. w - 1 + 1 = w
        BY <2>1
      <4>2. QED
        BY <3>4, <4>1
    <3>6. w = Window(n + 1)
      BY <2>1, <2>4, <2>6 DEF Window
    <3>7. ASSUME NEW i \in 1 .. w PROVE metrics'[i] = outcomes'[n + 1 - w + i]
      <4>1. CASE i = w
        <5>1. n + 1 - w + i = n + 1
          BY <2>1, <4>1
        <5>2. QED
          BY <2>3, <3>5, <4>1, <5>1
      <4>2. CASE i # w
        <5>1. i \in 1 .. w - 1 /\ i + 1 \in 1 .. w /\ n - w + (i + 1) \in 1 .. n
              /\ n + 1 - w + i = n - w + (i + 1)
          BY <2>1, <2>4, <4>2 DEF Window
        <5>2. metrics'[i] = metrics[i + 1]
          BY <3>2, <3>4, <5>1
        <5>3. QED
          BY <2>3, <2>4, <5>1, <5>2
      <4>3. QED
        BY <4>1, <4>2
    <3>8. Len(metrics') = Window(Len(outcomes'))
      BY <2>3, <3>5, <3>6
    <3>9. \A i \in 1 .. Len(metrics') : metrics'[i] = outcomes'[Len(outcomes') - Len(metrics') + i]
      <4>1. Len(outcomes') = n + 1 /\ Len(metrics') = w
        BY <2>3, <3>5
      <4>2. \A i \in 1 .. w : metrics'[i] = outcomes'[n + 1 - w + i]
        BY <3>7
      <4>3. QED
        BY <4>1, <4>2
    <3>10. QED
      BY <2>3, <2>5, <3>4, <3>8, <3>9 DEF MonitorInv
  <2>7. CASE w # WindowSize
    <3>1. w = n /\ n + 1 = Window(n + 1)
      BY <2>1, <2>4, <2>7 DEF Window
    <3>2. metrics' = Append(metrics, ok)
      BY <2>2, <2>7 DEF Recorded
    <3>3. /\ metrics' \in Seq(BOOLEAN) /\ Len(metrics') = w + 1
          /\ \A i \in 1 .. w : metrics'[i] = metrics[i]
          /\ metrics'[w + 1] = ok
      BY <2>1, <3>2, AppendProperties
    <3>4. ASSUME NEW i \in 1 .. n + 1 PROVE metrics'[i] = outcomes'[n + 1 - (n + 1) + i]
      <4>1. n + 1 - (n + 1) + i = i /\ n - n + i = i
        BY <2>1
      <4>2. CASE i = n + 1
        BY <2>3, <3>1, <3>3, <4>1, <4>2
      <4>3. CASE i # n + 1
        <5>1. i \in 1 .. n
          BY <2>1, <4>3
        <5>2. metrics[i] = outcomes[i]
          BY <2>4, <3>1, <4>1, <5>1
        <5>3. QED
          BY <2>3, <3>1, <3>3, <4>1, <5>1, <5>2
      <4>4. QED
        BY <4>2, <4>3
    <3>5. QED
      BY <2>3, <2>5, <3>1, <3>3, <3>4 DEF MonitorInv
  <2>8. QED
    BY <2>6, <2>7
<1>3. QED
  BY <1>1, <1>2 DEF HealthNext


\* What the window knows of the last success and the last failure.
LEMMA NewestInWindow ==
  ASSUME NEW n \in Nat, NEW w \in 0 .. n, NEW H \in SUBSET (1 .. n), NEW W \in SUBSET (1 .. w),
         \A i \in 1 .. w : i \in W <=> n - w + i \in H,
         NEW k \in Nat, Newest(k, H)
  PROVE  /\ k \in 0 .. n
         /\ k > n - w => Newest(k - (n - w), W)
         /\ k <= n - w => Newest(0, W)
<1>1. k \in 0 .. n
  BY DEF Newest
<1>2. \A i \in W : i \in 1 .. w /\ n - w + i \in H /\ n - w + i <= k
  BY DEF Newest
<1>3. CASE k > n - w
  <2>1. k - (n - w) \in 1 .. w /\ n - w + (k - (n - w)) = k
    BY <1>1, <1>3
  <2>2. k \in H
    BY <1>3 DEF Newest
  <2>3. k - (n - w) \in W
    BY <2>1, <2>2
  <2>4. \A i \in W : i <= k - (n - w)
    BY <1>1, <1>2
  <2>5. QED
    BY <1>1, <1>3, <2>3, <2>4 DEF Newest
<1>4. CASE k <= n - w
  <2>1. W = {}
    BY <1>1, <1>2, <1>4
  <2>2. QED
    BY <1>1, <1>4, <2>1 DEF Newest
<1>5. QED
  BY <1>1, <1>3, <1>4

\* The run of failures at the end of a window, from its last success.
LEMMA RunOfFailures ==
  ASSUME NEW s \in Seq(BOOLEAN), NEW k \in Nat, Newest(k, Good(s))
  PROVE  Consecutive(s) = Len(s) - k
<1> DEFINE w == Len(s)
           R == {j \in 1 .. w : \A i \in (w - j + 1) .. w : ~s[i]}
<1>1. w \in Nat
  BY LenProperties
<1>2. /\ Good(s) \subseteq 1 .. w /\ \A i \in 1 .. w : i \in Good(s) <=> s[i]
  BY Divided
<1>3. k \in 0 .. w
  BY <1>1, <1>2 DEF Newest
<1>4. R = {j \in 1 .. w : \A i \in (w - j + 1) .. w : i \notin Good(s)}
  <2>1. \A j \in 1 .. w : \A i \in (w - j + 1) .. w : i \in 1 .. w
    BY <1>1
  <2> HIDE DEF w
  <2>2. \A j \in 1 .. w : (\A i \in (w - j + 1) .. w : ~s[i]) <=>
                          (\A i \in (w - j + 1) .. w : i \notin Good(s))
    BY <1>2, <2>1
  <2>3. QED
    BY <2>2
<1>5. Consecutive(s) = Max({0} \cup R)
  BY DEF Consecutive
<1> HIDE DEF w, R
<1>6. Newest(w - k, R)
  <2>1. \A j \in R : j <= w - k
    <3> SUFFICES ASSUME NEW j \in R, ~(j <= w - k) PROVE FALSE
      BY <1>1, <1>3
    <3>1. j \in 1 .. w /\ \A i \in (w - j + 1) .. w : i \notin Good(s)
      BY <1>4
    <3>2. k \in (w - j + 1) .. w /\ k # 0
      BY <1>1, <1>3, <3>1
    <3>3. k \in Good(s)
      BY <3>2 DEF Newest
    <3>4. QED
      BY <3>1, <3>2, <3>3
  <2>2. w - k \in {0} \cup R
    <3>1. CASE k = w
      BY <1>1, <3>1
    <3>2. CASE k # w
      <4>1. w - k \in 1 .. w
        BY <1>1, <1>3, <3>2
      <4>2. \A i \in (w - (w - k) + 1) .. w : i > k
        BY <1>1, <1>3
      <4>3. \A i \in Good(s) : i <= k /\ i \in Nat
        BY <1>2 DEF Newest
      <4>4. \A i \in (w - (w - k) + 1) .. w : i \notin Good(s)
        BY <1>1, <1>3, <4>2, <4>3
      <4>5. QED
        BY <1>4, <4>1, <4>4
    <3>3. QED
      BY <3>1, <3>2
  <2>3. QED
    BY <2>1, <2>2 DEF Newest
<1>7. R \subseteq Nat /\ w - k \in Nat
  BY <1>1, <1>3, <1>4
<1>8. QED
  BY <1>5, <1>6, <1>7, MaxIsNewest DEF w

\* A run of failures is at least as many failures.
LEMMA FailuresOfRun ==
  ASSUME NEW s \in Seq(BOOLEAN), NEW k \in Nat, Newest(k, Good(s))
  PROVE  Failures(s) \in Nat /\ Failures(s) >= Len(s) - k
<1> DEFINE w == Len(s)
<1>1. w \in Nat
  BY LenProperties
<1>2. /\ Good(s) \subseteq 1 .. w /\ Bad(s) \subseteq 1 .. w
      /\ \A i \in 1 .. w : i \in Bad(s) <=> i \notin Good(s)
  BY Divided
<1>3. k \in 0 .. w
  BY <1>1, <1>2 DEF Newest
<1>4. Failures(s) = Cardinality(Bad(s))
  BY DEF Failures, Bad
<1> HIDE DEF w
<1>5. (k + 1) .. w \subseteq Bad(s)
  <2>1. \A i \in (k + 1) .. w : i \in 1 .. w /\ i > k
    BY <1>1, <1>3
  <2>2. \A i \in Good(s) : i <= k /\ i \in Nat
    BY <1>2 DEF Newest
  <2>3. \A i \in (k + 1) .. w : i \notin Good(s)
    BY <1>3, <2>1, <2>2
  <2>4. QED
    BY <1>2, <2>1, <2>3
<1>6. IsFiniteSet(Bad(s))
  <2>1. IsFiniteSet(1 .. w)
    BY <1>1, FS_Interval
  <2>2. QED
    BY <1>2, <2>1, FS_Subset
<1>7. Cardinality((k + 1) .. w) = w - k
  <2>1. Cardinality((k + 1) .. w) = IF k + 1 > w THEN 0 ELSE w - (k + 1) + 1
    BY <1>1, <1>3, FS_Interval
  <2>2. QED
    BY <1>1, <1>3, <2>1
<1>8. Cardinality((k + 1) .. w) <= Cardinality(Bad(s))
  BY <1>5, <1>6, FS_Subset
<1>9. Cardinality(Bad(s)) \in Nat
  BY <1>6, FS_CardinalityType
<1>10. Failures(s) >= w - k
  BY <1>1, <1>3, <1>4, <1>7, <1>8, <1>9
<1>11. QED
  BY <1>4, <1>9, <1>10 DEF w


\* The last operation of a window is its last success or its last failure.
LEMMA LastOfWindow ==
  ASSUME NEW s \in Seq(BOOLEAN), NEW k \in Nat, Newest(k, Good(s)), NEW f \in Nat, Newest(f, Bad(s))
  PROVE  k \in 0 .. Len(s) /\ (Len(s) - k > 0 <=> f > k)
<1> DEFINE w == Len(s)
<1>1. w \in Nat
  BY LenProperties
<1>2. /\ Good(s) \subseteq 1 .. w /\ Bad(s) \subseteq 1 .. w
      /\ \A i \in 1 .. w : i \in Bad(s) <=> i \notin Good(s)
  BY Divided
<1> HIDE DEF w
<1>3. k \in 0 .. w /\ f \in 0 .. w
  BY <1>1, <1>2 DEF Newest
<1>4. CASE w = 0
  BY <1>3, <1>4 DEF w
<1>5. CASE w # 0 /\ w \in Good(s)
  <2>1. k = w
    BY <1>1, <1>3, <1>5 DEF Newest
  <2>2. QED
    BY <1>1, <1>3, <2>1 DEF w
<1>6. CASE w # 0 /\ w \notin Good(s)
  <2>1. w \in Bad(s)
    BY <1>1, <1>2, <1>6
  <2>2. f = w
    BY <1>1, <1>3, <2>1 DEF Newest
  <2>3. k # w
    BY <1>6 DEF Newest
  <2>4. QED
    BY <1>1, <1>3, <2>2, <2>3 DEF w
<1>7. QED
  BY <1>4, <1>5, <1>6

\* The invariant says what get_health reports.
LEMMA MonitorHealth == MonitorInv => HealthOfRecent
<1> SUFFICES ASSUME MonitorInv PROVE HealthOfRecent
  OBVIOUS
<1>1. PICK n \in Nat, w \in Nat : n = Len(outcomes) /\ w = Len(metrics)
  BY LenProperties DEF MonitorInv
<1>2. /\ metrics \in Seq(BOOLEAN) /\ outcomes \in Seq(BOOLEAN)
      /\ w = Window(n) /\ WindowSize \in Nat \ {0} /\ w <= n /\ w <= WindowSize
      /\ \A i \in 1 .. w : metrics[i] = outcomes[n - w + i]
  <2>1. /\ metrics \in Seq(BOOLEAN) /\ outcomes \in Seq(BOOLEAN) /\ w = Window(n)
        /\ \A i \in 1 .. w : metrics[i] = outcomes[n - w + i]
    BY <1>1 DEF MonitorInv
  <2>2. WindowSize \in Nat \ {0} /\ w <= n /\ w <= WindowSize
    BY <2>1, HealthAssumption DEF Window
  <2>3. QED
    BY <2>1, <2>2
<1>3. PICK k \in Nat, f \in Nat : Newest(k, Good(outcomes)) /\ Newest(f, Bad(outcomes))
  BY DEF MonitorInv
<1>4. /\ Good(outcomes) \subseteq 1 .. n /\ Bad(outcomes) \subseteq 1 .. n
      /\ \A i \in 1 .. n : i \in Good(outcomes) <=> outcomes[i]
      /\ \A i \in 1 .. n : i \in Bad(outcomes) <=> i \notin Good(outcomes)
  BY <1>1, <1>2, Divided
<1>5. /\ Good(metrics) \subseteq 1 .. w /\ Bad(metrics) \subseteq 1 .. w
      /\ \A i \in 1 .. w : i \in Good(metrics) <=> metrics[i]
      /\ \A i \in 1 .. w : i \in Bad(metrics) <=> i \notin Good(metrics)
  BY <1>1, <1>2, Divided
<1>6. \A i \in 1 .. w : n - w + i \in 1 .. n
  BY <1>2
<1>7. /\ \A i \in 1 .. w : i \in Good(metrics) <=> n - w + i \in Good(outcomes)
      /\ \A i \in 1 .. w : i \in Bad(metrics) <=> n - w + i \in Bad(outcomes)
  <2>1. \A i \in 1 .. w : i \in Good(metrics) <=> n - w + i \in Good(outcomes)
    BY <1>2, <1>4, <1>5, <1>6
  <2>2. QED
    BY <1>4, <1>5, <1>6, <2>1
<1> w \in 0 .. n
  BY <1>2
<1> /\ Good(outcomes) \in SUBSET (1 .. n) /\ Bad(outcomes) \in SUBSET (1 .. n)
    /\ Good(metrics) \in SUBSET (1 .. w) /\ Bad(metrics) \in SUBSET (1 .. w)
  BY <1>4, <1>5
<1>8. /\ k \in 0 .. n /\ (k > n - w => Newest(k - (n - w), Good(metrics)))
      /\ k <= n - w => Newest(0, Good(metrics))
  BY <1>3, <1>7, NewestInWindow
<1>9. /\ f \in 0 .. n /\ (f > n - w => Newest(f - (n - w), Bad(metrics)))
      /\ f <= n - w => Newest(0, Bad(metrics))
  BY <1>3, <1>7, NewestInWindow
<1>10. PICK g \in Nat : g = IF k > n - w THEN k - (n - w) ELSE 0
  BY <1>2, <1>8
<1>11. PICK b \in Nat : b = IF f > n - w THEN f - (n - w) ELSE 0
  BY <1>2, <1>9
<1>12. Newest(g, Good(metrics)) /\ Newest(b, Bad(metrics))
  BY <1>2, <1>8, <1>9, <1>10, <1>11
<1>13. Consecutive(metrics) = w - g
  BY <1>1, <1>2, <1>12, RunOfFailures
<1>14. Failures(metrics) \in Nat /\ Failures(metrics) >= w - g
  BY <1>1, <1>2, <1>12, FailuresOfRun
<1>15. g \in 0 .. w /\ (w - g > 0 <=> b > g)
  BY <1>1, <1>2, <1>12, LastOfWindow
<1>16. Max({0} \cup Good(metrics)) = g /\ Max({0} \cup Bad(metrics)) = b
  <2>1. Good(metrics) \subseteq Nat /\ Bad(metrics) \subseteq Nat
    BY <1>5
  <2>2. QED
    BY <1>12, <2>1, MaxIsNewest
<1>17. Max({0} \cup Good(outcomes)) = k
  <2>1. Good(outcomes) \subseteq Nat
    BY <1>4
  <2>2. QED
    BY <1>3, <2>1, MaxIsNewest
<1>18. w - g = IF n - k > WindowSize THEN WindowSize ELSE n - k
  BY <1>2, <1>8, <1>10 DEF Window
<1>19. metrics = SubSeq(outcomes, IF n > WindowSize THEN n - WindowSize + 1 ELSE 1, n)
  <2> DEFINE a == IF n > WindowSize THEN n - WindowSize + 1 ELSE 1
             r == SubSeq(outcomes, a, n)
  <2>1. a = n - w + 1 /\ a \in 1 .. n + 1
    BY <1>2 DEF Window
  <2> HIDE DEF a
  <2>2. CASE w = 0
    <3>1. n = 0 /\ a = 1
      BY <1>2, <2>1, <2>2 DEF Window
    <3>2. metrics = <<>> /\ r = <<>>
      <4>1. metrics = <<>>
        BY <1>1, <1>2, <2>2, EmptySeq
      <4>2. r = <<>>
        BY <1>1, <1>2, <3>1, SubSeqEmpty
      <4>3. QED
        BY <4>1, <4>2
    <3>3. QED
      BY <3>2 DEF a
  <2>3. CASE w # 0
    <3>1. a \in 1 .. n /\ a <= n
      BY <1>2, <2>1, <2>3
    <3>2. /\ r \in Seq(BOOLEAN) /\ Len(r) = n - a + 1
          /\ \A i \in 1 .. n - a + 1 : r[i] = outcomes[a + i - 1]
      <4>1. a \in Int /\ n \in Int /\ \A i \in a .. n : outcomes[i] \in BOOLEAN
        BY <1>1, <1>2, <3>1, ElementOfSeq
      <4>2. QED
        BY <1>1, <1>2, <3>1, <4>1, SubSeqProperties
    <3>3. n - a + 1 = w
      BY <1>2, <2>1
    <3>4. \A i \in 1 .. w : a + i - 1 = n - w + i
      BY <1>2, <2>1
    <3> HIDE DEF a, r
    <3>5. \A i \in 1 .. w : r[i] = metrics[i]
      BY <1>2, <3>2, <3>3, <3>4
    <3>6. r = metrics
      BY <1>1, <1>2, <3>2, <3>3, <3>5, SeqEqual
    <3>7. QED
      BY <3>6 DEF a, r
  <2>4. QED
    BY <2>2, <2>3
<1> DEFINE h == get_health(metrics)
<1>20. h.consecutive_failures = w - g /\ h.last_success = g /\ h.last_failure = b
  BY <1>13, <1>16 DEF get_health, Good, Bad
<1>21. 2 * (w - g) >= WindowSize => ~h.is_healthy
  <2> SUFFICES ASSUME 2 * (w - g) >= WindowSize PROVE ~h.is_healthy
    OBVIOUS
  <2>1. h.is_healthy = (metrics = <<>> \/ 2 * Failures(metrics) < Len(metrics))
    BY DEF get_health
  <2>2. w # 0
    BY <1>2, <1>15
  <2>3. metrics # <<>>
    BY <1>1, <1>2, <2>2, EmptySeq
  <2>4. ~(2 * Failures(metrics) < w)
    BY <1>2, <1>14, <1>15
  <2>5. QED
    BY <1>1, <2>1, <2>3, <2>4
<1> HIDE DEF h
<1>22. /\ h.consecutive_failures = IF n - k > WindowSize THEN WindowSize ELSE n - k
       /\ h.consecutive_failures > 0 <=> h.last_failure > h.last_success
       /\ 2 * h.consecutive_failures >= WindowSize => ~h.is_healthy
  BY <1>15, <1>18, <1>20, <1>21
<1>23. QED
  BY <1>1, <1>17, <1>19, <1>22 DEF HealthOfRecent, h, Good

\* Health is that of the last window_size operations, whatever was recorded
\* before them, for any window (health.py record_success, record_failure,
\* get_health).
THEOREM HealthAlwaysRecent == HealthSpec => []HealthOfRecent
<1>1. HealthInit => MonitorInv
  <2> SUFFICES ASSUME HealthInit PROVE MonitorInv
    OBVIOUS
  <2>1. metrics = <<>> /\ outcomes = <<>>
    BY DEF HealthInit
  <2>2. <<>> \in Seq(BOOLEAN) /\ Len(<<>>) = 0
    BY EmptySeq
  <2>3. Good(<<>>) = {} /\ Bad(<<>>) = {}
    BY DEF Good, Bad
  <2>4. Newest(0, {})
    BY DEF Newest
  <2>5. Window(0) = 0
    BY HealthAssumption DEF Window
  <2>6. (\E k \in Nat : Newest(k, Good(outcomes))) /\ (\E k \in Nat : Newest(k, Bad(outcomes)))
    BY <2>1, <2>3, <2>4
  <2>7. QED
    BY <2>1, <2>2, <2>5, <2>6 DEF MonitorInv
<1>2. QED
  BY <1>1, MonitorInvStep, MonitorHealth, PTL DEF HealthSpec

-----------------------------------------------------------------------------
(***************************************************************************)
(* AsyncFileAuditLogger and RotatingAuditLogger.  AuditInv adds to         *)
(* AuditKept that the queue and each batch are in order and the queue has  *)
(* the newest entries (InLine), which of the writer and shutdown may hold  *)
(* a batch (WorkersKnown), and that the files are named in their order,    *)
(* none later than the current one, which is there when they are one too   *)
(* many (Named).                                                           *)
(***************************************************************************)

File == [name : Nat, entries : Seq(Nat)]

AuditTypeOK ==
  /\ audit_buffer \in Seq(Nat) /\ files \in Seq(File)
  /\ writer \in [at : {"loop", "drain", "write", "over"}, batch : Seq(Nat)]
  /\ closer \in [at : {"none", "join", "drain", "done"}, batch : Seq(Nat)]
  /\ current_file \in Nat /\ second \in Nat /\ logged \in Nat /\ queued_before \in Nat
  /\ dropped \in SUBSET Nat /\ failed \in SUBSET Nat /\ removed \in SUBSET Nat
  /\ late \in BOOLEAN

Rising(s) == \A i, j \in DOMAIN s : i < j => s[i] < s[j]
Below(a, b) == \A x \in a, y \in b : x < y

\* Each entry is in one file once; the entries are in order; the names are.
Once(fs) ==
  \A i, j \in DOMAIN fs : \A k \in DOMAIN fs[i].entries, l \in DOMAIN fs[j].entries :
    fs[i].entries[k] = fs[j].entries[l] => i = j /\ k = l
Sorted(fs) ==
  \A i, j \in DOMAIN fs : \A k \in DOMAIN fs[i].entries, l \in DOMAIN fs[j].entries :
    i < j \/ (i = j /\ k < l) => fs[i].entries[k] < fs[j].entries[l]
NamesRise(fs) == \A i, j \in DOMAIN fs : i < j => fs[i].name < fs[j].name

Named ==
  /\ NamesRise(files) /\ current_file <= second
  /\ \A i \in DOMAIN files : files[i].name <= current_file
  /\ Len(files) <= MaxFiles + 1
  /\ Len(files) = MaxFiles + 1 => files[Len(files)].name = current_file

WorkersKnown ==
  /\ writer.at \in {"loop", "over"} => writer.batch = <<>>
  /\ closer.at \in {"none", "join", "done"} => closer.batch = <<>>
  /\ late => closer.at \in {"drain", "done"}
  /\ ~late /\ closer.at \in {"drain", "done"} => writer.at = "over"
  /\ queued_before <= logged

\* What waits, and what was taken from the queue before it.
InLine ==
  /\ Rising(audit_buffer) /\ Rising(writer.batch) /\ Rising(closer.batch)
  /\ Below(ToSet(writer.batch) \cup ToSet(closer.batch) \cup Entries(files) \cup removed,
           ToSet(audit_buffer))
  /\ ~late => /\ Below(Entries(files) \cup removed, ToSet(writer.batch) \cup ToSet(closer.batch))
              /\ Below(removed, Entries(files))
              /\ Sorted(files)

AuditInv ==
  /\ AuditTypeOK /\ Named /\ WorkersKnown /\ InLine /\ AuditAccounted /\ ShutdownFlushes

\* Taking the first of the queue.
LEMMA TakenFacts ==
  ASSUME NEW q \in Seq(Nat), q # <<>>, Rising(q)
  PROVE  /\ Head(q) \in Nat /\ Tail(q) \in Seq(Nat) /\ Rising(Tail(q))
         /\ Head(q) \in ToSet(q) /\ ToSet(Tail(q)) = ToSet(q) \ {Head(q)}
         /\ Below({Head(q)}, ToSet(Tail(q)))
<1> DEFINE t == Tail(q)
<1>1. /\ Head(q) \in Nat /\ t \in Seq(Nat) /\ Len(t) = Len(q) - 1
      /\ \A i \in 1 .. Len(t) : t[i] = q[i + 1]
  BY HeadTailProperties
<1>2. /\ DOMAIN q = 1 .. Len(q) /\ DOMAIN t = 1 .. Len(t) /\ Len(q) \in Nat \ {0} /\ Len(t) \in Nat
  BY <1>1, LenProperties, EmptySeq
<1>3. Head(q) = q[1] OBVIOUS
<1>4. \A i \in 1 .. Len(q) : q[i] \in Nat BY ElementOfSeq
<1>5. \A i \in 2 .. Len(q) : i - 1 \in 1 .. Len(t) /\ q[i] = t[i - 1] BY <1>1, <1>2
<1> HIDE DEF t
<1>6. Rising(t)
  <2> SUFFICES ASSUME NEW i \in 1 .. Len(t), NEW j \in 1 .. Len(t), i < j PROVE t[i] < t[j]
    BY <1>2 DEF Rising
  <2>1. i + 1 \in 1 .. Len(q) /\ j + 1 \in 1 .. Len(q) /\ i + 1 < j + 1 BY <1>1, <1>2
  <2> QED BY <2>1, <1>1, <1>2 DEF Rising
<1>7. \A i \in 1 .. Len(t) : q[1] < t[i]
  <2> TAKE i \in 1 .. Len(t)
  <2>1. 1 \in 1 .. Len(q) /\ i + 1 \in 1 .. Len(q) /\ 1 < i + 1 BY <1>1, <1>2
  <2> QED BY <2>1, <1>1, <1>2 DEF Rising
<1>8. q[1] \in ToSet(q) BY <1>2 DEF ToSet
<1>9. \A x \in ToSet(t) : x \in ToSet(q) /\ x # q[1]
  <2> TAKE x \in ToSet(t)
  <2>1. PICK i \in 1 .. Len(t) : x = t[i] BY <1>2 DEF ToSet
  <2>2. i + 1 \in 1 .. Len(q) /\ x = q[i + 1] BY <2>1, <1>1, <1>2
  <2>3. q[1] < x BY <2>1, <1>7
  <2>4. q[1] \in Nat /\ x \in Nat BY <2>2, <1>4, <1>2
  <2> QED BY <2>2, <2>3, <2>4, <1>2 DEF ToSet
<1>10. \A x \in ToSet(q) : x # q[1] => x \in ToSet(t)
  <2> TAKE x \in ToSet(q)
  <2>1. PICK i \in 1 .. Len(q) : x = q[i] BY <1>2 DEF ToSet
  <2>2. i # 1 => i - 1 \in 1 .. Len(t) /\ x = t[i - 1] BY <2>1, <1>5, <1>2
  <2> QED BY <2>1, <2>2, <1>2 DEF ToSet
<1>11. ToSet(t) = ToSet(q) \ {q[1]} BY <1>9, <1>10
<1>12. Below({q[1]}, ToSet(t)) BY <1>7, <1>2 DEF Below, ToSet
<1> QED BY <1>1, <1>3, <1>6, <1>8, <1>11, <1>12 DEF t

\* Adding to a sequence what is newer than all of it.
LEMMA AddedFacts ==
  ASSUME NEW b \in Seq(Nat), NEW e \in Nat, Rising(b), Below(ToSet(b), {e})
  PROVE  Append(b, e) \in Seq(Nat) /\ Rising(Append(b, e)) /\ ToSet(Append(b, e)) = ToSet(b) \cup {e}
<1> DEFINE n == Append(b, e)
<1>1. /\ n \in Seq(Nat) /\ Len(n) = Len(b) + 1 /\ Len(b) \in Nat
      /\ \A i \in 1 .. Len(b) : n[i] = b[i]
      /\ n[Len(b) + 1] = e
      /\ DOMAIN b = 1 .. Len(b)
  BY AppendProperties, LenProperties
<1>2. DOMAIN n = 1 .. Len(b) + 1 BY <1>1, LenProperties
<1> HIDE DEF n
<1>3. \A i \in 1 .. Len(b) + 1 : i \in 1 .. Len(b) \/ i = Len(b) + 1 BY <1>1
<1>4. ToSet(n) = ToSet(b) \cup {e} BY <1>1, <1>2, <1>3 DEF ToSet
<1>5. \A i \in 1 .. Len(b) : b[i] < e BY <1>1 DEF Below, ToSet
<1>6. Rising(n)
  <2> SUFFICES ASSUME NEW i \in 1 .. Len(b) + 1, NEW j \in 1 .. Len(b) + 1, i < j PROVE n[i] < n[j]
    BY <1>2 DEF Rising
  <2>1. i \in 1 .. Len(b) BY <1>1
  <2> QED BY <2>1, <1>1, <1>3, <1>5 DEF Rising
<1> QED BY <1>1, <1>4, <1>6 DEF n

\* The part of a batch that was written and the part that was not.
LEMMA CutFacts ==
  ASSUME NEW b \in Seq(Nat), NEW k \in 0 .. Len(b), Rising(b)
  PROVE  LET h == SubSeq(b, 1, k)
             t == SubSeq(b, k + 1, Len(b))
         IN  /\ h \in Seq(Nat) /\ Rising(h) /\ Len(h) = k
             /\ ToSet(h) \subseteq ToSet(b) /\ ToSet(t) = ToSet(b) \ ToSet(h)
<1> DEFINE h == SubSeq(b, 1, k)
           t == SubSeq(b, k + 1, Len(b))
           n == Len(b)
<1>1. n \in Nat /\ k \in Nat /\ k <= n /\ DOMAIN b = 1 .. n /\ \A i \in 1 .. n : b[i] \in Nat
  BY LenProperties, ElementOfSeq
<1> HIDE DEF n
<1>2. (\A i \in 1 .. k : b[i] \in Nat) /\ (\A i \in k + 1 .. n : b[i] \in Nat) BY <1>1
<1>3. /\ h \in Seq(Nat) /\ Len(h) = k /\ \A i \in 1 .. k : h[i] = b[i]
  BY <1>1, <1>2, SubSeqProperties
<1>4. /\ t \in Seq(Nat) /\ Len(t) = n - k /\ \A i \in 1 .. n - k : t[i] = b[k + i]
  <2>1. SubSeq(b, k + 1, n) \in Seq(Nat)
        /\ Len(SubSeq(b, k + 1, n)) = (IF k + 1 <= n THEN n - (k + 1) + 1 ELSE 0)
        /\ \A i \in 1 .. n - (k + 1) + 1 : SubSeq(b, k + 1, n)[i] = b[k + 1 + i - 1]
    BY <1>1, <1>2, SubSeqProperties
  <2>2. \A i \in 1 .. n - k : i \in 1 .. n - (k + 1) + 1 /\ k + 1 + i - 1 = k + i BY <1>1
  <2>3. (IF k + 1 <= n THEN n - (k + 1) + 1 ELSE 0) = n - k BY <1>1
  <2>4. t = SubSeq(b, k + 1, n) BY DEF n
  <2> HIDE DEF t
  <2> QED BY <2>1, <2>2, <2>3, <2>4
<1>5. DOMAIN h = 1 .. k /\ DOMAIN t = 1 .. n - k BY <1>3, <1>4, LenProperties
<1> HIDE DEF h, t
<1>6. Rising(h) BY <1>1, <1>3, <1>5 DEF Rising
<1>7. ToSet(h) \subseteq ToSet(b) BY <1>1, <1>3, <1>5 DEF ToSet
<1>8. \A i, j \in 1 .. n : i # j => b[i] # b[j]
  <2> SUFFICES ASSUME NEW i \in 1 .. n, NEW j \in 1 .. n, i # j PROVE b[i] # b[j] OBVIOUS
  <2>1. i < j \/ j < i BY <1>1
  <2>2. b[i] < b[j] \/ b[j] < b[i] BY <2>1, <1>1 DEF Rising
  <2> QED BY <2>2, <1>1
<1>9. \A x \in ToSet(t) : x \in ToSet(b) \ ToSet(h)
  <2> TAKE x \in ToSet(t)
  <2>1. PICK i \in 1 .. n - k : x = t[i] BY <1>5 DEF ToSet
  <2>2. k + i \in 1 .. n /\ x = b[k + i] BY <2>1, <1>1, <1>4
  <2>3. \A j \in 1 .. k : h[j] # x
    <3> TAKE j \in 1 .. k
    <3>1. j \in 1 .. n /\ j # k + i BY <1>1
    <3> QED BY <3>1, <2>2, <1>3, <1>8
  <2> QED BY <2>2, <2>3, <1>1, <1>5 DEF ToSet
<1>10. \A x \in ToSet(b) \ ToSet(h) : x \in ToSet(t)
  <2> TAKE x \in ToSet(b) \ ToSet(h)
  <2>1. PICK i \in 1 .. n : x = b[i] BY <1>1 DEF ToSet
  <2>2. i \notin 1 .. k BY <2>1, <1>3, <1>5 DEF ToSet
  <2>3. i - k \in 1 .. n - k BY <2>2, <1>1
  <2>4. t[i - k] = b[k + (i - k)] BY <2>3, <1>4
  <2>5. k + (i - k) = i BY <1>1
  <2> QED BY <2>1, <2>3, <2>4, <2>5, <1>5 DEF ToSet
<1> QED BY <1>3, <1>6, <1>7, <1>9, <1>10 DEF h, t, n

\* An entry of the files is in one of them at some place.
LEMMA EntryPlace ==
  ASSUME NEW fs, NEW x
  PROVE  x \in Entries(fs) <=> \E i \in DOMAIN fs : \E k \in DOMAIN fs[i].entries : x = fs[i].entries[k]
BY DEF Entries, ToSet

\* The files that are removed and those that are kept.
LEMMA KeptFacts ==
  ASSUME NEW fs \in Seq(File), NEW g \in 0 .. Len(fs)
  PROVE  LET head == SubSeq(fs, 1, g)
             kept == SubSeq(fs, g + 1, Len(fs))
         IN  /\ kept \in Seq(File) /\ Len(kept) = Len(fs) - g
             /\ \A i \in 1 .. Len(kept) : g + i \in DOMAIN fs /\ kept[i] = fs[g + i]
             /\ Entries(head) \subseteq Entries(fs)
             /\ Entries(fs) = Entries(head) \cup Entries(kept)
             /\ Once(fs) => Once(kept) /\ Entries(head) \cap Entries(kept) = {}
             /\ Sorted(fs) => Sorted(kept) /\ Below(Entries(head), Entries(kept))
             /\ NamesRise(fs) => NamesRise(kept)
<1> DEFINE head == SubSeq(fs, 1, g)
           kept == SubSeq(fs, g + 1, Len(fs))
           n == Len(fs)
<1>1. n \in Nat /\ g \in Nat /\ g <= n /\ DOMAIN fs = 1 .. n /\ \A i \in 1 .. n : fs[i] \in File
  BY LenProperties, ElementOfSeq
<1> HIDE DEF n
<1>2. (\A i \in 1 .. g : fs[i] \in File) /\ (\A i \in g + 1 .. n : fs[i] \in File) BY <1>1
<1>3. head \in Seq(File) /\ Len(head) = g /\ \A i \in 1 .. g : head[i] = fs[i]
  BY <1>1, <1>2, SubSeqProperties
<1>4. kept \in Seq(File) /\ Len(kept) = n - g /\ \A i \in 1 .. n - g : kept[i] = fs[g + i]
  <2>1. SubSeq(fs, g + 1, n) \in Seq(File)
        /\ Len(SubSeq(fs, g + 1, n)) = (IF g + 1 <= n THEN n - (g + 1) + 1 ELSE 0)
        /\ \A i \in 1 .. n - (g + 1) + 1 : SubSeq(fs, g + 1, n)[i] = fs[g + 1 + i - 1]
    BY <1>1, <1>2, SubSeqProperties
  <2>2. \A i \in 1 .. n - g : i \in 1 .. n - (g + 1) + 1 /\ g + 1 + i - 1 = g + i BY <1>1
  <2>3. (IF g + 1 <= n THEN n - (g + 1) + 1 ELSE 0) = n - g BY <1>1
  <2>4. kept = SubSeq(fs, g + 1, n) BY DEF n
  <2> HIDE DEF kept
  <2> QED BY <2>1, <2>2, <2>3, <2>4
<1>5. DOMAIN head = 1 .. g /\ DOMAIN kept = 1 .. n - g BY <1>3, <1>4, LenProperties
<1> HIDE DEF head, kept
<1>6. \A i \in 1 .. g : i \in 1 .. n /\ head[i] = fs[i] BY <1>1, <1>3
<1>7. \A i \in 1 .. n - g : g + i \in 1 .. n /\ kept[i] = fs[g + i] BY <1>1, <1>4
<1>8. \A i \in 1 .. n : i \in 1 .. g \/ (i - g \in 1 .. n - g /\ g + (i - g) = i) BY <1>1
<1>9. Entries(head) \subseteq Entries(fs) BY <1>1, <1>5, <1>6, EntryPlace
<1>10. Entries(kept) \subseteq Entries(fs) BY <1>1, <1>5, <1>7, EntryPlace
<1>11. \A x \in Entries(fs) : x \in Entries(head) \cup Entries(kept)
  <2> TAKE x \in Entries(fs)
  <2>1. PICK i \in 1 .. n : \E k \in DOMAIN fs[i].entries : x = fs[i].entries[k] BY <1>1, EntryPlace
  <2>2. CASE i \in 1 .. g BY <2>1, <2>2, <1>5, <1>6, EntryPlace
  <2>3. CASE i - g \in 1 .. n - g /\ g + (i - g) = i
    <3>1. kept[i - g] = fs[i] BY <2>3, <1>7
    <3> QED BY <2>1, <2>3, <3>1, <1>5, EntryPlace
  <2> QED BY <2>2, <2>3, <1>8
<1>12. \A i, j \in 1 .. n - g : (g + i = g + j => i = j) /\ (i < j => g + i < g + j) BY <1>1
<1>13. ASSUME Once(fs) PROVE Once(kept)
  <2> SUFFICES ASSUME NEW i \in 1 .. n - g, NEW j \in 1 .. n - g,
                      NEW k \in DOMAIN kept[i].entries, NEW l \in DOMAIN kept[j].entries,
                      kept[i].entries[k] = kept[j].entries[l]
               PROVE  i = j /\ k = l
    BY <1>5 DEF Once
  <2>1. g + i = g + j /\ k = l BY <1>13, <1>1, <1>7 DEF Once
  <2> QED BY <2>1, <1>12
<1>14. ASSUME Sorted(fs) PROVE Sorted(kept)
  <2> SUFFICES ASSUME NEW i \in 1 .. n - g, NEW j \in 1 .. n - g,
                      NEW k \in DOMAIN kept[i].entries, NEW l \in DOMAIN kept[j].entries,
                      i < j \/ (i = j /\ k < l)
               PROVE  kept[i].entries[k] < kept[j].entries[l]
    BY <1>5 DEF Sorted
  <2>1. g + i < g + j \/ (g + i = g + j /\ k < l) BY <1>12
  <2> QED BY <2>1, <1>14, <1>1, <1>7 DEF Sorted
<1>15. ASSUME NamesRise(fs) PROVE NamesRise(kept) BY <1>15, <1>1, <1>5, <1>7, <1>12 DEF NamesRise
<1>16. \A x \in Entries(head), y \in Entries(kept) :
         \E i, j \in 1 .. n : /\ i < j
                              /\ \E k \in DOMAIN fs[i].entries : x = fs[i].entries[k]
                              /\ \E l \in DOMAIN fs[j].entries : y = fs[j].entries[l]
  <2> TAKE x \in Entries(head), y \in Entries(kept)
  <2>1. PICK i \in 1 .. g : \E k \in DOMAIN head[i].entries : x = head[i].entries[k] BY <1>5, EntryPlace
  <2>2. PICK j \in DOMAIN kept : \E l \in DOMAIN kept[j].entries : y = kept[j].entries[l]
    BY EntryPlace
  <2>4. j \in 1 .. n - g BY <1>5
  <2>3. i < g + j BY <2>4, <1>1
  <2> QED BY <2>1, <2>2, <2>3, <2>4, <1>6, <1>7
<1>17. ASSUME Once(fs) PROVE Entries(head) \cap Entries(kept) = {}
  <2> SUFFICES ASSUME NEW x \in Entries(head), x \in Entries(kept) PROVE FALSE OBVIOUS
  <2>1. PICK i, j \in 1 .. n : /\ i < j
                               /\ \E k \in DOMAIN fs[i].entries : x = fs[i].entries[k]
                               /\ \E l \in DOMAIN fs[j].entries : x = fs[j].entries[l]
    BY <1>16
  <2>2. i = j BY <2>1, <1>17, <1>1 DEF Once
  <2> QED BY <2>1, <2>2, <1>1
<1>18. ASSUME Sorted(fs) PROVE Below(Entries(head), Entries(kept))
  BY <1>18, <1>16, <1>1 DEF Sorted, Below
<1>19. /\ kept \in Seq(File) /\ Len(kept) = n - g
       /\ \A i \in 1 .. Len(kept) : g + i \in DOMAIN fs /\ kept[i] = fs[g + i]
  BY <1>1, <1>4, <1>7
<1> QED BY <1>9, <1>10, <1>11, <1>13, <1>14, <1>15, <1>17, <1>18, <1>19 DEF head, kept, n

\* The files are as before but for the last, named name, which has es at the
\* end of what it had.
Extends(fs, name, es, new, old) ==
  /\ new \in Seq(File) /\ DOMAIN new = 1 .. Len(new) /\ Len(new) \in Nat \ {0} /\ old \in Seq(Nat)
  /\ old = IF fs # <<>> /\ fs[Len(fs)].name = name THEN fs[Len(fs)].entries ELSE <<>>
  /\ Len(new) = IF fs # <<>> /\ fs[Len(fs)].name = name THEN Len(fs) ELSE Len(fs) + 1
  /\ \A i \in 1 .. Len(new) - 1 : i \in 1 .. Len(fs) /\ new[i] = fs[i]
  /\ new[Len(new)].name = name /\ new[Len(new)].entries = old \o es

\* The file that is opened, and what is in it then.
LEMMA AppendedShape ==
  ASSUME NEW fs \in Seq(File), NEW name \in Nat, NEW es \in Seq(Nat)
  PROVE  \E old : Extends(fs, name, es, Appended(fs, name, es), old)
<1> DEFINE last == fs[Len(fs)]
           both == last.entries \o es
           front == SubSeq(fs, 1, Len(fs) - 1)
<1>1. Len(fs) \in Nat /\ DOMAIN fs = 1 .. Len(fs) /\ \A i \in 1 .. Len(fs) : fs[i] \in File
  BY LenProperties, ElementOfSeq
<1>2. CASE fs # <<>> /\ last.name = name
  <2>1. Len(fs) # 0 BY <1>2, EmptySeq
  <2>2. last \in File BY <2>1, <1>1
  <2>3. last.entries \in Seq(Nat) BY <2>2 DEF File
  <2>4. both \in Seq(Nat) BY <2>3, ConcatProperties
  <2>5. [name |-> name, entries |-> both] \in File BY <2>4 DEF File
  <2>6. front \in Seq(File) /\ Len(front) = Len(fs) - 1 /\ \A i \in 1 .. Len(fs) - 1 : front[i] = fs[i]
    <3>1. \A i \in 1 .. Len(fs) - 1 : fs[i] \in File BY <1>1
    <3>2. Len(fs) - 1 \in Nat BY <1>1, <2>1
    <3>3. 1 \in Int /\ Len(fs) - 1 \in Int BY <3>2
    <3>4. /\ SubSeq(fs, 1, Len(fs) - 1) \in Seq(File)
          /\ Len(SubSeq(fs, 1, Len(fs) - 1)) = (IF 1 <= Len(fs) - 1 THEN Len(fs) - 1 - 1 + 1 ELSE 0)
          /\ \A i \in 1 .. Len(fs) - 1 - 1 + 1 : SubSeq(fs, 1, Len(fs) - 1)[i] = fs[1 + i - 1]
      BY <3>1, <3>3, SubSeqProperties
    <3>5. \A i \in 1 .. Len(fs) - 1 : i \in 1 .. Len(fs) - 1 - 1 + 1 /\ 1 + i - 1 = i BY <3>2
    <3>6. (IF 1 <= Len(fs) - 1 THEN Len(fs) - 1 - 1 + 1 ELSE 0) = Len(fs) - 1 BY <3>2, <1>1
    <3> QED BY <3>4, <3>5, <3>6
  <2>7. Appended(fs, name, es) = Append(front, [name |-> name, entries |-> both])
    BY <1>2 DEF Appended, Front, Last
  <2> HIDE DEF front, both, last
  <2>8. PICK f : f = [name |-> name, entries |-> both] OBVIOUS
  <2>9. f \in File /\ f.name = name /\ f.entries = both BY <2>5, <2>8
  <2>10. PICK new : new = Append(front, f) OBVIOUS
  <2>11. /\ new \in Seq(File) /\ Len(new) = Len(front) + 1
         /\ \A i \in 1 .. Len(front) : new[i] = front[i]
         /\ new[Len(front) + 1] = f
    BY <2>6, <2>9, <2>10, AppendProperties
  <2>12. Len(new) = Len(fs) /\ new[Len(fs)] = f BY <2>6, <2>11, <1>1, <2>1
  <2>13. \A i \in 1 .. Len(fs) - 1 : i \in 1 .. Len(fs) /\ new[i] = fs[i] BY <2>6, <2>11, <1>1
  <2>14. DOMAIN new = 1 .. Len(new) BY <2>11, LenProperties
  <2>15. Appended(fs, name, es) = new BY <2>7, <2>8, <2>10
  <2> QED BY <1>1, <1>2, <2>1, <2>3, <2>9, <2>11, <2>12, <2>13, <2>14, <2>15 DEF both, last, Extends
<1>3. CASE ~(fs # <<>> /\ last.name = name)
  <2>1. PICK f : f = [name |-> name, entries |-> es] OBVIOUS
  <2>2. f \in File /\ f.name = name /\ f.entries = es BY <2>1 DEF File
  <2>3. PICK new : new = Append(fs, f) OBVIOUS
  <2>4. Appended(fs, name, es) = new BY <1>3, <2>1, <2>3 DEF Appended, Last
  <2>5. /\ new \in Seq(File) /\ Len(new) = Len(fs) + 1
        /\ \A i \in 1 .. Len(fs) : new[i] = fs[i]
        /\ new[Len(fs) + 1] = f
    BY <2>2, <2>3, AppendProperties
  <2>6. DOMAIN new = 1 .. Len(new) BY <2>5, LenProperties
  <2>7. <<>> \o es = es /\ <<>> \in Seq(Nat) BY ConcatEmptySeq, EmptySeq
  <2>8. Len(fs) + 1 - 1 = Len(fs) BY <1>1
  <2>9. new[Len(new)] = f /\ \A i \in 1 .. Len(new) - 1 : i \in 1 .. Len(fs) /\ new[i] = fs[i]
    BY <2>5, <2>8
  <2>10. Len(new) \in Nat \ {0} BY <2>5, <1>1
  <2>11. Extends(fs, name, es, new, <<>>)
    BY <1>3, <2>2, <2>5, <2>6, <2>7, <2>9, <2>10 DEF last, Extends
  <2> QED BY <2>4, <2>11
<1> QED BY <1>2, <1>3

\* What appending a batch to the files keeps, of entries that are new or newer.
LEMMA AppendedFacts ==
  ASSUME NEW fs \in Seq(File), NEW name \in Nat, NEW es \in Seq(Nat), Rising(es)
  PROVE  LET new == Appended(fs, name, es)
         IN  /\ Entries(new) = Entries(fs) \cup ToSet(es)
             /\ Once(fs) /\ Entries(fs) \cap ToSet(es) = {} => Once(new)
             /\ Sorted(fs) /\ Below(Entries(fs), ToSet(es)) => Sorted(new)
             /\ NamesRise(fs) /\ (\A i \in DOMAIN fs : fs[i].name <= name) =>
                  /\ NamesRise(new) /\ \A i \in DOMAIN new : new[i].name <= name
<1>a. PICK new : new = Appended(fs, name, es) OBVIOUS
<1>b. PICK old : Extends(fs, name, es, new, old) BY <1>a, AppendedShape
<1>c. PICK m : m = Len(new) OBVIOUS
<1>1. /\ new = Appended(fs, name, es) /\ m = Len(new)
      /\ old = IF fs # <<>> /\ fs[Len(fs)].name = name THEN fs[Len(fs)].entries ELSE <<>>
      /\ new \in Seq(File) /\ DOMAIN new = 1 .. m /\ m \in Nat \ {0} /\ old \in Seq(Nat)
      /\ m = IF fs # <<>> /\ fs[Len(fs)].name = name THEN Len(fs) ELSE Len(fs) + 1
      /\ \A i \in 1 .. m - 1 : i \in 1 .. Len(fs) /\ new[i] = fs[i]
      /\ new[m].name = name /\ new[m].entries = old \o es
  BY <1>a, <1>b, <1>c DEF Extends
<1> DEFINE c == Len(old)
           w == Len(es)
           n == Len(fs)
<1>2. /\ n \in Nat /\ DOMAIN fs = 1 .. n /\ \A i \in 1 .. n : fs[i] \in File
      /\ c \in Nat /\ w \in Nat /\ DOMAIN es = 1 .. w /\ DOMAIN old = 1 .. c
  BY <1>1, LenProperties, ElementOfSeq
<1>3. /\ DOMAIN (old \o es) = 1 .. c + w
      /\ \A k \in 1 .. c + w : (old \o es)[k] = IF k <= c THEN old[k] ELSE es[k - c]
  BY <1>1, ConcatProperties, LenProperties
<1>4. \/ m = n /\ m \in 1 .. n /\ old = fs[m].entries /\ fs[m].name = name
      \/ m = n + 1 /\ c = 0
  <2>1. CASE fs # <<>> /\ fs[Len(fs)].name = name BY <2>1, <1>1, <1>2
  <2>2. CASE ~(fs # <<>> /\ fs[Len(fs)].name = name)
    <3>1. old = <<>> BY <2>2, <1>1
    <3> QED BY <2>2, <3>1, <1>1, EmptySeq
  <2> QED BY <2>1, <2>2
<1> HIDE DEF c, w, n
<1>5. \A i \in 1 .. m : \A k \in DOMAIN new[i].entries :
        \/ /\ i \in 1 .. n /\ k \in DOMAIN fs[i].entries /\ new[i].entries[k] = fs[i].entries[k]
           /\ i = m => k \in 1 .. c
        \/ /\ i = m /\ k - c \in 1 .. w /\ k \in Nat /\ c < k /\ new[i].entries[k] = es[k - c]
  <2> TAKE i \in 1 .. m
  <2> TAKE k \in DOMAIN new[i].entries
  <2>1. CASE i # m
    <3>1. i \in 1 .. m - 1 BY <2>1, <1>1
    <3>2. i \in 1 .. n /\ new[i] = fs[i] BY <3>1, <1>1 DEF n
    <3> QED BY <2>1, <3>2
  <2>2. CASE i = m
    <3>1. k \in 1 .. c + w /\ new[i].entries[k] = IF k <= c THEN old[k] ELSE es[k - c] BY <2>2, <1>1, <1>3
    <3>2. CASE k <= c
      <4>1. k \in 1 .. c /\ c # 0 BY <3>1, <3>2, <1>2
      <4>2. m \in 1 .. n /\ old = fs[m].entries BY <4>1, <1>4
      <4> QED BY <4>1, <4>2, <3>1, <3>2, <2>2, <1>2
    <3>3. CASE ~(k <= c)
      <4>1. k - c \in 1 .. w /\ k \in Nat /\ c < k BY <3>1, <3>3, <1>2
      <4> QED BY <4>1, <3>1, <3>3, <2>2
    <3> QED BY <3>2, <3>3
  <2> QED BY <2>1, <2>2
<1>6. \A i \in 1 .. n : i \in 1 .. m /\ \A k \in DOMAIN fs[i].entries :
        k \in DOMAIN new[i].entries /\ new[i].entries[k] = fs[i].entries[k]
  <2> TAKE i \in 1 .. n
  <2>1. i \in 1 .. m BY <1>1, <1>2, <1>4
  <2>2. CASE i # m
    <3>1. i \in 1 .. m - 1 BY <2>1, <2>2, <1>1
    <3> QED BY <2>1, <3>1, <1>1
  <2>3. CASE i = m
    <3>1. m = n BY <2>3, <1>2, <1>4
    <3>2. old = fs[i].entries BY <3>1, <2>3, <1>2, <1>4
    <3>3. \A k \in 1 .. c : k \in 1 .. c + w /\ k <= c BY <1>2
    <3> QED BY <2>1, <2>3, <3>2, <3>3, <1>1, <1>2, <1>3
  <2> QED BY <2>2, <2>3
<1>7. \A l \in 1 .. w : c + l \in DOMAIN new[m].entries /\ new[m].entries[c + l] = es[l]
  <2> TAKE l \in 1 .. w
  <2>1. c + l \in 1 .. c + w /\ ~(c + l <= c) /\ (c + l) - c = l BY <1>2
  <2> QED BY <2>1, <1>1, <1>3
<1>8. Entries(new) = Entries(fs) \cup ToSet(es)
  <2>1. \A x \in Entries(new) : x \in Entries(fs) \cup ToSet(es)
    <3> TAKE x \in Entries(new)
    <3>0. PICK i \in DOMAIN new : \E k \in DOMAIN new[i].entries : x = new[i].entries[k] BY EntryPlace
    <3>1. i \in 1 .. m BY <1>1
    <3>2. PICK k \in DOMAIN new[i].entries : x = new[i].entries[k] BY <3>0
    <3>3. CASE i \in 1 .. n /\ k \in DOMAIN fs[i].entries /\ new[i].entries[k] = fs[i].entries[k]
      BY <3>2, <3>3, <1>2, EntryPlace
    <3>4. CASE k - c \in 1 .. w /\ new[i].entries[k] = es[k - c] BY <3>2, <3>4, <1>2 DEF ToSet
    <3> QED BY <3>1, <3>3, <3>4, <1>5
  <2>2. \A x \in Entries(fs) : x \in Entries(new)
    <3> TAKE x \in Entries(fs)
    <3>1. PICK i \in DOMAIN fs : \E k \in DOMAIN fs[i].entries : x = fs[i].entries[k] BY EntryPlace
    <3>2. i \in DOMAIN new /\ \E k \in DOMAIN new[i].entries : x = new[i].entries[k] BY <3>1, <1>1, <1>2, <1>6
    <3> QED BY <3>2, EntryPlace
  <2>3. \A x \in ToSet(es) : x \in Entries(new)
    <3> TAKE x \in ToSet(es)
    <3>1. PICK l \in 1 .. w : x = es[l] BY <1>2 DEF ToSet
    <3>2. m \in DOMAIN new BY <1>1
    <3> QED BY <3>1, <3>2, <1>7, EntryPlace
  <2> QED BY <2>1, <2>2, <2>3
<1>9. \A l \in 1 .. w : es[l] \in ToSet(es) /\ es[l] \in Nat BY <1>2, ElementOfSeq DEF ToSet, w
<1>10. \A i \in 1 .. n : \A k \in DOMAIN fs[i].entries :
          fs[i].entries[k] \in Entries(fs) /\ k \in Nat /\ fs[i].entries[k] \in Nat
  <2> TAKE i \in 1 .. n
  <2> TAKE k \in DOMAIN fs[i].entries
  <2>1. fs[i].entries \in Seq(Nat) BY <1>2 DEF File
  <2>2. k \in 1 .. Len(fs[i].entries) /\ Len(fs[i].entries) \in Nat BY <2>1, LenProperties
  <2> QED BY <2>1, <2>2, <1>2, EntryPlace, ElementOfSeq
<1>11. ASSUME Once(fs), Entries(fs) \cap ToSet(es) = {} PROVE Once(new)
  <2> SUFFICES ASSUME NEW i \in 1 .. m, NEW j \in 1 .. m,
                      NEW k \in DOMAIN new[i].entries, NEW l \in DOMAIN new[j].entries,
                      new[i].entries[k] = new[j].entries[l]
               PROVE  i = j /\ k = l
    BY <1>1 DEF Once
  <2> DEFINE Old(a, b) == a \in 1 .. n /\ b \in DOMAIN fs[a].entries /\ new[a].entries[b] = fs[a].entries[b]
             New(a, b) == a = m /\ b - c \in 1 .. w /\ b \in Nat /\ new[a].entries[b] = es[b - c]
  <2>1. (Old(i, k) \/ New(i, k)) /\ (Old(j, l) \/ New(j, l)) BY <1>5
  <2>2. CASE Old(i, k) /\ Old(j, l)
    <3>1. fs[i].entries[k] = fs[j].entries[l] BY <2>2
    <3>2. i \in DOMAIN fs /\ j \in DOMAIN fs /\ k \in DOMAIN fs[i].entries /\ l \in DOMAIN fs[j].entries
      BY <2>2, <1>2
    <3> QED BY <3>1, <3>2, <1>11 DEF Once
  <2>3. CASE Old(i, k) /\ New(j, l)
    <3>1. new[i].entries[k] \in Entries(fs) /\ new[j].entries[l] \in ToSet(es) BY <2>3, <1>9, <1>10
    <3> QED BY <3>1, <1>11
  <2>4. CASE New(i, k) /\ Old(j, l)
    <3>1. new[j].entries[l] \in Entries(fs) /\ new[i].entries[k] \in ToSet(es) BY <2>4, <1>9, <1>10
    <3> QED BY <3>1, <1>11
  <2>5. CASE New(i, k) /\ New(j, l)
    <3>1. PICK a \in 1 .. w, b \in 1 .. w : a = k - c /\ b = l - c BY <2>5
    <3>2. es[a] = es[b] BY <2>5, <3>1
    <3>3. a = b
      <4>0. (a < b => es[a] < es[b]) /\ (b < a => es[b] < es[a]) BY <1>2 DEF Rising
      <4>2. es[a] \in Nat BY <1>9
      <4>1. ~(a < b) /\ ~(b < a) BY <3>2, <4>0, <4>2
      <4> QED BY <4>1, <1>2
    <3> QED BY <2>5, <3>1, <3>3, <1>2
  <2> QED BY <2>1, <2>2, <2>3, <2>4, <2>5
<1>12. ASSUME Sorted(fs), Below(Entries(fs), ToSet(es)) PROVE Sorted(new)
  <2> SUFFICES ASSUME NEW i \in 1 .. m, NEW j \in 1 .. m,
                      NEW k \in DOMAIN new[i].entries, NEW l \in DOMAIN new[j].entries,
                      i < j \/ (i = j /\ k < l)
               PROVE  new[i].entries[k] < new[j].entries[l]
    BY <1>1 DEF Sorted
  <2> DEFINE Old(a, b) == /\ a \in 1 .. n /\ b \in DOMAIN fs[a].entries
                          /\ new[a].entries[b] = fs[a].entries[b]
                          /\ a = m => b \in 1 .. c
             New(a, b) == a = m /\ b - c \in 1 .. w /\ b \in Nat /\ c < b /\ new[a].entries[b] = es[b - c]
  <2>1. (Old(i, k) \/ New(i, k)) /\ (Old(j, l) \/ New(j, l)) BY <1>5
  <2>2. CASE Old(i, k) /\ Old(j, l) BY <2>2, <1>2, <1>12 DEF Sorted
  <2>3. CASE Old(i, k) /\ New(j, l)
    <3>1. new[i].entries[k] \in Entries(fs) /\ new[j].entries[l] \in ToSet(es) BY <2>3, <1>9, <1>10
    <3> QED BY <3>1, <1>12 DEF Below
  <2>4. CASE New(i, k) /\ Old(j, l)
    <3>1. i = m /\ j <= m BY <2>4, <1>1
    <3>2. j = m /\ k < l BY <3>1, <1>1
    <3>3. l \in 1 .. c /\ c < k /\ k \in Nat BY <2>4, <3>2
    <3> QED BY <3>2, <3>3, <1>2
  <2>5. CASE New(i, k) /\ New(j, l)
    <3>1. PICK a \in 1 .. w, b \in 1 .. w : a = k - c /\ b = l - c BY <2>5
    <3>2. i = j /\ k < l BY <2>5, <1>1
    <3>3. a < b BY <2>5, <3>1, <3>2, <1>2
    <3> QED BY <2>5, <3>1, <3>3, <1>2 DEF Rising
  <2> QED BY <2>1, <2>2, <2>3, <2>4, <2>5
<1>13. ASSUME NamesRise(fs), \A i \in DOMAIN fs : fs[i].name <= name
       PROVE  NamesRise(new) /\ \A i \in DOMAIN new : new[i].name <= name
  <2>1. \A i \in 1 .. m : i # m => i \in 1 .. n /\ new[i] = fs[i] /\ i < m
    <3> TAKE i \in 1 .. m
    <3>1. i # m => i \in 1 .. m - 1 /\ i < m BY <1>1
    <3> QED BY <3>1, <1>1 DEF n
  <2>2. \A i \in 1 .. n : fs[i].name \in Nat BY <1>2 DEF File
  <2>3. \A i \in 1 .. m : i # m => new[i].name < name
    <3> SUFFICES ASSUME NEW i \in 1 .. m, i # m PROVE new[i].name < name OBVIOUS
    <3>1. i \in 1 .. n /\ new[i] = fs[i] /\ i < m BY <2>1
    <3>2. CASE m = n /\ m \in 1 .. n /\ fs[m].name = name BY <3>1, <3>2, <1>2, <1>13 DEF NamesRise
    <3>3. CASE m = n + 1 /\ ~(m = n /\ m \in 1 .. n /\ fs[m].name = name)
      <4>0. m # n BY <3>3, <1>2
      <4>1. fs # <<>> => fs[n].name # name BY <4>0, <1>1 DEF n
      <4>2. n \in 1 .. n /\ fs # <<>>
        <5>1. n # 0 BY <3>1, <1>2
        <5>2. Len(<<>>) = 0 BY EmptySeq
        <5> QED BY <5>1, <5>2, <1>2 DEF n
      <4>3. fs[n].name < name BY <4>1, <4>2, <2>2, <1>2, <1>13
      <4>4. i = n \/ i < n BY <3>1, <1>2
      <4>5. i < n => fs[i].name < fs[n].name BY <3>1, <4>2, <1>2, <1>13 DEF NamesRise
      <4> QED BY <3>1, <4>2, <4>3, <4>4, <4>5, <2>2
    <3> QED BY <3>2, <3>3, <1>4
  <2>4. \A i \in 1 .. m : new[i].name <= name
    <3> TAKE i \in 1 .. m
    <3>1. CASE i = m BY <3>1, <1>1
    <3>2. CASE i # m
      <4>1. new[i].name < name /\ new[i].name \in Nat BY <3>2, <2>1, <2>2, <2>3
      <4> QED BY <4>1
    <3> QED BY <3>1, <3>2
  <2>5. NamesRise(new)
    <3> SUFFICES ASSUME NEW i \in 1 .. m, NEW j \in 1 .. m, i < j PROVE new[i].name < new[j].name
      BY <1>1 DEF NamesRise
    <3>1. i # m BY <1>1
    <3>2. CASE j = m BY <3>1, <3>2, <2>3, <1>1
    <3>3. CASE j # m BY <3>1, <3>3, <2>1, <1>2, <1>13 DEF NamesRise
    <3> QED BY <3>2, <3>3
  <2> QED BY <2>4, <2>5, <1>1
<1> QED BY <1>1, <1>8, <1>11, <1>12, <1>13

Places == {"queue", "writer", "closer", "files", "dropped", "failed", "removed"}

\* Each of the entries 1 .. n is in one place.
Apart(P, n) ==
  /\ \A x : (\E p \in Places : x \in P[p]) <=> x \in 1 .. n
  /\ \A p, q \in Places : p # q => P[p] \cap P[q] = {}

\* The entries X go from one place to another.
Moved(P, a, b, X) == [p \in Places |-> IF p = a THEN P[p] \ X ELSE IF p = b THEN P[p] \cup X ELSE P[p]]

\* Where the entries are, place by place.
LEMMA WhereaboutsAre ==
  /\ Whereabouts.queue = ToSet(audit_buffer) /\ Whereabouts.writer = ToSet(writer.batch)
  /\ Whereabouts.closer = ToSet(closer.batch) /\ Whereabouts.files = Entries(files)
  /\ Whereabouts.dropped = dropped /\ Whereabouts.failed = failed /\ Whereabouts.removed = removed
  /\ DOMAIN Whereabouts = Places
BY DEF Whereabouts, Places

\* The property AuditAccounted in these terms.
LEMMA AccountedIs == AuditAccounted <=> Apart(Whereabouts, logged) /\ Once(files)
<1>1. PICK P : P = Whereabouts OBVIOUS
<1>2. DOMAIN P = Places BY <1>1, WhereaboutsAre
<1>3. AuditAccounted <=> /\ UNION {P[p] : p \in Places} = 1 .. logged
                         /\ \A p, q \in Places : p # q => P[p] \cap P[q] = {}
                         /\ Once(files)
  BY <1>1, <1>2 DEF AuditAccounted, Once
<1>4. UNION {P[p] : p \in Places} = 1 .. logged <=>
        \A x : (\E p \in Places : x \in P[p]) <=> x \in 1 .. logged
  OBVIOUS
<1> QED BY <1>1, <1>3, <1>4 DEF Apart

\* Entries that go from one place to another are still in one place.
LEMMA MovedApart ==
  ASSUME NEW P, NEW n, NEW a \in Places, NEW b \in Places, a # b, NEW X, X \subseteq P[a], Apart(P, n)
  PROVE  Apart(Moved(P, a, b, X), n)
<1> DEFINE Q == Moved(P, a, b, X)
<1>1. /\ Q[a] = P[a] \ X /\ Q[b] = P[b] \cup X
      /\ \A p \in Places : p # a /\ p # b => Q[p] = P[p]
  BY DEF Moved
<1> HIDE DEF Q
<1>2. \A x : (\E p \in Places : x \in Q[p]) <=> \E p \in Places : x \in P[p]
  <2> TAKE x
  <2>1. ASSUME NEW p \in Places, x \in Q[p] PROVE \E r \in Places : x \in P[r]
    <3>1. x \in P[p] \/ (p = b /\ x \in P[a]) BY <2>1, <1>1
    <3> QED BY <3>1
  <2>2. ASSUME NEW p \in Places, x \in P[p] PROVE \E r \in Places : x \in Q[r]
    <3>1. x \in Q[p] \/ x \in Q[b] BY <2>2, <1>1
    <3> QED BY <3>1
  <2> QED BY <2>1, <2>2
<1>3. ASSUME NEW p \in Places, NEW q \in Places, p # q PROVE Q[p] \cap Q[q] = {}
  <2>1. P[p] \cap P[q] = {} /\ (p # a => P[p] \cap P[a] = {}) /\ (q # a => P[q] \cap P[a] = {})
    BY <1>3 DEF Apart
  <2>2. CASE p = b BY <2>1, <2>2, <1>1, <1>3
  <2>3. CASE q = b BY <2>1, <2>3, <1>1, <1>3
  <2>4. CASE p # b /\ q # b
    <3>1. Q[p] \subseteq P[p] /\ Q[q] \subseteq P[q] BY <2>4, <1>1
    <3> QED BY <3>1, <2>1
  <2> QED BY <2>2, <2>3, <2>4
<1> QED BY <1>2, <1>3 DEF Apart, Q

\* A new entry is in the one place it goes to.
LEMMA ArrivedApart ==
  ASSUME NEW P, NEW Q, NEW n \in Nat, NEW a \in Places, Apart(P, n),
         Q[a] = P[a] \cup {n + 1}, \A p \in Places : p # a => Q[p] = P[p]
  PROVE  Apart(Q, n + 1)
<1>1. \A x : x \in 1 .. n + 1 <=> x \in 1 .. n \/ x = n + 1 OBVIOUS
<1>2. \A p \in Places : n + 1 \notin P[p]
  <2>1. n + 1 \notin 1 .. n OBVIOUS
  <2> QED BY <2>1 DEF Apart
<1>3. \A x : (\E p \in Places : x \in Q[p]) <=> ((\E p \in Places : x \in P[p]) \/ x = n + 1)
  OBVIOUS
<1>4. ASSUME NEW p \in Places, NEW q \in Places, p # q PROVE Q[p] \cap Q[q] = {}
  <2>1. P[p] \cap P[q] = {} BY <1>4 DEF Apart
  <2>2. CASE p = a BY <2>1, <2>2, <1>2, <1>4
  <2>3. CASE q = a BY <2>1, <2>3, <1>2, <1>4
  <2>4. CASE p # a /\ q # a BY <2>1, <2>4
  <2> QED BY <2>2, <2>3, <2>4
<1>5. \A x : (\E p \in Places : x \in Q[p]) <=> x \in 1 .. n + 1
  BY <1>1, <1>3 DEF Apart
<1> QED BY <1>4, <1>5 DEF Apart

\* Only what is in the places matters.
LEMMA SameApart ==
  ASSUME NEW P, NEW Q, NEW n, Apart(P, n), \A p \in Places : Q[p] = P[p]
  PROVE  Apart(Q, n)
BY DEF Apart

\* _write_entries of a batch: it goes into the files or fails, old files go,
\* and what the files have is still once, in order and bounded.
LEMMA WriteFacts ==
  ASSUME AuditInv, NEW who \in {"writer", "closer"}, NEW b \in Seq(Nat), Rising(b),
         ToSet(b) = Whereabouts[who], WriteEntries(b), second' = second
  PROVE  /\ files' \in Seq(File) /\ current_file' \in Nat /\ Named' /\ Once(files')
         /\ Entries(files') \cup removed' \subseteq Entries(files) \cup removed \cup ToSet(b)
         /\ failed' \subseteq failed \cup ToSet(b)
         /\ \A Q : (/\ Q[who] = {} /\ Q["files"] = Entries(files') /\ Q["removed"] = removed'
                    /\ Q["failed"] = failed'
                    /\ \A p \in Places \ {who, "files", "removed", "failed"} : Q[p] = Whereabouts[p])
                   => Apart(Q, logged)
         /\ /\ Sorted(files) /\ Below(Entries(files) \cup removed, ToSet(b)) /\ Below(removed, Entries(files))
            => Sorted(files') /\ Below(removed', Entries(files'))
<1> DEFINE gone == IF NeedsRotation THEN Surplus ELSE 0
           name == IF NeedsRotation THEN second ELSE current_file
           kept == SubSeq(files, gone + 1, Len(files))
           head == SubSeq(files, 1, gone)
<1>1. /\ files \in Seq(File) /\ current_file \in Nat /\ second \in Nat /\ current_file <= second
      /\ NamesRise(files) /\ (\A i \in DOMAIN files : files[i].name <= current_file)
      /\ Len(files) <= MaxFiles + 1
      /\ Len(files) = MaxFiles + 1 => files[Len(files)].name = current_file
      /\ Len(files) \in Nat /\ DOMAIN files = 1 .. Len(files) /\ MaxFiles \in Nat
  BY LenProperties, AuditAssumption DEF AuditInv, AuditTypeOK, Named
<1>a. PICK len, lim : len = Len(files) /\ lim = MaxFiles OBVIOUS
<1>b. /\ len \in Nat /\ lim \in Nat /\ len <= lim + 1 BY <1>1, <1>a
<1>c. current_file \in Nat /\ second \in Nat /\ current_file <= second BY <1>1
<1>2. gone \in 0 .. Len(files)
  <2>1. gone = 0 \/ (len > lim /\ gone = len - lim) BY <1>a DEF Surplus
  <2> HIDE DEF gone
  <2> QED BY <2>1, <1>a, <1>b
<1>3. name \in Nat /\ current_file <= name /\ name <= second
  <2>1. name = second \/ name = current_file OBVIOUS
  <2> HIDE DEF name
  <2> QED BY <2>1, <1>c
<1>4. PICK k \in 0 .. Len(b) :
        /\ failed' = failed \cup ToSet(SubSeq(b, k + 1, Len(b)))
        /\ \/ files' = Appended(kept, name, SubSeq(b, 1, k))
           \/ k = 0 /\ files' = kept
  BY DEF WriteEntries
<1>5. current_file' = name /\ removed' = removed \cup Entries(head) BY DEF WriteEntries
<1>6. /\ kept \in Seq(File) /\ Len(kept) = Len(files) - gone
      /\ \A i \in 1 .. Len(kept) : gone + i \in DOMAIN files /\ kept[i] = files[gone + i]
      /\ Entries(head) \subseteq Entries(files)
      /\ Entries(files) = Entries(head) \cup Entries(kept)
      /\ Once(files) => Once(kept) /\ Entries(head) \cap Entries(kept) = {}
      /\ Sorted(files) => Sorted(kept) /\ Below(Entries(head), Entries(kept))
      /\ NamesRise(files) => NamesRise(kept)
  <2> HIDE DEF gone
  <2> QED BY <1>1, <1>2, KeptFacts
<1>7. \/ Len(kept) <= MaxFiles
      \/ name = current_file /\ Len(kept) = Len(files) /\ \A i \in DOMAIN files : kept[i] = files[i]
  <2>1. CASE NeedsRotation
    <3>1. gone = IF len > lim THEN len - lim ELSE 0 BY <2>1, <1>a DEF Surplus
    <3>2. Len(kept) = len - gone BY <1>6, <1>a
    <3> HIDE DEF gone, kept
    <3>3. Len(kept) <= lim BY <3>1, <3>2, <1>b
    <3> QED BY <3>3, <1>a
  <2>2. CASE ~NeedsRotation
    <3>1. gone = 0 /\ name = current_file BY <2>2
    <3>2. Len(kept) = Len(files)
      <4>1. Len(kept) = len - gone /\ gone = 0 BY <3>1, <1>6, <1>a
      <4> HIDE DEF gone, kept
      <4> QED BY <4>1, <1>a, <1>b
    <3>3. \A i \in 1 .. Len(files) : kept[i] = files[i]
      <4> TAKE i \in 1 .. Len(files)
      <4>1. gone + i = i BY <3>1
      <4> QED BY <3>2, <4>1, <1>6
    <3> QED BY <3>1, <3>2, <3>3, <1>1
  <2> QED BY <2>1, <2>2
<1> HIDE DEF gone, kept, head, name
<1>8. DOMAIN kept = 1 .. Len(kept) /\ Len(kept) \in Nat BY <1>6, LenProperties
<1>9. \A i \in DOMAIN kept : kept[i].name <= name
  <2> TAKE i \in DOMAIN kept
  <2>1. gone + i \in DOMAIN files /\ kept[i] = files[gone + i] BY <1>6, <1>8
  <2>2. kept[i].name <= current_file BY <2>1, <1>1
  <2>3. kept[i] \in File BY <1>6, <1>8, ElementOfSeq
  <2>4. kept[i].name \in Nat BY <2>3 DEF File
  <2> QED BY <2>2, <2>4, <1>c, <1>3
<1> DEFINE h == SubSeq(b, 1, k)
           t == SubSeq(b, k + 1, Len(b))
<1>10. /\ h \in Seq(Nat) /\ Rising(h) /\ Len(h) = k
       /\ ToSet(h) \subseteq ToSet(b) /\ ToSet(t) = ToSet(b) \ ToSet(h)
  BY CutFacts
<1>11. failed' = failed \cup ToSet(t) BY <1>4
<1>12. files' = Appended(kept, name, h) \/ (k = 0 /\ files' = kept) BY <1>4
<1> HIDE DEF h, t
<1>13. k = 0 => ToSet(h) = {}
  <2>1. DOMAIN h = 1 .. Len(h) BY <1>10, LenProperties
  <2>2. k = 0 => DOMAIN h = {} BY <2>1, <1>10
  <2> QED BY <2>2 DEF ToSet
<1>14. PICK new : new = files' OBVIOUS
<1>15. /\ new \in Seq(File) /\ Entries(new) = Entries(kept) \cup ToSet(h)
       /\ Once(kept) /\ Entries(kept) \cap ToSet(h) = {} => Once(new)
       /\ Sorted(kept) /\ Below(Entries(kept), ToSet(h)) => Sorted(new)
       /\ NamesRise(new) /\ \A i \in DOMAIN new : new[i].name <= name
  <2>1. NamesRise(kept) BY <1>1, <1>6
  <2>2. CASE new = Appended(kept, name, h)
    <3>1. new \in Seq(File)
      <4>1. PICK old : Extends(kept, name, h, new, old) BY <2>2, <1>3, <1>6, <1>10, AppendedShape
      <4> QED BY <4>1 DEF Extends
    <3> QED BY <3>1, <2>1, <2>2, <1>3, <1>6, <1>9, <1>10, AppendedFacts
  <2>3. CASE k = 0 /\ new = kept BY <2>1, <2>3, <1>6, <1>9, <1>13
  <2> QED BY <2>2, <2>3, <1>12, <1>14
<1>16. Len(new) <= MaxFiles + 1 /\ (Len(new) = MaxFiles + 1 => new[Len(new)].name = name)
  <2>1. CASE new = Appended(kept, name, h)
    <3>1. PICK old : Extends(kept, name, h, new, old) BY <2>1, <1>3, <1>6, <1>10, AppendedShape
    <3>2. /\ Len(new) = IF kept # <<>> /\ kept[Len(kept)].name = name THEN Len(kept) ELSE Len(kept) + 1
          /\ new[Len(new)].name = name
      BY <3>1 DEF Extends
    <3>3. CASE Len(kept) <= MaxFiles BY <3>2, <3>3, <1>a, <1>b, <1>8
    <3>4. CASE name = current_file /\ Len(kept) = Len(files) /\ \A i \in DOMAIN files : kept[i] = files[i]
      <4>1. CASE Len(files) <= MaxFiles BY <3>2, <3>4, <4>1, <1>a, <1>b, <1>8
      <4>2. CASE Len(files) = MaxFiles + 1
        <5>1. Len(kept) \in DOMAIN files /\ kept[Len(kept)].name = name BY <3>4, <4>2, <1>1
        <5>2. kept # <<>>
          <6>1. Len(kept) # 0 BY <3>4, <4>2, <1>1
          <6>2. Len(<<>>) = 0 BY EmptySeq
          <6> QED BY <6>1, <6>2
        <5> QED BY <3>2, <3>4, <4>2, <5>1, <5>2, <1>1, <1>8
      <4> QED BY <4>1, <4>2, <1>a, <1>b
    <3> QED BY <3>3, <3>4, <1>7
  <2>2. CASE new = kept
    <3>1. CASE Len(kept) <= MaxFiles
      <4>1. PICK n : n = Len(kept) OBVIOUS
      <4>2. n <= lim + 1 /\ n # lim + 1 BY <3>1, <4>1, <1>8, <1>a, <1>b
      <4> QED BY <2>2, <4>1, <4>2, <1>a
    <3>2. CASE name = current_file /\ Len(kept) = Len(files) /\ \A i \in DOMAIN files : kept[i] = files[i]
      <4>1. Len(files) = MaxFiles + 1 => Len(kept) \in DOMAIN files BY <3>2, <1>1
      <4> QED BY <2>2, <3>2, <4>1, <1>1
    <3> QED BY <3>1, <3>2, <1>7
  <2> QED BY <2>1, <2>2, <1>12, <1>14
<1>17. Named' BY <1>3, <1>5, <1>14, <1>15, <1>16 DEF Named
<1>18. PICK P : P = Whereabouts OBVIOUS
<1>19. /\ Apart(P, logged) /\ Once(files)
       /\ P["files"] = Entries(files) /\ P["removed"] = removed /\ P["failed"] = failed /\ P[who] = ToSet(b)
       /\ who \in Places /\ "files" \in Places /\ "removed" \in Places /\ "failed" \in Places
       /\ who # "files" /\ who # "removed" /\ who # "failed"
  BY <1>18, AccountedIs, WhereaboutsAre DEF AuditInv, Places
<1>20. Entries(files) \cap ToSet(b) = {} BY <1>19 DEF Apart
<1>21. Once(new) BY <1>6, <1>10, <1>15, <1>19, <1>20
<1>22. ASSUME NEW Q, Q[who] = {}, Q["files"] = Entries(files'), Q["removed"] = removed',
              Q["failed"] = failed',
              \A p \in Places \ {who, "files", "removed", "failed"} : Q[p] = P[p]
       PROVE  Apart(Q, logged)
  <2> DEFINE P1 == Moved(P, "files", "removed", Entries(head))
             P2 == Moved(P1, who, "files", ToSet(h))
             P3 == Moved(P2, who, "failed", ToSet(t))
  <2>1. /\ Apart(P1, logged) /\ P1["files"] = Entries(kept) /\ P1["removed"] = removed'
        /\ \A p \in Places : p # "files" /\ p # "removed" => P1[p] = P[p]
    <3>1. Apart(P1, logged) BY <1>6, <1>19, MovedApart
    <3>2. Entries(files) \ Entries(head) = Entries(kept) BY <1>6, <1>19
    <3>3. P1["files"] = P["files"] \ Entries(head) /\ P1["removed"] = P["removed"] \cup Entries(head)
      BY <1>19 DEF Moved
    <3>4. \A p \in Places : p # "files" /\ p # "removed" => P1[p] = P[p] BY DEF Moved
    <3> QED BY <3>1, <3>2, <3>3, <3>4, <1>5, <1>19
  <2> HIDE DEF P1
  <2>2. /\ Apart(P2, logged) /\ P2["files"] = Entries(files') /\ P2[who] = ToSet(t)
        /\ \A p \in Places : p # "files" /\ p # who => P2[p] = P1[p]
    <3>1. P1[who] = ToSet(b) BY <2>1, <1>19
    <3>2. Apart(P2, logged) BY <2>1, <3>1, <1>10, <1>19, MovedApart
    <3>3. P2[who] = P1[who] \ ToSet(h) /\ P2["files"] = P1["files"] \cup ToSet(h) BY <1>19 DEF Moved
    <3>4. \A p \in Places : p # "files" /\ p # who => P2[p] = P1[p] BY DEF Moved
    <3> QED BY <2>1, <3>1, <3>2, <3>3, <3>4, <1>10, <1>14, <1>15
  <2> HIDE DEF P2
  <2>3. /\ Apart(P3, logged) /\ P3[who] = {} /\ P3["failed"] = failed'
        /\ \A p \in Places : p # "failed" /\ p # who => P3[p] = P2[p]
    <3>1. P2["failed"] = failed BY <2>1, <2>2, <1>19
    <3>2. Apart(P3, logged) BY <2>2, <1>19, MovedApart
    <3>3. P3[who] = P2[who] \ ToSet(t) /\ P3["failed"] = P2["failed"] \cup ToSet(t) BY <1>19 DEF Moved
    <3>4. \A p \in Places : p # "failed" /\ p # who => P3[p] = P2[p] BY DEF Moved
    <3> QED BY <2>2, <3>1, <3>2, <3>3, <3>4, <1>11
  <2> HIDE DEF P3
  <2>4. \A p \in Places : Q[p] = P3[p]
    <3> TAKE p \in Places
    <3>1. CASE p = who BY <3>1, <2>3, <1>22
    <3>2. CASE p = "files" BY <3>2, <2>2, <2>3, <1>19, <1>22
    <3>3. CASE p = "removed"
      <4>1. P3[p] = P2[p] /\ P2[p] = P1[p] /\ P1[p] = removed' BY <3>3, <2>1, <2>2, <2>3, <1>19
      <4> QED BY <3>3, <4>1, <1>22
    <3>4. CASE p = "failed" BY <3>4, <2>3, <1>22
    <3>5. CASE p \notin {who, "files", "removed", "failed"}
      <4>1. P3[p] = P2[p] /\ P2[p] = P1[p] /\ P1[p] = P[p] BY <3>5, <2>1, <2>2, <2>3
      <4> QED BY <3>5, <4>1, <1>22
    <3> QED BY <3>1, <3>2, <3>3, <3>4, <3>5
  <2> QED BY <2>3, <2>4, SameApart
<1>23. ASSUME Sorted(files), Below(Entries(files) \cup removed, ToSet(b)), Below(removed, Entries(files))
       PROVE  Sorted(new) /\ Below(removed', Entries(new))
  <2>1. Below(Entries(kept), ToSet(h)) BY <1>23, <1>6, <1>10 DEF Below
  <2>2. Below(Entries(head), Entries(kept)) /\ Sorted(kept) BY <1>23, <1>6
  <2>3. Below(Entries(head), ToSet(h)) BY <1>23, <1>6, <1>10 DEF Below
  <2>4. Below(removed, Entries(kept)) /\ Below(removed, ToSet(h)) BY <1>23, <1>6, <1>10 DEF Below
  <2>5. Below(removed \cup Entries(head), Entries(kept) \cup ToSet(h)) BY <2>2, <2>3, <2>4 DEF Below
  <2> QED BY <2>1, <2>2, <2>5, <1>5, <1>15
<1>24. Entries(new) \cup removed' \subseteq Entries(files) \cup removed \cup ToSet(b)
  BY <1>5, <1>6, <1>10, <1>15
<1>25. failed' \subseteq failed \cup ToSet(b) BY <1>10, <1>11
<1>26. current_file' \in Nat BY <1>3, <1>5
<1> QED BY <1>14, <1>15, <1>17, <1>18, <1>21, <1>22, <1>23, <1>24, <1>25, <1>26

\* A step that moves no entry.
LEMMA NothingMoves ==
  ASSUME AuditInv, UNCHANGED <<audit_buffer, files, current_file, dropped, failed, removed, logged>>,
         writer'.batch = writer.batch, closer'.batch = closer.batch,
         second' \in Nat, second <= second', late => late',
         AuditTypeOK', WorkersKnown', ShutdownFlushes'
  PROVE  AuditInv'
<1>1. Named'
  <2>1. current_file \in Nat /\ second \in Nat /\ current_file <= second BY DEF AuditInv, Named, AuditTypeOK
  <2>2. current_file <= second' BY <2>1
  <2> QED BY <2>2 DEF AuditInv, Named
<1>2. InLine' BY DEF AuditInv, InLine
<1>3. Whereabouts' = Whereabouts BY DEF Whereabouts
<1>4. AuditAccounted' BY <1>3 DEF AuditInv, AuditAccounted
<1> QED BY <1>1, <1>2, <1>4 DEF AuditInv

\* Nothing is logged yet.
LEMMA AuditInvInit == AuditInit => AuditInv
<1> SUFFICES ASSUME AuditInit PROVE AuditInv OBVIOUS
<1>1. /\ audit_buffer = <<>> /\ files = <<>> /\ writer = [at |-> "loop", batch |-> <<>>]
      /\ closer = [at |-> "none", batch |-> <<>>]
      /\ current_file = 0 /\ second = 0 /\ logged = 0 /\ queued_before = 0
      /\ dropped = {} /\ failed = {} /\ removed = {} /\ late = FALSE
  BY DEF AuditInit, Worker
<1>2. writer.batch = <<>> /\ closer.batch = <<>> /\ writer.at = "loop" /\ closer.at = "none" BY <1>1
<1>3. <<>> \in Seq(Nat) /\ <<>> \in Seq(File) /\ Len(<<>>) = 0 /\ DOMAIN <<>> = {} BY EmptySeq
<1>4. ToSet(<<>>) = {} BY <1>3 DEF ToSet
<1>5. Entries(<<>>) = {} BY <1>3 DEF Entries
<1>6. AuditTypeOK BY <1>1, <1>3 DEF AuditTypeOK
<1>7. MaxFiles \in Nat BY AuditAssumption
<1>8. Named BY <1>1, <1>3, <1>7 DEF Named, NamesRise
<1>9. WorkersKnown BY <1>1, <1>2 DEF WorkersKnown
<1>10. InLine BY <1>1, <1>2, <1>3, <1>4, <1>5 DEF InLine, Rising, Below, Sorted
<1>11. \A p \in Places : Whereabouts[p] = {}
  BY <1>1, <1>2, <1>4, <1>5, WhereaboutsAre DEF Places
<1>12. 1 .. logged = {} BY <1>1
<1>13. Apart(Whereabouts, logged)
  <2>1. PICK P : P = Whereabouts OBVIOUS
  <2> QED BY <2>1, <1>11, <1>12 DEF Apart
<1>14. Once(files) BY <1>1, <1>3 DEF Once
<1>15. AuditAccounted BY <1>13, <1>14, AccountedIs
<1>16. ShutdownFlushes BY <1>2 DEF ShutdownFlushes
<1> QED BY <1>6, <1>8, <1>9, <1>10, <1>15, <1>16 DEF AuditInv

\* The clock, the writer between two rounds, and shutdown up to its own
\* turn at the queue.
LEMMA QuietKeeps ==
  ASSUME AuditInv, AuditSecond \/ WriterStarts \/ WriterWrites \/ ShutdownBegins \/ ShutdownJoins
  PROVE  AuditInv'
<1>1. AuditTypeOK /\ WorkersKnown /\ ShutdownFlushes BY DEF AuditInv
<1>2. /\ second \in Nat /\ logged \in Nat /\ queued_before \in Nat /\ late \in BOOLEAN
      /\ writer \in [at : {"loop", "drain", "write", "over"}, batch : Seq(Nat)]
      /\ closer \in [at : {"none", "join", "drain", "done"}, batch : Seq(Nat)]
      /\ <<>> \in Seq(Nat)
  BY <1>1, EmptySeq DEF AuditTypeOK
<1>3. second <= second BY <1>2
<1>4. CASE AuditSecond
  <2>1. second' \in Nat /\ second <= second' BY <1>2, <1>4 DEF AuditSecond
  <2>2. UNCHANGED <<audit_buffer, writer, closer, files, current_file, logged, queued_before, dropped,
                    failed, removed, late>>
    BY <1>4 DEF AuditSecond
  <2>3. AuditTypeOK' /\ WorkersKnown' /\ ShutdownFlushes'
    BY <1>1, <2>1, <2>2 DEF AuditTypeOK, WorkersKnown, ShutdownFlushes
  <2> QED BY <2>1, <2>2, <2>3, NothingMoves
<1>5. CASE WriterStarts
  <2>1. /\ UNCHANGED <<audit_buffer, closer, files, current_file, second, logged, queued_before, dropped,
                       failed, removed, late>>
        /\ writer.at = "loop" /\ (writer' = Worker("over") \/ writer' = Worker("drain"))
    BY <1>5 DEF WriterStarts
  <2>2. writer.batch = <<>> BY <1>1, <2>1 DEF WorkersKnown
  <2>3. writer'.batch = <<>> /\ writer'.at \in {"over", "drain"} BY <2>1 DEF Worker
  <2>4. writer' \in [at : {"loop", "drain", "write", "over"}, batch : Seq(Nat)]
    <3>1. CASE writer' = [at |-> "over", batch |-> <<>>] BY <3>1, <1>2
    <3>2. CASE writer' = [at |-> "drain", batch |-> <<>>] BY <3>2, <1>2
    <3> QED BY <2>1, <3>1, <3>2 DEF Worker
  <2>5. AuditTypeOK' BY <1>1, <2>1, <2>4 DEF AuditTypeOK
  <2>6. WorkersKnown' BY <1>1, <2>1, <2>3 DEF WorkersKnown
  <2>7. ShutdownFlushes' BY <1>1, <2>1 DEF ShutdownFlushes
  <2> QED BY <1>2, <1>3, <2>1, <2>2, <2>3, <2>5, <2>6, <2>7, NothingMoves
<1>6. CASE WriterWrites
  <2>1. /\ UNCHANGED <<audit_buffer, closer, files, current_file, second, logged, queued_before, dropped,
                       failed, removed, late>>
        /\ writer.at = "drain"
        /\ writer' = IF writer.batch = <<>> THEN Worker("loop") ELSE [writer EXCEPT !.at = "write"]
    BY <1>6 DEF WriterWrites, NextRound
  <2>2. writer'.batch = writer.batch /\ writer'.at \in {"loop", "write"}
        /\ (writer'.at = "loop" => writer.batch = <<>>)
    BY <2>1, <1>2 DEF Worker
  <2>3. writer' \in [at : {"loop", "drain", "write", "over"}, batch : Seq(Nat)] BY <2>1, <1>2 DEF Worker
  <2>5. AuditTypeOK' BY <1>1, <2>1, <2>3 DEF AuditTypeOK
  <2>6. WorkersKnown' BY <1>1, <2>1, <2>2 DEF WorkersKnown
  <2>7. ShutdownFlushes' BY <1>1, <2>1 DEF ShutdownFlushes
  <2> QED BY <1>2, <1>3, <2>1, <2>2, <2>5, <2>6, <2>7, NothingMoves
<1>7. CASE ShutdownBegins
  <2>1. /\ UNCHANGED <<audit_buffer, writer, files, current_file, second, logged, dropped, failed,
                       removed, late>>
        /\ closer.at = "none" /\ closer' = Worker("join") /\ queued_before' = logged
    BY <1>7 DEF ShutdownBegins
  <2>2. closer.batch = <<>> /\ ~late BY <1>1, <1>2, <2>1 DEF WorkersKnown
  <2>3. closer'.batch = <<>> /\ closer'.at = "join" BY <2>1 DEF Worker
  <2>4. closer' \in [at : {"none", "join", "drain", "done"}, batch : Seq(Nat)] BY <2>1, <1>2 DEF Worker
  <2>5. AuditTypeOK' BY <1>1, <1>2, <2>1, <2>4 DEF AuditTypeOK
  <2>6. queued_before' <= logged' BY <1>2, <2>1
  <2>7. WorkersKnown' BY <1>1, <2>1, <2>2, <2>3, <2>6 DEF WorkersKnown
  <2>8. ShutdownFlushes' BY <2>3 DEF ShutdownFlushes
  <2> QED BY <1>2, <1>3, <2>1, <2>2, <2>3, <2>5, <2>7, <2>8, NothingMoves
<1>8. CASE ShutdownJoins
  <2>1. /\ UNCHANGED <<audit_buffer, writer, files, current_file, second, logged, queued_before, dropped,
                       failed, removed>>
        /\ closer.at = "join" /\ closer' = Worker("drain") /\ late' \in BOOLEAN
        /\ late' <=> writer.at # "over"
    BY <1>8 DEF ShutdownJoins, Joined
  <2>2. closer.batch = <<>> /\ ~late BY <1>1, <1>2, <2>1 DEF WorkersKnown
  <2>3. closer'.batch = <<>> /\ closer'.at = "drain" BY <2>1 DEF Worker
  <2>4. closer' \in [at : {"none", "join", "drain", "done"}, batch : Seq(Nat)] BY <2>1, <1>2 DEF Worker
  <2>5. AuditTypeOK' BY <1>1, <1>2, <2>1, <2>4 DEF AuditTypeOK
  <2>6. WorkersKnown' BY <1>1, <2>1, <2>2, <2>3 DEF WorkersKnown
  <2>7. ShutdownFlushes' BY <2>3 DEF ShutdownFlushes
  <2> QED BY <1>2, <1>3, <2>1, <2>2, <2>3, <2>5, <2>6, <2>7, NothingMoves
<1> QED BY <1>4, <1>5, <1>6, <1>7, <1>8

\* log_decision, log_state_change and log_error.
LEMMA LogEntryKeeps ==
  ASSUME AuditInv, LogEntry
  PROVE  AuditInv'
<1>1. AuditTypeOK /\ Named /\ WorkersKnown /\ InLine /\ AuditAccounted /\ ShutdownFlushes BY DEF AuditInv
<1>2. /\ audit_buffer \in Seq(Nat) /\ logged \in Nat /\ queued_before \in Nat /\ queued_before <= logged
      /\ dropped \in SUBSET Nat
  BY <1>1 DEF AuditTypeOK, WorkersKnown
<1>3. /\ logged' = logged + 1
      /\ UNCHANGED <<writer, closer, files, current_file, second, queued_before, failed, removed, late>>
  BY DEF LogEntry
<1>4. PICK e : e = logged + 1 OBVIOUS
<1>5. PICK P : P = Whereabouts OBVIOUS
<1>6. PICK Q : Q = Whereabouts' OBVIOUS
<1>7. Apart(P, logged) /\ Once(files) BY <1>1, <1>5, AccountedIs
<1>8. /\ P["queue"] = ToSet(audit_buffer) /\ P["writer"] = ToSet(writer.batch)
      /\ P["closer"] = ToSet(closer.batch) /\ P["files"] = Entries(files)
      /\ P["dropped"] = dropped /\ P["failed"] = failed /\ P["removed"] = removed
  BY <1>5, WhereaboutsAre
<1>9. /\ Q["queue"] = ToSet(audit_buffer') /\ Q["writer"] = ToSet(writer.batch)
      /\ Q["closer"] = ToSet(closer.batch) /\ Q["files"] = Entries(files)
      /\ Q["dropped"] = dropped' /\ Q["failed"] = failed /\ Q["removed"] = removed
  BY <1>3, <1>6 DEF Whereabouts
<1>10. e \in Nat /\ e \notin 1 .. logged /\ \A x \in 1 .. logged : x < e BY <1>2, <1>4
<1>11. \A p \in Places : \A x \in P[p] : x < e BY <1>7, <1>10 DEF Apart
<1>12. "queue" \in Places /\ "dropped" \in Places /\ "writer" \in Places /\ "closer" \in Places
       /\ "files" \in Places /\ "removed" \in Places
  BY DEF Places
<1>13. CASE audit_buffer' = Append(audit_buffer, e) /\ dropped' = dropped
  <2>1. Below(ToSet(audit_buffer), {e}) BY <1>8, <1>11, <1>12 DEF Below
  <2>2. /\ audit_buffer' \in Seq(Nat) /\ Rising(audit_buffer')
        /\ ToSet(audit_buffer') = ToSet(audit_buffer) \cup {e}
    BY <1>1, <1>2, <1>10, <1>13, <2>1, AddedFacts DEF InLine
  <2>3. \A p \in Places : p # "queue" => Q[p] = P[p] BY <1>8, <1>9, <1>13 DEF Places
  <2>4. Q["queue"] = P["queue"] \cup {e} BY <1>8, <1>9, <2>2
  <2>5. Apart(Q, logged + 1) BY <1>2, <1>4, <1>7, <1>12, <2>3, <2>4, ArrivedApart
  <2>6. AuditAccounted'
    <3>1. Apart(Whereabouts, logged)' /\ Once(files)' BY <1>3, <1>6, <1>7, <2>5 DEF Apart, Once
    <3> QED BY <3>1, AccountedIs, PTL
  <2>7. Below(ToSet(writer.batch) \cup ToSet(closer.batch) \cup Entries(files) \cup removed, {e})
    BY <1>8, <1>11, <1>12 DEF Below
  <2>8. Below(ToSet(writer.batch) \cup ToSet(closer.batch) \cup Entries(files) \cup removed,
              ToSet(audit_buffer'))
    BY <1>1, <2>2, <2>7 DEF InLine, Below
  <2>9. InLine' BY <1>1, <1>3, <2>2, <2>8 DEF InLine
  <2>10. AuditTypeOK' BY <1>1, <1>2, <1>3, <1>13, <2>2 DEF AuditTypeOK
  <2>11. e > queued_before BY <1>2, <1>4
  <2>12. ShutdownFlushes' BY <1>1, <1>3, <2>2, <2>11 DEF ShutdownFlushes
  <2>13. Named' BY <1>1, <1>3 DEF Named
  <2>14. queued_before' <= logged' BY <1>2, <1>3
  <2>15. WorkersKnown' BY <1>1, <1>3, <2>14 DEF WorkersKnown
  <2> QED BY <2>6, <2>9, <2>10, <2>12, <2>13, <2>15 DEF AuditInv
<1>14. CASE dropped' = dropped \cup {e} /\ audit_buffer' = audit_buffer
  <2>1. \A p \in Places : p # "dropped" => Q[p] = P[p] BY <1>8, <1>9, <1>14 DEF Places
  <2>2. Q["dropped"] = P["dropped"] \cup {e} BY <1>8, <1>9, <1>14
  <2>3. Apart(Q, logged + 1) BY <1>2, <1>4, <1>7, <1>12, <2>1, <2>2, ArrivedApart
  <2>4. AuditAccounted'
    <3>1. Apart(Whereabouts, logged)' /\ Once(files)' BY <1>3, <1>6, <1>7, <2>3 DEF Apart, Once
    <3> QED BY <3>1, AccountedIs, PTL
  <2>5. InLine' BY <1>1, <1>3, <1>14 DEF InLine
  <2>6. dropped' \in SUBSET Nat /\ logged' \in Nat BY <1>2, <1>3, <1>10, <1>14
  <2>7. AuditTypeOK' BY <1>1, <1>3, <1>14, <2>6 DEF AuditTypeOK
  <2>8. ShutdownFlushes' BY <1>1, <1>3, <1>14 DEF ShutdownFlushes
  <2>9. Named' BY <1>1, <1>3 DEF Named
  <2>10. queued_before' <= logged' BY <1>2, <1>3
  <2>11. WorkersKnown' BY <1>1, <1>3, <2>10 DEF WorkersKnown
  <2> QED BY <2>4, <2>5, <2>7, <2>8, <2>9, <2>11 DEF AuditInv
<1> QED BY <1>4, <1>13, <1>14 DEF LogEntry

\* The next entry of the queue, for the writer or for shutdown.
LEMMA TakesKeep ==
  ASSUME AuditInv, WriterTakes \/ ShutdownTakes
  PROVE  AuditInv'
<1>1. AuditTypeOK /\ Named /\ WorkersKnown /\ InLine /\ AuditAccounted /\ ShutdownFlushes BY DEF AuditInv
<1>2. /\ audit_buffer \in Seq(Nat) /\ Rising(audit_buffer)
      /\ writer \in [at : {"loop", "drain", "write", "over"}, batch : Seq(Nat)]
      /\ closer \in [at : {"none", "join", "drain", "done"}, batch : Seq(Nat)]
      /\ writer.batch \in Seq(Nat) /\ closer.batch \in Seq(Nat) /\ late \in BOOLEAN
      /\ Rising(writer.batch) /\ Rising(closer.batch)
  BY <1>1 DEF AuditTypeOK, InLine
<1>3. /\ audit_buffer # <<>> /\ audit_buffer' = Tail(audit_buffer)
      /\ UNCHANGED <<files, current_file, second, logged, queued_before, dropped, failed, removed, late>>
  BY DEF WriterTakes, ShutdownTakes
<1>4. PICK e : e = Head(audit_buffer) OBVIOUS
<1>5. /\ e \in Nat /\ audit_buffer' \in Seq(Nat) /\ Rising(audit_buffer')
      /\ e \in ToSet(audit_buffer) /\ ToSet(audit_buffer') = ToSet(audit_buffer) \ {e}
      /\ Below({e}, ToSet(audit_buffer'))
  BY <1>2, <1>3, <1>4, TakenFacts
<1>6. Below(ToSet(writer.batch) \cup ToSet(closer.batch) \cup Entries(files) \cup removed, {e})
  BY <1>1, <1>5 DEF InLine, Below
<1>a. PICK w : w = writer'.batch OBVIOUS
<1>b. PICK c : c = closer'.batch OBVIOUS
<1>7. PICK who \in {"writer", "closer"} :
        /\ w = writer'.batch /\ c = closer'.batch
        /\ who = "writer" => /\ w = Append(writer.batch, e) /\ c = closer.batch
                             /\ writer.at = "drain" /\ writer'.at = writer.at /\ closer' = closer
        /\ who = "closer" => /\ c = Append(closer.batch, e) /\ w = writer.batch
                             /\ closer.at = "drain" /\ closer'.at = closer.at /\ writer' = writer
        /\ writer' \in [at : {"loop", "drain", "write", "over"}, batch : Seq(Nat)]
        /\ closer' \in [at : {"none", "join", "drain", "done"}, batch : Seq(Nat)]
  <2>1. CASE WriterTakes
    <3>1. /\ writer.at = "drain" /\ closer' = closer
          /\ writer' = [writer EXCEPT !.batch = Append(writer.batch, e)]
      BY <2>1, <1>4 DEF WriterTakes
    <3>2. Append(writer.batch, e) \in Seq(Nat) BY <1>2, <1>5, AppendProperties
    <3>3. /\ writer'.batch = Append(writer.batch, e) /\ writer'.at = writer.at
          /\ writer' \in [at : {"loop", "drain", "write", "over"}, batch : Seq(Nat)]
      BY <3>1, <3>2, <1>2
    <3> WITNESS "writer" \in {"writer", "closer"}
    <3> QED BY <3>1, <3>3, <1>2, <1>a, <1>b
  <2>2. CASE ShutdownTakes
    <3>1. /\ closer.at = "drain" /\ writer' = writer
          /\ closer' = [closer EXCEPT !.batch = Append(closer.batch, e)]
      BY <2>2, <1>4 DEF ShutdownTakes
    <3>2. Append(closer.batch, e) \in Seq(Nat) BY <1>2, <1>5, AppendProperties
    <3>3. /\ closer'.batch = Append(closer.batch, e) /\ closer'.at = closer.at
          /\ closer' \in [at : {"none", "join", "drain", "done"}, batch : Seq(Nat)]
      BY <3>1, <3>2, <1>2
    <3> WITNESS "closer" \in {"writer", "closer"}
    <3> QED BY <3>1, <3>3, <1>2, <1>a, <1>b
  <2> QED BY <2>1, <2>2
<1>8. /\ Below(ToSet(writer.batch), {e}) /\ Below(ToSet(closer.batch), {e}) BY <1>6 DEF Below
<1>9. /\ Rising(w) /\ Rising(c)
      /\ who = "writer" => ToSet(w) = ToSet(writer.batch) \cup {e} /\ ToSet(c) = ToSet(closer.batch)
      /\ who = "closer" => ToSet(c) = ToSet(closer.batch) \cup {e} /\ ToSet(w) = ToSet(writer.batch)
  <2>1. CASE who = "writer"
    <3>1. Rising(Append(writer.batch, e)) /\ ToSet(Append(writer.batch, e)) = ToSet(writer.batch) \cup {e}
      BY <1>2, <1>5, <1>8, AddedFacts
    <3> QED BY <2>1, <3>1, <1>2, <1>7
  <2>2. CASE who = "closer"
    <3>1. Rising(Append(closer.batch, e)) /\ ToSet(Append(closer.batch, e)) = ToSet(closer.batch) \cup {e}
      BY <1>2, <1>5, <1>8, AddedFacts
    <3> QED BY <2>2, <3>1, <1>2, <1>7
  <2> QED BY <2>1, <2>2
<1>10. ToSet(w) \cup ToSet(c) = ToSet(writer.batch) \cup ToSet(closer.batch) \cup {e} BY <1>9
<1>11. InLine'
  <2>1. Below(ToSet(w) \cup ToSet(c) \cup Entries(files) \cup removed, ToSet(audit_buffer'))
    BY <1>1, <1>5, <1>10 DEF InLine, Below
  <2>2. ~late => Below(Entries(files) \cup removed, ToSet(w) \cup ToSet(c))
    BY <1>1, <1>6, <1>10 DEF InLine, Below
  <2> QED BY <2>1, <2>2, <1>1, <1>3, <1>5, <1>7, <1>9 DEF InLine
<1>12. AuditAccounted'
  <2>1. PICK P : P = Whereabouts OBVIOUS
  <2>2. PICK Q : Q = Whereabouts' OBVIOUS
  <2>3. Apart(P, logged) /\ Once(files) BY <1>1, <2>1, AccountedIs
  <2>4. /\ P["queue"] = ToSet(audit_buffer) /\ P["writer"] = ToSet(writer.batch)
        /\ P["closer"] = ToSet(closer.batch) /\ P["files"] = Entries(files)
        /\ P["dropped"] = dropped /\ P["failed"] = failed /\ P["removed"] = removed
    BY <2>1, WhereaboutsAre
  <2>5. /\ Q["queue"] = ToSet(audit_buffer') /\ Q["writer"] = ToSet(w)
        /\ Q["closer"] = ToSet(c) /\ Q["files"] = Entries(files)
        /\ Q["dropped"] = dropped /\ Q["failed"] = failed /\ Q["removed"] = removed
    BY <1>3, <1>7, <2>2 DEF Whereabouts
  <2> DEFINE M == Moved(P, "queue", who, {e})
  <2>6. who \in Places /\ "queue" \in Places /\ "queue" # who BY DEF Places
  <2>7. Apart(M, logged) BY <1>5, <2>3, <2>4, <2>6, MovedApart
  <2>8. /\ M["queue"] = P["queue"] \ {e} /\ M[who] = P[who] \cup {e}
        /\ \A p \in Places : p # "queue" /\ p # who => M[p] = P[p]
    BY <2>6 DEF Moved
  <2> HIDE DEF M
  <2>9. \A p \in Places : Q[p] = M[p]
    <3>1. CASE who = "writer" BY <3>1, <1>5, <1>9, <2>4, <2>5, <2>8 DEF Places
    <3>2. CASE who = "closer" BY <3>2, <1>5, <1>9, <2>4, <2>5, <2>8 DEF Places
    <3> QED BY <3>1, <3>2
  <2>10. Apart(Q, logged) BY <2>7, <2>9, SameApart
  <2>11. Apart(Whereabouts, logged)' /\ Once(files)' BY <1>3, <2>2, <2>3, <2>10 DEF Apart, Once
  <2> QED BY <2>11, AccountedIs, PTL
<1>13. AuditTypeOK' BY <1>1, <1>3, <1>5, <1>7 DEF AuditTypeOK
<1>14. Named' BY <1>1, <1>3 DEF Named
<1>15. WorkersKnown'
  <2>1. CASE who = "writer" BY <2>1, <1>1, <1>3, <1>7 DEF WorkersKnown
  <2>2. CASE who = "closer" BY <2>2, <1>1, <1>3, <1>7 DEF WorkersKnown
  <2> QED BY <2>1, <2>2
<1>16. ShutdownFlushes'
  <2>1. closer'.at = closer.at BY <1>7
  <2> QED BY <2>1, <1>1, <1>3, <1>5 DEF ShutdownFlushes
<1> QED BY <1>11, <1>12, <1>13, <1>14, <1>15, <1>16 DEF AuditInv

\* The writer, or shutdown, writes what it took.
LEMMA WritesKeep ==
  ASSUME AuditInv, WriterWritten \/ ShutdownWrites
  PROVE  AuditInv'
<1>1. AuditTypeOK /\ Named /\ WorkersKnown /\ InLine /\ AuditAccounted /\ ShutdownFlushes BY DEF AuditInv
<1>2. /\ audit_buffer \in Seq(Nat) /\ Rising(audit_buffer)
      /\ writer \in [at : {"loop", "drain", "write", "over"}, batch : Seq(Nat)]
      /\ closer \in [at : {"none", "join", "drain", "done"}, batch : Seq(Nat)]
      /\ writer.batch \in Seq(Nat) /\ closer.batch \in Seq(Nat) /\ late \in BOOLEAN
      /\ Rising(writer.batch) /\ Rising(closer.batch)
      /\ failed \in SUBSET Nat /\ removed \in SUBSET Nat
  BY <1>1 DEF AuditTypeOK, InLine
<1>3. UNCHANGED <<audit_buffer, second, logged, queued_before, dropped, late>>
  BY DEF WriterWritten, ShutdownWrites
<1>4. <<>> \in Seq(Nat) /\ DOMAIN <<>> = {} BY EmptySeq
<1>5. ToSet(<<>>) = {} /\ Rising(<<>>) BY <1>4 DEF ToSet, Rising
<1>6. CASE ShutdownWrites /\ closer.batch = <<>>
  <2>1. /\ UNCHANGED <<files, current_file, failed, removed, writer>>
        /\ closer.at = "drain" /\ closer' = [at |-> "done", batch |-> <<>>] /\ audit_buffer = <<>>
    BY <1>6 DEF ShutdownWrites, Worker, Drained
  <2>2. closer'.batch = <<>> /\ closer'.at = "done" BY <2>1
  <2>3. closer' \in [at : {"none", "join", "drain", "done"}, batch : Seq(Nat)] BY <2>1, <1>4
  <2>4. AuditTypeOK' BY <1>1, <1>3, <2>1, <2>3 DEF AuditTypeOK
  <2>5. WorkersKnown' BY <1>1, <1>3, <2>1, <2>2 DEF WorkersKnown
  <2>6. ShutdownFlushes' BY <1>3, <1>5, <2>1 DEF ShutdownFlushes
  <2>7. second \in Nat /\ second <= second BY <1>1 DEF AuditTypeOK
  <2> QED BY <1>3, <1>6, <2>1, <2>2, <2>4, <2>5, <2>6, <2>7, NothingMoves
<1>7. CASE WriterWritten \/ (ShutdownWrites /\ closer.batch # <<>>)
  <2>a. PICK w : w = writer'.batch OBVIOUS
  <2>b. PICK c : c = closer'.batch OBVIOUS
  <2>1. PICK who \in {"writer", "closer"}, b \in {writer.batch, closer.batch} :
          /\ w = writer'.batch /\ c = closer'.batch /\ WriteEntries(b)
          /\ who = "writer" => /\ b = writer.batch /\ w = <<>> /\ c = closer.batch
                               /\ writer.at = "write" /\ writer'.at = "loop" /\ closer' = closer
          /\ who = "closer" => /\ b = closer.batch /\ c = <<>> /\ w = writer.batch /\ audit_buffer = <<>>
                               /\ closer.at = "drain" /\ closer'.at = "done" /\ writer' = writer
          /\ writer' \in [at : {"loop", "drain", "write", "over"}, batch : Seq(Nat)]
          /\ closer' \in [at : {"none", "join", "drain", "done"}, batch : Seq(Nat)]
    <3>1. CASE WriterWritten
      <4>1. /\ writer.at = "write" /\ closer' = closer /\ WriteEntries(writer.batch)
            /\ writer' = [at |-> "loop", batch |-> <<>>]
        BY <3>1 DEF WriterWritten, NextRound, Worker
      <4>2. /\ writer'.batch = <<>> /\ writer'.at = "loop"
            /\ writer' \in [at : {"loop", "drain", "write", "over"}, batch : Seq(Nat)]
        BY <4>1, <1>4
      <4> WITNESS "writer" \in {"writer", "closer"}, writer.batch \in {writer.batch, closer.batch}
      <4> QED BY <4>1, <4>2, <1>2, <2>a, <2>b
    <3>2. CASE ShutdownWrites /\ closer.batch # <<>>
      <4>1. /\ closer.at = "drain" /\ writer' = writer /\ WriteEntries(closer.batch) /\ audit_buffer = <<>>
            /\ closer' = [at |-> "done", batch |-> <<>>]
        BY <3>2 DEF ShutdownWrites, Drained, Worker
      <4>2. /\ closer'.batch = <<>> /\ closer'.at = "done"
            /\ closer' \in [at : {"none", "join", "drain", "done"}, batch : Seq(Nat)]
        BY <4>1, <1>4
      <4> WITNESS "closer" \in {"writer", "closer"}, closer.batch \in {writer.batch, closer.batch}
      <4> QED BY <4>1, <4>2, <1>2, <2>a, <2>b
    <3> QED BY <1>7, <3>1, <3>2
  <2>2. b \in Seq(Nat) /\ Rising(b) /\ ToSet(b) = Whereabouts[who]
    <3>1. CASE who = "writer" BY <3>1, <1>2, <2>1, WhereaboutsAre
    <3>2. CASE who = "closer" BY <3>2, <1>2, <2>1, WhereaboutsAre
    <3> QED BY <3>1, <3>2
  <2>3. PICK P : P = Whereabouts OBVIOUS
  <2>4. /\ files' \in Seq(File) /\ current_file' \in Nat /\ Named' /\ Once(files')
        /\ Entries(files') \cup removed' \subseteq Entries(files) \cup removed \cup ToSet(b)
        /\ failed' \subseteq failed \cup ToSet(b)
        /\ \A Q : (/\ Q[who] = {} /\ Q["files"] = Entries(files') /\ Q["removed"] = removed'
                   /\ Q["failed"] = failed'
                   /\ \A p \in Places \ {who, "files", "removed", "failed"} : Q[p] = P[p])
                  => Apart(Q, logged)
        /\ /\ Sorted(files) /\ Below(Entries(files) \cup removed, ToSet(b)) /\ Below(removed, Entries(files))
           => Sorted(files') /\ Below(removed', Entries(files'))
    BY <1>3, <2>1, <2>2, <2>3, WriteFacts
  <2>5. /\ P["queue"] = ToSet(audit_buffer) /\ P["writer"] = ToSet(writer.batch)
        /\ P["closer"] = ToSet(closer.batch) /\ P["files"] = Entries(files)
        /\ P["dropped"] = dropped /\ P["failed"] = failed /\ P["removed"] = removed
    BY <2>3, WhereaboutsAre
  <2>6. PICK Q : Q = Whereabouts' OBVIOUS
  <2>7. /\ Q["queue"] = ToSet(audit_buffer) /\ Q["writer"] = ToSet(w)
        /\ Q["closer"] = ToSet(c) /\ Q["files"] = Entries(files')
        /\ Q["dropped"] = dropped /\ Q["failed"] = failed' /\ Q["removed"] = removed'
    BY <1>3, <2>1, <2>6 DEF Whereabouts
  <2>8. Q[who] = {} /\ \A p \in Places \ {who, "files", "removed", "failed"} : Q[p] = P[p]
    <3>1. CASE who = "writer" BY <3>1, <1>5, <2>1, <2>5, <2>7 DEF Places
    <3>2. CASE who = "closer" BY <3>2, <1>5, <2>1, <2>5, <2>7 DEF Places
    <3> QED BY <3>1, <3>2
  <2>9. Apart(Q, logged) BY <2>4, <2>7, <2>8
  <2>10. AuditAccounted'
    <3>1. Apart(Whereabouts, logged)' /\ Once(files)' BY <1>3, <2>4, <2>6, <2>9 DEF Apart, Once
    <3> QED BY <3>1, AccountedIs, PTL
  <2>11. ToSet(w) \cup ToSet(c) \subseteq ToSet(writer.batch) \cup ToSet(closer.batch)
         /\ ToSet(b) \subseteq ToSet(writer.batch) \cup ToSet(closer.batch)
         /\ Rising(w) /\ Rising(c)
    <3>1. CASE who = "writer" BY <3>1, <1>2, <1>5, <2>1
    <3>2. CASE who = "closer" BY <3>2, <1>2, <1>5, <2>1
    <3> QED BY <3>1, <3>2
  <2>12. ~late => w = <<>> /\ c = <<>>
    <3>1. CASE who = "writer" BY <3>1, <1>1, <1>2, <2>1 DEF WorkersKnown
    <3>2. CASE who = "closer" BY <3>2, <1>1, <1>2, <2>1 DEF WorkersKnown
    <3> QED BY <3>1, <3>2
  <2>13. InLine'
    <3>1. Below(ToSet(w) \cup ToSet(c) \cup Entries(files') \cup removed', ToSet(audit_buffer))
      <4>1. ToSet(w) \cup ToSet(c) \cup Entries(files') \cup removed' \subseteq
              ToSet(writer.batch) \cup ToSet(closer.batch) \cup Entries(files) \cup removed
        BY <2>4, <2>11
      <4> QED BY <4>1, <1>1 DEF InLine, Below
    <3>2. ASSUME ~late PROVE /\ Below(Entries(files') \cup removed', ToSet(w) \cup ToSet(c))
                             /\ Below(removed', Entries(files')) /\ Sorted(files')
      <4>1. ToSet(w) \cup ToSet(c) = {} BY <3>2, <2>12, <1>5
      <4>2. Sorted(files) /\ Below(Entries(files) \cup removed, ToSet(b)) /\ Below(removed, Entries(files))
        BY <3>2, <1>1, <2>11 DEF InLine, Below
      <4> QED BY <4>1, <4>2, <2>4 DEF Below
    <3> QED BY <3>1, <3>2, <1>2, <1>3, <2>1, <2>11 DEF InLine
  <2>14. failed' \in SUBSET Nat /\ removed' \in SUBSET Nat
    <3>1. Apart(P, logged) BY <1>1, <2>3, AccountedIs
    <3>2. \A p \in Places : P[p] \subseteq Nat
      <4>1. 1 .. logged \subseteq Nat OBVIOUS
      <4> QED BY <3>1, <4>1 DEF Apart
    <3>3. Entries(files) \subseteq Nat /\ ToSet(b) \subseteq Nat
      BY <3>2, <2>2, <2>3, <2>5 DEF Places
    <3> QED BY <3>3, <1>2, <2>4
  <2>15. AuditTypeOK' BY <1>1, <1>3, <2>1, <2>4, <2>14 DEF AuditTypeOK
  <2>16. WorkersKnown'
    <3>1. CASE who = "writer" BY <3>1, <1>1, <1>3, <2>1 DEF WorkersKnown
    <3>2. CASE who = "closer" BY <3>2, <1>1, <1>3, <2>1 DEF WorkersKnown
    <3> QED BY <3>1, <3>2
  <2>17. ShutdownFlushes'
    <3>1. CASE who = "writer" BY <3>1, <1>1, <1>3, <2>1 DEF ShutdownFlushes
    <3>2. CASE who = "closer" BY <3>2, <1>3, <1>5, <2>1 DEF ShutdownFlushes
    <3> QED BY <3>1, <3>2
  <2> QED BY <2>4, <2>10, <2>13, <2>15, <2>16, <2>17 DEF AuditInv
<1> QED BY <1>6, <1>7

\* Every step keeps the invariant.
LEMMA AuditInvStep == AuditInv /\ [AuditNext]_auditVars => AuditInv'
<1> SUFFICES ASSUME AuditInv, [AuditNext]_auditVars PROVE AuditInv' OBVIOUS
<1>1. CASE UNCHANGED auditVars
  <2>1. UNCHANGED <<audit_buffer, writer, closer, files, current_file, second, logged, queued_before,
                    dropped, failed, removed, late>>
    BY <1>1 DEF auditVars
  <2>2. AuditTypeOK' /\ WorkersKnown' /\ ShutdownFlushes'
    BY <2>1 DEF AuditInv, AuditTypeOK, WorkersKnown, ShutdownFlushes
  <2>3. second \in Nat /\ second <= second BY DEF AuditInv, AuditTypeOK
  <2> QED BY <2>1, <2>2, <2>3, NothingMoves
<1>2. CASE AuditNext
  BY <1>2, QuietKeeps, LogEntryKeeps, TakesKeep, WritesKeep DEF AuditNext, WriterStep, CloserStep
<1> QED BY <1>1, <1>2

\* The invariant says what AuditKept says.
LEMMA AuditShown == AuditInv => AuditKept
<1> SUFFICES ASSUME AuditInv PROVE AuditKept OBVIOUS
<1>1. AuditOrdered BY DEF AuditInv, InLine, AuditOrdered, Sorted, Below
<1>2. FilesBounded
  <2>1. /\ files \in Seq(File) /\ NamesRise(files) /\ Len(files) <= MaxFiles + 1
        /\ DOMAIN files = 1 .. Len(files) /\ Len(files) \in Nat
    BY LenProperties DEF AuditInv, AuditTypeOK, Named
  <2>2. ASSUME NEW i \in DOMAIN files, NEW j \in DOMAIN files, files[i].name = files[j].name PROVE i = j
    <3>1. files[i] \in File BY <2>1, ElementOfSeq
    <3>2. files[i].name \in Nat BY <3>1 DEF File
    <3>3. ~(i < j) /\ ~(j < i) BY <2>1, <2>2, <3>2 DEF NamesRise
    <3> QED BY <3>3, <2>1
  <2> QED BY <2>1, <2>2 DEF FilesBounded
<1> QED BY <1>1, <1>2 DEF AuditInv, AuditKept

\* Whatever is logged, however the writer and shutdown overlap, whichever
\* writes fail and whenever files are rotated, the audit log keeps its
\* entries: each is in one place and once, in order unless shutdown overtook
\* the writer, shutdown leaves none queued, and no more than one file beyond
\* max_files stays (AsyncFileAuditLogger and RotatingAuditLogger of audit.py).
THEOREM AuditAlwaysKept == AuditSpec => []AuditKept
<1>1. AuditInit => AuditInv BY AuditInvInit
<1>2. AuditInv /\ [AuditNext]_auditVars => AuditInv' BY AuditInvStep
<1>3. AuditInv => AuditKept BY AuditShown
<1> QED BY <1>1, <1>2, <1>3, PTL DEF AuditSpec

-----------------------------------------------------------------------------
(***************************************************************************)
(* The providers and the security helpers beside each other.               *)
(***************************************************************************)

\* Whichever part a behaviour exercises, each part behaves as its own module
\* says, so that what is proved of the modules holds of what the runs check.
THEOREM ProvidersCompose == ProvidersSpec => SimSpec /\ BrokerSpec /\ HealthSpec /\ GuardSpec /\ AuditSpec
<1>1. ProvidersInit => SimInit /\ BrokerInit /\ HealthInit /\ GuardInit /\ AuditInit
  BY DEF ProvidersInit
<1>2. [ProvidersNext]_providerVars =>
        /\ [SimNext]_simVars /\ [BrokerNext]_brokerVars
        /\ [HealthNext]_healthVars /\ [GuardNext]_guardVars /\ [AuditNext]_auditVars
  <2>1. CASE UNCHANGED providerVars
    <3>1. UNCHANGED <<simVars, brokerVars, healthVars, guardVars, auditVars>>
      BY <2>1 DEF providerVars
    <3>2. QED
      BY <3>1
  <2>2. CASE ProvidersNext
    <3>1. /\ SimNext \/ UNCHANGED simVars
          /\ BrokerNext \/ UNCHANGED brokerVars
          /\ HealthNext \/ UNCHANGED healthVars
          /\ GuardNext \/ UNCHANGED guardVars
          /\ AuditNext \/ UNCHANGED auditVars
      BY <2>2 DEF ProvidersNext
    <3>2. QED
      BY <3>1
  <2>3. QED
    BY <2>1, <2>2
<1>3. QED
  BY <1>1, <1>2, PTL DEF ProvidersSpec, SimSpec, BrokerSpec, HealthSpec, GuardSpec, AuditSpec

\* Positions and health are those of the moment: subscribers are told the
\* portfolio as it is, a provider listens while somebody is subscribed, stale
\* positions come only from a call that failed, and health is that of the last
\* operations, for any number of threads, any times and any window.
THEOREM PositionsAlwaysCurrent == ProvidersSpec => []PositionsCurrent
<1>1. ToldCurrent /\ ListensWhileSubscribed /\ FreshOrFailed /\ HealthOfRecent => PositionsCurrent
  BY DEF PositionsCurrent
<1>2. QED
  BY <1>1, ProvidersCompose, AlwaysToldCurrent, AlwaysListens, PositionsFreshOrFailed,
     HealthAlwaysRecent, PTL

=============================================================================
