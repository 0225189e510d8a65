----------------------- MODULE CorrelationGateProofs -----------------------
(***************************************************************************)
(* Proofs about CorrelationGate, for any set of signals, any limits and    *)
(* any timeouts.  GateTypeOK is inductive as it stands.  Accounted is not: *)
(* GateInv adds how long each trade stays pending (CacheCovered,           *)
(* FetchCovered), which needs a bound on how old a fetch in progress is    *)
(* (Timely) and that only executed trades are open and only seen ones are  *)
(* confirmed (Lifecycle).                                                  *)
(*                                                                         *)
(* LimitsHold needs that what is open, let through or about to be opened   *)
(* (Committed) stays under the limits: a decision counts all of it, in the *)
(* cache or as pending, and values none of it below its least value        *)
(* (LeastIsLeast).  What was open before the gate came up must have been   *)
(* below the limits (StartsBelow); prices may be anything and may move.    *)
(***************************************************************************)
EXTENDS CorrelationGate, FunctionTheorems, FiniteSetTheorems, WellFoundedInduction, TLAPS

USE GateAssumption

-----------------------------------------------------------------------------
(* What one evaluation may change *)

\* A verdict is one of the three decisions of gate.py _evaluate_thresholds.
LEMMA VerdictType ==
  ASSUME NEW s, NEW book
  PROVE  Verdict(s, book) \in {"HARD_BLOCK"} \cup Allowed
  BY DEF Verdict, Allowed

\* The decision part of evaluate(), whatever the exposure is: it moves only the
\* evaluated signal, out of the gate, and of the pending signals it drops none
\* that has not expired.
LEMMA DecideEffect ==
  ASSUME GateTypeOK, NEW s \in Signals, NEW cached, Decide(s, cached)
  PROVE  /\ eval' \in [Signals -> EvalStates]
         /\ eval'[s] \notin InProvider
         /\ \A t \in Signals \ {s} : eval'[t] = eval[t]
         /\ DOMAIN pending' \subseteq Signals
         /\ \A t \in DOMAIN pending' :
              pending'[t] \in 0..(MaxTime + PendingTimeout)
         /\ \A t \in Live \ {s} : t \in DOMAIN pending' /\ pending'[t] = pending[t]
  <1> DEFINE v == Verdict(s, ProjectedBook(s, cached))
  <1>1. v \in {"HARD_BLOCK"} \cup Allowed
    BY VerdictType
  <1>2. \/ eval' = [eval EXCEPT ![s] = "HARD_BLOCK"] /\ pending' = pending
        \/ eval' = [eval EXCEPT ![s] = v] /\ (Purge \/ Register(s))
    BY DEF Decide, FailClosed
  <1> HIDE DEF v
  <1>3. /\ eval' \in [Signals -> EvalStates]
        /\ eval'[s] \notin InProvider
        /\ \A t \in Signals \ {s} : eval'[t] = eval[t]
    BY <1>1, <1>2 DEF GateTypeOK, EvalStates, Evaluating, InProvider, Allowed
  <1>4. Live \subseteq DOMAIN pending
    BY DEF Live
  <1>5. CASE pending' = pending
    BY <1>3, <1>4, <1>5 DEF GateTypeOK
  <1>6. CASE Purge
    BY <1>3, <1>4, <1>6 DEF GateTypeOK, Purge
  <1>7. CASE Register(s)
    <2>1. clock + PendingTimeout \in 0..(MaxTime + PendingTimeout)
      BY DEF GateTypeOK
    <2> QED
      BY <1>3, <1>4, <1>7, <2>1 DEF GateTypeOK, Register
  <1> QED
    BY <1>2, <1>5, <1>6, <1>7

-----------------------------------------------------------------------------
(* Types and the lock *)

\* Every step of gate.py and of its environment keeps the types and gives the
\* lock back.
LEMMA TypeStep ==
  ASSUME GateTypeOK, [Next]_vars
  PROVE  GateTypeOK'
  <1> USE DEF Free, Never, NoReply, Starting, Evaluating, InProvider, Allowed, EvalStates
  <1>1. CASE InitializeBegin
    BY <1>1 DEF GateTypeOK, InitializeBegin, CallProvider
  <1>2. CASE InitializeOk
    BY <1>2 DEF GateTypeOK, InitializeOk, ProviderReturns, StorePositions
  <1>3. CASE InitializeFails
    BY <1>3 DEF GateTypeOK, InitializeFails, ProviderReturns
  <1>4. CASE RefreshBegin
    BY <1>4 DEF GateTypeOK, RefreshBegin, CallProvider
  <1>5. CASE RefreshOk
    BY <1>5 DEF GateTypeOK, RefreshOk, ProviderReturns, StorePositions
  <1>6. CASE RefreshFails
    BY <1>6 DEF GateTypeOK, RefreshFails, ProviderReturns
  <1>7. ASSUME NEW s \in Signals, EvalStep(s) \/ EvalReturn(s)
        PROVE  GateTypeOK'
    <2>1. CASE EvalRefused(s) \/ EvalInvalid(s) \/ EvalLockTimeout(s)
      BY <2>1 DEF GateTypeOK, EvalRefused, EvalInvalid, EvalLockTimeout,
                  FailClosed, gateVars
    <2>2. CASE EvalEnter(s) \/ EvalChecked(s)
      BY <2>2 DEF GateTypeOK, EvalEnter, EvalChecked, gateVars
    <2>3. CASE EvalCached(s)
      <3>1. Decide(s, positions)
        BY <2>3 DEF EvalCached
      <3>2. UNCHANGED <<state, lock, positions, fetchedAt, spot, reply, broker, clock>>
            /\ lock = Free
        BY <2>3 DEF EvalCached
      <3>3. \A t \in Signals : lock = t <=> eval'[t] \in InProvider
        BY <3>1, <3>2, DecideEffect DEF GateTypeOK
      <3> QED
        BY <3>1, <3>2, <3>3, DecideEffect DEF GateTypeOK
    <2>4. CASE EvalFetch(s)
      <3>1. /\ lock = Free /\ lock' = s
            /\ reply' = [from |-> clock, seen |-> broker]
            /\ eval' = [eval EXCEPT ![s] = "fetching"]
            /\ UNCHANGED <<state, positions, fetchedAt, pending, spot, broker, clock>>
        BY <2>4 DEF EvalFetch, CallProvider
      <3>2. /\ reply' \in [from : {Never} \cup 0..MaxTime, seen : SUBSET Signals]
            /\ reply' # NoReply
        BY <3>1 DEF GateTypeOK
      <3>3. \A t \in Signals : lock' = t <=> eval'[t] \in InProvider
        BY <3>1 DEF GateTypeOK
      <3> QED
        BY <3>1, <3>2, <3>3 DEF GateTypeOK
    <2>5. CASE EvalFetched(s)
      <3>1. Decide(s, reply.seen)
        BY <2>5 DEF EvalFetched
      <3>2. /\ lock = s /\ lock' = Free /\ reply' = NoReply
            /\ positions' = reply.seen /\ fetchedAt' = clock
            /\ UNCHANGED <<state, spot, broker, clock>>
        BY <2>5 DEF EvalFetched, ProviderReturns, StorePositions
      <3>3. \A t \in Signals : eval'[t] \notin InProvider
        BY <3>1, <3>2, DecideEffect DEF GateTypeOK
      <3>4. reply.seen \subseteq Signals /\ clock \in 0..MaxTime
        BY DEF GateTypeOK
      <3> QED
        BY <3>1, <3>2, <3>3, <3>4, DecideEffect DEF GateTypeOK
    <2>6. CASE EvalFetchError(s) \/ EvalLateReturn(s)
      BY <2>6 DEF GateTypeOK, EvalFetchError, EvalLateReturn, ProviderReturns, FailClosed
    <2>7. CASE EvalFetchTimeout(s)
      BY <2>7 DEF GateTypeOK, EvalFetchTimeout, gateVars
    <2> QED
      BY <1>7, <2>1, <2>2, <2>3, <2>4, <2>5, <2>6, <2>7 DEF EvalStep, EvalReturn
  <1>8. ASSUME NEW s \in Signals, EngineStep(s)
        PROVE  GateTypeOK'
    <2>1. CASE ConfirmExecution(s) \/ CancelPending(s)
      BY <2>1 DEF GateTypeOK, ConfirmExecution, CancelPending, Forget
    <2>2. CASE Execute(s) \/ Close(s) \/ EngineForgets(s)
      BY <2>2 DEF GateTypeOK, Execute, Close, EngineForgets, gateVars
    <2> QED
      BY <1>8, <2>1, <2>2 DEF EngineStep
  <1>9. ASSUME NEW p \in SpotPrices, UpdateSpotPrices(p)
        PROVE  GateTypeOK'
    BY <1>9 DEF GateTypeOK, UpdateSpotPrices
  <1>10. CASE Synchronize
    BY <1>10 DEF GateTypeOK, Synchronize, Forget
  <1>11. CASE SynchronizeFails
    BY <1>11 DEF GateTypeOK, SynchronizeFails
  <1>12. CASE Tick
    BY <1>12 DEF GateTypeOK, Tick, gateVars
  <1>13. CASE UNCHANGED vars
    BY <1>13 DEF GateTypeOK, vars, gateVars
  <1> QED
    BY <1>1, <1>2, <1>3, <1>4, <1>5, <1>6, <1>7, <1>8, <1>9, <1>10, <1>11,
       <1>12, <1>13 DEF Next

\* The gate starts unlocked, with no positions and nothing pending.
LEMMA TypeInit ==
  Init => GateTypeOK
  BY DEF Init, GateTypeOK, Free, Never, NoReply, Starting, Evaluating, InProvider,
         Allowed, EvalStates

\* The lock of gate.py is held exactly while its holder is in a provider call,
\* and every path gives it back, whatever the exceptions and timeouts.
THEOREM LockDiscipline ==
  Spec => []GateTypeOK
  <1>1. GateTypeOK /\ [Next]_vars => GateTypeOK'
    BY TypeStep
  <1> QED
    BY TypeInit, <1>1, PTL DEF Spec

-----------------------------------------------------------------------------
(* No trade is unaccounted for *)

Cover == Timely /\ Lifecycle /\ CacheCovered /\ FetchCovered

\* A provider call begins: it has just seen all there is.
LEMMA CallCovers ==
  ASSUME GateInv, NEW who, who # Free, CallProvider(who),
         UNCHANGED <<positions, fetchedAt, pending, broker, clock>>,
         \A t \in broker : eval'[t] = eval[t]
  PROVE  Cover'
  <1>1. /\ lock' = who /\ reply' = [from |-> clock, seen |-> broker]
        /\ clock \in 0..MaxTime
    BY DEF GateInv, GateTypeOK, CallProvider
  <1>2. reply'.from = clock /\ reply'.seen = broker
    BY <1>1
  <1>3. Timely'
    BY <1>1, <1>2 DEF GateInv, Timely
  <1>4. Lifecycle'
    BY <1>1, <1>2 DEF GateInv, Lifecycle
  <1>5. CacheCovered' /\ FetchCovered'
    BY <1>1, <1>2 DEF GateInv, CacheCovered, FetchCovered, Covered
  <1> QED
    BY <1>3, <1>4, <1>5 DEF Cover

\* A provider call fails or comes too late: the cache stays as it was.
LEMMA FailureCovers ==
  ASSUME GateInv, NEW who, ProviderReturns(who),
         UNCHANGED <<positions, fetchedAt, pending, broker, clock>>,
         \A t \in broker : eval'[t] = eval[t]
  PROVE  Cover'
  BY DEF GateInv, Cover, ProviderReturns, Timely, Lifecycle, CacheCovered,
         FetchCovered, Covered

\* A provider call answers: what its answer has missed is pending for longer
\* than the answer will be used.
LEMMA AnswerCovers ==
  ASSUME GateInv, NEW who, who # Free, ProviderReturns(who), StorePositions,
         UNCHANGED <<broker, clock>>,
         \A t \in broker : eval'[t] = eval[t],
         \A t \in Live \cap broker : t \in DOMAIN pending' /\ pending'[t] = pending[t]
  PROVE  Cover'
  <1>1. /\ lock # Free /\ lock' = Free
        /\ positions' = reply.seen /\ fetchedAt' = clock
        /\ clock \in 0..MaxTime /\ reply.from \in 0..clock
        /\ clock - reply.from <= MaxFetch
    BY DEF GateInv, GateTypeOK, Timely, ProviderReturns, StorePositions
  <1>2. Timely'
    BY <1>1 DEF Timely
  <1>3. Lifecycle'
    BY <1>1 DEF GateInv, Lifecycle
  <1>4. ASSUME NEW t \in broker \ reply.seen
        PROVE  Covered(t, fetchedAt + CacheAge)'
    <2>1. /\ t \in DOMAIN pending
          /\ pending[t] \in Int
          /\ pending[t] >= reply.from + MaxFetch + CacheAge
      BY <1>1 DEF GateInv, GateTypeOK, FetchCovered, Covered
    <2>2. pending[t] >= clock + CacheAge
      BY <1>1, <2>1
    <2>3. t \in Live
      BY <1>1, <2>1, <2>2 DEF Live, Expired
    <2> QED
      BY <1>1, <2>2, <2>3 DEF Covered
  <1>5. CacheCovered'
    BY <1>1, <1>4 DEF CacheCovered
  <1>6. FetchCovered'
    BY <1>1 DEF FetchCovered
  <1> QED
    BY <1>2, <1>3, <1>5, <1>6 DEF Cover

\* A step that leaves the gate's variables and the broker alone moves only the
\* evaluation of a trade that is not open.
LEMMA EvalOnlyCovers ==
  ASSUME GateInv, UNCHANGED <<gateVars, broker, clock>>,
         \A t \in broker : eval'[t] = eval[t]
  PROVE  Cover'
  BY DEF GateInv, Cover, gateVars, Timely, Lifecycle, CacheCovered,
         FetchCovered, Covered

\* Of the pending signals, none that an open trade still depends on is dropped.
LEMMA PendingCovers ==
  ASSUME GateInv, lock = Free,
         UNCHANGED <<lock, positions, fetchedAt, broker, clock>>,
         \A t \in broker : eval'[t] = eval[t] \/ (eval'[t] = "confirmed" /\ t \in positions),
         \A t \in broker \ positions :
           fetchedAt # Never /\ t \in DOMAIN pending =>
              t \in DOMAIN pending' /\ pending'[t] = pending[t]
  PROVE  Cover'
  BY DEF GateInv, Cover, Timely, Lifecycle, CacheCovered, FetchCovered, Covered

\* With a careful engine every step keeps open trades covered.
LEMMA CoverStep ==
  ASSUME Careful, GateInv, [Next]_vars
  PROVE  Cover'
  <1>0. /\ \A t \in broker : eval[t] \in {"opened", "executed", "confirmed"}
        /\ broker \subseteq Signals /\ eval \in [Signals -> EvalStates]
        /\ Free \notin Signals /\ Free # "initialize" /\ Free # "refresh"
        /\ clock \in 0..MaxTime
    BY DEF GateInv, GateTypeOK, Lifecycle, Free, InProvider, Allowed
  <1>1. CASE InitializeBegin \/ RefreshBegin
    <2>1. /\ CallProvider("initialize") \/ CallProvider("refresh")
          /\ UNCHANGED <<positions, fetchedAt, pending, broker, clock>>
          /\ \A t \in broker : eval'[t] = eval[t]
      BY <1>1 DEF InitializeBegin, RefreshBegin
    <2> QED
      BY <1>0, <2>1, CallCovers
  <1>2. CASE InitializeFails \/ RefreshFails
    BY <1>2, FailureCovers DEF InitializeFails, RefreshFails
  <1>3. CASE InitializeOk \/ RefreshOk
    <2>1. \A t \in Live : t \in DOMAIN pending
      BY DEF Live
    <2> QED
      BY <1>0, <1>3, <2>1, AnswerCovers DEF InitializeOk, RefreshOk
  <1>4. ASSUME NEW s \in Signals, EvalStep(s) \/ EvalReturn(s)
        PROVE  Cover'
    <2>1. CASE EvalRefused(s) \/ EvalInvalid(s) \/ EvalLockTimeout(s)
               \/ EvalEnter(s) \/ EvalChecked(s) \/ EvalFetchTimeout(s)
      <3>1. \A t \in broker : eval'[t] = eval[t]
        BY <1>0, <2>1 DEF EvalRefused, EvalInvalid, EvalLockTimeout, EvalEnter,
                         EvalChecked, EvalFetchTimeout, FailClosed
      <3> QED
        BY <2>1, <3>1, EvalOnlyCovers DEF EvalRefused, EvalInvalid,
           EvalLockTimeout, EvalEnter, EvalChecked, EvalFetchTimeout
    <2>2. CASE EvalCached(s)
      <3>1. /\ Decide(s, positions) /\ lock = Free /\ eval[s] = "waiting"
            /\ fetchedAt # Never /\ clock - fetchedAt <= CacheAge
            /\ UNCHANGED <<lock, positions, fetchedAt, broker, clock>>
        BY <2>2, <1>0 DEF EvalCached, ShouldRefresh, GateInv, GateTypeOK, Never
      <3>2. s \notin broker
        BY <1>0, <3>1
      <3>3. \A t \in broker : eval'[t] = eval[t]
        BY <1>0, <3>1, <3>2, DecideEffect DEF GateInv
      <3>4. ASSUME NEW t \in broker \ positions
            PROVE  t \in DOMAIN pending' /\ pending'[t] = pending[t]
        <4>1. /\ t \in DOMAIN pending /\ pending[t] \in Int
              /\ pending[t] >= fetchedAt + CacheAge
          BY <3>1 DEF GateInv, GateTypeOK, CacheCovered, Covered
        <4>2. fetchedAt \in Int
          BY DEF GateInv, GateTypeOK, Never
        <4>3. t \in Live
          BY <1>0, <3>1, <4>1, <4>2 DEF Live, Expired
        <4> QED
          BY <3>1, <3>2, <4>3, DecideEffect DEF GateInv
      <3> QED
        BY <3>1, <3>3, <3>4, PendingCovers
    <2>3. CASE EvalFetch(s)
      <3>1. \A t \in broker : eval'[t] = eval[t]
        BY <1>0, <2>3 DEF EvalFetch
      <3>2. /\ CallProvider(s) /\ s # Free
            /\ UNCHANGED <<positions, fetchedAt, pending, broker, clock>>
        BY <1>0, <2>3 DEF EvalFetch
      <3> QED
        BY <3>1, <3>2, CallCovers
    <2>4. CASE EvalFetched(s)
      <3>1. Decide(s, reply.seen) /\ eval[s] = "fetching"
        BY <2>4 DEF EvalFetched
      <3>2. s \notin broker
        BY <1>0, <3>1
      <3>3. \A t \in broker : eval'[t] = eval[t]
        BY <1>0, <3>1, <3>2, DecideEffect DEF GateInv
      <3>4. \A t \in Live \cap broker : t \in DOMAIN pending' /\ pending'[t] = pending[t]
        BY <3>1, <3>2, DecideEffect DEF GateInv
      <3> QED
        BY <1>0, <2>4, <3>3, <3>4, AnswerCovers DEF EvalFetched
    <2>5. CASE EvalFetchError(s) \/ EvalLateReturn(s)
      <3>1. \A t \in broker : eval'[t] = eval[t]
        BY <1>0, <2>5 DEF EvalFetchError, EvalLateReturn, FailClosed
      <3> QED
        BY <2>5, <3>1, FailureCovers DEF EvalFetchError, EvalLateReturn
    <2> QED
      BY <1>4, <2>1, <2>2, <2>3, <2>4, <2>5 DEF EvalStep, EvalReturn
  <1>5. ASSUME NEW s \in Signals, EngineStep(s)
        PROVE  Cover'
    <2>1. CASE ConfirmExecution(s)
      <3>1. /\ lock = Free /\ s \in positions
            /\ eval' = [eval EXCEPT ![s] = "confirmed"]
            /\ pending' = [t \in DOMAIN pending \ {s} |-> pending[t]]
            /\ UNCHANGED <<lock, positions, fetchedAt, broker, clock>>
        BY <2>1 DEF ConfirmExecution, Forget
      <3>2. \A t \in broker : eval'[t] = eval[t] \/ (eval'[t] = "confirmed" /\ t \in positions)
        BY <1>0, <3>1
      <3>3. \A t \in broker \ positions :
              fetchedAt # Never /\ t \in DOMAIN pending =>
                 t \in DOMAIN pending' /\ pending'[t] = pending[t]
        BY <3>1
      <3> QED
        BY <3>1, <3>2, <3>3, PendingCovers
    <2>2. CASE CancelPending(s)
      <3>1. /\ lock = Free /\ s \notin broker
            /\ eval' = [eval EXCEPT ![s] = "idle"]
            /\ pending' = [t \in DOMAIN pending \ {s} |-> pending[t]]
            /\ UNCHANGED <<lock, positions, fetchedAt, broker, clock>>
        BY <1>0, <2>2 DEF CancelPending, Forget, Allowed
      <3>2. \A t \in broker : eval'[t] = eval[t]
        BY <1>0, <3>1
      <3>3. \A t \in broker \ positions :
              fetchedAt # Never /\ t \in DOMAIN pending =>
                 t \in DOMAIN pending' /\ pending'[t] = pending[t]
        BY <3>1
      <3> QED
        BY <3>1, <3>2, <3>3, PendingCovers
    <2>3. CASE Execute(s)
      <3>1. /\ eval' = [eval EXCEPT ![s] = "executed"] /\ broker' = broker \cup {s}
            /\ s \in DOMAIN pending /\ clock <= pending[s] - CacheAge - MaxFetch
            /\ UNCHANGED <<gateVars, clock>>
        BY <2>3 DEF Execute
      <3>2. pending[s] \in Int /\ fetchedAt \in Int
        BY <3>1 DEF GateInv, GateTypeOK, Never
      <3>3. Timely'
        BY <3>1 DEF GateInv, Timely, gateVars
      <3>4. Lifecycle'
        BY <1>0, <2>3, <3>1 DEF GateInv, Lifecycle, gateVars, Execute, Allowed
      <3>5. Covered(s, fetchedAt + CacheAge)
        BY <1>0, <3>1, <3>2 DEF GateInv, Timely, Covered
      <3>6. lock # Free => Covered(s, reply.from + MaxFetch + CacheAge)
        BY <1>0, <3>1, <3>2 DEF GateInv, Timely, Covered
      <3>7. CacheCovered' /\ FetchCovered'
        BY <3>1, <3>5, <3>6 DEF GateInv, CacheCovered, FetchCovered, Covered, gateVars
      <3> QED
        BY <3>3, <3>4, <3>7 DEF Cover
    <2>4. CASE Close(s)
      BY <2>4 DEF Close, GateInv, Cover, gateVars, Timely, Lifecycle,
                  CacheCovered, FetchCovered, Covered
    <2>5. CASE EngineForgets(s)
      <3>1. \A t \in broker : eval'[t] = eval[t]
        BY <1>0, <2>5 DEF EngineForgets, Allowed
      <3> QED
        BY <2>5, <3>1, EvalOnlyCovers DEF EngineForgets
    <2> QED
      BY <1>5, <2>1, <2>2, <2>3, <2>4, <2>5 DEF EngineStep
  <1>6. CASE Synchronize
    <2>1. \A t \in broker \ positions : t \in EngineKnows
      BY <1>0 DEF GateInv, Lifecycle, EngineKnows
    <2>2. /\ lock = Free
          /\ pending' = [t \in DOMAIN pending \ (DOMAIN pending \ EngineKnows) |-> pending[t]]
          /\ UNCHANGED <<lock, positions, fetchedAt, eval, broker, clock>>
      BY <1>6 DEF Synchronize, Forget
    <2>3. \A t \in broker \ positions :
            fetchedAt # Never /\ t \in DOMAIN pending =>
               t \in DOMAIN pending' /\ pending'[t] = pending[t]
      BY <2>1, <2>2
    <2> QED
      BY <2>2, <2>3, PendingCovers
  <1>7. CASE Tick
    <2>1. /\ clock' = clock + 1
          /\ UNCHANGED <<lock, reply, positions, fetchedAt, pending, eval, broker>>
          /\ lock # Free => clock - reply.from < MaxFetch
      BY <1>7 DEF Tick, gateVars, GateInv, GateTypeOK
    <2>2. fetchedAt \in Int
      BY DEF GateInv, GateTypeOK, Never
    <2>3. Timely'
      BY <1>0, <2>1, <2>2 DEF GateInv, Timely
    <2> QED
      BY <2>1, <2>3 DEF GateInv, Cover, Lifecycle, CacheCovered, FetchCovered, Covered
  <1>8. CASE SynchronizeFails \/ (\E p \in SpotPrices : UpdateSpotPrices(p)) \/ UNCHANGED vars
    BY <1>8 DEF SynchronizeFails, UpdateSpotPrices, vars, gateVars, GateInv, Cover,
                Timely, Lifecycle, CacheCovered, FetchCovered, Covered
  <1> QED
    BY <1>1, <1>2, <1>3, <1>4, <1>5, <1>6, <1>7, <1>8 DEF Next

\* What makes a stale cache safe: a trade that the cache, or the fetch now out,
\* does not have is pending for as long as a decision may rest on either
\* (gate.py _get_positions_safe, _purge_expired_pending), for any signals,
\* limits and timeouts and a careful caller.
THEOREM StaleCacheCovered ==
  ASSUME Careful
  PROVE  Spec => []GateInv
  <1>1. Init => GateInv
    BY TypeInit DEF Init, GateInv, Timely, Lifecycle, CacheCovered, FetchCovered,
                    Covered, Free, Never
  <1>2. GateInv /\ [Next]_vars => GateInv'
    <2>1. GateInv /\ [Next]_vars => GateTypeOK'
      BY TypeStep DEF GateInv
    <2>2. GateInv /\ [Next]_vars => Cover'
      BY CoverStep
    <2> QED
      BY <2>1, <2>2 DEF GateInv, Cover
  <1> QED
    BY <1>1, <1>2, PTL DEF Spec

\* A cache that is fresh enough to be used has what is open, or it is pending.
LEMMA CacheUsable ==
  ASSUME GateInv
  PROVE  Accounted
  <1>1. SUFFICES ASSUME NEW s \in broker, s \notin positions, ~ShouldRefresh
                 PROVE  s \in Live
    BY DEF Accounted
  <1>2. /\ fetchedAt # Never /\ fetchedAt \in Int /\ clock \in Int
        /\ clock - fetchedAt <= CacheAge
    BY <1>1 DEF ShouldRefresh, GateInv, GateTypeOK, Never
  <1>3. s \in DOMAIN pending /\ pending[s] \in Int /\ pending[s] >= fetchedAt + CacheAge
    BY <1>1, <1>2 DEF GateInv, GateTypeOK, CacheCovered, Covered
  <1> QED
    BY <1>2, <1>3 DEF Live, Expired

\* An engine that confirms what the gate has seen, and places an order no later
\* than the cache's age and the longest fetch before its pending entry expires,
\* never has a trade open that the gate's next decision would not count
\* (gate.py _get_positions_safe, _include_pending_in_projection).
THEOREM NeverUnaccounted ==
  ASSUME Careful
  PROVE  Spec => []Accounted
  BY CacheUsable, StaleCacheCovered, PTL

-----------------------------------------------------------------------------
(* Books, counted and valued *)

Entry == Signals \X {"open", "pending", "least"}

\* The value of an entry and the worth of a book at a given price of gold.
ValueAt(e, gold) ==
  IF e[2] = "least" THEN LeastValue(e[1])
  ELSE Info[e[1]].units * (IF Info[e[1]].base = "USD" THEN 1
                           ELSE IF Info[e[1]].base = "XAU" /\ gold # 0 THEN gold
                           ELSE IF e[2] = "open" THEN Info[e[1]].price ELSE 1)
DollarsAt(e, gold) == {e} \X (1 .. ValueAt(e, gold))
AllDollars(book, gold) == UNION {DollarsAt(e, gold) : e \in book}
WorthAt(book, gold) == Cardinality(AllDollars(book, gold))

\* Worth values a book at the price of gold of the moment.
LEMMA WorthIs ==
  ASSUME NEW book
  PROVE  Worth(book) = WorthAt(book, spot)
  BY DEF Worth, Dollars, Value, Notional, WorthAt, AllDollars, DollarsAt, ValueAt

\* A set of whole numbers has a least one.
LEMMA LeastNumber ==
  ASSUME NEW T \in SUBSET Nat, T # {}
  PROVE  \E n \in T : \A y \in T : n <= y
  <1> DEFINE R == OpToRel(<, Nat)
  <1>1. IsWellFoundedOn(R, Nat) BY NatLessThanWellFounded
  <1>2. \A x, y \in Nat : x < y => <<x, y>> \in R BY DEF OpToRel
  <1> HIDE DEF R
  <1>3. PICK n \in T : \A y \in T : ~(<<y, n>> \in R) BY <1>1, WFMin
  <1>4. ASSUME NEW y \in T PROVE n <= y
    <2>1. n \in Nat /\ y \in Nat /\ ~(y < n) BY <1>2, <1>3
    <2> QED BY <2>1
  <1> QED BY <1>4

\* The least value of a trade is the value at some price, and no price the gate
\* may use makes less of it.
LEMMA LeastPrice ==
  ASSUME NEW t \in Signals
  PROVE  /\ LeastValue(t) \in Nat
         /\ \A q \in GatePrices(t) : LeastValue(t) <= Info[t].units * q
  <1> DEFINE least == CHOOSE p \in GatePrices(t) : \A q \in GatePrices(t) : p <= q
  <1>1. Info[t].units \in Nat /\ Info[t].price \in Nat BY DEF TradeInfo
  <1>2. GatePrices(t) \in SUBSET Nat /\ GatePrices(t) # {}
    <2>1. SpotPrices \subseteq Nat /\ {1, Info[t].price} \subseteq Nat BY <1>1
    <2>2. GatePrices(t) \subseteq {1, Info[t].price} \cup SpotPrices /\ 1 \in GatePrices(t)
      BY DEF GatePrices
    <2> QED BY <2>1, <2>2
  <1>3. \E p \in GatePrices(t) : \A q \in GatePrices(t) : p <= q BY <1>2, LeastNumber
  <1>4. least \in GatePrices(t) /\ \A q \in GatePrices(t) : least <= q BY <1>3
  <1>5. LeastValue(t) = Info[t].units * least BY DEF LeastValue
  <1> HIDE DEF least
  <1>6. \A u, m, n \in Nat : m <= n => u * m \in Nat /\ u * m <= u * n
    <2> SUFFICES ASSUME NEW u \in Nat, NEW m \in Nat, NEW n \in Nat, m <= n
                 PROVE  u * m \in Nat /\ u * m <= u * n
      OBVIOUS
    <2>1. PICK d \in Nat : n = m + d
      <3>1. n - m \in Nat /\ n = m + (n - m) OBVIOUS
      <3> QED BY <3>1
    <2>2. u * m \in Nat /\ u * d \in Nat /\ u * n = u * m + u * d BY <2>1
    <2> QED BY <2>2
  <1>7. least \in Nat BY <1>2, <1>4
  <1> QED BY <1>1, <1>2, <1>4, <1>5, <1>6, <1>7

\* An entry is worth a whole number of dollars.
LEMMA ValueType ==
  ASSUME NEW e \in Entry, NEW gold \in Nat
  PROVE  ValueAt(e, gold) \in Nat
  <1>1. e[1] \in Signals BY DEF Entry
  <1>2. Info[e[1]].units \in Nat /\ Info[e[1]].price \in Nat BY <1>1 DEF TradeInfo
  <1>3. \A m, n \in Nat : m * n \in Nat OBVIOUS
  <1>4. LeastValue(e[1]) \in Nat BY <1>1, LeastPrice
  <1> QED BY <1>2, <1>3, <1>4 DEF ValueAt

\* Whatever the prices are, the gate values no trade below its least value.
LEMMA LeastIsLeast ==
  ASSUME NEW t \in Signals, NEW gold \in {0} \cup SpotPrices, NEW gold2,
         NEW kind \in {"open", "pending"}
  PROVE  ValueAt(<<t, "least">>, gold2) <= ValueAt(<<t, kind>>, gold)
  <1> DEFINE q == IF Info[t].base = "USD" THEN 1
                  ELSE IF Info[t].base = "XAU" /\ gold # 0 THEN gold
                  ELSE IF kind = "open" THEN Info[t].price ELSE 1
  <1>1. q \in GatePrices(t) BY DEF GatePrices
  <1>2. ValueAt(<<t, kind>>, gold) = Info[t].units * q BY DEF ValueAt
  <1>3. ValueAt(<<t, "least">>, gold2) = LeastValue(t) BY DEF ValueAt
  <1> HIDE DEF q
  <1> QED BY <1>1, <1>2, <1>3, LeastPrice

\* A finite book has finitely many dollars.
LEMMA DollarsFinite ==
  ASSUME NEW book \in SUBSET Entry, IsFiniteSet(book), NEW gold \in Nat
  PROVE  IsFiniteSet(AllDollars(book, gold))
  <1> DEFINE heaps == {DollarsAt(e, gold) : e \in book}
             heap == [e \in book |-> DollarsAt(e, gold)]
  <1>1. \A e \in book : IsFiniteSet(DollarsAt(e, gold))
    <2> SUFFICES ASSUME NEW e \in book PROVE IsFiniteSet(DollarsAt(e, gold)) OBVIOUS
    <2>1. ValueAt(e, gold) \in Nat BY ValueType
    <2>2. IsFiniteSet(1 .. ValueAt(e, gold)) BY <2>1, FS_Interval
    <2>3. IsFiniteSet({e}) BY FS_Singleton
    <2> QED BY <2>2, <2>3, FS_Product DEF DollarsAt
  <1>2. heap \in Surjection(book, heaps) BY Fun_IsSurj
  <1>3. IsFiniteSet(heaps) BY <1>2, FS_Surjection
  <1>4. \A h \in heaps : IsFiniteSet(h) BY <1>1
  <1> QED BY <1>3, <1>4, FS_UNION DEF AllDollars

\* A book whose entries go one to one into another of no less value is worth
\* no more.
LEMMA WorthMonotone ==
  ASSUME NEW A \in SUBSET Entry, NEW B \in SUBSET Entry, IsFiniteSet(B),
         NEW gold \in Nat, NEW gold2 \in Nat,
         NEW into \in Injection(A, B),
         \A e \in A : ValueAt(e, gold) <= ValueAt(into[e], gold2)
  PROVE  /\ WorthAt(A, gold) \in Nat /\ WorthAt(B, gold2) \in Nat
         /\ WorthAt(A, gold) <= WorthAt(B, gold2)
         /\ Cardinality(A) \in Nat /\ Cardinality(B) \in Nat
         /\ Cardinality(A) <= Cardinality(B)
  <1>1. into \in [A -> B] /\ (\A a, b \in A : into[a] = into[b] => a = b)
    BY Fun_InjectionProperties
  <1> DEFINE f == [d \in AllDollars(A, gold) |-> <<into[d[1]], d[2]>>]
  <1>2. ASSUME NEW d \in AllDollars(A, gold)
        PROVE  /\ d[1] \in A /\ d[2] \in 1 .. ValueAt(d[1], gold) /\ d = <<d[1], d[2]>>
               /\ <<into[d[1]], d[2]>> \in AllDollars(B, gold2)
    <2>1. PICK e \in A : d \in DollarsAt(e, gold) BY <1>2 DEF AllDollars
    <2>2. d[1] = e /\ d[2] \in 1 .. ValueAt(e, gold) /\ d = <<d[1], d[2]>> BY <2>1 DEF DollarsAt
    <2>3. into[e] \in B BY <1>1
    <2>4. ValueAt(e, gold) \in Nat /\ ValueAt(into[e], gold2) \in Nat BY <2>3, ValueType
    <2>5. ValueAt(e, gold) <= ValueAt(into[e], gold2) OBVIOUS
    <2>6. d[2] \in 1 .. ValueAt(into[e], gold2) BY <2>2, <2>4, <2>5
    <2>7. <<into[e], d[2]>> \in DollarsAt(into[e], gold2) BY <2>6 DEF DollarsAt
    <2> QED BY <2>2, <2>3, <2>7 DEF AllDollars
  <1>3. f \in [AllDollars(A, gold) -> AllDollars(B, gold2)] BY <1>2
  <1>4. \A d, g \in AllDollars(A, gold) : f[d] = f[g] => d = g
    <2> SUFFICES ASSUME NEW d \in AllDollars(A, gold), NEW g \in AllDollars(A, gold), f[d] = f[g]
                 PROVE  d = g
      OBVIOUS
    <2>1. into[d[1]] = into[g[1]] /\ d[2] = g[2] OBVIOUS
    <2>2. d[1] = g[1] BY <1>1, <1>2, <2>1
    <2> QED BY <1>2, <2>1, <2>2
  <1> HIDE DEF f
  <1>5. f \in Injection(AllDollars(A, gold), AllDollars(B, gold2)) BY <1>3, <1>4, Fun_IsInj
  <1>6. IsFiniteSet(AllDollars(B, gold2)) BY DollarsFinite
  <1>7. /\ IsFiniteSet(AllDollars(A, gold))
        /\ Cardinality(AllDollars(A, gold)) <= Cardinality(AllDollars(B, gold2))
    BY <1>5, <1>6, FS_Injection
  <1>8. IsFiniteSet(A) /\ Cardinality(A) <= Cardinality(B) BY FS_Injection
  <1> QED BY <1>6, <1>7, <1>8, FS_CardinalityType DEF WorthAt

\* Both directions of a currency together.
CountBoth(book, c) == Cardinality(On(book, c, "LONG")) + Cardinality(On(book, c, "SHORT"))
GrossAt(book, c, gold) == WorthAt(On(book, c, "LONG"), gold) + WorthAt(On(book, c, "SHORT"), gold)

\* The same for the two directions of a currency, when an entry goes into one
\* of the same trade.
LEMMA SideMonotone ==
  ASSUME NEW A \in SUBSET Entry, NEW B \in SUBSET Entry, IsFiniteSet(B),
         NEW into \in Injection(A, B), \A e \in A : into[e][1] = e[1],
         NEW c, NEW side
  PROVE  /\ On(A, c, side) \in SUBSET Entry /\ On(B, c, side) \in SUBSET Entry
         /\ On(A, c, side) \subseteq A /\ IsFiniteSet(On(B, c, side))
         /\ [e \in On(A, c, side) |-> into[e]] \in Injection(On(A, c, side), On(B, c, side))
  <1>1. into \in [A -> B] /\ (\A a, b \in A : into[a] = into[b] => a = b)
    BY Fun_InjectionProperties
  <1>2. On(A, c, side) \subseteq A /\ On(B, c, side) \subseteq B BY DEF On
  <1>3. IsFiniteSet(On(B, c, side)) BY <1>2, FS_Subset
  <1>4. \A e \in On(A, c, side) : into[e] \in On(B, c, side) BY <1>1 DEF On
  <1> DEFINE f == [e \in On(A, c, side) |-> into[e]]
  <1>5. f \in [On(A, c, side) -> On(B, c, side)] BY <1>4
  <1>6. \A a, b \in On(A, c, side) : f[a] = f[b] => a = b BY <1>1, <1>2
  <1>7. f \in Injection(On(A, c, side), On(B, c, side)) BY <1>5, <1>6, Fun_IsInj
  <1> QED BY <1>2, <1>3, <1>7

\* A book that another one contains, trade by trade, counts no more.
LEMMA CountMonotone ==
  ASSUME NEW A \in SUBSET Entry, NEW B \in SUBSET Entry, IsFiniteSet(B),
         NEW into \in Injection(A, B), \A e \in A : into[e][1] = e[1], NEW c
  PROVE  /\ CountBoth(A, c) \in Nat /\ CountBoth(B, c) \in Nat
         /\ CountBoth(A, c) <= CountBoth(B, c)
  <1>1. ASSUME NEW side \in {"LONG", "SHORT"}
        PROVE  /\ Cardinality(On(A, c, side)) \in Nat /\ Cardinality(On(B, c, side)) \in Nat
               /\ Cardinality(On(A, c, side)) <= Cardinality(On(B, c, side))
    <2>1. /\ IsFiniteSet(On(B, c, side))
          /\ [e \in On(A, c, side) |-> into[e]] \in Injection(On(A, c, side), On(B, c, side))
      BY SideMonotone
    <2>2. /\ IsFiniteSet(On(A, c, side))
          /\ Cardinality(On(A, c, side)) <= Cardinality(On(B, c, side))
      BY <2>1, FS_Injection
    <2> QED BY <2>1, <2>2, FS_CardinalityType
  <1> QED BY <1>1 DEF CountBoth

\* ... and is worth no more in gross, if no entry is worth more.
LEMMA GrossMonotone ==
  ASSUME NEW A \in SUBSET Entry, NEW B \in SUBSET Entry, IsFiniteSet(B),
         NEW gold \in Nat, NEW gold2 \in Nat,
         NEW into \in Injection(A, B), \A e \in A : into[e][1] = e[1],
         \A e \in A : ValueAt(e, gold) <= ValueAt(into[e], gold2), NEW c
  PROVE  /\ GrossAt(A, c, gold) \in Nat /\ GrossAt(B, c, gold2) \in Nat
         /\ GrossAt(A, c, gold) <= GrossAt(B, c, gold2)
  <1>1. ASSUME NEW side \in {"LONG", "SHORT"}
        PROVE  /\ WorthAt(On(A, c, side), gold) \in Nat /\ WorthAt(On(B, c, side), gold2) \in Nat
               /\ WorthAt(On(A, c, side), gold) <= WorthAt(On(B, c, side), gold2)
    <2> DEFINE f == [e \in On(A, c, side) |-> into[e]]
    <2>1. /\ On(A, c, side) \in SUBSET Entry /\ On(B, c, side) \in SUBSET Entry
          /\ On(A, c, side) \subseteq A /\ IsFiniteSet(On(B, c, side))
          /\ f \in Injection(On(A, c, side), On(B, c, side))
      BY SideMonotone
    <2>2. \A e \in On(A, c, side) : ValueAt(e, gold) <= ValueAt(f[e], gold2) BY <2>1
    <2> HIDE DEF f
    <2> QED BY <2>1, <2>2, WorthMonotone
  <1> QED BY <1>1 DEF GrossAt

\* A currency that is traded in one direction has its net count on that side.
LEMMA OneSidedCount ==
  ASSUME NEW book \in SUBSET Entry, IsFiniteSet(book), NEW c, OneSided(c)
  PROVE  NetCount(book, c) = CountBoth(book, c) /\ CountBoth(book, c) \in Nat
  <1>1. On(book, c, "LONG") \subseteq book /\ On(book, c, "SHORT") \subseteq book BY DEF On
  <1>2. /\ Cardinality(On(book, c, "LONG")) \in Nat /\ Cardinality(On(book, c, "SHORT")) \in Nat
    BY <1>1, FS_Subset, FS_CardinalityType
  <1>3. On(book, c, "LONG") = {} \/ On(book, c, "SHORT") = {}
    <2> SUFFICES ASSUME NEW e \in On(book, c, "LONG"), NEW f \in On(book, c, "SHORT") PROVE FALSE
      OBVIOUS
    <2>1. /\ c \in Affected(e[1]) /\ c \in Affected(f[1])
          /\ Side(e[1], c) = "LONG" /\ Side(f[1], c) = "SHORT"
          /\ e[1] \in Signals /\ f[1] \in Signals
      BY DEF On, Entry
    <2>2. Side(e[1], c) = Side(f[1], c) BY <2>1 DEF OneSided
    <2> QED BY <2>1, <2>2
  <1>4. Cardinality(On(book, c, "LONG")) = 0 \/ Cardinality(On(book, c, "SHORT")) = 0
    BY <1>3, FS_EmptySet
  <1> QED BY <1>2, <1>4 DEF NetCount, Distance, CountBoth

-----------------------------------------------------------------------------
(* What is committed stays under the limits *)

CountsBelow(S) ==
  \A c \in Currencies : OneSided(c) => NetCount(Open(S), c) < Limits[c].hardCount
WorthBelow(S, gold) ==
  \A c \in Currencies : GrossAt(Least(S), c, gold) < Limits[c].hardGross

\* The books of open and of pending trades are finite books.
LEMMA OpenBook ==
  ASSUME NEW S \in SUBSET Signals, IsFiniteSet(Signals)
  PROVE  /\ Open(S) \in SUBSET Entry /\ IsFiniteSet(Open(S))
         /\ Projected(S) \in SUBSET Entry /\ IsFiniteSet(Projected(S))
         /\ Least(S) \in SUBSET Entry /\ IsFiniteSet(Least(S))
  <1>1. IsFiniteSet(S) BY FS_Subset
  <1>2. [s \in S |-> <<s, "open">>] \in Surjection(S, Open(S)) BY Fun_IsSurj DEF Open
  <1>3. [s \in S |-> <<s, "pending">>] \in Surjection(S, Projected(S)) BY Fun_IsSurj DEF Projected
  <1>4. [s \in S |-> <<s, "least">>] \in Surjection(S, Least(S)) BY Fun_IsSurj DEF Least
  <1>5. IsFiniteSet(Open(S)) /\ IsFiniteSet(Projected(S)) /\ IsFiniteSet(Least(S))
    BY <1>1, <1>2, <1>3, <1>4, FS_Surjection
  <1> QED BY <1>5 DEF Open, Projected, Least, Entry

\* Fewer open trades are further below the limits.
LEMMA Fewer ==
  ASSUME NEW S \in SUBSET Signals, NEW T \in SUBSET Signals, S \subseteq T, IsFiniteSet(Signals)
  PROVE  /\ CountsBelow(T) => CountsBelow(S)
         /\ \A gold, gold2 \in Nat : WorthBelow(T, gold) => WorthBelow(S, gold2)
  <1> DEFINE same == [e \in Open(S) |-> e]
             least == [e \in Least(S) |-> e]
  <1>1. /\ Open(S) \in SUBSET Entry /\ Open(T) \in SUBSET Entry /\ IsFiniteSet(Open(T))
        /\ IsFiniteSet(Open(S)) /\ Open(S) \subseteq Open(T)
    BY OpenBook DEF Open
  <1>2. same \in Injection(Open(S), Open(T)) BY <1>1, Fun_IsInj
  <1>3. \A e \in Open(S) : same[e][1] = e[1] OBVIOUS
  <1>4. \A c \in Currencies : Limits[c].hardCount \in Nat /\ Limits[c].hardGross \in Nat
    BY DEF LimitInfo
  <1>5. /\ Least(S) \in SUBSET Entry /\ Least(T) \in SUBSET Entry /\ IsFiniteSet(Least(T))
        /\ Least(S) \subseteq Least(T)
    BY OpenBook DEF Least
  <1>6. least \in Injection(Least(S), Least(T)) BY <1>5, Fun_IsInj
  <1>7. \A e \in Least(S) : least[e][1] = e[1] /\ least[e] = e /\ e[2] = "least" BY DEF Least
  <1> HIDE DEF same, least
  <1>8. CountsBelow(T) => CountsBelow(S)
    <2> SUFFICES ASSUME CountsBelow(T), NEW c \in Currencies, OneSided(c)
                 PROVE  NetCount(Open(S), c) < Limits[c].hardCount
      BY DEF CountsBelow
    <2>1. NetCount(Open(T), c) < Limits[c].hardCount BY DEF CountsBelow
    <2>2. /\ NetCount(Open(T), c) = CountBoth(Open(T), c)
          /\ NetCount(Open(S), c) = CountBoth(Open(S), c)
      BY <1>1, OneSidedCount
    <2>3. /\ CountBoth(Open(S), c) \in Nat /\ CountBoth(Open(T), c) \in Nat
          /\ CountBoth(Open(S), c) <= CountBoth(Open(T), c)
      BY <1>1, <1>2, <1>3, CountMonotone
    <2> QED BY <1>4, <2>1, <2>2, <2>3
  <1>9. ASSUME NEW gold \in Nat, NEW gold2 \in Nat, WorthBelow(T, gold)
        PROVE  WorthBelow(S, gold2)
    <2> SUFFICES ASSUME NEW c \in Currencies
                 PROVE  GrossAt(Least(S), c, gold2) < Limits[c].hardGross
      BY DEF WorthBelow
    <2>1. GrossAt(Least(T), c, gold) < Limits[c].hardGross BY <1>9 DEF WorthBelow
    <2>2. ASSUME NEW e \in Least(S) PROVE ValueAt(e, gold2) <= ValueAt(least[e], gold)
      <3>1. ValueAt(e, gold2) = ValueAt(least[e], gold) BY <1>7 DEF ValueAt
      <3>2. ValueAt(e, gold2) \in Nat BY <1>5, ValueType
      <3> QED BY <3>1, <3>2
    <2>3. /\ GrossAt(Least(S), c, gold2) \in Nat /\ GrossAt(Least(T), c, gold) \in Nat
          /\ GrossAt(Least(S), c, gold2) <= GrossAt(Least(T), c, gold)
      BY <1>5, <1>6, <1>7, <2>2, GrossMonotone
    <2> QED BY <1>4, <2>1, <2>3
  <1> QED BY <1>8, <1>9

\* What a decision shows: the trades committed so far and the one now let
\* through go one to one into the book the thresholds were compared with, so
\* they are below the count that the book is below.
LEMMA CountLetThrough ==
  ASSUME IsFiniteSet(Signals), NEW S \in SUBSET Signals, NEW s \in Signals,
         NEW cached \in SUBSET Signals, NEW live \in SUBSET Signals,
         S \subseteq cached \cup live,
         NEW book \in SUBSET Entry, IsFiniteSet(book),
         Open(cached) \cup Projected(live \cup {s}) \subseteq book,
         CountsBelow(S),
         \A c \in Affected(s) \cap Currencies :
           OneSided(c) => NetCount(book, c) < Limits[c].hardCount
  PROVE  CountsBelow(S \cup {s})
  <1> DEFINE A == Open(S \cup {s})
             into == [e \in A |-> IF e[1] \in live \cup {s} THEN <<e[1], "pending">> ELSE <<e[1], "open">>]
  <1>1. A \in SUBSET Entry /\ IsFiniteSet(A)
    <2>1. S \cup {s} \in SUBSET Signals OBVIOUS
    <2> QED BY <2>1, OpenBook
  <1>2. \A e \in A : e[1] \in S \cup {s} /\ e = <<e[1], "open">> BY DEF Open
  <1>3. into \in [A -> book] BY <1>2 DEF Open, Projected
  <1>4. \A e \in A : into[e][1] = e[1] OBVIOUS
  <1>5. \A e, f \in A : into[e] = into[f] => e = f BY <1>2, <1>4
  <1>6. into \in Injection(A, book) BY <1>3, <1>5, Fun_IsInj
  <1>7. \A c \in Currencies : Limits[c].hardCount \in Nat BY DEF LimitInfo
  <1>8. ASSUME NEW c, c \notin Affected(s), NEW side
        PROVE  On(A, c, side) = On(Open(S), c, side)
    BY <1>8 DEF On, Open
  <1> HIDE DEF into
  <1>9. ASSUME NEW c
        PROVE  /\ CountBoth(A, c) \in Nat /\ CountBoth(book, c) \in Nat
               /\ CountBoth(A, c) <= CountBoth(book, c)
    <2> HIDE DEF A
    <2> QED BY <1>1, <1>4, <1>6, CountMonotone
  <1> SUFFICES ASSUME NEW c \in Currencies, OneSided(c)
               PROVE  NetCount(A, c) < Limits[c].hardCount
    BY DEF CountsBelow
  <1>10. CASE c \in Affected(s)
    <2>1. NetCount(book, c) < Limits[c].hardCount BY <1>10
    <2>2. NetCount(book, c) = CountBoth(book, c) /\ NetCount(A, c) = CountBoth(A, c)
      BY <1>1, OneSidedCount
    <2>3. CountBoth(A, c) <= CountBoth(book, c) /\ CountBoth(A, c) \in Nat /\ CountBoth(book, c) \in Nat
      BY <1>9
    <2> QED BY <1>7, <2>1, <2>2, <2>3
  <1>11. CASE c \notin Affected(s)
    BY <1>8, <1>11 DEF CountsBelow, NetCount
  <1> QED BY <1>10, <1>11

\* ... and, each at its least value, below the gross that the book is below at
\* the price of gold of the moment.
LEMMA WorthLetThrough ==
  ASSUME IsFiniteSet(Signals), NEW S \in SUBSET Signals, NEW s \in Signals,
         NEW cached \in SUBSET Signals, NEW live \in SUBSET Signals,
         S \subseteq cached \cup live,
         NEW book \in SUBSET Entry, IsFiniteSet(book),
         Open(cached) \cup Projected(live \cup {s}) \subseteq book,
         NEW gold \in Nat, gold \in {0} \cup SpotPrices, WorthBelow(S, gold),
         \A c \in Affected(s) \cap Currencies : GrossAt(book, c, gold) < Limits[c].hardGross
  PROVE  WorthBelow(S \cup {s}, gold)
  <1> DEFINE A == Least(S \cup {s})
             into == [e \in A |-> IF e[1] \in live \cup {s} THEN <<e[1], "pending">> ELSE <<e[1], "open">>]
  <1>1. A \in SUBSET Entry /\ IsFiniteSet(A)
    <2>1. S \cup {s} \in SUBSET Signals OBVIOUS
    <2> QED BY <2>1, OpenBook
  <1>2. \A e \in A : e[1] \in S \cup {s} /\ e[1] \in Signals /\ e = <<e[1], "least">> BY DEF Least
  <1>3. into \in [A -> book] BY <1>2 DEF Open, Projected
  <1>4. \A e \in A : into[e][1] = e[1] OBVIOUS
  <1>5. \A e, f \in A : into[e] = into[f] => e = f BY <1>2, <1>4
  <1>6. into \in Injection(A, book) BY <1>3, <1>5, Fun_IsInj
  <1>7. \A c \in Currencies : Limits[c].hardGross \in Nat BY DEF LimitInfo
  <1>8. ASSUME NEW c, c \notin Affected(s), NEW side
        PROVE  On(A, c, side) = On(Least(S), c, side)
    BY <1>8 DEF On, Least
  <1>9. \A e \in A : into[e] = <<e[1], "pending">> \/ into[e] = <<e[1], "open">> OBVIOUS
  <1> HIDE DEF into
  <1>10. ASSUME NEW e \in A PROVE ValueAt(e, gold) <= ValueAt(into[e], gold)
    <2>1. e[1] \in Signals /\ e = <<e[1], "least">> BY <1>2
    <2>2. PICK kind \in {"open", "pending"} : into[e] = <<e[1], kind>> BY <1>9
    <2>3. ValueAt(<<e[1], "least">>, gold) <= ValueAt(<<e[1], kind>>, gold)
      BY <2>1, LeastIsLeast
    <2> QED BY <2>1, <2>2, <2>3
  <1>11. ASSUME NEW c
         PROVE  /\ GrossAt(A, c, gold) \in Nat /\ GrossAt(book, c, gold) \in Nat
                /\ GrossAt(A, c, gold) <= GrossAt(book, c, gold)
    <2> HIDE DEF A
    <2> QED BY <1>1, <1>4, <1>6, <1>10, GrossMonotone
  <1> SUFFICES ASSUME NEW c \in Currencies
               PROVE  GrossAt(A, c, gold) < Limits[c].hardGross
    BY DEF WorthBelow
  <1>12. CASE c \in Affected(s)
    <2>1. GrossAt(book, c, gold) < Limits[c].hardGross BY <1>12
    <2> HIDE DEF A
    <2>2. /\ GrossAt(A, c, gold) \in Nat /\ GrossAt(book, c, gold) \in Nat
          /\ GrossAt(A, c, gold) <= GrossAt(book, c, gold)
      BY <1>11
    <2>3. Limits[c].hardGross \in Nat BY <1>7
    <2> QED BY <2>1, <2>2, <2>3
  <1>13. CASE c \notin Affected(s)
    BY <1>8, <1>13 DEF WorthBelow, GrossAt
  <1> QED BY <1>12, <1>13

\* The trades that are open, or let through and still in time to be placed.
Committed == broker \cup {t \in Live : eval[t] \in Allowed}

\* A step that lets nothing through commits nothing.
LEMMA NothingNew ==
  ASSUME GateInv, clock' \in Nat, clock <= clock',
         DOMAIN pending' \subseteq DOMAIN pending,
         \A t \in DOMAIN pending' : pending'[t] = pending[t],
         broker' \subseteq Committed,
         \A t \in Signals : eval'[t] \in Allowed => eval[t] \in Allowed
  PROVE  Committed' \subseteq Committed
  <1> SUFFICES ASSUME NEW t \in Live', eval'[t] \in Allowed PROVE t \in Live /\ eval[t] \in Allowed
    BY DEF Committed
  <1>1. t \in DOMAIN pending' /\ ~(clock' > pending'[t]) BY DEF Live, Expired
  <1>2. t \in DOMAIN pending /\ t \in Signals /\ pending[t] \in Int /\ clock \in Int
    BY <1>1 DEF GateInv, GateTypeOK
  <1>3. ~(clock > pending[t]) BY <1>1, <1>2
  <1> QED BY <1>2, <1>3 DEF Live, Expired

\* A decision over a book that has all that is committed: nothing new, or s.
LetsThrough(s, cached) ==
  /\ s \in Signals /\ cached \in SUBSET Signals
  /\ Committed' \subseteq Committed \cup {s} /\ Committed \subseteq cached \cup Live
  /\ spot' = spot /\ ~(Info[s].base = "XAU" /\ spot = 0)
  /\ \A c \in Affected(s) : ~HardBlocked(ProjectedBook(s, cached), c)

\* A decision commits the gate to nothing new, or lets its signal through on a
\* book that holds everything it was committed to.
LEMMA DecideCommits ==
  ASSUME GateInv, NEW s \in Signals, NEW cached \in SUBSET Signals, Decide(s, cached),
         eval[s] \notin Allowed, UNCHANGED <<spot, broker, clock>>,
         broker \subseteq cached \cup Live
  PROVE  Committed' \subseteq Committed \/ LetsThrough(s, cached)
  <1> DEFINE v == Verdict(s, ProjectedBook(s, cached))
  <1>0. /\ eval \in [Signals -> EvalStates] /\ clock \in Nat /\ DOMAIN pending \subseteq Signals
        /\ broker \subseteq Signals
    BY DEF GateInv, GateTypeOK
  <1>1. CASE FailClosed(s) /\ UNCHANGED pending
    <2>1. eval' = [eval EXCEPT ![s] = "HARD_BLOCK"] BY <1>1 DEF FailClosed
    <2>2. \A t \in Signals : eval'[t] \in Allowed => eval[t] \in Allowed BY <1>0, <2>1 DEF Allowed
    <2>3. broker' \subseteq Committed BY DEF Committed
    <2> QED BY <1>0, <1>1, <2>2, <2>3, NothingNew
  <1>2. CASE v = "HARD_BLOCK" /\ eval' = [eval EXCEPT ![s] = v] /\ Purge
    <2>1. \A t \in Signals : eval'[t] \in Allowed => eval[t] \in Allowed BY <1>0, <1>2 DEF Allowed
    <2>2. broker' \subseteq Committed BY DEF Committed
    <2>3. /\ DOMAIN pending' \subseteq DOMAIN pending
          /\ \A t \in DOMAIN pending' : pending'[t] = pending[t]
      BY <1>2 DEF Purge, Live
    <2> QED BY <1>0, <2>1, <2>2, <2>3, NothingNew
  <1>3. CASE /\ ~(Info[s].base = "XAU" /\ spot = 0)
             /\ v # "HARD_BLOCK" /\ eval' = [eval EXCEPT ![s] = v] /\ Register(s)
    <2>1. DOMAIN pending' = Live \cup {s} /\ \A t \in Live \ {s} : pending'[t] = pending[t]
      BY <1>3 DEF Register
    <2>2. Live' \subseteq Live \cup {s} BY <2>1 DEF Live
    <2>3. \A t \in Signals \ {s} : eval'[t] = eval[t] BY <1>0, <1>3
    <2>4. Live \subseteq Signals BY <1>0 DEF Live
    <2>5. Committed' \subseteq Committed \cup {s} BY <2>2, <2>3, <2>4 DEF Committed
    <2>6. \A c \in Affected(s) : ~HardBlocked(ProjectedBook(s, cached), c) BY <1>3 DEF Verdict
    <2>7. Committed \subseteq cached \cup Live BY DEF Committed
    <2> QED BY <1>3, <2>5, <2>6, <2>7 DEF LetsThrough
  <1> QED BY <1>1, <1>2, <1>3 DEF Decide

\* What a step commits: nothing new, or a trade that a decision lets through
\* over a book that has every committed trade.
LEMMA CommitStep ==
  ASSUME Careful, GateInv, [Next]_vars
  PROVE  \/ Committed' \subseteq Committed /\ spot' \in {spot} \cup SpotPrices
         \/ \E s, cached : LetsThrough(s, cached)
  <1>0. /\ eval \in [Signals -> EvalStates] /\ clock \in Nat /\ DOMAIN pending \subseteq Signals
        /\ broker \subseteq Signals /\ positions \in SUBSET Signals /\ reply.seen \in SUBSET Signals
    BY DEF GateInv, GateTypeOK
  <1>1. broker \subseteq Committed BY DEF Committed
  <1>2. ASSUME UNCHANGED <<pending, eval, clock>>, broker' \subseteq broker
        PROVE  Committed' \subseteq Committed
    BY <1>0, <1>1, <1>2, NothingNew
  <1>3. CASE InitializeBegin \/ InitializeOk \/ InitializeFails \/ RefreshBegin \/ RefreshOk
             \/ RefreshFails \/ SynchronizeFails \/ (\E p \in SpotPrices : UpdateSpotPrices(p))
             \/ UNCHANGED vars
    <2>1. UNCHANGED <<pending, eval, clock, broker>> /\ spot' \in {spot} \cup SpotPrices
      BY <1>3 DEF InitializeBegin, InitializeOk, InitializeFails, RefreshBegin, RefreshOk,
                  RefreshFails, SynchronizeFails, UpdateSpotPrices, vars, gateVars
    <2> QED BY <1>2, <2>1
  <1>4. CASE Tick
    <2>1. UNCHANGED <<pending, eval, broker, spot>> /\ clock' = clock + 1
      BY <1>4 DEF Tick, gateVars
    <2>2. clock' \in Nat /\ clock <= clock' BY <1>0, <2>1
    <2> QED BY <1>1, <2>1, <2>2, NothingNew
  <1>5. CASE Synchronize
    <2>1. /\ UNCHANGED <<eval, broker, spot, clock>> /\ DOMAIN pending' \subseteq DOMAIN pending
          /\ \A t \in DOMAIN pending' : pending'[t] = pending[t]
      BY <1>5 DEF Synchronize, Forget
    <2> QED BY <1>0, <1>1, <2>1, NothingNew
  <1>6. ASSUME NEW s \in Signals, EngineStep(s)
        PROVE  Committed' \subseteq Committed /\ spot' = spot
    <2>1. CASE ConfirmExecution(s) \/ CancelPending(s)
      <3>1. /\ UNCHANGED <<broker, spot, clock>> /\ DOMAIN pending' \subseteq DOMAIN pending
            /\ \A t \in DOMAIN pending' : pending'[t] = pending[t]
        BY <2>1 DEF ConfirmExecution, CancelPending, Forget
      <3>2. \A t \in Signals : eval'[t] \in Allowed => eval[t] \in Allowed
        BY <1>0, <2>1 DEF ConfirmExecution, CancelPending, Allowed
      <3> QED BY <1>0, <1>1, <3>1, <3>2, NothingNew
    <2>2. CASE Execute(s)
      <3>1. /\ UNCHANGED <<pending, spot, clock>> /\ broker' = broker \cup {s}
            /\ eval[s] \in Allowed /\ eval' = [eval EXCEPT ![s] = "executed"]
            /\ s \in DOMAIN pending /\ clock <= pending[s] - CacheAge - MaxFetch
        BY <2>2 DEF Execute, gateVars
      <3>2. pending[s] \in Int BY <3>1 DEF GateInv, GateTypeOK
      <3>3. ~(clock > pending[s]) BY <1>0, <3>1, <3>2
      <3>4. broker' \subseteq Committed BY <1>1, <3>1, <3>3 DEF Committed, Live, Expired
      <3>5. \A t \in Signals : eval'[t] \in Allowed => eval[t] \in Allowed
        BY <1>0, <3>1 DEF Allowed
      <3> QED BY <1>0, <3>1, <3>4, <3>5, NothingNew
    <2>3. CASE Close(s)
      BY <1>2, <2>3 DEF Close, gateVars
    <2>4. CASE EngineForgets(s)
      <3>1. UNCHANGED <<pending, spot, clock, broker>> BY <2>4 DEF EngineForgets, gateVars
      <3>2. \A t \in Signals : eval'[t] \in Allowed => eval[t] \in Allowed
        BY <1>0, <2>4 DEF EngineForgets, Allowed
      <3> QED BY <1>0, <1>1, <3>1, <3>2, NothingNew
    <2> QED BY <1>6, <2>1, <2>2, <2>3, <2>4 DEF EngineStep
  <1>7. ASSUME NEW s \in Signals,
               EvalEnter(s) \/ EvalRefused(s) \/ EvalInvalid(s) \/ EvalChecked(s) \/ EvalLockTimeout(s)
               \/ EvalFetch(s) \/ EvalFetchTimeout(s) \/ EvalFetchError(s) \/ EvalLateReturn(s)
        PROVE  Committed' \subseteq Committed /\ spot' = spot
    <2>1. UNCHANGED <<pending, spot, clock, broker>>
      BY <1>7 DEF EvalEnter, EvalRefused, EvalInvalid, EvalChecked, EvalLockTimeout, EvalFetch,
                  EvalFetchTimeout, EvalFetchError, EvalLateReturn, gateVars
    <2>2. \E x \in {"checking", "HARD_BLOCK", "waiting", "fetching", "timedout"} :
            eval' = [eval EXCEPT ![s] = x]
      BY <1>7 DEF EvalEnter, EvalRefused, EvalInvalid, EvalChecked, EvalLockTimeout, EvalFetch,
                  EvalFetchTimeout, EvalFetchError, EvalLateReturn, FailClosed
    <2>3. \A t \in Signals : eval'[t] \in Allowed => eval[t] \in Allowed
      BY <1>0, <2>2 DEF Allowed
    <2> QED BY <1>0, <1>1, <2>1, <2>3, NothingNew
  <1>8. ASSUME NEW s \in Signals, EvalCached(s)
        PROVE  (Committed' \subseteq Committed /\ spot' = spot) \/ LetsThrough(s, positions)
    <2>1. /\ eval[s] = "waiting" /\ ~ShouldRefresh /\ Decide(s, positions)
          /\ UNCHANGED <<spot, broker, clock>>
      BY <1>8 DEF EvalCached
    <2>2. broker \subseteq positions \cup Live BY <2>1, CacheUsable DEF Accounted
    <2>3. eval[s] \notin Allowed BY <2>1 DEF Allowed
    <2> QED BY <1>0, <2>1, <2>2, <2>3, DecideCommits
  <1>9. ASSUME NEW s \in Signals, EvalFetched(s)
        PROVE  (Committed' \subseteq Committed /\ spot' = spot) \/ LetsThrough(s, reply.seen)
    <2>1. /\ eval[s] = "fetching" /\ lock # Free /\ Decide(s, reply.seen)
          /\ UNCHANGED <<spot, broker, clock>>
      BY <1>9 DEF EvalFetched, ProviderReturns, Free
    <2>2. ASSUME NEW t \in broker \ reply.seen PROVE t \in Live
      <3>1. /\ t \in DOMAIN pending /\ pending[t] \in Int /\ reply.from \in 0..clock
            /\ pending[t] >= reply.from + MaxFetch + CacheAge /\ clock - reply.from <= MaxFetch
        BY <2>1 DEF GateInv, GateTypeOK, Timely, FetchCovered, Covered
      <3>2. ~(clock > pending[t]) BY <1>0, <3>1
      <3> QED BY <3>1, <3>2 DEF Live, Expired
    <2>3. broker \subseteq reply.seen \cup Live BY <2>2
    <2>4. eval[s] \notin Allowed BY <2>1 DEF Allowed
    <2> QED BY <1>0, <2>1, <2>3, <2>4, DecideCommits
  <1> QED BY <1>3, <1>4, <1>5, <1>6, <1>7, <1>8, <1>9 DEF Next, EvalStep, EvalReturn

-----------------------------------------------------------------------------
\* What is open when the gate is created is below the limits.
StartsBelow == IsFiniteSet(Signals) /\ CountsBelow(Opened) /\ WorthBelow(Opened, 0)

\* The decision of a step that lets a trade through, in numbers.
LEMMA LetsThroughBelow ==
  ASSUME GateInv, IsFiniteSet(Signals), NEW s, NEW cached, LetsThrough(s, cached)
  PROVE  /\ s \in Signals /\ spot \in Nat /\ Committed \in SUBSET Signals /\ Live \in SUBSET Signals
         /\ cached \in SUBSET Signals /\ Committed \subseteq cached \cup Live
         /\ ProjectedBook(s, cached) \in SUBSET Entry /\ IsFiniteSet(ProjectedBook(s, cached))
         /\ Open(cached) \cup Projected(Live \cup {s}) \subseteq ProjectedBook(s, cached)
         /\ \A c \in Affected(s) \cap Currencies :
              /\ OneSided(c) => NetCount(ProjectedBook(s, cached), c) < Limits[c].hardCount
              /\ GrossAt(ProjectedBook(s, cached), c, spot) < Limits[c].hardGross
  <1> DEFINE book == ProjectedBook(s, cached)
  <1>1. s \in Signals /\ cached \in SUBSET Signals /\ Committed \subseteq cached \cup Live
    BY DEF LetsThrough
  <1>2. Live \in SUBSET Signals /\ Committed \in SUBSET Signals /\ spot \in Nat
    <2>1. Live \in SUBSET Signals BY DEF GateInv, GateTypeOK, Live
    <2>2. Committed \in SUBSET Signals BY <2>1 DEF GateInv, GateTypeOK, Committed
    <2>3. spot \in Nat BY DEF GateInv, GateTypeOK
    <2> QED BY <2>1, <2>2, <2>3
  <1>3. Live \cup {s} \in SUBSET Signals BY <1>1, <1>2
  <1>4. book \in SUBSET Entry /\ IsFiniteSet(book)
    BY <1>1, <1>3, OpenBook, FS_Union DEF ProjectedBook
  <1>5. Open(cached) \cup Projected(Live \cup {s}) \subseteq book BY DEF ProjectedBook
  <1> HIDE DEF book
  <1>6. ASSUME NEW c \in Affected(s) \cap Currencies
        PROVE  /\ OneSided(c) => NetCount(book, c) < Limits[c].hardCount
               /\ GrossAt(book, c, spot) < Limits[c].hardGross
    <2>1. ~HardBlocked(book, c) BY DEF LetsThrough, book
    <2>2. /\ ~(NetCount(book, c) >= Limits[c].hardCount)
          /\ ~(GrossNotional(book, c) >= Limits[c].hardGross)
      BY <2>1 DEF HardBlocked
    <2>3. Limits[c].hardCount \in Nat /\ Limits[c].hardGross \in Nat BY DEF LimitInfo
    <2>4. OneSided(c) => NetCount(book, c) \in Nat BY <1>4, OneSidedCount
    <2>5. GrossNotional(book, c) = GrossAt(book, c, spot) BY WorthIs DEF GrossNotional, GrossAt
    <2>6. GrossAt(book, c, spot) \in Nat
      <3> DEFINE same == [e \in book |-> e]
      <3>1. same \in Injection(book, book) BY Fun_IsInj
      <3>2. \A e \in book : same[e][1] = e[1] OBVIOUS
      <3>3. \A e \in book : ValueAt(e, spot) <= ValueAt(same[e], spot)
        BY <1>2, <1>4, ValueType
      <3> HIDE DEF same
      <3> QED BY <1>2, <1>4, <3>1, <3>2, <3>3, GrossMonotone
    <2> QED BY <2>2, <2>3, <2>4, <2>5, <2>6
  <1> QED BY <1>1, <1>2, <1>4, <1>5, <1>6 DEF book

\* Whatever evaluations run at once, however late the provider answers and
\* whatever prices do, a currency that is traded in one direction never has as
\* many open trades as its hard limit (gate.py _evaluate_thresholds).
THEOREM CountsStayBelow ==
  ASSUME Careful, StartsBelow
  PROVE  Spec => []CountsHold
  <1> DEFINE Inv == CountsBelow(Committed)
  <1>0. IsFiniteSet(Signals) BY DEF StartsBelow
  <1>1. Init => Inv
    <2> SUFFICES ASSUME Init PROVE Inv OBVIOUS
    <2>1. Committed = Opened BY DEF Init, Committed, Live
    <2> QED BY <2>1 DEF StartsBelow
  <1>2. GateInv /\ Inv /\ [Next]_vars /\ GateInv' => Inv'
    <2> SUFFICES ASSUME GateInv, Inv, [Next]_vars, GateInv' PROVE CountsBelow(Committed')
      OBVIOUS
    <2>1. Committed \in SUBSET Signals /\ Committed' \in SUBSET Signals
      BY DEF GateInv, GateTypeOK, Committed, Live
    <2>2. CASE Committed' \subseteq Committed BY <1>0, <2>1, <2>2, Fewer
    <2>3. ASSUME NEW s, NEW cached, LetsThrough(s, cached) PROVE CountsBelow(Committed')
      <3>1. Committed' \subseteq Committed \cup {s} /\ Committed \cup {s} \in SUBSET Signals
        BY <2>1, <2>3 DEF LetsThrough
      <3>2. CountsBelow(Committed \cup {s})
        <4> DEFINE book == ProjectedBook(s, cached)
        <4>1. /\ s \in Signals /\ Committed \in SUBSET Signals /\ Live \in SUBSET Signals
              /\ cached \in SUBSET Signals /\ Committed \subseteq cached \cup Live
              /\ book \in SUBSET Entry /\ IsFiniteSet(book)
              /\ Open(cached) \cup Projected(Live \cup {s}) \subseteq book
              /\ \A c \in Affected(s) \cap Currencies :
                   OneSided(c) => NetCount(book, c) < Limits[c].hardCount
          BY <1>0, <2>3, LetsThroughBelow
        <4> HIDE DEF book
        <4> QED BY <1>0, <4>1, CountLetThrough
      <3> QED BY <1>0, <2>1, <3>1, <3>2, Fewer
    <2> QED BY <2>2, <2>3, CommitStep
  <1>3. GateInv /\ Inv => CountsHold
    <2> SUFFICES ASSUME GateInv, Inv PROVE CountsBelow(broker)
      BY DEF CountsBelow, CountBelow, CountsHold, OneSidedCurrencies
    <2>1. broker \in SUBSET Signals /\ Committed \in SUBSET Signals /\ broker \subseteq Committed
      BY DEF GateInv, GateTypeOK, Committed, Live
    <2> QED BY <1>0, <2>1, Fewer
  <1> HIDE DEF Inv
  <1> QED BY <1>1, <1>2, <1>3, StaleCacheCovered, PTL DEF Spec

\* What is open at the broker stays under the hard limits, whatever prices are
\* and however they move: the count of every currency traded in one direction,
\* and the gross notional of every currency with each trade at its least value
\* (gate.py _include_pending_in_projection, _evaluate_thresholds).
THEOREM LimitsAlwaysHold ==
  ASSUME Careful, StartsBelow
  PROVE  Spec => []LimitsHold
  <1> DEFINE Inv == WorthBelow(Committed, spot)
  <1>0. IsFiniteSet(Signals) BY DEF StartsBelow
  <1>1. Init => Inv
    <2> SUFFICES ASSUME Init PROVE Inv OBVIOUS
    <2>1. Committed = Opened /\ spot = 0 BY DEF Init, Committed, Live
    <2> QED BY <2>1 DEF StartsBelow
  <1>2. GateInv /\ Inv /\ [Next]_vars /\ GateInv' => Inv'
    <2> SUFFICES ASSUME GateInv, Inv, [Next]_vars, GateInv' PROVE WorthBelow(Committed', spot')
      OBVIOUS
    <2>1. Committed \in SUBSET Signals /\ Committed' \in SUBSET Signals
      BY DEF GateInv, GateTypeOK, Committed, Live
    <2>2. spot \in {0} \cup SpotPrices /\ spot \in Nat /\ spot' \in Nat
      <3>1. spot \in {0} \cup SpotPrices BY DEF GateInv, GateTypeOK
      <3>2. spot' \in {0} \cup SpotPrices BY DEF GateInv, GateTypeOK
      <3>3. \A p \in {0} \cup SpotPrices : p \in Nat OBVIOUS
      <3> QED BY <3>1, <3>2, <3>3
    <2>3. CASE Committed' \subseteq Committed
      <3>1. WorthBelow(Committed, spot) OBVIOUS
      <3> QED BY <1>0, <2>1, <2>2, <2>3, <3>1, Fewer
    <2>4. ASSUME NEW s, NEW cached, LetsThrough(s, cached) PROVE WorthBelow(Committed', spot')
      <3> DEFINE book == ProjectedBook(s, cached)
      <3>1. Committed' \subseteq Committed \cup {s} /\ Committed \cup {s} \in SUBSET Signals
        BY <2>1, <2>4 DEF LetsThrough
      <3>2. /\ s \in Signals /\ Live \in SUBSET Signals
            /\ cached \in SUBSET Signals /\ Committed \subseteq cached \cup Live
            /\ book \in SUBSET Entry /\ IsFiniteSet(book)
            /\ Open(cached) \cup Projected(Live \cup {s}) \subseteq book
            /\ \A c \in Affected(s) \cap Currencies : GrossAt(book, c, spot) < Limits[c].hardGross
        BY <1>0, <2>4, LetsThroughBelow
      <3> HIDE DEF book
      <3>3. WorthBelow(Committed, spot) OBVIOUS
      <3>4. WorthBelow(Committed \cup {s}, spot)
        BY <1>0, <2>1, <2>2, <3>2, <3>3, WorthLetThrough
      <3> QED BY <1>0, <2>1, <2>2, <3>1, <3>4, Fewer
    <2> QED BY <2>3, <2>4, CommitStep
  <1>3. GateInv /\ Inv => \A c \in Currencies : GrossBelow(c)
    <2> SUFFICES ASSUME GateInv, Inv, NEW c \in Currencies PROVE GrossBelow(c) OBVIOUS
    <2>1. broker \in SUBSET Signals /\ Committed \in SUBSET Signals /\ broker \subseteq Committed
      BY DEF GateInv, GateTypeOK, Committed, Live
    <2>2. spot \in Nat BY DEF GateInv, GateTypeOK
    <2>3. WorthBelow(broker, spot) BY <1>0, <2>1, <2>2, Fewer
    <2>4. GrossNotional(Least(broker), c) = GrossAt(Least(broker), c, spot)
      BY WorthIs DEF GrossNotional, GrossAt
    <2> QED BY <2>3, <2>4 DEF WorthBelow, GrossBelow
  <1>4. Spec => [](\A c \in Currencies : GrossBelow(c))
    <2> HIDE DEF Inv
    <2> QED BY <1>1, <1>2, <1>3, StaleCacheCovered, PTL DEF Spec
  <1>5. (\A c \in Currencies : GrossBelow(c)) /\ CountsHold => LimitsHold
    BY DEF LimitsHold
  <1> QED BY <1>4, <1>5, CountsStayBelow, PTL
=============================================================================
