------------------------------ MODULE SimClock ------------------------------
(***************************************************************************)
(* SimulatedClock of blackbox replay/simulated_clock.rs: three atomics     *)
(* shared by every clone of the clock.  advance is one fetch_add;          *)
(* advance_to loads, compares and stores, so that two users may interleave *)
(* there.                                                                  *)
(***************************************************************************)
EXTENDS Integers

CONSTANTS ClockUsers,    \* threads that hold a clone of the clock
          Targets,       \* what they advance it to
          MaxCalls       \* bound on their calls

\* Times are microseconds since the epoch.
ASSUME ClockAssumption == Targets \subseteq Nat

VARIABLES current,       \* ClockState::current
          paused,        \* ClockState::paused
          warp_enabled,  \* ClockState::warp_enabled
          user,          \* each user's advance_to between its load and its store
          clock_calls    \* calls so far

clockVars == <<current, paused, warp_enabled, user, clock_calls>>

NotAdvancing == [target |-> 0, pending |-> FALSE, raced |-> FALSE]

\* SimulatedClock::new, warping by default.
ClockInit(start) ==
  /\ current = start /\ paused = FALSE /\ warp_enabled = TRUE
  /\ user = [u \in ClockUsers |-> NotAdvancing] /\ clock_calls = 0

\* History: the clock changes between a user's load and its store.
Raced(by) == [u \in ClockUsers |-> IF u = by THEN NotAdvancing
                                   ELSE [user[u] EXCEPT !.raced = user[u].pending]]

\* Mutant: the target is not compared with the time.
AdvanceToLoadBlind(u, target) ==
  /\ ~user[u].pending /\ clock_calls < MaxCalls
  /\ clock_calls' = clock_calls + 1
  /\ user' = [user EXCEPT ![u] = [target |-> target, pending |-> TRUE, raced |-> FALSE]]
  /\ UNCHANGED <<current, paused, warp_enabled>>

\* advance_to up to the comparison: false if the target is not later.
AdvanceToLoad(u, target) ==
  /\ ~user[u].pending /\ clock_calls < MaxCalls
  /\ clock_calls' = clock_calls + 1
  /\ user' = IF target > current
             THEN [user EXCEPT ![u] = [target |-> target, pending |-> TRUE, raced |-> FALSE]]
             ELSE user
  /\ UNCHANGED <<current, paused, warp_enabled>>

AdvanceToStore(u) ==
  /\ user[u].pending
  /\ current' = user[u].target
  /\ user' = Raced(u)
  /\ UNCHANGED <<paused, warp_enabled, clock_calls>>

\* SimulatedClock::set, to any time.
set(u, time) ==
  /\ ~user[u].pending /\ clock_calls < MaxCalls
  /\ clock_calls' = clock_calls + 1
  /\ current' = time
  /\ user' = Raced(u)
  /\ UNCHANGED <<paused, warp_enabled>>

\* advance, with the positive steps of a replay.
advance(u, micros) ==
  /\ ~user[u].pending /\ clock_calls < MaxCalls
  /\ clock_calls' = clock_calls + 1
  /\ current' = current + micros
  /\ user' = Raced(u)
  /\ UNCHANGED <<paused, warp_enabled>>

\* enable_warp, disable_warp, pause and resume by a user; nothing in advance
\* or advance_to reads either flag.
SetFlags(u) ==
  /\ clock_calls < MaxCalls
  /\ clock_calls' = clock_calls + 1
  /\ paused' \in BOOLEAN /\ warp_enabled' \in BOOLEAN
  /\ UNCHANGED <<current, user>>

ClockNext ==
  \E u \in ClockUsers :
    \/ \E t \in Targets : AdvanceToLoad(u, t) \/ set(u, t)
    \/ AdvanceToStore(u) \/ advance(u, 1) \/ SetFlags(u)

-----------------------------------------------------------------------------
\* advance_to is there to keep time from going back.  It does, except in one
\* case: the clock was moved by another user between its load and its store.
ClockBackOnlyInRace ==
  [][\A u \in ClockUsers :
       (user[u].pending /\ ~user'[u].pending /\ current' < current) => user[u].raced]_clockVars
=============================================================================
