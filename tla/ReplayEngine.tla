---------------------------- MODULE ReplayEngine ----------------------------
(***************************************************************************)
(* ReplayEngine of blackbox replay/engine.rs with SkipIdleScheduler        *)
(* (scheduler.rs) and the data sources (data_source.rs).  The engine is    *)
(* driven by one caller, which may also set its source's active flag; the  *)
(* sender of a live source runs beside it.                                 *)
(*                                                                         *)
(* A frame is its number, its timestamp, its kind and, for a checkpoint,   *)
(* the state hash it carries.                                              *)
(***************************************************************************)
EXTENDS SimClock, Sequences, SequencesExt, FiniteSets

CONSTANTS MaxSteps,        \* MAX_STEPS of step_until_event
          Multipliers,     \* of FastForward
          MaxSent,         \* bound on the frames a live source is sent
          MaxSessions,     \* bound on the calls of reset
          MaxWarps,        \* bound on the warps before a call of step_until_event
          MaxSwitches      \* bound on the changes of mode and of the active flag

ASSUME EngineAssumption == MaxSteps \in Nat /\ Multipliers \subseteq Nat

VARIABLES estate,     \* ReplayEngine::state
          mode,       \* ReplayEngine::mode
          sched,      \* SkipIdleScheduler: idle_threshold_us and the dynamic factor
          loaded,     \* a reader was opened by load; nothing reads from it
          src,        \* the data source
          warps,      \* WarpStats
          events,     \* ReplayStats: the events of all sessions and of this one
          driving,    \* the call that is running: none, run or verify
          trace,      \* history: the frames delivered in this session, with the time
          begin,      \* history: the clock when the session began
          past,       \* history: the frames delivered in earlier sessions
          session, switches,
          sent, lost  \* history: frames sent to a live source, and dropped by it

engineOnly == <<estate, mode, sched, loaded, src, warps, events, driving, trace, begin,
                past, session, switches, sent, lost>>
engineVars == <<clockVars, engineOnly>>

\* DataFrame and FrameType.
Frame(id, ts, kind, hash) == [id |-> id, ts |-> ts, kind |-> kind, hash |-> hash]

\* The fields of all data sources; each kind uses some of them.
Source(kind, frames, active) ==
  [kind |-> kind, frames |-> frames, position |-> 0, active |-> active,
   queue |-> <<>>, peeked |-> <<>>, probing |-> FALSE]
NullDataSource == Source("null", <<>>, FALSE)
BufferedDataSource(frames, active) == Source("buffered", frames, active)
LiveDataSource(active) == Source("live", <<>>, active)
\* A journal without a frame is not active.
JournalDataSource(frames) == Source("journal", frames, frames # <<>>)

\* WarpConfig; a factor of 0 stands for none.
WarpConfig(threshold, max_warp_factor) ==
  [idle_threshold_us |-> threshold, factor |-> max_warp_factor]

WarpStats(count, total_us) == [count |-> count, total_us |-> total_us]
ReplayStats(all, session_events) == [all |-> all, session |-> session_events]

\* with_data_source and with_start_time.  The mode is Step although the
\* clock warps.
EngineInit(source, config, start) ==
  /\ ClockInit(start)
  /\ estate = "Idle" /\ mode = "Step" /\ sched = config /\ loaded = FALSE
  /\ src = source
  /\ warps = WarpStats(0, 0) /\ events = ReplayStats(0, 0)
  /\ driving = "none" /\ trace = <<>> /\ past = <<>> /\ begin = start
  /\ session = 1 /\ switches = 0 /\ sent = <<>> /\ lost = {}

-----------------------------------------------------------------------------
\* Data sources

\* What peek leaves behind: a live source takes a frame from its channel.
Peeked(s) ==
  IF s.kind = "live" /\ s.active /\ s.peeked = <<>> /\ s.queue # <<>>
  THEN [s EXCEPT !.peeked = <<Head(s.queue)>>, !.queue = Tail(s.queue)]
  ELSE s

\* The frame at the position, as a sequence of at most one; a journal
\* ignores its flag.
JournalPeek(s) ==
  IF s.position < Len(s.frames) THEN <<s.frames[s.position + 1]>> ELSE <<>>
BufferedPeek(s) == IF s.active THEN JournalPeek(s) ELSE <<>>
LivePeek(s) == IF s.active THEN s.peeked ELSE <<>>

peek(s) ==
  IF s.kind = "live" THEN LivePeek(s)
  ELSE IF s.kind = "buffered" THEN BufferedPeek(s) ELSE JournalPeek(s)

\* The source after next, when peek showed a frame.
Taken(s) ==
  IF s.kind = "live" THEN [s EXCEPT !.peeked = <<>>] ELSE [s EXCEPT !.position = @ + 1]

\* Mutant: the position survives a reset.
RewoundToHere(s) == [s EXCEPT !.peeked = <<>>]

\* DataSource::reset; a live source forgets the frame it had peeked.
Rewound(s) == [s EXCEPT !.position = 0, !.peeked = <<>>]

\* The sender of a live source.
Send(ts) ==
  LET f == Frame(Len(sent) + 1, ts, "data", 0)
  IN  /\ src.kind = "live" /\ Len(sent) < MaxSent
      /\ src' = [src EXCEPT !.queue = Append(@, f)]
      /\ sent' = Append(sent, f)
      /\ UNCHANGED <<clockVars, estate, mode, sched, loaded, warps, events, driving, trace,
                     begin, past, session, switches, lost>>

\* is_disconnected: is_empty, then try_recv; a frame that arrives between
\* the two is taken and thrown away.
DisconnectedProbe ==
  /\ src.kind = "live" /\ driving = "none" /\ ~src.probing
  /\ src.queue = <<>> /\ switches < MaxSwitches
  /\ src' = [src EXCEPT !.probing = TRUE]
  /\ switches' = switches + 1
  /\ UNCHANGED <<clockVars, estate, mode, sched, loaded, warps, events, driving, trace,
                 begin, past, session, sent, lost>>

DisconnectedReceive ==
  /\ src.probing
  /\ src' = [src EXCEPT !.probing = FALSE,
                        !.queue = IF @ = <<>> THEN @ ELSE Tail(@)]
  /\ lost' = lost \cup (IF src.queue = <<>> THEN {} ELSE {Head(src.queue).id})
  /\ UNCHANGED <<clockVars, estate, mode, sched, loaded, warps, events, driving, trace,
                 begin, past, session, switches, sent>>

set_active(b) ==
  /\ src.kind \in {"buffered", "live"} /\ src.active # b
  /\ driving = "none" /\ ~src.probing /\ switches < MaxSwitches
  /\ src' = [src EXCEPT !.active = b]
  /\ switches' = switches + 1
  /\ UNCHANGED <<clockVars, estate, mode, sched, loaded, warps, events, driving, trace,
                 begin, past, session, sent, lost>>

-----------------------------------------------------------------------------
\* The scheduler

Lesser(a, b) == IF a < b THEN a ELSE b

would_warp(gap) == gap > sched.idle_threshold_us /\ warp_enabled

\* The most one warp may advance.
MaxAdvance(gap) == IF sched.factor = 0 THEN gap ELSE sched.idle_threshold_us * sched.factor

\* schedule: the time it sets, how much of the way was warped and how much
\* is left.
schedule(now, ts) ==
  LET gap == ts - now
      step == IF gap <= 0 THEN 0
              ELSE IF would_warp(gap) THEN Lesser(gap, MaxAdvance(gap)) ELSE gap
  IN  [now |-> now + step, warped |-> IF would_warp(gap) THEN step ELSE 0,
       remaining |-> IF gap <= 0 THEN 0 ELSE gap - step]

\* The statistics after a schedule; a warp of nothing counts as a warp.
Counted(w, now, ts, r) ==
  IF would_warp(ts - now) THEN WarpStats(w.count + 1, w.total_us + r.warped) ELSE w

-----------------------------------------------------------------------------
\* The engine

\* A frame handed out at time at.
Deliver(s, f, at, early) ==
  /\ src' = Taken(s)
  /\ events' = ReplayStats(events.all + 1, events.session + 1)
  /\ trace' = Append(trace, [id |-> f.id, ts |-> f.ts, at |-> at, early |-> early])

\* Mutant: the end of the data does not complete the replay.
StepEffectEndless ==
  LET s == Peeked(src)
      next == peek(s)
  IN  IF next = <<>> THEN src' = s /\ UNCHANGED <<estate, current, warps, events, trace>>
      ELSE LET r == schedule(current, next[1].ts)
           IN  /\ current' = r.now
               /\ warps' = Counted(warps, current, next[1].ts, r)
               /\ Deliver(s, next[1], r.now, r.remaining > 0)
               /\ UNCHANGED estate

\* step, when it is not a no-op: it completes, or delivers the next frame
\* wherever the clock has come to.
StepEffect ==
  LET s == Peeked(src)
      next == peek(s)
  IN  IF next = <<>>
      THEN /\ estate' = "Completed" /\ src' = s
           /\ UNCHANGED <<current, warps, events, trace>>
      ELSE LET r == schedule(current, next[1].ts)
           IN  /\ current' = r.now
               /\ warps' = Counted(warps, current, next[1].ts, r)
               /\ Deliver(s, next[1], r.now, r.remaining > 0)
               /\ UNCHANGED estate

CanStep == estate \in {"Playing", "Paused"}
Free == driving = "none" /\ ~src.probing

step ==
  /\ Free /\ CanStep
  /\ StepEffect
  /\ UNCHANGED <<paused, warp_enabled, user, clock_calls, mode, sched, loaded, driving, begin,
                 past, session, switches, sent, lost>>

\* The loop of step_until_event: one more schedule, unless the clock is there.
Onward(leg, ts) ==
  LET r == schedule(leg.now, ts)
  IN  IF leg.remaining = 0 THEN leg
      ELSE [now |-> r.now, remaining |-> r.remaining,
            warps |-> Counted(leg.warps, leg.now, ts, r)]

Way(ts) ==
  LET way[k \in 0 .. MaxSteps] ==
        IF k = 0 THEN [now |-> current, remaining |-> 1, warps |-> warps]
        ELSE Onward(way[k - 1], ts)
  IN  way

\* step_until_event, in any state: it schedules up to MAX_STEPS times and
\* delivers the frame once the clock is there.
step_until_event ==
  LET s == Peeked(src)
      next == peek(s)
      end == Way(next[1].ts)[MaxSteps]
  IN  /\ Free /\ warps.count <= MaxWarps
      /\ IF next = <<>>
         THEN estate' = "Completed" /\ src' = s /\ UNCHANGED <<current, warps, events, trace>>
         ELSE /\ current' = end.now /\ warps' = end.warps
              /\ UNCHANGED estate
              /\ IF end.remaining = 0 THEN Deliver(s, next[1], end.now, FALSE)
                 ELSE src' = s /\ UNCHANGED <<events, trace>>
      /\ UNCHANGED <<paused, warp_enabled, user, clock_calls, mode, sched, loaded, driving, begin,
                     past, session, switches, sent, lost>>

\* play
Playable == loaded \/ src.active \/ peek(src) # <<>>

PlayEffect ==
  IF Playable THEN estate' = "Playing" /\ paused' = FALSE ELSE UNCHANGED <<estate, paused>>

play ==
  /\ Free
  /\ PlayEffect
  /\ UNCHANGED <<current, warp_enabled, user, clock_calls, mode, sched, loaded, src, warps, events,
                 driving, trace, begin, past, session, switches, sent, lost>>

pause ==
  /\ Free /\ estate = "Playing"
  /\ estate' = "Paused" /\ paused' = TRUE
  /\ UNCHANGED <<current, warp_enabled, user, clock_calls, mode, sched, loaded, src, warps, events,
                 driving, trace, begin, past, session, switches, sent, lost>>

toggle == pause \/ (estate \in {"Paused", "Idle"} /\ play)

\* load keeps the reader and makes the engine Idle.
load ==
  /\ Free /\ ~loaded
  /\ loaded' = TRUE /\ estate' = "Idle"
  /\ UNCHANGED <<clockVars, mode, sched, src, warps, events, driving, trace, begin, past, session,
                 switches, sent, lost>>

\* The modes for which set_mode enables the clock's warp.
ModeWarps(m) == m \in {"WarpSpeed", "FastForward"}

\* set_max_warp_factor: a multiplier of 0 is stored like no limit.
FactorStored(m, multiplier) ==
  [sched EXCEPT !.factor = IF m = "FastForward" THEN multiplier ELSE 0]

set_mode(m, multiplier) ==
  /\ Free /\ switches < MaxSwitches
  /\ mode' = m
  /\ warp_enabled' = ModeWarps(m)
  /\ sched' = FactorStored(m, multiplier)
  /\ switches' = switches + 1
  /\ UNCHANGED <<current, paused, user, clock_calls, estate, loaded, src, warps, events, driving,
                 trace, begin, past, session, sent, lost>>

Ids(fs) == [i \in DOMAIN fs |-> fs[i].id]

\* reset: to the epoch, wherever the replay started.
ResetEffect ==
  /\ estate' = "Idle" /\ current' = 0 /\ paused' = FALSE
  /\ src' = Rewound(src)
  /\ lost' = lost \cup {src.peeked[i].id : i \in DOMAIN src.peeked}
  /\ warps' = WarpStats(0, 0)
  /\ events' = ReplayStats(events.all, 0)
  /\ trace' = <<>> /\ past' = past \o Ids(trace)
  /\ begin' = 0 /\ session' = session + 1

reset ==
  /\ Free /\ session < MaxSessions
  /\ ResetEffect
  /\ UNCHANGED <<warp_enabled, user, clock_calls, mode, sched, loaded, driving, switches, sent>>

\* tick and run_to_completion: steps for as long as the engine plays.  Any
\* number of them ends a tick.
RunBegin ==
  /\ Free
  /\ driving' = "run"
  /\ UNCHANGED <<clockVars, estate, mode, sched, loaded, src, warps, events, trace, begin,
                 past, session, switches, sent, lost>>

RunStep ==
  /\ driving = "run" /\ estate = "Playing"
  /\ StepEffect
  /\ UNCHANGED <<paused, warp_enabled, user, clock_calls, mode, sched, loaded, driving, begin,
                 past, session, switches, sent, lost>>

RunEnd ==
  /\ driving = "run" /\ estate # "Playing"
  /\ driving' = "none"
  /\ UNCHANGED <<clockVars, estate, mode, sched, loaded, src, warps, events, trace, begin,
                 past, session, switches, sent, lost>>

EngineNext ==
  \/ \E ts \in Targets : Send(ts)
  \/ DisconnectedProbe \/ DisconnectedReceive
  \/ \E b \in BOOLEAN : set_active(b)
  \/ step \/ step_until_event \/ play \/ toggle \/ load \/ reset
  \/ \E m \in {"Step", "RealTime", "WarpSpeed"} : set_mode(m, 0)
  \/ \E n \in Multipliers : set_mode("FastForward", n)
  \/ RunBegin \/ RunStep \/ RunEnd

-----------------------------------------------------------------------------
\* A session delivers the frames of a journal or buffer from the first one
\* on, none twice and none left out, whoever stepped, paused, switched modes
\* or rewound in between; a replay of a journal that says it is completed has
\* delivered them all.
ReplayExact ==
  src.kind # "live" =>
    /\ Ids(trace) = Ids(SubSeq(src.frames, 1, src.position))
    /\ events.session = Len(trace)
    /\ (src.kind = "journal" /\ estate = "Completed") => src.position = Len(src.frames)

\* Every frame sent to a live source is delivered once and in the order of
\* sending, or is still to come, unless a reset forgot it while it was peeked
\* or is_disconnected swallowed it.
LiveExact ==
  src.kind = "live" =>
    LET shown == past \o (Ids(trace) \o (Ids(src.peeked) \o Ids(src.queue)))
    IN  /\ \A i, j \in DOMAIN shown : i < j => shown[i] < shown[j]
        /\ Range(shown) = {sent[i].id : i \in DOMAIN sent} \ lost

\* Time as the replayed code sees it: a frame comes at the latest timestamp
\* of the session so far, never before its own; only step under FastForward
\* hands a frame out early.
DeliveredOnTime ==
  \A i \in DOMAIN trace :
    LET times == {begin} \cup {trace[k].ts : k \in 1 .. i}
    IN  /\ \E t \in times : trace[i].at <= t
        /\ ~trace[i].early => trace[i].at >= trace[i].ts
        /\ (\A k \in 1 .. i : ~trace[k].early) => \A t \in times : t <= trace[i].at

\* Of the engine's operations only reset sets the clock back, whatever the
\* timestamps of the frames and the changes of mode.
EngineClockForward ==
  [][(session' = session /\ UNCHANGED <<user, clock_calls>>) => current' >= current]_engineVars

\* The time the scheduler says it saved was passed by the clock.
WarpAccounted == warps.total_us <= current - begin

\* A replay shows the recording: each frame of the source once, in order, at the
\* time it was recorded with, whatever mode is chosen when and however often it
\* is stepped, paused, reset or fed; and the time saved was really passed.
ReplayFaithful == ReplayExact /\ LiveExact /\ DeliveredOnTime /\ WarpAccounted

\* Time goes forward: for the users of advance_to unless they race, and for all
\* the engine's operations except reset.
ClockForward == ClockBackOnlyInRace /\ EngineClockForward
=============================================================================
