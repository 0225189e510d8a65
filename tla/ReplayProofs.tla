---------------------------- MODULE ReplayProofs ----------------------------
(***************************************************************************)
(* Replay: time goes forward, a session shows the recording and a verdict  *)
(* is right about it, for any sources, recordings, timestamps, modes, warp *)
(* limits, numbers of steps and users of the clock.                        *)
(*                                                                         *)
(* An action is reduced to what it does to the source, the clock and the   *)
(* trace, of which there are few kinds: it leaves them alone, sends,       *)
(* swallows, rewinds, moves the clock towards the next frame, or delivers  *)
(* that frame.  The inductive invariant adds to the properties that the    *)
(* clock has not passed the next frame by more than the frames before it.  *)
(***************************************************************************)
EXTENDS MCReplay, SequenceTheorems, WellFoundedInduction, TLAPS

-----------------------------------------------------------------------------
\* Induction over the naturals, as a fact about sets of numbers.

\* A set of numbers that is not empty has a least one.
LEMMA LeastNatural ==
  ASSUME NEW T \in SUBSET Nat, T # {}
  PROVE  \E n \in T : \A m \in T : n <= m
<1> DEFINE R == OpToRel(<, Nat)
<1>1. IsWellFoundedOn(R, Nat) BY NatLessThanWellFounded
<1>2. \A x, y \in Nat : x < y => <<x, y>> \in R BY DEF OpToRel
<1> HIDE DEF R
<1>3. PICK n \in T : \A y \in T : ~(<<y, n>> \in R) BY <1>1, WFMin
<1>4. \A y \in T : y \in Nat /\ ~(y < n) BY <1>2, <1>3
<1>5. n \in T /\ n \in Nat OBVIOUS
<1>6. \A y \in T : n <= y BY <1>4, <1>5
<1> QED BY <1>5, <1>6

\* A set that has 0 and with every number the next one has them all.
LEMMA Induction ==
  ASSUME NEW S, 0 \in S, \A n \in Nat : n \in S => n + 1 \in S
  PROVE  Nat \subseteq S
<1> SUFFICES ASSUME ~(Nat \subseteq S) PROVE FALSE OBVIOUS
<1> DEFINE T == Nat \ S
<1>1. T # {} /\ T \in SUBSET Nat OBVIOUS
<1> HIDE DEF T
<1>2. PICK n \in T : \A m \in T : n <= m BY <1>1, LeastNatural
<1>3. n \in Nat /\ n # 0 /\ n \notin S BY DEF T
<1>4. n - 1 \in Nat /\ n - 1 \notin T BY <1>2, <1>3, <1>1
<1>5. n - 1 \in S BY <1>4 DEF T
<1> QED BY <1>3, <1>4, <1>5

-----------------------------------------------------------------------------
\* The scheduler

SchedType == sched \in [idle_threshold_us : Nat, factor : Nat]

\* schedule never sets the clock back and never past the frame; what it says
\* it warped was passed, and nothing remains once the clock is there.
LEMMA ScheduleFacts ==
  ASSUME SchedType, NEW now \in Int, NEW ts \in Int
  PROVE  LET r == schedule(now, ts)
         IN  /\ r.now \in Int /\ r.warped \in Nat /\ r.remaining \in Nat
             /\ now <= r.now /\ (r.now <= now \/ r.now <= ts)
             /\ r.warped <= r.now - now
             /\ r.remaining = 0 => ts <= r.now
<1> DEFINE gap == ts - now
           most == sched.idle_threshold_us * sched.factor
           jump == IF gap <= 0 THEN 0
                   ELSE IF would_warp(gap) THEN Lesser(gap, MaxAdvance(gap)) ELSE gap
<1>1. sched.idle_threshold_us \in Nat /\ sched.factor \in Nat BY DEF SchedType
<1>2. most \in Nat BY <1>1
<1> HIDE DEF most
<1>3. gap \in Int /\ (gap <= 0 => ~would_warp(gap)) BY <1>1 DEF would_warp
<1>4. MaxAdvance(gap) \in {gap, most} BY DEF MaxAdvance, most
<1>5. jump \in Nat /\ (jump = 0 \/ jump <= gap) BY <1>2, <1>3, <1>4 DEF Lesser
<1>6. schedule(now, ts) =
        [now |-> now + jump, warped |-> IF would_warp(gap) THEN jump ELSE 0,
         remaining |-> IF gap <= 0 THEN 0 ELSE gap - jump]
  BY DEF schedule
<1> HIDE DEF jump
<1>7. gap > 0 => gap - jump \in Nat BY <1>3, <1>5
<1> QED BY <1>3, <1>5, <1>6, <1>7

WarpStatsType == [count : Nat, total_us : Nat]

\* Moving the clock towards a frame of time ts: from now and w to c and v.
Goes(now, w, c, v, ts) ==
  /\ c \in Int /\ v \in WarpStatsType
  /\ now <= c /\ (c <= now \/ c <= ts)
  /\ v.total_us - w.total_us <= c - now

\* The clock and the statistics after one call of schedule.
LEMMA CountedFacts ==
  ASSUME SchedType, NEW now \in Int, NEW ts \in Int, NEW w \in WarpStatsType
  PROVE  Goes(now, w, schedule(now, ts).now, Counted(w, now, ts, schedule(now, ts)), ts)
<1> DEFINE r == schedule(now, ts)
<1>1. /\ r.now \in Int /\ r.warped \in Nat
      /\ now <= r.now /\ (r.now <= now \/ r.now <= ts)
      /\ r.warped <= r.now - now
  BY ScheduleFacts
<1> HIDE DEF r
<1>2. w.count \in Nat /\ w.total_us \in Nat BY DEF WarpStatsType
<1>3. CASE would_warp(ts - now)
  <2>1. Counted(w, now, ts, r) = [count |-> w.count + 1, total_us |-> w.total_us + r.warped]
    BY <1>3 DEF Counted, WarpStats
  <2> QED BY <1>1, <1>2, <2>1 DEF Goes, WarpStatsType, r
<1>4. CASE ~would_warp(ts - now)
  <2>1. Counted(w, now, ts, r) = w BY <1>4 DEF Counted
  <2> QED BY <1>1, <1>2, <2>1 DEF Goes, r
<1> QED BY <1>3, <1>4

\* Two such moves towards one frame are one.
LEMMA GoesOn ==
  ASSUME NEW now \in Int, NEW ts \in Int, NEW w \in WarpStatsType, NEW c, NEW v, NEW d, NEW x,
         Goes(now, w, c, v, ts), Goes(c, v, d, x, ts)
  PROVE  Goes(now, w, d, x, ts)
BY DEF Goes, WarpStatsType

-----------------------------------------------------------------------------
\* The loop of step_until_event

Legs(ts) ==
  {l \in [now : Int, remaining : Nat, warps : WarpStatsType] :
     /\ Goes(current, warps, l.now, l.warps, ts)
     /\ l.remaining = 0 => ts <= l.now}

\* One turn of the loop stays on the way to the frame.
LEMMA OnwardFacts ==
  ASSUME SchedType, current \in Int, warps \in WarpStatsType, NEW ts \in Int,
         NEW leg \in Legs(ts)
  PROVE  Onward(leg, ts) \in Legs(ts)
<1> DEFINE r == schedule(leg.now, ts)
           v == Counted(leg.warps, leg.now, ts, r)
<1>1. /\ leg.now \in Int /\ leg.warps \in WarpStatsType
      /\ Goes(current, warps, leg.now, leg.warps, ts)
  BY DEF Legs
<1>2. CASE leg.remaining = 0 BY <1>2 DEF Onward
<1>3. CASE leg.remaining # 0
  <2>1. Onward(leg, ts) = [now |-> r.now, remaining |-> r.remaining, warps |-> v]
    BY <1>3 DEF Onward
  <2>2. r.remaining \in Nat /\ (r.remaining = 0 => ts <= r.now) BY <1>1, ScheduleFacts
  <2>3. Goes(leg.now, leg.warps, r.now, v, ts) BY <1>1, CountedFacts
  <2> HIDE DEF r, v
  <2>4. Goes(current, warps, r.now, v, ts) BY <1>1, <2>3, GoesOn
  <2>5. r.now \in Int /\ v \in WarpStatsType BY <2>3 DEF Goes
  <2> QED BY <2>1, <2>2, <2>4, <2>5 DEF Legs
<1> QED BY <1>2, <1>3

IsLoop(f, start, ts, n) ==
  f = [k \in 0 .. n |-> IF k = 0 THEN start ELSE Onward(f[k - 1], ts)]

\* The recursive function exists, on any number of turns.
LEMMA LoopExists ==
  ASSUME NEW start, NEW ts, NEW n \in Nat
  PROVE  \E f : IsLoop(f, start, ts, n)
<1> DEFINE Loop(f, m) == IsLoop(f, start, ts, m)
           S == {m \in Nat : \E f : Loop(f, m)}
<1>1. 0 \in S
  <2> DEFINE f == [k \in 0 .. 0 |-> start]
  <2>1. Loop(f, 0) BY DEF IsLoop
  <2> QED BY <2>1
<1>2. ASSUME NEW m \in Nat, m \in S PROVE m + 1 \in S
  <2>1. PICK f : Loop(f, m) BY <1>2
  <2> DEFINE g == [k \in 0 .. m + 1 |-> IF k <= m THEN f[k] ELSE Onward(f[m], ts)]
  <2>2. \A k \in 0 .. m + 1 : g[k] = IF k = 0 THEN start ELSE Onward(g[k - 1], ts)
    <3> SUFFICES ASSUME NEW k \in 0 .. m + 1
                 PROVE  g[k] = IF k = 0 THEN start ELSE Onward(g[k - 1], ts)
      OBVIOUS
    <3>1. CASE k = 0 BY <2>1, <3>1 DEF IsLoop
    <3>2. CASE k # 0 /\ k <= m
      <4>1. k \in 0 .. m /\ k - 1 \in 0 .. m + 1 /\ k - 1 <= m BY <3>2
      <4>2. g[k] = f[k] /\ g[k - 1] = f[k - 1] BY <4>1
      <4>3. f[k] = Onward(f[k - 1], ts) BY <2>1, <3>2, <4>1 DEF IsLoop
      <4> QED BY <3>2, <4>2, <4>3
    <3>3. CASE k = m + 1
      <4>1. k - 1 = m /\ m \in 0 .. m + 1 /\ k # 0 /\ ~(k <= m) BY <3>3
      <4>2. g[k] = Onward(f[m], ts) /\ g[m] = f[m] BY <4>1
      <4> QED BY <4>1, <4>2
    <3> QED BY <3>1, <3>2, <3>3
  <2>3. Loop(g, m + 1) BY <2>2 DEF IsLoop
  <2> HIDE DEF g
  <2> QED BY <2>3
<1> HIDE DEF S
<1>3. Nat \subseteq S BY <1>1, <1>2, Induction
<1> QED BY <1>3 DEF S

\* Wherever the loop ends, the clock went forward and not past the frame, the
\* warps are accounted for, and it is there if the loop says so.
LEMMA WayFacts ==
  ASSUME SchedType, current \in Int, warps \in WarpStatsType, NEW ts \in Int
  PROVE  Way(ts)[MaxSteps] \in Legs(ts)
<1> DEFINE start == [now |-> current, remaining |-> 1, warps |-> warps]
           way == Way(ts)
<1>1. MaxSteps \in Nat BY EngineAssumption
<1>2. way = [k \in 0 .. MaxSteps |-> IF k = 0 THEN start ELSE Onward(way[k - 1], ts)]
  <2>1. \E f : IsLoop(f, start, ts, MaxSteps)
    <3> HIDE DEF start
    <3> QED BY <1>1, LoopExists
  <2>2. \E f : f = [k \in 0 .. MaxSteps |-> IF k = 0 THEN start ELSE Onward(f[k - 1], ts)]
    BY <2>1 DEF IsLoop
  <2> QED BY <2>2 DEF Way
<1>3. start \in Legs(ts) BY DEF Legs, Goes, WarpStatsType
<1> HIDE DEF start, way
<1> DEFINE S == {m \in Nat : m <= MaxSteps => way[m] \in Legs(ts)}
<1>4. 0 \in S BY <1>1, <1>2, <1>3
<1>5. ASSUME NEW m \in Nat, m \in S PROVE m + 1 \in S
  <2> SUFFICES ASSUME m + 1 <= MaxSteps PROVE way[m + 1] \in Legs(ts) OBVIOUS
  <2>1. way[m] \in Legs(ts) BY <1>1, <1>5
  <2>2. m + 1 \in 0 .. MaxSteps /\ m + 1 # 0 /\ (m + 1) - 1 = m BY <1>1
  <2>3. way[m + 1] = Onward(way[m], ts) BY <1>2, <2>2
  <2> QED BY <2>1, <2>3, OnwardFacts
<1> HIDE DEF S
<1>6. Nat \subseteq S BY <1>4, <1>5, Induction
<1> QED BY <1>1, <1>6 DEF S, way

-----------------------------------------------------------------------------
\* Frames by their numbers

Numbered(S) == \A f \in S : f.id \in Nat

\* The numbers of frames are the frames' numbers, place by place.
LEMMA IdsFacts ==
  ASSUME NEW S, Numbered(S), NEW fs \in Seq(S)
  PROVE  /\ Ids(fs) \in Seq(Nat) /\ Len(Ids(fs)) = Len(fs)
         /\ \A i \in 1 .. Len(fs) : Ids(fs)[i] = fs[i].id
<1>1. DOMAIN fs = 1 .. Len(fs) /\ Len(fs) \in Nat BY LenProperties
<1>2. \A i \in 1 .. Len(fs) : fs[i].id \in Nat BY <1>1, ElementOfSeq DEF Numbered
<1>3. Ids(fs) = [i \in 1 .. Len(fs) |-> fs[i].id] BY <1>1 DEF Ids
<1>4. Ids(fs) \in [1 .. Len(fs) -> Nat] BY <1>2, <1>3
<1> QED BY <1>1, <1>3, <1>4

\* No frames have no numbers.
LEMMA IdsEmpty == Ids(<<>>) = <<>>
BY DEF Ids

\* A frame behind others has its number behind theirs.
LEMMA IdsAppend ==
  ASSUME NEW S, Numbered(S), NEW fs \in Seq(S), NEW f \in S
  PROVE  Ids(Append(fs, f)) = Ids(fs) \o <<f.id>>
<1> DEFINE gs == Append(fs, f)
           sum == Ids(fs) \o <<f.id>>
<1>1. gs \in Seq(S) /\ Len(gs) = Len(fs) + 1
      /\ gs[Len(fs) + 1] = f /\ \A i \in 1 .. Len(fs) : gs[i] = fs[i]
  BY AppendProperties
<1> HIDE DEF gs
<1>2. /\ Ids(gs) \in Seq(Nat) /\ Len(Ids(gs)) = Len(gs)
      /\ \A i \in 1 .. Len(gs) : Ids(gs)[i] = gs[i].id
  BY <1>1, IdsFacts
<1>3. /\ Ids(fs) \in Seq(Nat) /\ Len(Ids(fs)) = Len(fs) /\ Len(fs) \in Nat
      /\ \A i \in 1 .. Len(fs) : Ids(fs)[i] = fs[i].id
  BY IdsFacts, LenProperties
<1>4. f.id \in Nat /\ <<f.id>> \in Seq(Nat) BY DEF Numbered
<1>5. /\ sum \in Seq(Nat) /\ Len(sum) = Len(fs) + 1
      /\ \A i \in 1 .. Len(fs) : sum[i] = Ids(fs)[i]
      /\ sum[Len(fs) + 1] = f.id
  BY <1>3, <1>4
<1> HIDE DEF sum
<1>6. \A i \in 1 .. Len(fs) + 1 : Ids(gs)[i] = sum[i]
  <2> SUFFICES ASSUME NEW i \in 1 .. Len(fs) + 1 PROVE Ids(gs)[i] = sum[i] OBVIOUS
  <2>1. CASE i \in 1 .. Len(fs) BY <1>1, <1>2, <1>3, <1>5, <2>1
  <2>2. CASE i = Len(fs) + 1 BY <1>1, <1>2, <1>3, <1>5, <2>2
  <2> QED BY <1>3, <2>1, <2>2
<1>7. Ids(gs) = sum BY <1>1, <1>2, <1>5, <1>6, SeqEqual
<1> QED BY <1>7 DEF gs, sum

\* The first frame's number comes first.
LEMMA IdsHead ==
  ASSUME NEW S, Numbered(S), NEW fs \in Seq(S), fs # <<>>
  PROVE  /\ Ids(fs) = <<Head(fs).id>> \o Ids(Tail(fs))
         /\ Ids(<<Head(fs)>>) = <<Head(fs).id>> /\ Head(fs).id \in Nat
         /\ Head(fs) \in S /\ Tail(fs) \in Seq(S)
<1> DEFINE ts == Tail(fs)
           sum == <<fs[1].id>> \o Ids(ts)
<1>1. /\ Len(fs) \in Nat \ {0} /\ fs[1] \in S /\ Head(fs) = fs[1]
      /\ ts \in Seq(S) /\ Len(ts) = Len(fs) - 1
      /\ \A i \in 1 .. Len(fs) - 1 : ts[i] = fs[i + 1]
  <2>1. Len(fs) \in Nat \ {0} /\ 1 \in 1 .. Len(fs) BY EmptySeq
  <2> QED BY <2>1, HeadTailProperties, ElementOfSeq
<1> HIDE DEF ts
<1>2. /\ Ids(fs) \in Seq(Nat) /\ Len(Ids(fs)) = Len(fs)
      /\ \A i \in 1 .. Len(fs) : Ids(fs)[i] = fs[i].id
  BY IdsFacts
<1>3. /\ Ids(ts) \in Seq(Nat) /\ Len(Ids(ts)) = Len(fs) - 1
      /\ \A i \in 1 .. Len(fs) - 1 : Ids(ts)[i] = ts[i].id
  BY <1>1, IdsFacts
<1>4. fs[1].id \in Nat /\ <<fs[1].id>> \in Seq(Nat) BY <1>1 DEF Numbered
<1>5. /\ sum \in Seq(Nat) /\ Len(sum) = Len(fs)
      /\ sum[1] = fs[1].id
      /\ \A i \in 2 .. Len(fs) : sum[i] = Ids(ts)[i - 1]
  BY <1>1, <1>3, <1>4
<1> HIDE DEF sum
<1>6. \A i \in 1 .. Len(fs) : Ids(fs)[i] = sum[i]
  <2> SUFFICES ASSUME NEW i \in 1 .. Len(fs) PROVE Ids(fs)[i] = sum[i] OBVIOUS
  <2>1. CASE i = 1 BY <1>2, <1>5, <2>1
  <2>2. CASE i # 1
    <3>1. i \in 2 .. Len(fs) /\ i - 1 \in 1 .. Len(fs) - 1 /\ (i - 1) + 1 = i BY <1>1, <2>2
    <3>2. ts[i - 1] = fs[i] BY <1>1, <3>1
    <3>3. Ids(ts)[i - 1] = fs[i].id BY <1>3, <3>1, <3>2
    <3> QED BY <1>2, <1>5, <3>1, <3>3
  <2> QED BY <2>1, <2>2
<1>7. Ids(fs) = sum BY <1>2, <1>5, <1>6, SeqEqual
<1>8. Ids(<<Head(fs)>>) = <<Head(fs).id>> BY DEF Ids
<1> QED BY <1>1, <1>4, <1>7, <1>8 DEF ts, sum

-----------------------------------------------------------------------------
\* The numbers 1 .. n without those in gone, once each and in order.
Exact(s, n, gone) ==
  /\ s \in Seq(Nat)
  /\ \A i, j \in 1 .. Len(s) : i < j => s[i] < s[j]
  /\ \A x \in Nat : (\E i \in 1 .. Len(s) : s[i] = x) <=> (x \in 1 .. n /\ x \notin gone)

\* A frame that is sent next joins the stream at its end.
LEMMA ExactAppend ==
  ASSUME NEW s, NEW n \in Nat, NEW gone \in SUBSET (1 .. n), Exact(s, n, gone)
  PROVE  Exact(s \o <<n + 1>>, n + 1, gone)
<1> DEFINE t == s \o <<n + 1>>
<1>1. s \in Seq(Nat) /\ Len(s) \in Nat /\ <<n + 1>> \in Seq(Nat) BY LenProperties DEF Exact
<1>2. /\ t \in Seq(Nat) /\ Len(t) = Len(s) + 1 /\ t[Len(s) + 1] = n + 1
      /\ \A i \in 1 .. Len(s) : t[i] = s[i]
  BY <1>1
<1> HIDE DEF t
<1>3. \A i \in 1 .. Len(s) : s[i] \in 1 .. n /\ s[i] \notin gone
  <2>1. \A i \in 1 .. Len(s) : s[i] \in Nat BY <1>1, ElementOfSeq
  <2> QED BY <2>1 DEF Exact
<1>4. ASSUME NEW i \in 1 .. Len(t), NEW j \in 1 .. Len(t), i < j PROVE t[i] < t[j]
  <2>1. i \in 1 .. Len(s) BY <1>1, <1>2, <1>4
  <2>2. CASE j \in 1 .. Len(s) BY <1>2, <1>4, <2>1, <2>2 DEF Exact
  <2>3. CASE j = Len(s) + 1 BY <1>2, <1>3, <2>1, <2>3
  <2> QED BY <1>1, <1>2, <2>2, <2>3
<1>5. ASSUME NEW x \in Nat
      PROVE  (\E i \in 1 .. Len(t) : t[i] = x) <=> (x \in 1 .. n + 1 /\ x \notin gone)
  <2>1. CASE x = n + 1
    <3>1. Len(s) + 1 \in 1 .. Len(t) BY <1>1, <1>2
    <3> QED BY <1>2, <2>1, <3>1
  <2>2. CASE x # n + 1
    <3>1. (\E i \in 1 .. Len(t) : t[i] = x) <=> (\E i \in 1 .. Len(s) : s[i] = x)
      <4>1. \A i \in 1 .. Len(t) : i \in 1 .. Len(s) \/ i = Len(s) + 1 BY <1>1, <1>2
      <4>2. \A i \in 1 .. Len(s) : i \in 1 .. Len(t) BY <1>1, <1>2
      <4> QED BY <1>2, <2>2, <4>1, <4>2
    <3>2. x \in 1 .. n + 1 <=> x \in 1 .. n BY <2>2
    <3> QED BY <3>1, <3>2 DEF Exact
  <2> QED BY <2>1, <2>2
<1> QED BY <1>2, <1>4, <1>5 DEF Exact, t

\* A frame taken out of the stream is one more that is gone.
LEMMA ExactRemove ==
  ASSUME NEW a \in Seq(Nat), NEW x \in Nat, NEW b \in Seq(Nat), NEW n \in Nat, NEW gone,
         Exact(a \o (<<x>> \o b), n, gone)
  PROVE  Exact(a \o b, n, gone \cup {x}) /\ x \in 1 .. n
<1> DEFINE s == a \o (<<x>> \o b)
           t == a \o b
           p == Len(a)
<1>1. p \in Nat /\ Len(b) \in Nat /\ <<x>> \in Seq(Nat) BY LenProperties
<1>2. /\ s \in Seq(Nat) /\ Len(s) = p + 1 + Len(b)
      /\ \A i \in 1 .. p : s[i] = a[i]
      /\ s[p + 1] = x
      /\ \A i \in 1 .. Len(b) : s[p + 1 + i] = b[i]
  <2> DEFINE c == <<x>> \o b
  <2>1. /\ c \in Seq(Nat) /\ Len(c) = 1 + Len(b) /\ c[1] = x
        /\ \A i \in 1 .. Len(b) : c[1 + i] = b[i]
    BY <1>1
  <2> HIDE DEF c
  <2>2. /\ a \o c \in Seq(Nat) /\ Len(a \o c) = p + 1 + Len(b)
        /\ \A i \in 1 .. p : (a \o c)[i] = a[i]
        /\ \A i \in 1 .. Len(c) : (a \o c)[p + i] = c[i]
    <3>1. a \o c \in Seq(Nat) /\ Len(a \o c) = p + Len(c) BY <2>1, ConcatProperties
    <3>2. \A i \in 1 .. p : (a \o c)[i] = a[i] BY <1>1, <2>1
    <3>3. \A i \in 1 .. Len(c) : (a \o c)[p + i] = c[i] BY <1>1, <2>1
    <3> QED BY <1>1, <2>1, <3>1, <3>2, <3>3
  <2>3. (a \o c)[p + 1] = x
    <3>1. 1 \in 1 .. Len(c) BY <1>1, <2>1
    <3> QED BY <2>1, <2>2, <3>1
  <2>4. ASSUME NEW i \in 1 .. Len(b) PROVE (a \o c)[p + 1 + i] = b[i]
    <3>1. 1 + i \in 1 .. Len(c) /\ p + (1 + i) = p + 1 + i BY <1>1, <2>1
    <3> QED BY <2>1, <2>2, <3>1
  <2> QED BY <2>2, <2>3, <2>4 DEF c
<1>3. /\ t \in Seq(Nat) /\ Len(t) = p + Len(b)
      /\ \A i \in 1 .. p : t[i] = a[i]
      /\ \A i \in 1 .. Len(b) : t[p + i] = b[i]
  BY <1>1
<1>e. /\ \A i, j \in 1 .. Len(s) : i < j => s[i] < s[j]
      /\ \A y \in Nat : (\E i \in 1 .. Len(s) : s[i] = y) <=> (y \in 1 .. n /\ y \notin gone)
  BY DEF Exact
<1> HIDE DEF s, t, p
\* Where an element of t stands in s.
<1> DEFINE At(i) == IF i <= p THEN i ELSE i + 1
<1>4. ASSUME NEW i \in 1 .. Len(t) PROVE At(i) \in 1 .. Len(s) /\ At(i) # p + 1 /\ t[i] = s[At(i)]
  <2>1. CASE i <= p
    <3>1. i \in 1 .. p BY <1>1, <1>3, <2>1
    <3> QED BY <1>1, <1>2, <1>3, <2>1, <3>1
  <2>2. CASE i > p
    <3>1. i - p \in 1 .. Len(b) /\ p + (i - p) = i /\ p + 1 + (i - p) = i + 1 BY <1>1, <1>3, <2>2
    <3>2. t[i] = b[i - p] /\ s[i + 1] = b[i - p] BY <1>2, <1>3, <3>1
    <3>3. At(i) = i + 1 BY <1>1, <1>3, <2>2
    <3>4. i + 1 \in 1 .. Len(s) /\ i + 1 # p + 1 BY <1>1, <1>2, <1>3, <2>2
    <3> HIDE DEF At
    <3> QED BY <3>2, <3>3, <3>4
  <2> QED BY <1>1, <1>3, <2>1, <2>2
<1>5. \A i, j \in 1 .. Len(t) : i < j => At(i) < At(j) BY <1>1, <1>3
<1>6. ASSUME NEW k \in 1 .. Len(s), k # p + 1 PROVE \E i \in 1 .. Len(t) : At(i) = k
  <2>1. CASE k <= p BY <1>1, <1>2, <1>3, <1>6, <2>1
  <2>2. CASE k > p
    <3>1. k - 1 \in 1 .. Len(t) /\ At(k - 1) = k BY <1>1, <1>2, <1>3, <1>6, <2>2
    <3> QED BY <3>1
  <2> QED BY <1>1, <1>2, <2>1, <2>2
<1> HIDE DEF At
<1>7. \A i, j \in 1 .. Len(t) : i < j => t[i] < t[j] BY <1>e, <1>4, <1>5
<1>8. p + 1 \in 1 .. Len(s) BY <1>1, <1>2
<1>9. x \in 1 .. n /\ x \notin gone BY <1>e, <1>2, <1>8
<1>10. \A k \in 1 .. Len(s) : k # p + 1 => s[k] # x
  <2> SUFFICES ASSUME NEW k \in 1 .. Len(s), k # p + 1 PROVE s[k] # x OBVIOUS
  <2>1. s[k] \in Nat /\ (k < p + 1 \/ p + 1 < k) BY <1>1, <1>2, ElementOfSeq
  <2>2. s[k] < s[p + 1] \/ s[p + 1] < s[k] BY <1>e, <1>8, <2>1
  <2> QED BY <1>2, <2>1, <2>2
<1>11. ASSUME NEW y \in Nat
       PROVE  (\E i \in 1 .. Len(t) : t[i] = y) <=> (y \in 1 .. n /\ y \notin gone \cup {x})
  <2>1. (\E i \in 1 .. Len(t) : t[i] = y) <=> (\E k \in 1 .. Len(s) : k # p + 1 /\ s[k] = y)
    BY <1>4, <1>6
  <2>2. (\E k \in 1 .. Len(s) : k # p + 1 /\ s[k] = y)
        <=> ((\E k \in 1 .. Len(s) : s[k] = y) /\ y # x)
    BY <1>2, <1>8, <1>10
  <2> QED BY <1>e, <2>1, <2>2
<1> QED BY <1>3, <1>7, <1>9, <1>11 DEF Exact, t

-----------------------------------------------------------------------------
\* The invariant

LiveFrame == [id : Nat, ts : Int, kind : {"data"}, hash : {0}]
Delivery == [id : Nat, ts : Int, at : Int, early : BOOLEAN]
Advancing == [target : Nat, pending : BOOLEAN, raced : BOOLEAN]

SourceOK(s) ==
  /\ s = [kind |-> s.kind, frames |-> s.frames, position |-> s.position, active |-> s.active,
          queue |-> s.queue, peeked |-> s.peeked, probing |-> s.probing]
  /\ s.kind \in {"null", "buffered", "live", "journal"}
  /\ Recorded(s.frames) /\ s.position \in 0 .. Len(s.frames)
  /\ s.queue \in Seq(LiveFrame)
  /\ s.peeked = <<>> \/ \E f \in LiveFrame : s.peeked = <<f>>

\* The frame the source will show next, whether it is active or not.
Ahead(s) == IF s.kind = "live" THEN s.peeked ELSE JournalPeek(s)

ReplayTypeOK ==
  /\ current \in Int /\ begin \in Int /\ session \in Nat /\ SchedType /\ warps \in WarpStatsType
  /\ SourceOK(src)
  /\ trace \in Seq(Delivery) /\ past \in Seq(Nat) /\ sent \in Seq(LiveFrame)
  /\ user \in [ClockUsers -> Advancing] /\ clock_calls \in Nat

Stream(s) == past \o (Ids(trace) \o (Ids(s.peeked) \o Ids(s.queue)))

\* What a live source was sent is in the stream or lost.
LiveInv ==
  /\ \A i \in 1 .. Len(sent) : sent[i].id = i
  /\ src.kind = "live" =>
       lost \in SUBSET (1 .. Len(sent)) /\ Exact(Stream(src), Len(sent), lost)

\* The clock is no further than the frames of the session and the next one,
\* and is past all of them if none was handed out early.
TimeInv ==
  /\ \/ current <= begin
     \/ \E k \in 1 .. Len(trace) : current <= trace[k].ts
     \/ Ahead(src) # <<>> /\ current <= Ahead(src)[1].ts
  /\ (\A k \in 1 .. Len(trace) : ~trace[k].early)
       => \A k \in 1 .. Len(trace) : trace[k].ts <= current

\* An advance_to that nothing raced has a target ahead of the clock.
RaceInv == \A u \in ClockUsers : (user[u].pending /\ ~user[u].raced) => current < user[u].target

PartInv ==
  IF part = "clock" THEN trace = <<>> /\ begin = 0 /\ warps.total_us = 0 /\ current \in Nat
  ELSE TimeInv /\ \A u \in ClockUsers : ~user[u].pending

ReplayInv ==
  ReplayTypeOK /\ ReplayExact /\ LiveInv /\ DeliveredOnTime /\ WarpAccounted /\ RaceInv /\ PartInv

-----------------------------------------------------------------------------
\* Sources

\* The frames of a recording have numbers and times.
LEMMA Timed ==
  ASSUME NEW frames, Recorded(frames)
  PROVE  /\ frames \in Seq(Range(frames)) /\ Numbered(Range(frames))
         /\ \A i \in 1 .. Len(frames) : frames[i] \in Range(frames) /\ frames[i].ts \in Int
<1>1. frames \in Seq(Range(frames)) BY DEF Recorded
<1>2. DOMAIN frames = 1 .. Len(frames) BY <1>1, LenProperties
<1>3. \A i \in 1 .. Len(frames) :
        frames[i] \in Range(frames) /\ frames[i].id \in Nat /\ frames[i].ts \in Int
  BY <1>2 DEF Recorded, Range
<1>4. \A f \in Range(frames) : f.id \in Nat BY <1>2, <1>3 DEF Range
<1> QED BY <1>1, <1>3, <1>4 DEF Numbered

\* peek takes a frame out of the channel and keeps it: nothing is passed over.
LEMMA PeekedFacts ==
  ASSUME NEW s, SourceOK(s)
  PROVE  LET t == Peeked(s)
         IN  /\ SourceOK(t) /\ t.kind = s.kind /\ t.frames = s.frames /\ t.position = s.position
             /\ Ids(t.peeked) \o Ids(t.queue) = Ids(s.peeked) \o Ids(s.queue)
             /\ Ahead(s) # <<>> => Ahead(t) = Ahead(s)
<1>1. CASE s.kind = "live" /\ s.active /\ s.peeked = <<>> /\ s.queue # <<>>
  <2> DEFINE t == Peeked(s)
             h == Head(s.queue)
             q == Tail(s.queue)
  <2>1. t = [s EXCEPT !.peeked = <<h>>, !.queue = q] BY <1>1 DEF Peeked
  <2>2. s.queue \in Seq(LiveFrame) /\ Numbered(LiveFrame) BY DEF SourceOK, Numbered, LiveFrame
  <2>3. /\ Ids(s.queue) = <<h.id>> \o Ids(q) /\ Ids(<<h>>) = <<h.id>>
        /\ h \in LiveFrame /\ q \in Seq(LiveFrame)
    BY <1>1, <2>2, IdsHead
  <2>4. s = [kind |-> s.kind, frames |-> s.frames, position |-> s.position, active |-> s.active,
             queue |-> s.queue, peeked |-> s.peeked, probing |-> s.probing]
    BY DEF SourceOK
  <2> HIDE DEF h, q
  <2>5. t = [kind |-> s.kind, frames |-> s.frames, position |-> s.position, active |-> s.active,
             queue |-> q, peeked |-> <<h>>, probing |-> s.probing]
    BY <2>1, <2>4
  <2> HIDE DEF t
  <2>6. SourceOK(t) BY <2>3, <2>5 DEF SourceOK
  <2>7. Ahead(s) = <<>> BY <1>1 DEF Ahead
  <2>8. Ids(s.peeked) \o Ids(s.queue) = Ids(s.queue)
    <3>1. Ids(s.queue) \in Seq(Nat) BY <2>2, IdsFacts
    <3> QED BY <1>1, <3>1, IdsEmpty, ConcatEmptySeq
  <2>9. Ids(t.peeked) \o Ids(t.queue) = Ids(s.queue) BY <2>3, <2>5
  <2>10. t.kind = s.kind /\ t.frames = s.frames /\ t.position = s.position BY <2>5
  <2> QED BY <2>6, <2>7, <2>8, <2>9, <2>10 DEF t
<1>2. CASE ~(s.kind = "live" /\ s.active /\ s.peeked = <<>> /\ s.queue # <<>>)
  <2>1. Peeked(s) = s BY <1>2 DEF Peeked
  <2> QED BY <2>1
<1> QED BY <1>1, <1>2

\* What is shown is the next frame.
LEMMA PeekFacts ==
  ASSUME NEW s, SourceOK(s), peek(s) # <<>>
  PROVE  /\ Ahead(s) = peek(s)
         /\ \E f : peek(s) = <<f>> /\ f.id \in Nat /\ f.ts \in Int
         /\ s.kind # "live" => s.position < Len(s.frames) /\ peek(s) = <<s.frames[s.position + 1]>>
<1>1. CASE s.kind = "live"
  <2>1. peek(s) = s.peeked /\ Ahead(s) = s.peeked BY <1>1 DEF peek, LivePeek, Ahead
  <2>2. PICK f \in LiveFrame : s.peeked = <<f>> BY <2>1 DEF SourceOK
  <2>3. f.id \in Nat /\ f.ts \in Int BY DEF LiveFrame
  <2> QED BY <1>1, <2>1, <2>2, <2>3
<1>2. CASE s.kind # "live"
  <2>1. peek(s) = JournalPeek(s) /\ Ahead(s) = JournalPeek(s)
    BY <1>2 DEF peek, BufferedPeek, Ahead
  <2>2. s.position < Len(s.frames) /\ JournalPeek(s) = <<s.frames[s.position + 1]>>
    BY <2>1 DEF JournalPeek
  <2>3. Len(s.frames) \in Nat /\ Recorded(s.frames) /\ s.position \in 0 .. Len(s.frames)
    <3>1. Recorded(s.frames) BY DEF SourceOK
    <3>2. Len(s.frames) \in Nat BY <3>1, Timed, LenProperties
    <3> QED BY <3>1, <3>2 DEF SourceOK
  <2>4. s.position + 1 \in 1 .. Len(s.frames) BY <2>2, <2>3
  <2> DEFINE f == s.frames[s.position + 1]
  <2>5. f.id \in Nat /\ f.ts \in Int BY <2>3, <2>4, Timed DEF Numbered
  <2> HIDE DEF f
  <2>6. \E g : peek(s) = <<g>> /\ g.id \in Nat /\ g.ts \in Int BY <2>1, <2>2, <2>5 DEF f
  <2> QED BY <1>2, <2>1, <2>2, <2>6
<1> QED BY <1>1, <1>2

\* A journal that shows nothing has been read to the end.
LEMMA NothingAhead ==
  ASSUME NEW s, SourceOK(s), s.kind = "journal", peek(s) = <<>>
  PROVE  s.position = Len(s.frames)
<1>1. Recorded(s.frames) /\ s.position \in 0 .. Len(s.frames) BY DEF SourceOK
<1>2. Len(s.frames) \in Nat BY <1>1, Timed, LenProperties
<1>3. ~(s.position < Len(s.frames)) BY DEF peek, JournalPeek
<1> QED BY <1>1, <1>2, <1>3

-----------------------------------------------------------------------------
\* What an operation does to the source, the clock and the trace.

Aside == <<begin, past, sent, user, clock_calls, session, part>>

Same(s, t) ==
  /\ t.kind = s.kind /\ t.frames = s.frames /\ t.position = s.position
  /\ t.queue = s.queue /\ t.peeked = s.peeked

Quiet ==
  /\ UNCHANGED <<Aside, current, warps, events, trace, lost>>
  /\ SchedType' /\ SourceOK(src') /\ Same(src, src')
  /\ estate' = "Completed" => estate = "Completed"

Sends ==
  /\ UNCHANGED <<begin, past, user, clock_calls, session, part, current, warps, events,
                 trace, sched, estate, lost>>
  /\ src.kind = "live"
  /\ \E f \in LiveFrame :
       /\ f.id = Len(sent) + 1 /\ sent' = Append(sent, f)
       /\ src' = [src EXCEPT !.queue = Append(@, f)]

Swallows ==
  /\ UNCHANGED <<Aside, current, warps, events, trace, sched, estate>>
  /\ src' = [src EXCEPT !.probing = FALSE, !.queue = Tail(@)]
  /\ src.queue # <<>> /\ lost' = lost \cup {Head(src.queue).id}

Rewinds ==
  /\ UNCHANGED <<sent, user, clock_calls, part, sched>>
  /\ session' = session + 1
  /\ ResetEffect

\* The source is peeked at; the clock may go on.
Advances ==
  /\ UNCHANGED <<Aside, events, trace, sched, lost>>
  /\ src' = Peeked(src)
  /\ \/ /\ peek(Peeked(src)) = <<>> /\ estate' = "Completed" /\ UNCHANGED <<current, warps>>
     \/ /\ peek(Peeked(src)) # <<>> /\ UNCHANGED estate
        /\ Goes(current, warps, current', warps', peek(Peeked(src))[1].ts)

Delivers ==
  /\ UNCHANGED <<Aside, sched, estate, lost>>
  /\ peek(Peeked(src)) # <<>>
  /\ Goes(current, warps, current', warps', peek(Peeked(src))[1].ts)
  /\ \E early \in BOOLEAN :
       /\ ~early => peek(Peeked(src))[1].ts <= current'
       /\ Deliver(Peeked(src), peek(Peeked(src))[1], current', early)

\* step, in every mode, moves the clock, and delivers the frame or does not.
LEMMA StepClassified ==
  ASSUME ReplayTypeOK, StepEffect, UNCHANGED <<Aside, sched, lost>>
  PROVE  Advances \/ Delivers
<1> DEFINE s == Peeked(src)
           next == peek(s)
           r == schedule(current, next[1].ts)
<1>1. CASE next = <<>> BY <1>1 DEF StepEffect, Advances
<1>2. CASE next # <<>>
  <2>1. /\ current' = r.now /\ warps' = Counted(warps, current, next[1].ts, r)
        /\ Deliver(s, next[1], r.now, r.remaining > 0) /\ UNCHANGED estate
    BY <1>2 DEF StepEffect
  <2>2. SourceOK(s) BY PeekedFacts DEF ReplayTypeOK
  <2>3. next[1].ts \in Int BY <1>2, <2>2, PeekFacts
  <2>4. /\ r.remaining \in Nat /\ (r.remaining = 0 => next[1].ts <= r.now)
    BY <2>3, ScheduleFacts DEF ReplayTypeOK
  <2>5. Goes(current, warps, current', warps', next[1].ts)
    BY <2>1, <2>3, CountedFacts DEF ReplayTypeOK
  <2> DEFINE early == r.remaining > 0
  <2>6. early \in BOOLEAN OBVIOUS
  <2>7. ~early => next[1].ts <= current' BY <2>1, <2>4
  <2>8. Deliver(s, next[1], current', early) BY <2>1
  <2> HIDE DEF early
  <2> QED BY <1>2, <2>1, <2>5, <2>6, <2>7, <2>8 DEF Delivers
<1> QED BY <1>1, <1>2

\* step_until_event does the same, after any number of turns of its loop.
LEMMA StepUntilClassified ==
  ASSUME ReplayTypeOK, step_until_event, part' = part
  PROVE  Advances \/ Delivers
<1> DEFINE s == Peeked(src)
           next == peek(s)
           end == Way(next[1].ts)[MaxSteps]
<1>u. UNCHANGED <<Aside, sched, lost>> BY DEF step_until_event, Aside
<1>1. CASE next = <<>>
  <2>1. estate' = "Completed" /\ src' = s /\ UNCHANGED <<current, warps, events, trace>>
    BY <1>1 DEF step_until_event
  <2> QED BY <1>1, <1>u, <2>1 DEF Advances
<1>2. CASE next # <<>>
  <2>1. /\ current' = end.now /\ warps' = end.warps /\ UNCHANGED estate
        /\ IF end.remaining = 0 THEN Deliver(s, next[1], end.now, FALSE)
           ELSE src' = s /\ UNCHANGED <<events, trace>>
    BY <1>2 DEF step_until_event
  <2>2. SourceOK(s) BY PeekedFacts DEF ReplayTypeOK
  <2>3. next[1].ts \in Int BY <1>2, <2>2, PeekFacts
  <2>4. end \in Legs(next[1].ts) BY <2>3, WayFacts DEF ReplayTypeOK
  <2> HIDE DEF end
  <2>5. /\ Goes(current, warps, current', warps', next[1].ts)
        /\ end.remaining = 0 => next[1].ts <= current'
    BY <2>1, <2>4 DEF Legs
  <2>6. CASE end.remaining = 0
    <3>1. Deliver(s, next[1], current', FALSE) BY <2>1, <2>6
    <3> QED BY <1>2, <1>u, <2>1, <2>5, <2>6, <3>1 DEF Delivers
  <2>7. CASE end.remaining # 0
    <3>1. src' = s /\ UNCHANGED <<events, trace, estate>> BY <2>1, <2>7
    <3> QED BY <1>2, <1>u, <2>5, <3>1 DEF Advances
  <2> QED BY <2>6, <2>7
<1> QED BY <1>1, <1>2

-----------------------------------------------------------------------------
\* Every kind of operation keeps the invariant.

\* Operations that leave source, clock and trace alone.
LEMMA QuietKeeps ==
  ASSUME ReplayInv, Quiet, part # "clock"
  PROVE  ReplayInv'
<1>1. /\ current' = current /\ begin' = begin /\ warps' = warps /\ events' = events
      /\ trace' = trace /\ past' = past /\ sent' = sent /\ lost' = lost
      /\ user' = user /\ clock_calls' = clock_calls
      /\ session' = session
      /\ part' = part /\ SchedType' /\ SourceOK(src') /\ Same(src, src')
      /\ estate' = "Completed" => estate = "Completed"
  BY DEF Quiet, Aside
<1>2. ReplayTypeOK' BY <1>1 DEF ReplayInv, ReplayTypeOK
<1>3. ReplayExact' BY <1>1 DEF ReplayInv, ReplayExact, Same
<1>4. Stream(src)' = Stream(src) BY <1>1 DEF Stream, Same
<1>5. LiveInv' BY <1>1, <1>4 DEF ReplayInv, LiveInv, Same
<1>6. DeliveredOnTime' /\ WarpAccounted' /\ RaceInv'
  BY <1>1 DEF ReplayInv, DeliveredOnTime, WarpAccounted, RaceInv
<1>7. Ahead(src)' = Ahead(src) BY <1>1 DEF Ahead, JournalPeek, Same
<1>8. PartInv' BY <1>1, <1>7 DEF ReplayInv, PartInv, TimeInv
<1> QED BY <1>2, <1>3, <1>5, <1>6, <1>8 DEF ReplayInv

\* Concatenations of sequences of numbers.
LEMMA ConcatClosed == \A a, b \in Seq(Nat) : a \o b \in Seq(Nat)
BY ConcatProperties

\* Concatenation of numbers is associative.
LEMMA ConcatAssoc == \A a, b, c \in Seq(Nat) : (a \o b) \o c = a \o (b \o c)
BY ConcatAssociative

\* The parts of a live source's stream are sequences of numbers.
LEMMA StreamTypes ==
  ASSUME ReplayTypeOK
  PROVE  /\ Numbered(LiveFrame) /\ Numbered(Delivery)
         /\ past \in Seq(Nat) /\ Ids(trace) \in Seq(Nat)
         /\ Ids(src.queue) \in Seq(Nat) /\ Ids(src.peeked) \in Seq(Nat)
         /\ src.peeked \in Seq(LiveFrame)
<1>1. Numbered(LiveFrame) /\ Numbered(Delivery) BY DEF Numbered, LiveFrame, Delivery
<1>2. src.peeked \in Seq(LiveFrame)
  <2>1. <<>> \in Seq(LiveFrame) /\ \A f \in LiveFrame : <<f>> \in Seq(LiveFrame) OBVIOUS
  <2> QED BY <2>1 DEF ReplayTypeOK, SourceOK
<1>3. src.queue \in Seq(LiveFrame) /\ trace \in Seq(Delivery) /\ past \in Seq(Nat)
  BY DEF ReplayTypeOK, SourceOK
<1> QED BY <1>1, <1>2, <1>3, IdsFacts

\* A frame sent to a live source.
LEMMA SendsKeeps ==
  ASSUME ReplayInv, Sends, part # "clock"
  PROVE  ReplayInv'
<1>1. PICK f \in LiveFrame :
        /\ f.id = Len(sent) + 1 /\ sent' = Append(sent, f)
        /\ src' = [src EXCEPT !.queue = Append(@, f)]
  BY DEF Sends
<1>2. /\ begin' = begin /\ past' = past /\ user' = user /\ clock_calls' = clock_calls
      /\ session' = session /\ part' = part /\ current' = current
      /\ warps' = warps /\ events' = events /\ trace' = trace /\ sched' = sched
      /\ estate' = estate /\ lost' = lost /\ src.kind = "live"
  BY DEF Sends
<1>t. ReplayTypeOK BY DEF ReplayInv
<1>3. /\ SourceOK(src) /\ sent \in Seq(LiveFrame) /\ Len(sent) \in Nat
  BY <1>t, LenProperties DEF ReplayTypeOK
<1>4. /\ SourceOK(src') /\ src'.kind = "live" /\ src'.peeked = src.peeked
      /\ src'.queue = Append(src.queue, f) /\ src'.frames = src.frames /\ src'.position = src.position
  <2>1. src = [kind |-> src.kind, frames |-> src.frames, position |-> src.position,
               active |-> src.active, queue |-> src.queue, peeked |-> src.peeked,
               probing |-> src.probing]
    BY <1>3 DEF SourceOK
  <2>2. src' = [kind |-> src.kind, frames |-> src.frames, position |-> src.position,
               active |-> src.active, queue |-> Append(src.queue, f), peeked |-> src.peeked,
               probing |-> src.probing]
    BY <1>1, <2>1
  <2>3. Append(src.queue, f) \in Seq(LiveFrame) BY <1>3, AppendProperties DEF SourceOK
  <2> QED BY <1>2, <1>3, <2>2, <2>3 DEF SourceOK
<1>5. ReplayTypeOK'
  <2>1. Append(sent, f) \in Seq(LiveFrame) BY <1>3, AppendProperties
  <2> QED BY <1>t, <1>1, <1>2, <1>4, <2>1 DEF ReplayTypeOK, SchedType
<1>6. LiveInv'
  <2> DEFINE n == Len(sent)
  <2>1. Stream(src)' = Stream(src) \o <<n + 1>>
    <3> DEFINE A == past
               B == Ids(trace)
               C == Ids(src.peeked)
               D == Ids(src.queue)
               E == <<n + 1>>
    <3>1. A \in Seq(Nat) /\ B \in Seq(Nat) /\ C \in Seq(Nat) /\ D \in Seq(Nat) /\ E \in Seq(Nat)
      BY <1>3, <1>t, StreamTypes
    <3>2. Ids(src'.queue) = D \o E
      <4>1. Ids(Append(src.queue, f)) = Ids(src.queue) \o <<f.id>>
        <5>1. src.queue \in Seq(LiveFrame) /\ Numbered(LiveFrame)
          BY <1>3, <1>t, StreamTypes DEF SourceOK
        <5> QED BY <5>1, IdsAppend
      <4> QED BY <1>1, <1>4, <4>1
    <3>3. Stream(src)' = A \o (B \o (C \o (D \o E))) BY <1>2, <1>4, <3>2 DEF Stream
    <3>4. Stream(src) = A \o (B \o (C \o D)) BY DEF Stream
    <3> HIDE DEF A, B, C, D, E
    <3>5. C \o D \in Seq(Nat) /\ B \o (C \o D) \in Seq(Nat) BY <3>1, ConcatClosed
    <3>6. C \o (D \o E) = (C \o D) \o E BY <3>1, ConcatAssoc, Zenon
    <3>7. B \o ((C \o D) \o E) = (B \o (C \o D)) \o E BY <3>1, <3>5, ConcatAssoc, Zenon
    <3>8. A \o ((B \o (C \o D)) \o E) = (A \o (B \o (C \o D))) \o E
      <4> DEFINE G == B \o (C \o D)
      <4>1. G \in Seq(Nat) BY <3>5
      <4> HIDE DEF G
      <4>2. A \in Seq(Nat) /\ E \in Seq(Nat) BY <3>1
      <4>3. \A b, c \in Seq(Nat) : (A \o b) \o c = A \o (b \o c) BY <4>2, ConcatAssoc, Zenon
      <4>4. (A \o G) \o E = A \o (G \o E) BY <4>1, <4>2, <4>3, Zenon
      <4> QED BY <4>4, Zenon DEF G
    <3> QED BY <3>3, <3>4, <3>6, <3>7, <3>8, Zenon DEF E
  <2>2. lost \in SUBSET (1 .. n) /\ Exact(Stream(src), n, lost) BY <1>2 DEF ReplayInv, LiveInv
  <2>3. Exact(Stream(src)', n + 1, lost) BY <1>3, <2>1, <2>2, ExactAppend
  <2>4. Len(sent') = n + 1 BY <1>1, <1>3, AppendProperties
  <2>5. \A i \in 1 .. n + 1 : sent'[i].id = i
    <3> SUFFICES ASSUME NEW i \in 1 .. n + 1 PROVE sent'[i].id = i OBVIOUS
    <3>1. CASE i \in 1 .. n
      <4>1. sent'[i] = sent[i] BY <1>1, <1>3, <3>1, AppendProperties
      <4> QED BY <3>1, <4>1 DEF ReplayInv, LiveInv
    <3>2. CASE i = n + 1 BY <1>1, <1>3, <3>2, AppendProperties
    <3> QED BY <1>3, <3>1, <3>2
  <2>6. lost' \in SUBSET (1 .. n + 1) BY <1>2, <1>3, <2>2
  <2> QED BY <1>2, <2>3, <2>4, <2>5, <2>6 DEF LiveInv
<1>7. ReplayExact' BY <1>4 DEF ReplayExact
<1>8. DeliveredOnTime' /\ WarpAccounted' /\ RaceInv'
  BY <1>2 DEF ReplayInv, DeliveredOnTime, WarpAccounted, RaceInv
<1>9. Ahead(src)' = Ahead(src) BY <1>2, <1>4 DEF Ahead
<1>10. PartInv' BY <1>2, <1>9 DEF ReplayInv, PartInv, TimeInv
<1> QED BY <1>5, <1>6, <1>7, <1>8, <1>10 DEF ReplayInv

\* A frame swallowed by is_disconnected.
LEMMA SwallowsKeeps ==
  ASSUME ReplayInv, Swallows, part # "clock"
  PROVE  ReplayInv'
<1> DEFINE h == Head(src.queue)
           q == Tail(src.queue)
<1>1. /\ begin' = begin /\ past' = past /\ user' = user /\ clock_calls' = clock_calls
      /\ session' = session /\ part' = part /\ current' = current
      /\ warps' = warps /\ events' = events /\ trace' = trace /\ sched' = sched
      /\ estate' = estate /\ sent' = sent /\ lost' = lost \cup {h.id} /\ src.queue # <<>>
  BY DEF Swallows, Aside
<1>t. ReplayTypeOK BY DEF ReplayInv
<1>2. /\ SourceOK(src) /\ src.queue \in Seq(LiveFrame) /\ sent \in Seq(LiveFrame)
      /\ Len(sent) \in Nat
  BY <1>t, LenProperties DEF ReplayTypeOK, SourceOK
<1>3. /\ Ids(src.queue) = <<h.id>> \o Ids(q) /\ q \in Seq(LiveFrame) /\ h.id \in Nat
      /\ Ids(q) \in Seq(Nat)
  <2>1. Ids(src.queue) = <<h.id>> \o Ids(q) /\ q \in Seq(LiveFrame) /\ h.id \in Nat
    BY <1>1, <1>2, <1>t, StreamTypes, IdsHead
  <2> QED BY <2>1, <1>t, StreamTypes, IdsFacts
<1> HIDE DEF h, q
<1>4. /\ SourceOK(src') /\ src'.kind = src.kind /\ src'.peeked = src.peeked
      /\ src'.queue = q /\ src'.frames = src.frames /\ src'.position = src.position
  <2>1. src = [kind |-> src.kind, frames |-> src.frames, position |-> src.position,
               active |-> src.active, queue |-> src.queue, peeked |-> src.peeked,
               probing |-> src.probing]
    BY <1>2 DEF SourceOK
  <2>2. src' = [kind |-> src.kind, frames |-> src.frames, position |-> src.position,
                active |-> src.active, queue |-> q, peeked |-> src.peeked,
                probing |-> FALSE]
    BY <2>1 DEF Swallows, q
  <2> QED BY <1>2, <1>3, <2>2 DEF SourceOK
<1>5. ReplayTypeOK' BY <1>t, <1>1, <1>4 DEF ReplayTypeOK, SchedType
<1>6. LiveInv'
  <2>1. CASE src.kind = "live"
    <3> DEFINE A == past
               B == Ids(trace)
               C == Ids(src.peeked)
               D == Ids(q)
               x == h.id
               front == A \o (B \o C)
    <3>1. A \in Seq(Nat) /\ B \in Seq(Nat) /\ C \in Seq(Nat) /\ D \in Seq(Nat) /\ x \in Nat
      BY <1>3, <1>t, StreamTypes
    <3>2. Stream(src)' = A \o (B \o (C \o D)) BY <1>1, <1>4 DEF Stream
    <3>3. Stream(src) = A \o (B \o (C \o (<<x>> \o D))) BY <1>3 DEF Stream
    <3>4. Exact(Stream(src), Len(sent), lost) /\ lost \in SUBSET (1 .. Len(sent))
      BY <2>1 DEF ReplayInv, LiveInv
    <3> HIDE DEF A, B, C, D, x
    <3>5. \A d \in Seq(Nat) : A \o (B \o (C \o d)) = front \o d
      <4> SUFFICES ASSUME NEW d \in Seq(Nat) PROVE A \o (B \o (C \o d)) = front \o d OBVIOUS
      <4>1. B \o C \in Seq(Nat) BY <3>1, ConcatClosed
      <4>2. B \o (C \o d) = (B \o C) \o d BY <3>1, ConcatAssoc, Zenon
      <4>3. A \o ((B \o C) \o d) = (A \o (B \o C)) \o d BY <3>1, <4>1, ConcatAssoc, Zenon
      <4> QED BY <4>2, <4>3, Zenon DEF front
    <3>6. front \in Seq(Nat) BY <3>1, ConcatProperties
    <3>7. <<x>> \o D \in Seq(Nat) BY <3>1, ConcatProperties
    <3> HIDE DEF front
    <3>8. Exact(front \o (<<x>> \o D), Len(sent), lost) BY <3>3, <3>4, <3>5, <3>7
    <3>9. Exact(front \o D, Len(sent), lost \cup {x}) /\ x \in 1 .. Len(sent)
      BY <1>2, <3>1, <3>6, <3>8, ExactRemove
    <3>10. Exact(Stream(src)', Len(sent), lost') BY <1>1, <3>1, <3>2, <3>5, <3>9 DEF x
    <3>11. lost' \in SUBSET (1 .. Len(sent)) BY <1>1, <3>4, <3>9 DEF x
    <3> QED BY <1>1, <3>10, <3>11 DEF ReplayInv, LiveInv
  <2>2. CASE src.kind # "live" BY <1>1, <1>4, <2>2 DEF ReplayInv, LiveInv
  <2> QED BY <2>1, <2>2
<1>7. ReplayExact' BY <1>1, <1>4 DEF ReplayInv, ReplayExact
<1>8. DeliveredOnTime' /\ WarpAccounted' /\ RaceInv'
  BY <1>1 DEF ReplayInv, DeliveredOnTime, WarpAccounted, RaceInv
<1>9. Ahead(src)' = Ahead(src) BY <1>1, <1>4 DEF Ahead, JournalPeek
<1>10. PartInv' BY <1>1, <1>9 DEF ReplayInv, PartInv, TimeInv
<1> QED BY <1>5, <1>6, <1>7, <1>8, <1>10 DEF ReplayInv

\* A delivery has a number and two times.
LEMMA Deliveries ==
  ASSUME NEW t \in Seq(Delivery)
  PROVE  \A k \in 1 .. Len(t) : t[k].id \in Nat /\ t[k].ts \in Int /\ t[k].at \in Int
<1>1. \A k \in 1 .. Len(t) : t[k] \in Delivery BY ElementOfSeq
<1> QED BY <1>1 DEF Delivery

\* The clock goes on towards the next frame, which waits.
LEMMA AdvancesKeeps ==
  ASSUME ReplayInv, Advances, part # "clock"
  PROVE  ReplayInv'
<1> DEFINE s == Peeked(src)
           next == peek(s)
<1>1. /\ begin' = begin /\ past' = past /\ user' = user /\ clock_calls' = clock_calls
      /\ session' = session /\ part' = part /\ sent' = sent
      /\ events' = events /\ trace' = trace /\ sched' = sched /\ lost' = lost /\ src' = s
  BY DEF Advances, Aside
<1>t. ReplayTypeOK BY DEF ReplayInv
<1>2. /\ SourceOK(s) /\ s.kind = src.kind /\ s.frames = src.frames /\ s.position = src.position
      /\ Ids(s.peeked) \o Ids(s.queue) = Ids(src.peeked) \o Ids(src.queue)
      /\ Ahead(src) # <<>> => Ahead(s) = Ahead(src)
  BY <1>t, PeekedFacts DEF ReplayTypeOK
<1>3. next # <<>> => Ahead(s) = next /\ next[1].ts \in Int BY <1>2, PeekFacts
<1>4. /\ current \in Int /\ current' \in Int /\ warps' \in WarpStatsType /\ current <= current'
      /\ warps'.total_us - warps.total_us <= current' - current
      /\ current' <= current \/ (next # <<>> /\ current' <= next[1].ts)
  <2>1. current \in Int /\ warps \in WarpStatsType BY <1>t DEF ReplayTypeOK
  <2>2. CASE current' = current /\ warps' = warps BY <2>1, <2>2 DEF WarpStatsType
  <2>3. CASE next # <<>> /\ Goes(current, warps, current', warps', next[1].ts)
    BY <2>1, <2>3 DEF Goes
  <2> QED BY <2>2, <2>3 DEF Advances
<1> HIDE DEF s
<1>5. ReplayTypeOK' BY <1>t, <1>1, <1>2, <1>4 DEF ReplayTypeOK, SchedType
<1>6. ReplayExact'
  <2>1. src.kind = "journal" /\ estate' = "Completed" => src.position = Len(src.frames)
    <3>1. CASE next = <<>> BY <1>2, <3>1, NothingAhead
    <3>2. CASE next # <<>> BY <3>2 DEF Advances, ReplayInv, ReplayExact, s
    <3> QED BY <3>1, <3>2
  <2> QED BY <1>1, <1>2, <2>1 DEF ReplayInv, ReplayExact
<1>7. LiveInv'
  <2>1. Stream(src)' = Stream(src) BY <1>1, <1>2 DEF Stream
  <2> QED BY <1>1, <1>2, <2>1 DEF ReplayInv, LiveInv
<1>8. DeliveredOnTime' BY <1>1 DEF ReplayInv, DeliveredOnTime
<1>9. WarpAccounted'
  <2>1. /\ warps.total_us \in Int /\ warps'.total_us \in Int /\ begin \in Int
        /\ warps.total_us <= current - begin
    BY <1>t, <1>4 DEF ReplayInv, ReplayTypeOK, WarpAccounted, WarpStatsType
  <2> QED BY <1>1, <1>4, <2>1 DEF WarpAccounted
<1>10. TimeInv /\ \A u \in ClockUsers : ~user[u].pending BY DEF ReplayInv, PartInv
<1>11. RaceInv' BY <1>1, <1>10 DEF RaceInv
<1>12. trace \in Seq(Delivery) /\ begin \in Int BY <1>t DEF ReplayTypeOK
<1>13. \A k \in 1 .. Len(trace) : trace[k].ts \in Int BY <1>12, Deliveries
<1>14. \/ current' <= begin
       \/ \E k \in 1 .. Len(trace) : current' <= trace[k].ts
       \/ Ahead(s) # <<>> /\ current' <= Ahead(s)[1].ts
  <2>1. CASE current' <= current
    <3>1. current' = current BY <1>4, <2>1
    <3> QED BY <1>2, <1>10, <3>1 DEF TimeInv
  <2>2. CASE next # <<>> /\ current' <= next[1].ts BY <1>3, <2>2
  <2> QED BY <1>4, <2>1, <2>2
<1>15. (\A k \in 1 .. Len(trace) : ~trace[k].early)
         => \A k \in 1 .. Len(trace) : trace[k].ts <= current'
  <2> SUFFICES ASSUME \A k \in 1 .. Len(trace) : ~trace[k].early, NEW k \in 1 .. Len(trace)
               PROVE  trace[k].ts <= current'
    OBVIOUS
  <2>1. trace[k].ts <= current BY <1>10 DEF TimeInv
  <2> QED BY <1>4, <1>13, <2>1
<1>16. PartInv' BY <1>1, <1>10, <1>14, <1>15 DEF PartInv, TimeInv
<1> QED BY <1>5, <1>6, <1>7, <1>8, <1>9, <1>11, <1>16 DEF ReplayInv

\* The source once the frame it showed is taken.
LEMMA TakenFacts ==
  ASSUME NEW s, SourceOK(s), peek(s) # <<>>
  PROVE  LET t == Taken(s)
         IN  /\ SourceOK(t) /\ t.kind = s.kind /\ t.frames = s.frames /\ t.queue = s.queue
             /\ IF s.kind = "live" THEN t.peeked = <<>> /\ s.peeked = peek(s)
                ELSE t.position = s.position + 1
<1> DEFINE t == Taken(s)
<1>1. s = [kind |-> s.kind, frames |-> s.frames, position |-> s.position, active |-> s.active,
           queue |-> s.queue, peeked |-> s.peeked, probing |-> s.probing]
  BY DEF SourceOK
<1>2. CASE s.kind = "live"
  <2>1. t = [kind |-> s.kind, frames |-> s.frames, position |-> s.position, active |-> s.active,
             queue |-> s.queue, peeked |-> <<>>, probing |-> s.probing]
    BY <1>1, <1>2 DEF Taken
  <2>2. s.peeked = peek(s) BY <1>2, PeekFacts DEF Ahead
  <2> HIDE DEF t
  <2>3. SourceOK(t) BY <2>1 DEF SourceOK
  <2>4. t.kind = s.kind /\ t.frames = s.frames /\ t.queue = s.queue /\ t.peeked = <<>> BY <2>1
  <2> QED BY <1>2, <2>2, <2>3, <2>4 DEF t
<1>3. CASE s.kind # "live"
  <2>1. t = [kind |-> s.kind, frames |-> s.frames, position |-> s.position + 1,
             active |-> s.active, queue |-> s.queue, peeked |-> s.peeked, probing |-> s.probing]
    BY <1>1, <1>3 DEF Taken
  <2>2. Recorded(s.frames) /\ s.position \in 0 .. Len(s.frames) BY DEF SourceOK
  <2>3. Len(s.frames) \in Nat BY <2>2, Timed, LenProperties
  <2>4. s.position < Len(s.frames) BY <1>3, PeekFacts
  <2>5. s.position + 1 \in 0 .. Len(s.frames) BY <2>2, <2>3, <2>4
  <2> HIDE DEF t
  <2>6. SourceOK(t) BY <2>1, <2>5 DEF SourceOK
  <2>7. t.kind = s.kind /\ t.frames = s.frames /\ t.queue = s.queue /\ t.position = s.position + 1
    BY <2>1
  <2> QED BY <1>3, <2>6, <2>7 DEF t
<1> QED BY <1>2, <1>3

\* The next frame is delivered.
LEMMA DeliversKeeps ==
  ASSUME ReplayInv, Delivers, part # "clock"
  PROVE  ReplayInv'
<1> DEFINE s == Peeked(src)
           next == peek(s)
           t == Taken(s)
<1>1. /\ begin' = begin /\ past' = past /\ user' = user /\ clock_calls' = clock_calls
      /\ session' = session /\ part' = part /\ sent' = sent
      /\ sched' = sched /\ lost' = lost /\ estate' = estate /\ next # <<>>
  BY DEF Delivers, Aside
<1>t. ReplayTypeOK BY DEF ReplayInv
<1>2. /\ SourceOK(s) /\ s.kind = src.kind /\ s.frames = src.frames /\ s.position = src.position
      /\ Ids(s.peeked) \o Ids(s.queue) = Ids(src.peeked) \o Ids(src.queue)
      /\ Ahead(src) # <<>> => Ahead(s) = Ahead(src)
  BY <1>t, PeekedFacts DEF ReplayTypeOK
<1>3. /\ Ahead(s) = next
      /\ s.kind # "live" => s.position < Len(s.frames) /\ next = <<s.frames[s.position + 1]>>
  BY <1>1, <1>2, PeekFacts
<1>4. PICK f : next = <<f>> /\ f.id \in Nat /\ f.ts \in Int BY <1>1, <1>2, PeekFacts
<1>5. next[1] = f BY <1>4
<1>6. PICK early \in BOOLEAN :
        /\ ~early => f.ts <= current'
        /\ Deliver(s, f, current', early)
  BY <1>5 DEF Delivers
<1>7. Goes(current, warps, current', warps', f.ts) BY <1>5 DEF Delivers
<1>8. /\ SourceOK(t) /\ t.kind = s.kind /\ t.frames = s.frames /\ t.queue = s.queue
      /\ IF s.kind = "live" THEN t.peeked = <<>> /\ s.peeked = next
         ELSE t.position = s.position + 1
  BY <1>1, <1>2, TakenFacts
<1> DEFINE d == [id |-> f.id, ts |-> f.ts, at |-> current', early |-> early]
<1>9. /\ src' = t /\ trace' = Append(trace, d) /\ events'.session = events.session + 1
  BY <1>6 DEF Deliver, ReplayStats
<1>10. /\ current \in Int /\ current' \in Int /\ warps' \in WarpStatsType /\ current <= current'
       /\ warps'.total_us - warps.total_us <= current' - current
       /\ current' <= current \/ current' <= f.ts
  BY <1>t, <1>7 DEF Goes, ReplayTypeOK
<1>11. d \in Delivery /\ d.id = f.id /\ d.ts = f.ts /\ d.at = current' /\ d.early = early
  BY <1>4, <1>10 DEF Delivery
<1> HIDE DEF s, next, t, d
<1> DEFINE n == Len(trace)
<1>12. /\ trace \in Seq(Delivery) /\ n \in Nat /\ begin \in Int
       /\ \A k \in 1 .. n : trace[k].ts \in Int /\ trace[k].at \in Int
  BY <1>t, Deliveries, LenProperties DEF ReplayTypeOK
<1>13. /\ trace' \in Seq(Delivery) /\ Len(trace') = n + 1 /\ trace'[n + 1] = d
       /\ \A k \in 1 .. n : trace'[k] = trace[k]
  BY <1>9, <1>11, <1>12, AppendProperties
<1>14. ReplayTypeOK'
  BY <1>t, <1>1, <1>8, <1>9, <1>10, <1>13 DEF ReplayTypeOK, SchedType
<1>15. Ids(trace') = Ids(trace) \o <<f.id>>
  <2>1. Numbered(Delivery) BY DEF Numbered, Delivery
  <2>2. Ids(Append(trace, d)) = Ids(trace) \o <<d.id>> BY <1>11, <1>12, <2>1, IdsAppend
  <2> QED BY <1>9, <1>11, <2>2
<1>16. ReplayExact'
  <2> SUFFICES ASSUME src.kind # "live"
               PROVE  /\ Ids(trace') = Ids(SubSeq(src'.frames, 1, src'.position))
                      /\ events'.session = Len(trace')
                      /\ (src'.kind = "journal" /\ estate' = "Completed")
                           => src'.position = Len(src'.frames)
    BY <1>2, <1>8, <1>9 DEF ReplayExact
  <2> DEFINE p == src.position
             fs == src.frames
  <2>1. /\ Ids(trace) = Ids(SubSeq(fs, 1, p)) /\ events.session = n
        /\ (src.kind = "journal" /\ estate = "Completed") => p = Len(fs)
    BY DEF ReplayInv, ReplayExact
  <2>2. src'.frames = fs /\ src'.position = p + 1 /\ src'.kind = src.kind BY <1>2, <1>8, <1>9
  <2>3. p < Len(fs) /\ next = <<fs[p + 1]>> BY <1>2, <1>3
  <2>4. f = fs[p + 1] BY <1>4, <2>3
  <2>5. Recorded(fs) /\ p \in 0 .. Len(fs) BY <1>t DEF ReplayTypeOK, SourceOK
  <2> HIDE DEF p, fs
  <2>6. /\ fs \in Seq(Range(fs)) /\ Numbered(Range(fs)) /\ Len(fs) \in Nat /\ p \in Nat
        /\ p + 1 \in 1 .. Len(fs)
    BY <2>3, <2>5, Timed, LenProperties
  <2>7. SubSeq(fs, 1, p + 1) = Append(SubSeq(fs, 1, p), fs[p + 1]) /\ fs[p + 1] \in Range(fs)
    BY <2>5, <2>6, Timed
  <2>8. SubSeq(fs, 1, p) \in Seq(Range(fs)) BY <2>6, SubSeqProperties
  <2>9. Ids(SubSeq(fs, 1, p + 1)) = Ids(SubSeq(fs, 1, p)) \o <<fs[p + 1].id>>
    BY <2>6, <2>7, <2>8, IdsAppend
  <2>10. ~(src.kind = "journal" /\ estate = "Completed") BY <2>1, <2>3, <2>6
  <2> QED BY <1>1, <1>9, <1>13, <1>15, <2>1, <2>2, <2>4, <2>9, <2>10
<1>17. LiveInv'
  <2>1. CASE src.kind = "live"
    <3> DEFINE A == past
               B == Ids(trace)
               C == <<f.id>>
               D == Ids(s.queue)
    <3>1. A \in Seq(Nat) /\ B \in Seq(Nat) /\ C \in Seq(Nat) /\ D \in Seq(Nat)
      <4>1. s.queue \in Seq(LiveFrame) /\ Numbered(LiveFrame)
        BY <1>2 DEF SourceOK, Numbered, LiveFrame
      <4> QED BY <1>4, <1>t, <4>1, StreamTypes, IdsFacts
    <3>2. Ids(s.peeked) = C
      <4>1. s.peeked = <<f>> BY <1>2, <1>4, <1>8, <2>1
      <4> QED BY <4>1 DEF Ids
    <3>3. Stream(src) = A \o (B \o (C \o D)) BY <1>2, <3>2 DEF Stream
    <3>4. Stream(src)' = A \o ((B \o C) \o (<<>> \o D))
      BY <1>1, <1>2, <1>8, <1>9, <1>15, <2>1, IdsEmpty DEF Stream
    <3> HIDE DEF A, B, C, D
    <3>5. <<>> \o D = D BY <3>1, ConcatEmptySeq
    <3>6. (B \o C) \o D = B \o (C \o D) BY <3>1, ConcatAssoc
    <3>7. Stream(src)' = Stream(src) BY <3>3, <3>4, <3>5, <3>6
    <3> QED BY <1>1, <1>2, <1>8, <1>9, <3>7 DEF ReplayInv, LiveInv
  <2>2. CASE src.kind # "live" BY <1>1, <1>2, <1>8, <1>9, <2>2 DEF ReplayInv, LiveInv
  <2> QED BY <2>1, <2>2
<1>18. WarpAccounted'
  <2>1. /\ warps.total_us \in Int /\ warps'.total_us \in Int
        /\ warps.total_us <= current - begin
    BY <1>t, <1>10 DEF ReplayInv, ReplayTypeOK, WarpAccounted, WarpStatsType
  <2> QED BY <1>1, <1>10, <1>12, <2>1 DEF WarpAccounted
<1>19. TimeInv /\ \A u \in ClockUsers : ~user[u].pending BY DEF ReplayInv, PartInv
<1>20. RaceInv' BY <1>1, <1>19 DEF RaceInv
\* The clock is at the latest time of the session.
<1>21. current' <= begin \/ \E k \in 1 .. n + 1 : current' <= trace'[k].ts
  <2>1. trace'[n + 1].ts = f.ts /\ n + 1 \in 1 .. n + 1 BY <1>11, <1>12, <1>13
  <2>2. CASE current' <= f.ts BY <2>1, <2>2
  <2>3. CASE current' <= current
    <3>1. current' = current BY <1>10, <2>3
    <3>2. CASE \E k \in 1 .. n : current <= trace[k].ts
      <4>1. PICK k \in 1 .. n : current <= trace[k].ts BY <3>2
      <4>2. k \in 1 .. n + 1 /\ trace'[k].ts = trace[k].ts BY <1>12, <1>13, <4>1
      <4> QED BY <3>1, <4>1, <4>2
    <3>3. CASE Ahead(src) # <<>> /\ current <= Ahead(src)[1].ts
      <4>1. Ahead(src) = next BY <1>2, <1>3, <3>3
      <4> QED BY <1>5, <2>1, <3>1, <3>3, <4>1
    <3> QED BY <1>19, <3>1, <3>2, <3>3 DEF TimeInv
  <2> QED BY <1>10, <2>2, <2>3
\* It is past all of them if none was early.
<1>22. (\A k \in 1 .. n + 1 : ~trace'[k].early)
         => begin <= current' /\ \A k \in 1 .. n + 1 : trace'[k].ts <= current'
  <2> SUFFICES ASSUME \A k \in 1 .. n + 1 : ~trace'[k].early
               PROVE  begin <= current' /\ \A k \in 1 .. n + 1 : trace'[k].ts <= current'
    OBVIOUS
  <2>1. \A k \in 1 .. n : k \in 1 .. n + 1 BY <1>12
  <2>2. \A k \in 1 .. n : ~trace[k].early BY <1>13, <2>1
  <2>3. \A k \in 1 .. n : trace[k].ts <= current BY <1>19, <2>2 DEF TimeInv
  <2>4. \A k \in 1 .. n : trace'[k].ts <= current' BY <1>10, <1>12, <1>13, <2>3
  <2>5. trace'[n + 1].ts <= current'
    <3>1. n + 1 \in 1 .. n + 1 BY <1>12
    <3>2. ~early BY <1>11, <1>13, <3>1
    <3> QED BY <1>6, <1>11, <1>13, <3>2
  <2>6. begin <= current
    BY <1>t, <1>10, <1>12 DEF ReplayInv, ReplayTypeOK, WarpAccounted, WarpStatsType
  <2>7. \A k \in 1 .. n + 1 : k \in 1 .. n \/ k = n + 1 BY <1>12
  <2> QED BY <1>10, <1>12, <2>4, <2>5, <2>6, <2>7
<1>23. DeliveredOnTime'
  <2> SUFFICES ASSUME NEW i \in 1 .. n + 1
               PROVE  LET times == {begin} \cup {trace'[k].ts : k \in 1 .. i}
                      IN  /\ \E x \in times : trace'[i].at <= x
                          /\ ~trace'[i].early => trace'[i].at >= trace'[i].ts
                          /\ (\A k \in 1 .. i : ~trace'[k].early)
                               => \A x \in times : x <= trace'[i].at
    <3>1. DOMAIN trace' = 1 .. n + 1 BY <1>13, LenProperties
    <3> QED BY <1>1, <3>1 DEF DeliveredOnTime
  <2>1. CASE i = n + 1
    <3>1. trace'[i].at = current' /\ trace'[i].early = early /\ trace'[i].ts = f.ts
      BY <1>11, <1>13, <2>1
    <3> QED BY <1>6, <1>21, <1>22, <2>1, <3>1
  <2>2. CASE i \in 1 .. n
    <3>1. DOMAIN trace = 1 .. n BY <1>12, LenProperties
    <3>2. LET times == {begin} \cup {trace[k].ts : k \in 1 .. i}
          IN  /\ \E x \in times : trace[i].at <= x
              /\ ~trace[i].early => trace[i].at >= trace[i].ts
              /\ (\A k \in 1 .. i : ~trace[k].early) => \A x \in times : x <= trace[i].at
      BY <2>2, <3>1 DEF ReplayInv, DeliveredOnTime
    <3>3. \A k \in 1 .. i : trace'[k] = trace[k] BY <1>12, <1>13, <2>2
    <3>4. trace'[i] = trace[i] BY <1>13, <2>2
    <3>5. {trace'[k].ts : k \in 1 .. i} = {trace[k].ts : k \in 1 .. i} BY <3>3
    <3>6. (\A k \in 1 .. i : ~trace'[k].early) => \A k \in 1 .. i : ~trace[k].early BY <3>3
    <3> QED BY <3>2, <3>4, <3>5, <3>6
  <2> QED BY <1>12, <2>1, <2>2
<1>24. PartInv'
  <2>1. TimeInv'
    BY <1>1, <1>13, <1>21, <1>22 DEF TimeInv
  <2> QED BY <1>1, <1>19, <2>1 DEF PartInv
<1> QED BY <1>14, <1>16, <1>17, <1>18, <1>20, <1>23, <1>24 DEF ReplayInv

\* reset: a new session from the first frame, with the clock at 0.
LEMMA RewindsKeeps ==
  ASSUME ReplayInv, Rewinds, part # "clock"
  PROVE  ReplayInv'
<1> DEFINE P == {src.peeked[i].id : i \in DOMAIN src.peeked}
<1>1. /\ user' = user /\ clock_calls' = clock_calls
      /\ session' = session + 1 /\ part' = part /\ sent' = sent /\ sched' = sched
      /\ estate' = "Idle" /\ current' = 0 /\ begin' = 0 /\ warps' = [count |-> 0, total_us |-> 0]
      /\ src' = [src EXCEPT !.position = 0, !.peeked = <<>>] /\ events'.session = 0
      /\ trace' = <<>> /\ past' = past \o Ids(trace) /\ lost' = lost \cup P
  BY DEF Rewinds, ResetEffect, WarpStats, ReplayStats, Rewound
<1>t. ReplayTypeOK BY DEF ReplayInv
<1>2. SourceOK(src) /\ sent \in Seq(LiveFrame) /\ Len(sent) \in Nat
  BY <1>t, LenProperties DEF ReplayTypeOK
<1>3. /\ SourceOK(src') /\ src'.kind = src.kind /\ src'.peeked = <<>>
      /\ src'.queue = src.queue /\ src'.frames = src.frames /\ src'.position = 0
  <2>1. src = [kind |-> src.kind, frames |-> src.frames, position |-> src.position,
               active |-> src.active, queue |-> src.queue, peeked |-> src.peeked,
               probing |-> src.probing]
    BY <1>2 DEF SourceOK
  <2>2. src' = [kind |-> src.kind, frames |-> src.frames, position |-> 0,
                active |-> src.active, queue |-> src.queue, peeked |-> <<>>,
                probing |-> src.probing]
    BY <1>1, <2>1
  <2>3. Recorded(src.frames) BY <1>2 DEF SourceOK
  <2>4. 0 \in 0 .. Len(src.frames) BY <2>3, Timed, LenProperties
  <2> QED BY <1>2, <2>2, <2>4 DEF SourceOK
<1>4. past' \in Seq(Nat) BY <1>1, <1>t, StreamTypes, ConcatClosed
<1>5. ReplayTypeOK'
  <2>1. trace' \in Seq(Delivery) BY <1>1
  <2>2. warps' \in WarpStatsType BY <1>1 DEF WarpStatsType
  <2> QED BY <1>t, <1>1, <1>3, <1>4, <2>1, <2>2 DEF ReplayTypeOK, SchedType
<1>6. ReplayExact'
  <2>1. Recorded(src.frames) BY <1>2 DEF SourceOK
  <2>2. src.frames \in Seq(Range(src.frames)) BY <2>1, Timed
  <2>3. SubSeq(src.frames, 1, 0) = <<>> BY <2>2, SubSeqEmpty
  <2>4. Ids(trace') = Ids(SubSeq(src'.frames, 1, src'.position)) BY <1>1, <1>3, <2>3
  <2>5. events'.session = Len(trace') BY <1>1
  <2> QED BY <1>1, <2>4, <2>5 DEF ReplayExact
<1>7. LiveInv'
  <2>1. CASE src.kind = "live"
    <3> DEFINE A == past
               B == Ids(trace)
               D == Ids(src.queue)
               front == A \o B
    <3>1. A \in Seq(Nat) /\ B \in Seq(Nat) /\ D \in Seq(Nat) BY <1>t, StreamTypes
    <3>2. Stream(src)' = front \o (<<>> \o (<<>> \o D)) BY <1>1, <1>3, IdsEmpty DEF Stream
    <3>3. <<>> \o D = D BY <3>1, ConcatEmptySeq
    <3>4. Stream(src)' = front \o D BY <3>2, <3>3
    <3>5. lost \in SUBSET (1 .. Len(sent)) /\ Exact(Stream(src), Len(sent), lost)
      BY <2>1 DEF ReplayInv, LiveInv
    <3>6. Stream(src) = A \o (B \o (Ids(src.peeked) \o D)) BY DEF Stream
    <3>7. front \in Seq(Nat) BY <3>1, ConcatClosed
    <3>8. lost' \in SUBSET (1 .. Len(sent)) /\ Exact(Stream(src)', Len(sent), lost')
      <4>1. CASE src.peeked = <<>>
        <5>1. P = {} BY <4>1
        <5>2. Stream(src) = A \o (B \o D) BY <3>3, <3>6, <4>1, IdsEmpty
        <5> HIDE DEF A, B, D
        <5>3. A \o (B \o D) = front \o D BY <3>1, ConcatAssoc
        <5> QED BY <1>1, <3>4, <3>5, <5>1, <5>2, <5>3
      <4>2. CASE src.peeked # <<>>
        <5>1. PICK f \in LiveFrame : src.peeked = <<f>> BY <1>2, <4>2 DEF SourceOK
        <5> DEFINE x == f.id
        <5>2. P = {x} BY <5>1
        <5>3. Ids(src.peeked) = <<x>> BY <5>1 DEF Ids
        <5>4. x \in Nat /\ <<x>> \in Seq(Nat) BY DEF LiveFrame
        <5> HIDE DEF A, B, D, x
        <5>5. <<x>> \o D \in Seq(Nat) BY <3>1, <5>4, ConcatClosed
        <5>6. A \o (B \o (<<x>> \o D)) = front \o (<<x>> \o D) BY <3>1, <5>5, ConcatAssoc, Zenon
        <5> HIDE DEF front
        <5>7. Exact(front \o (<<x>> \o D), Len(sent), lost) BY <3>5, <3>6, <5>3, <5>6
        <5>8. Exact(front \o D, Len(sent), lost \cup {x}) /\ x \in 1 .. Len(sent)
          BY <1>2, <3>1, <3>7, <5>4, <5>7, ExactRemove
        <5> QED BY <1>1, <3>4, <3>5, <5>2, <5>8
      <4> QED BY <4>1, <4>2
    <3> QED BY <1>1, <3>8 DEF ReplayInv, LiveInv
  <2>2. CASE src.kind # "live" BY <1>1, <1>3, <2>2 DEF ReplayInv, LiveInv
  <2> QED BY <2>1, <2>2
<1>8. DeliveredOnTime' /\ WarpAccounted' BY <1>1 DEF DeliveredOnTime, WarpAccounted
<1>9. \A u \in ClockUsers : ~user[u].pending BY DEF ReplayInv, PartInv
<1>10. RaceInv' BY <1>1, <1>9 DEF RaceInv
<1>11. PartInv'
  <2>1. TimeInv' BY <1>1 DEF TimeInv
  <2> QED BY <1>1, <1>9, <2>1 DEF PartInv
<1> QED BY <1>5, <1>6, <1>7, <1>8, <1>10, <1>11 DEF ReplayInv

\* The users of the clock, who have no engine.
LEMMA ClockKeeps ==
  ASSUME ReplayInv, part = "clock", part' = part, ClockNext, UNCHANGED engineOnly
  PROVE  ReplayInv'
<1>1. /\ session' = session /\ begin' = begin
      /\ past' = past /\ sent' = sent /\ sched' = sched /\ lost' = lost
      /\ estate' = estate /\ src' = src /\ warps' = warps /\ events' = events /\ trace' = trace
  BY DEF engineOnly
<1>t. ReplayTypeOK BY DEF ReplayInv
<1>2. /\ trace = <<>> /\ begin = 0 /\ warps.total_us = 0 /\ current \in Nat
      /\ user \in [ClockUsers -> Advancing] /\ RaceInv
  BY <1>t DEF ReplayInv, PartInv, ReplayTypeOK
<1>3. PICK u \in ClockUsers :
        \/ \E t \in Targets : AdvanceToLoad(u, t) \/ set(u, t)
        \/ AdvanceToStore(u) \/ advance(u, 1) \/ SetFlags(u)
  BY DEF ClockNext
<1>4. \A v \in ClockUsers : user[v] \in Advancing /\ user[v].target \in Nat
  BY <1>2 DEF Advancing
<1>5. NotAdvancing \in Advancing /\ ~NotAdvancing.pending BY DEF NotAdvancing, Advancing
\* Whoever is between load and store is told that the clock moved.
<1>6. user' = Raced(u) => user' \in [ClockUsers -> Advancing]
                          /\ \A v \in ClockUsers : ~(user'[v].pending /\ ~user'[v].raced)
  <2> SUFFICES ASSUME user' = Raced(u)
               PROVE  /\ user' \in [ClockUsers -> Advancing]
                      /\ \A v \in ClockUsers : ~(user'[v].pending /\ ~user'[v].raced)
    OBVIOUS
  <2>1. ASSUME NEW v \in ClockUsers
        PROVE  user'[v] \in Advancing /\ ~(user'[v].pending /\ ~user'[v].raced)
    <3>1. CASE v = u
      <4>1. user'[v] = NotAdvancing BY <3>1 DEF Raced
      <4> QED BY <1>5, <4>1
    <3>2. CASE v # u
      <4> DEFINE w == user[v]
      <4>1. user'[v] = [w EXCEPT !.raced = w.pending] BY <3>2 DEF Raced
      <4>2. w \in Advancing /\ w.pending \in BOOLEAN BY <1>4 DEF Advancing
      <4> HIDE DEF w
      <4>3. [w EXCEPT !.raced = w.pending] \in Advancing BY <4>2 DEF Advancing
      <4>4. /\ [w EXCEPT !.raced = w.pending].pending = w.pending
            /\ [w EXCEPT !.raced = w.pending].raced = w.pending
        BY <4>2 DEF Advancing
      <4> QED BY <4>1, <4>3, <4>4
    <3> QED BY <3>1, <3>2
  <2>2. user' = [v \in ClockUsers |-> user'[v]] BY DEF Raced
  <2> QED BY <2>1, <2>2
<1>7. Targets \subseteq Nat BY ClockAssumption
<1>c. clock_calls' \in Nat
  <2>1. clock_calls' \in {clock_calls, clock_calls + 1}
    BY <1>3 DEF AdvanceToLoad, set, AdvanceToStore, advance, SetFlags
  <2> QED BY <1>t, <2>1 DEF ReplayTypeOK
<1>8. current' \in Nat /\ user' \in [ClockUsers -> Advancing] /\ RaceInv'
  <2>1. ASSUME NEW t \in Targets, AdvanceToLoad(u, t)
        PROVE  current' \in Nat /\ user' \in [ClockUsers -> Advancing] /\ RaceInv'
    <3> DEFINE new == [target |-> t, pending |-> TRUE, raced |-> FALSE]
    <3>1. current' = current BY <2>1 DEF AdvanceToLoad
    <3>2. CASE t > current
      <4>1. user' = [user EXCEPT ![u] = new] BY <2>1, <3>2 DEF AdvanceToLoad
      <4>2. new \in Advancing /\ new.target = t BY <1>7 DEF Advancing
      <4> HIDE DEF new
      <4>3. user' \in [ClockUsers -> Advancing] BY <1>2, <4>1, <4>2
      <4>4. \A v \in ClockUsers : user'[v] = IF v = u THEN new ELSE user[v] BY <1>2, <4>1
      <4>5. t \in Int /\ current < t BY <1>2, <1>7, <3>2
      <4>6. RaceInv' BY <1>2, <3>1, <4>2, <4>4, <4>5 DEF RaceInv
      <4> QED BY <1>2, <3>1, <4>3, <4>6
    <3>3. CASE ~(t > current)
      <4>1. user' = user BY <2>1, <3>3 DEF AdvanceToLoad
      <4> QED BY <1>2, <3>1, <4>1 DEF RaceInv
    <3> QED BY <3>2, <3>3
  <2>2. CASE user' = Raced(u) /\ current' \in Nat BY <1>6, <2>2 DEF RaceInv
  <2>3. CASE SetFlags(u)
    <3>1. current' = current /\ user' = user BY <2>3 DEF SetFlags
    <3> QED BY <1>2, <3>1 DEF RaceInv
  <2>4. ASSUME NEW t \in Targets, set(u, t) PROVE user' = Raced(u) /\ current' \in Nat
    BY <1>7, <2>4 DEF set
  <2>5. AdvanceToStore(u) => user' = Raced(u) /\ current' \in Nat
    BY <1>4 DEF AdvanceToStore
  <2>6. advance(u, 1) => user' = Raced(u) /\ current' \in Nat
    BY <1>2 DEF advance
  <2> QED BY <1>3, <2>1, <2>2, <2>3, <2>4, <2>5, <2>6
<1>9. ReplayTypeOK' BY <1>t, <1>c, <1>1, <1>8 DEF ReplayTypeOK, SchedType
<1>10. ReplayExact' /\ DeliveredOnTime'
  BY <1>1, <1>2 DEF ReplayInv, ReplayExact, DeliveredOnTime
<1>11. LiveInv'
  <2>1. Stream(src)' = Stream(src) BY <1>1 DEF Stream
  <2> QED BY <1>1, <2>1 DEF ReplayInv, LiveInv
<1>12. WarpAccounted'
  <2>1. warps'.total_us = 0 /\ begin' = 0 BY <1>1, <1>2
  <2>2. current' \in Nat BY <1>8
  <2>3. \A c \in Nat : 0 <= c - 0 OBVIOUS
  <2> QED BY <2>1, <2>2, <2>3 DEF WarpAccounted
<1>13. PartInv' BY <1>1, <1>2, <1>8 DEF PartInv
<1> QED BY <1>8, <1>9, <1>10, <1>11, <1>12, <1>13 DEF ReplayInv

-----------------------------------------------------------------------------
\* Every step is one of these.

\* An engine's step is of one of the six kinds.
LEMMA EngineClassified ==
  ASSUME ReplayInv, EngineNext, part' = part
  PROVE  Quiet \/ Sends \/ Swallows \/ Rewinds \/ Advances \/ Delivers
<1>t. ReplayTypeOK /\ SchedType /\ SourceOK(src) /\ sent \in Seq(LiveFrame) /\ Len(sent) \in Nat
  BY LenProperties DEF ReplayInv, ReplayTypeOK
<1>s. src = [kind |-> src.kind, frames |-> src.frames, position |-> src.position,
             active |-> src.active, queue |-> src.queue, peeked |-> src.peeked,
             probing |-> src.probing]
  BY <1>t DEF SourceOK
<1>q. ASSUME UNCHANGED <<src, sched, current, warps, events, trace, lost, begin, past, sent, user,
                       clock_calls, session>>,
             estate' = "Completed" => estate = "Completed"
      PROVE  Quiet
  BY <1>q, <1>t DEF Quiet, Same, SchedType, Aside
\* A change of a flag of the source.
<1>f. ASSUME NEW a, NEW b, src' = [src EXCEPT !.active = a, !.probing = b],
             UNCHANGED <<sched, current, warps, events, trace, lost, begin, past, sent, user,
                       clock_calls, session, estate>>
      PROVE  Quiet
  <2>1. src' = [kind |-> src.kind, frames |-> src.frames, position |-> src.position,
                active |-> a, queue |-> src.queue, peeked |-> src.peeked,
                probing |-> b]
    BY <1>f, <1>s
  <2>2. SourceOK(src') /\ Same(src, src') BY <1>t, <2>1 DEF SourceOK, Same
  <2> QED BY <1>f, <1>t, <2>2 DEF Quiet, SchedType, Aside
<1>1. ASSUME NEW ts \in Targets, Send(ts) PROVE Sends
  <2> DEFINE f == Frame(Len(sent) + 1, ts, "data", 0)
  <2>1. f \in LiveFrame /\ f.id = Len(sent) + 1
    BY <1>t, ClockAssumption DEF Frame, LiveFrame
  <2> HIDE DEF f
  <2> QED BY <1>1, <2>1 DEF Send, Sends, clockVars, f
<1>2. CASE DisconnectedProbe
  <2>1. src' = [src EXCEPT !.active = src.active, !.probing = TRUE]
    BY <1>2, <1>s DEF DisconnectedProbe
  <2> QED BY <1>2, <2>1, <1>f DEF DisconnectedProbe, clockVars
<1>3. CASE DisconnectedReceive
  <2>1. CASE src.queue = <<>>
    <3>1. src' = [src EXCEPT !.active = src.active, !.probing = FALSE] /\ lost' = lost
      BY <1>3, <1>s, <2>1 DEF DisconnectedReceive
    <3> QED BY <1>3, <3>1, <1>f DEF DisconnectedReceive, clockVars
  <2>2. CASE src.queue # <<>>
    BY <1>3, <2>2 DEF DisconnectedReceive, clockVars, Swallows, Aside
  <2> QED BY <2>1, <2>2
<1>4. ASSUME NEW b \in BOOLEAN, set_active(b) PROVE Quiet
  <2>1. src' = [src EXCEPT !.active = b, !.probing = src.probing]
    BY <1>4, <1>s DEF set_active
  <2> QED BY <1>4, <2>1, <1>f DEF set_active, clockVars
<1>5. CASE step \/ RunStep
  <2>1. StepEffect /\ UNCHANGED <<Aside, sched, lost>>
    BY <1>5 DEF step, RunStep, Aside
  <2> QED BY <1>t, <2>1, StepClassified
<1>6. CASE step_until_event BY <1>6, <1>t, StepUntilClassified
<1>7. CASE play
  <2>1. estate' = "Completed" => estate = "Completed" BY <1>7 DEF play, PlayEffect
  <2> QED BY <1>7, <2>1, <1>q DEF play
<1>8. CASE toggle
  <2>1. CASE pause BY <2>1, <1>q DEF pause
  <2> QED BY <1>7, <1>8, <2>1 DEF toggle
<1>9. CASE load BY <1>9, <1>q DEF load, clockVars
<1>10. CASE reset BY <1>10 DEF reset, Rewinds, ResetEffect
<1>11. ASSUME NEW m, NEW n \in Nat, set_mode(m, n) PROVE Quiet
  <2>1. SchedType'
    BY <1>11, <1>t DEF set_mode, FactorStored, SchedType
  <2>2. /\ UNCHANGED <<src, current, warps, events, trace, lost, begin, past, sent, user,
                       clock_calls, session, estate>>
    BY <1>11 DEF set_mode
  <2> QED BY <1>t, <2>1, <2>2 DEF Quiet, Same, Aside
<1>12. CASE RunBegin BY <1>12, <1>q DEF RunBegin, clockVars
<1>13. CASE RunEnd BY <1>13, <1>q DEF RunEnd, clockVars
<1>14. 0 \in Nat /\ Multipliers \subseteq Nat BY EngineAssumption
<1> QED
  BY <1>1, <1>2, <1>3, <1>4, <1>5, <1>6, <1>7, <1>8, <1>9, <1>10, <1>11, <1>12, <1>13, <1>14
  DEF EngineNext

\* A step of a verified run is of one of four of them.
LEMMA VerifyClassified ==
  ASSUME ReplayInv, VerifyNext, part' = part
  PROVE  Quiet \/ Rewinds \/ Advances \/ Delivers
<1>t. ReplayTypeOK /\ SchedType /\ SourceOK(src) BY DEF ReplayInv, ReplayTypeOK
<1>q. ASSUME UNCHANGED <<src, sched, current, warps, events, trace, lost, begin, past, sent, user,
                       clock_calls, session>>,
             estate' = "Completed" => estate = "Completed"
      PROVE  Quiet
  BY <1>q, <1>t DEF Quiet, Same, SchedType, Aside
<1>1. CASE VerifyBegin
  <2>1. estate' = "Completed" => estate = "Completed" BY <1>1 DEF VerifyBegin, PlayEffect
  <2> QED BY <1>1, <2>1, <1>q DEF VerifyBegin
<1>2. CASE VerifyStep
  <2>1. StepEffect /\ UNCHANGED <<Aside, sched, lost>> BY <1>2 DEF VerifyStep, Aside
  <2> QED BY <1>t, <2>1, StepClassified
<1>3. CASE VerifyReset BY <1>3 DEF VerifyReset, Rewinds, ResetEffect
<1>4. CASE ResetCallback
  <2>1. UNCHANGED <<src, sched, current, warps, events, trace, lost, begin, past, sent, user,
                       clock_calls, session, estate>>
    BY <1>4 DEF ResetCallback, engineVars, clockVars, engineOnly
  <2> QED BY <2>1, <1>q
<1> QED BY <1>1, <1>2, <1>3, <1>4 DEF VerifyNext

\* A step of the composition is of one of them, or one of the clock's users'.
LEMMA ReplayClassified ==
  ASSUME ReplayInv, [ReplayNext]_replayVars
  PROVE  /\ part' = part
         /\ \/ UNCHANGED engineVars
            \/ part = "clock" /\ ClockNext /\ UNCHANGED engineOnly
            \/ /\ part # "clock"
               /\ Quiet \/ Sends \/ Swallows \/ Rewinds \/ Advances \/ Delivers
<1>1. CASE ReplayNext
  <2>0. part' = part BY <1>1 DEF ReplayNext
  <2>1. CASE part = "clock" /\ ClockNext /\ UNCHANGED <<engineOnly, verifyOnly, hashVars, codecVars>>
    BY <2>0, <2>1
  <2>2. CASE part = "engine" /\ EngineNext BY <2>0, <2>2, EngineClassified
  <2>3. CASE part = "verify" /\ VerifyNext BY <2>0, <2>3, VerifyClassified
  <2>4. CASE UNCHANGED verifyVars BY <2>0, <2>4 DEF verifyVars
  <2> QED BY <1>1, <2>1, <2>2, <2>3, <2>4 DEF ReplayNext
<1>2. CASE UNCHANGED replayVars BY <1>2 DEF replayVars, verifyVars
<1> QED BY <1>1, <1>2

\* The invariant holds before the first call.
LEMMA ReplayInvInit == ReplayInit => ReplayInv
<1> SUFFICES ASSUME ReplayInit PROVE ReplayInv OBVIOUS
<1>1. PICK s, c, b : EngineInit(s, c, b) /\ SourceOK(s) /\ s.position = 0 /\ s.queue = <<>>
                     /\ s.peeked = <<>>
                     /\ c \in [idle_threshold_us : Nat, factor : Nat] /\ b \in Int
                     /\ (part = "clock" => b = 0)
  <2>e. Recorded(<<>>) BY DEF Recorded
  <2>l. \A fs : Recorded(fs) => 0 \in 0 .. Len(fs)
    BY Timed, LenProperties
  <2>k. ASSUME NEW k \in {"null", "buffered", "live", "journal"}, NEW fs, NEW a, Recorded(fs)
        PROVE  LET s == Source(k, fs, a)
               IN  SourceOK(s) /\ s.position = 0 /\ s.queue = <<>> /\ s.peeked = <<>>
    BY <2>k, <2>l DEF Source, SourceOK
  <2>1. CASE part = "engine"
    <3>1. PICK x \in Setups : EngineInit(x[1], x[2], x[3]) BY <2>1 DEF ReplayInit
    <3>2. /\ x[1] = Source(x[1].kind, x[1].frames, x[1].active)
          /\ x[1].kind \in {"null", "buffered", "live", "journal"} /\ Recorded(x[1].frames)
          /\ x[2] \in [idle_threshold_us : Nat, factor : Nat] /\ x[3] \in Int
      BY SetupAssumption
    <3>3. SourceOK(x[1]) /\ x[1].position = 0 /\ x[1].queue = <<>> /\ x[1].peeked = <<>>
      BY <3>2, <2>k
    <3> QED BY <2>1, <3>1, <3>2, <3>3
  <2>2. CASE part = "verify"
    <3>1. PICK r \in Recordings : EngineInit(JournalDataSource(r), WarpConfig(1, 0), 0)
      BY <2>2 DEF ReplayInit
    <3>2. Recorded(r) BY RecordingAssumption
    <3> DEFINE x == JournalDataSource(r)
    <3>3. SourceOK(x) /\ x.position = 0 /\ x.queue = <<>> /\ x.peeked = <<>>
      BY <3>2, <2>k DEF JournalDataSource
    <3>4. WarpConfig(1, 0) \in [idle_threshold_us : Nat, factor : Nat] BY DEF WarpConfig
    <3> HIDE DEF x
    <3> QED BY <2>2, <3>1, <3>3, <3>4 DEF x
  <2>3. CASE part \in {"clock", "hash", "codec"}
    <3>1. EngineInit(NullDataSource, WarpConfig(1, 0), 0) BY <2>3 DEF ReplayInit
    <3> DEFINE x == NullDataSource
    <3>3. SourceOK(x) /\ x.position = 0 /\ x.queue = <<>> /\ x.peeked = <<>>
      BY <2>e, <2>k DEF NullDataSource
    <3>4. WarpConfig(1, 0) \in [idle_threshold_us : Nat, factor : Nat] BY DEF WarpConfig
    <3> HIDE DEF x
    <3> QED BY <2>3, <3>1, <3>3, <3>4 DEF x
  <2> QED BY <2>1, <2>2, <2>3 DEF ReplayInit
<1>2. /\ clock_calls = 0 /\ session = 1
      /\ current = b /\ begin = b /\ sched = c /\ src = s /\ estate = "Idle"
      /\ warps = [count |-> 0, total_us |-> 0] /\ events.session = 0
      /\ trace = <<>> /\ past = <<>> /\ sent = <<>> /\ lost = {}
      /\ user = [u \in ClockUsers |-> NotAdvancing]
  BY <1>1 DEF EngineInit, ClockInit, WarpStats, ReplayStats
<1>3. NotAdvancing \in Advancing /\ ~NotAdvancing.pending BY DEF NotAdvancing, Advancing
<1>4. \A u \in ClockUsers : ~user[u].pending BY <1>2, <1>3
<1>5. ReplayTypeOK
  <2>1. user \in [ClockUsers -> Advancing] BY <1>2, <1>3
  <2> QED BY <1>1, <1>2, <2>1 DEF ReplayTypeOK, SchedType, WarpStatsType
<1>6. ReplayExact
  <2>1. Recorded(s.frames) BY <1>1 DEF SourceOK
  <2>2. SubSeq(s.frames, 1, 0) = <<>> BY <2>1, Timed, SubSeqEmpty
  <2>3. Ids(trace) = Ids(SubSeq(src.frames, 1, src.position)) BY <1>1, <1>2, <2>2
  <2>4. events.session = Len(trace) BY <1>2
  <2> QED BY <1>2, <2>3, <2>4 DEF ReplayExact
<1>7. LiveInv
  <2>1. Stream(src) = <<>> BY <1>1, <1>2, IdsEmpty DEF Stream
  <2>2. Exact(<<>>, 0, {}) BY DEF Exact
  <2> QED BY <1>2, <2>1, <2>2 DEF LiveInv
<1>8. DeliveredOnTime /\ WarpAccounted /\ RaceInv
  BY <1>1, <1>2, <1>4 DEF DeliveredOnTime, WarpAccounted, RaceInv
<1>9. PartInv BY <1>1, <1>2, <1>4 DEF PartInv, TimeInv
<1> QED BY <1>5, <1>6, <1>7, <1>8, <1>9 DEF ReplayInv

\* Every step keeps it.
LEMMA ReplayInvStep == ReplayInv /\ [ReplayNext]_replayVars => ReplayInv'
<1> SUFFICES ASSUME ReplayInv, [ReplayNext]_replayVars PROVE ReplayInv' OBVIOUS
<1>1. part' = part BY ReplayClassified
<1>2. CASE UNCHANGED engineVars
  <2>1. UNCHANGED <<current, begin, sched, warps, events, trace, past, sent, lost, user, src,
                    estate, clock_calls, session>>
    BY <1>2 DEF engineVars, clockVars, engineOnly
  <2>2. ReplayTypeOK' BY <2>1 DEF ReplayInv, ReplayTypeOK, SchedType
  <2>3. ReplayExact' /\ DeliveredOnTime' /\ WarpAccounted' /\ RaceInv'
    BY <2>1 DEF ReplayInv, ReplayExact, DeliveredOnTime, WarpAccounted, RaceInv
  <2>4. LiveInv' BY <2>1 DEF ReplayInv, LiveInv, Stream
  <2>5. PartInv' BY <1>1, <2>1 DEF ReplayInv, PartInv, TimeInv
  <2> QED BY <2>2, <2>3, <2>4, <2>5 DEF ReplayInv
<1> QED
  BY <1>1, <1>2, ReplayClassified, QuietKeeps, SendsKeeps, SwallowsKeeps, RewindsKeeps,
     AdvancesKeeps, DeliversKeeps, ClockKeeps

\* A live stream by its numbers is what LiveExact says of it.
LEMMA LiveShown == ReplayInv => LiveExact
<1> SUFFICES ASSUME ReplayInv, src.kind = "live"
             PROVE  LET shown == past \o (Ids(trace) \o (Ids(src.peeked) \o Ids(src.queue)))
                    IN  /\ \A i, j \in DOMAIN shown : i < j => shown[i] < shown[j]
                        /\ Range(shown) = {sent[i].id : i \in DOMAIN sent} \ lost
  BY DEF LiveExact
<1> DEFINE shown == Stream(src)
           n == Len(sent)
<1>1. Exact(shown, n, lost) /\ \A i \in 1 .. n : sent[i].id = i BY DEF ReplayInv, LiveInv
<1>2. sent \in Seq(LiveFrame) /\ DOMAIN sent = 1 .. n /\ n \in Nat
  BY LenProperties DEF ReplayInv, ReplayTypeOK
<1> HIDE DEF shown, n
<1>3. shown \in Seq(Nat) /\ DOMAIN shown = 1 .. Len(shown) BY <1>1, LenProperties DEF Exact
<1>4. \A i, j \in DOMAIN shown : i < j => shown[i] < shown[j] BY <1>1, <1>3 DEF Exact
<1>5. {sent[i].id : i \in DOMAIN sent} = 1 .. n BY <1>1, <1>2
<1>6. Range(shown) = (1 .. n) \ lost
  <2>1. \A x : x \in Range(shown) <=> \E i \in 1 .. Len(shown) : shown[i] = x
    BY <1>3 DEF Range
  <2>2. \A i \in 1 .. Len(shown) : shown[i] \in Nat BY <1>3, ElementOfSeq
  <2>3. \A x : x \in Range(shown) => x \in Nat BY <2>1, <2>2
  <2>4. \A x \in Nat : (\E i \in 1 .. Len(shown) : shown[i] = x) <=> (x \in 1 .. n /\ x \notin lost)
    BY <1>1 DEF Exact
  <2>5. \A x \in 1 .. n : x \in Nat BY <1>2
  <2> QED BY <2>1, <2>3, <2>4, <2>5
<1> QED BY <1>4, <1>5, <1>6 DEF shown, Stream

\* For any sources, recordings, timestamps, warp limits and clock users: a
\* replay shows each frame of its source once, in order and on time, whatever
\* the order of step, step_until_event, run_to_completion, pause, set_mode,
\* set_active and reset, and the time WarpStats claims was passed.
THEOREM ReplayAlwaysFaithful == ReplaySpec => []ReplayFaithful
<1>1. ReplayInv => ReplayFaithful BY LiveShown DEF ReplayInv, ReplayFaithful
<1> QED BY <1>1, ReplayInvInit, ReplayInvStep, PTL DEF ReplaySpec

\* No step sets the clock back but reset, and advance_to only in a race.
LEMMA ClockStep ==
  ASSUME ReplayInv, [ReplayNext]_replayVars
  PROVE  /\ \A u \in ClockUsers :
              (user[u].pending /\ ~user'[u].pending /\ current' < current) => user[u].raced
         /\ (session' = session /\ UNCHANGED <<user, clock_calls>>) => current' >= current
<1>1. current \in Int BY DEF ReplayInv, ReplayTypeOK
<1>2. CASE current' = current BY <1>1, <1>2
<1>3. CASE part = "clock" /\ ClockNext
  <2>1. PICK u \in ClockUsers :
          \/ \E t \in Targets : AdvanceToLoad(u, t) \/ set(u, t)
          \/ AdvanceToStore(u) \/ advance(u, 1) \/ SetFlags(u)
    BY <1>3 DEF ClockNext
  <2>2. current \in Nat /\ user \in [ClockUsers -> Advancing] /\ RaceInv
    BY <1>3 DEF ReplayInv, ReplayTypeOK, PartInv
  <2>3. \A v \in ClockUsers : v # u /\ user[v].pending /\ user' = Raced(u) => user'[v].pending
    <3> SUFFICES ASSUME NEW v \in ClockUsers, v # u, user[v].pending, user' = Raced(u)
                 PROVE  user'[v].pending
      OBVIOUS
    <3> DEFINE w == user[v]
    <3>1. user'[v] = [w EXCEPT !.raced = w.pending] BY DEF Raced
    <3>2. w \in Advancing BY <2>2
    <3> HIDE DEF w
    <3>3. [w EXCEPT !.raced = w.pending].pending = w.pending BY <3>2 DEF Advancing
    <3> QED BY <3>1, <3>3 DEF w
  <2>4. CASE AdvanceToStore(u)
    <3>1. /\ user[u].pending /\ current' = user[u].target /\ user' = Raced(u)
      BY <2>4 DEF AdvanceToStore
    <3>2. ~user'[u].pending BY <3>1 DEF Raced, NotAdvancing
    <3>3. user' # user BY <3>1, <3>2
    <3>4. ~user[u].raced => current < current' BY <2>2, <3>1 DEF RaceInv
    <3>5. current' \in Int
      <4>1. user[u] \in Advancing BY <2>2
      <4> QED BY <3>1, <4>1 DEF Advancing
    <3>6. current' < current => user[u].raced BY <1>1, <3>4, <3>5
    <3> QED BY <2>3, <3>1, <3>3, <3>6
  <2>5. CASE \E t \in Targets : set(u, t)
    <3>1. user' = Raced(u) /\ ~user[u].pending /\ clock_calls' = clock_calls + 1 BY <2>5 DEF set
    <3>2. clock_calls' # clock_calls BY <3>1 DEF ReplayInv, ReplayTypeOK
    <3> QED BY <2>3, <3>1, <3>2
  <2>6. CASE advance(u, 1)
    <3>1. user' = Raced(u) /\ ~user[u].pending /\ current' = current + 1 BY <2>6 DEF advance
    <3> QED BY <1>1, <2>3, <3>1
  <2>7. ASSUME NEW t \in Targets, AdvanceToLoad(u, t) PROVE current' = current
    BY <2>7 DEF AdvanceToLoad
  <2>8. SetFlags(u) => current' = current BY DEF SetFlags
  <2> QED BY <1>2, <2>1, <2>4, <2>5, <2>6, <2>7, <2>8
<1>4. CASE Quiet \/ Sends \/ Swallows BY <1>2, <1>4 DEF Quiet, Sends, Swallows, Aside
<1>5. CASE Rewinds \/ Advances \/ Delivers
  <2>1. user' = user BY <1>5 DEF Rewinds, Advances, Delivers, Aside
  <2>2. session' = session => current' >= current
    <3>1. CASE Rewinds
      <4>1. session' # session BY <3>1 DEF Rewinds, ReplayInv, ReplayTypeOK
      <4> QED BY <4>1
    <3>2. CASE Advances \/ Delivers
      <4>1. current' = current \/ (current' \in Int /\ current <= current')
        BY <3>2 DEF Advances, Delivers, Goes
      <4> QED BY <1>1, <4>1
    <3> QED BY <1>5, <3>1, <3>2
  <2> QED BY <2>1, <2>2
<1>6. CASE UNCHANGED engineVars
  <2>1. current' = current BY <1>6 DEF engineVars, clockVars
  <2> QED BY <1>2, <2>1
<1> QED BY <1>3, <1>4, <1>5, <1>6, ReplayClassified

\* For any users of the clock and any targets: advance_to sets the clock back
\* only if another user moved it between its load and its store; and of the
\* engine's operations only reset does, for any sources, modes and limits.
THEOREM ClockAlwaysForward == ReplaySpec => ClockForward
<1>1. ReplayInv /\ [ReplayNext]_replayVars
        => [\A u \in ClockUsers :
              (user[u].pending /\ ~user'[u].pending /\ current' < current) => user[u].raced]_clockVars
  BY ClockStep
<1>2. ReplayInv /\ [ReplayNext]_replayVars
        => [(session' = session /\ UNCHANGED <<user, clock_calls>>)
              => current' >= current]_engineVars
  BY ClockStep
<1> QED
  BY <1>1, <1>2, ReplayInvInit, ReplayInvStep, PTL
  DEF ReplaySpec, ClockForward, ClockBackOnlyInRace, EngineClockForward


-----------------------------------------------------------------------------
(***************************************************************************)
(* Verification.  What the verdict says is what the frames met so far say, *)
(* unless the callback was left with what it saw before a reset.           *)
(***************************************************************************)

\* What seen[k - 1] is, seen[k] is with one frame more.
IsSeen(seen, frames, n) ==
  seen = [k \in 0 .. n |->
            IF k = 0 THEN <<>>
            ELSE IF frames[k].kind = "data" THEN Append(seen[k - 1], frames[k].id)
            ELSE seen[k - 1]]

\* The recursive function of SeenAfter exists.
LEMMA SeenExists ==
  ASSUME NEW frames, NEW n \in Nat
  PROVE  \E f : IsSeen(f, frames, n)
<1> DEFINE More(s, k) == IF frames[k].kind = "data" THEN Append(s, frames[k].id) ELSE s
           Loop(f, m) == IsSeen(f, frames, m)
           S == {m \in Nat : \E f : Loop(f, m)}
<1>0. \A f, m : Loop(f, m) <=>
        f = [k \in 0 .. m |-> IF k = 0 THEN <<>> ELSE More(f[k - 1], k)]
  BY DEF IsSeen
<1> HIDE DEF More, Loop
<1>1. 0 \in S
  <2> DEFINE f == [k \in 0 .. 0 |-> <<>>]
  <2>1. f = [k \in 0 .. 0 |-> IF k = 0 THEN <<>> ELSE More(f[k - 1], k)] OBVIOUS
  <2>2. Loop(f, 0) BY <1>0, <2>1
  <2> QED BY <2>2
<1>2. ASSUME NEW m \in Nat, m \in S PROVE m + 1 \in S
  <2>1. PICK f : Loop(f, m) BY <1>2
  <2>f. f = [k \in 0 .. m |-> IF k = 0 THEN <<>> ELSE More(f[k - 1], k)] BY <1>0, <2>1
  <2> DEFINE g == [k \in 0 .. m + 1 |-> IF k <= m THEN f[k] ELSE More(f[m], k)]
  <2>2. \A k \in 0 .. m + 1 : g[k] = IF k = 0 THEN <<>> ELSE More(g[k - 1], k)
    <3> SUFFICES ASSUME NEW k \in 0 .. m + 1
                 PROVE  g[k] = IF k = 0 THEN <<>> ELSE More(g[k - 1], k)
      OBVIOUS
    <3>1. CASE k = 0 BY <2>f, <3>1
    <3>2. CASE k # 0 /\ k <= m
      <4>1. k \in 0 .. m /\ k - 1 \in 0 .. m + 1 /\ k - 1 <= m BY <3>2
      <4>2. g[k] = f[k] /\ g[k - 1] = f[k - 1] BY <4>1
      <4>3. f[k] = More(f[k - 1], k) BY <2>f, <3>2, <4>1
      <4> QED BY <3>2, <4>2, <4>3
    <3>3. CASE k = m + 1
      <4>1. k - 1 = m /\ m \in 0 .. m + 1 /\ k # 0 /\ ~(k <= m) BY <3>3
      <4>2. g[k] = More(f[m], k) /\ g[m] = f[m] BY <4>1
      <4> QED BY <4>1, <4>2
    <3> QED BY <3>1, <3>2, <3>3
  <2>3. g = [k \in 0 .. m + 1 |-> IF k = 0 THEN <<>> ELSE More(g[k - 1], k)] BY <2>2
  <2> HIDE DEF g
  <2>4. Loop(g, m + 1) BY <1>0, <2>3
  <2> QED BY <2>4
<1> HIDE DEF S
<1>3. Nat \subseteq S BY <1>1, <1>2, Induction
<1> QED BY <1>3 DEF S, Loop

\* SeenAfter, frame by frame.
LEMMA SeenFacts ==
  ASSUME NEW frames, Len(frames) \in Nat
  PROVE  /\ SeenAfter(frames)[0] = <<>>
         /\ \A k \in 1 .. Len(frames) :
              /\ frames[k].kind = "data" =>
                   SeenAfter(frames)[k] = Append(SeenAfter(frames)[k - 1], frames[k].id)
              /\ frames[k].kind # "data" => SeenAfter(frames)[k] = SeenAfter(frames)[k - 1]
<1> DEFINE seen == SeenAfter(frames)
           n == Len(frames)
<1>1. IsSeen(seen, frames, n)
  <2>1. \E f : IsSeen(f, frames, n) BY SeenExists
  <2>2. \E f : f = [k \in 0 .. n |->
                      IF k = 0 THEN <<>>
                      ELSE IF frames[k].kind = "data" THEN Append(f[k - 1], frames[k].id)
                      ELSE f[k - 1]]
    BY <2>1 DEF IsSeen
  <2> QED BY <2>2 DEF SeenAfter, IsSeen
<1> HIDE DEF seen
<1>2. seen[0] = <<>> BY <1>1 DEF IsSeen
<1>3. ASSUME NEW k \in 1 .. n
      PROVE  seen[k] = IF frames[k].kind = "data" THEN Append(seen[k - 1], frames[k].id)
                       ELSE seen[k - 1]
  <2>1. k \in 0 .. n /\ k # 0 OBVIOUS
  <2> QED BY <1>1, <2>1 DEF IsSeen
<1> QED BY <1>2, <1>3 DEF seen

\* Among the places up to the next one that place may be new.
LEMMA MetMore ==
  ASSUME NEW p \in Nat, NEW T \in SUBSET Nat
  PROVE  /\ p + 1 \in T => {i \in T : i <= p + 1} = {i \in T : i <= p} \cup {p + 1}
         /\ p + 1 \notin T => {i \in T : i <= p + 1} = {i \in T : i <= p}
<1>1. \A i \in T : i <= p + 1 <=> (i <= p \/ i = p + 1) OBVIOUS
<1> QED BY <1>1

\* The checkpoints met so far that tell against the replay.
BadMet(s) == {i \in Unreadable(s.frames) : i <= s.position}
OffMet(s) == {i \in Diverging(s.frames) : i <= s.position}

VerifyTypeOK ==
  /\ vstats \in [events : Nat, found : Nat, matched : Nat, mismatched : Nat, errors : Nat,
                 first : Seq(Nat)]
  /\ compared \in [all : Nat, matched : Nat]
  /\ results \in Seq({"match", "mismatch", "error"})
  /\ mark \in Nat /\ mark <= Len(results) /\ stale \in BOOLEAN

\* The counts are those of the comparator and of the results.
Tallied ==
  /\ compared.all = vstats.matched + vstats.mismatched /\ compared.matched = vstats.matched
  /\ vstats.found = compared.all + vstats.errors
  /\ vstats.mismatched > 0 <=> \E i \in 1 .. Len(results) : results[i] = "mismatch"
  /\ vstats.errors > 0 <=> \E i \in 1 .. Len(results) : results[i] = "error"

\* What the frames up to the source's position say.
Judged ==
  /\ app = SeenAfter(src.frames)[src.position]
  /\ vstats.errors > 0 <=> BadMet(src) # {}
  /\ vstats.mismatched > 0 <=> OffMet(src) # {}
  /\ OffMet(src) = {} => vstats.first = <<>>
  /\ OffMet(src) # {} => \E i \in OffMet(src) : /\ \A k \in OffMet(src) : i <= k
                                               /\ vstats.first = <<src.frames[i].id>>

VerifyInv ==
  /\ VerifyTypeOK /\ Tallied /\ StopsInTime
  /\ part # "verify" => vstats = NoVerification /\ results = <<>>
  /\ part = "verify" =>
       /\ src.kind = "journal" /\ vstats.events = src.position
       /\ src.position = 0 => vstats = NoVerification
       /\ ~stale => Judged

\* As many frames were delivered in the session as the source has passed.
LEMMA TraceLength ==
  ASSUME ReplayInv, src.kind # "live"
  PROVE  /\ Len(trace) = src.position /\ Len(src.frames) \in Nat /\ src.position \in Nat
         /\ src.position <= Len(src.frames) /\ (trace = <<>> <=> src.position = 0)
<1> DEFINE fs == src.frames
           p == src.position
           shown == SubSeq(fs, 1, p)
<1>1. Recorded(fs) /\ p \in 0 .. Len(fs) /\ trace \in Seq(Delivery)
  BY DEF ReplayInv, ReplayTypeOK, SourceOK
<1>2. fs \in Seq(Range(fs)) /\ Numbered(Range(fs)) /\ Len(fs) \in Nat BY <1>1, Timed, LenProperties
<1>3. p \in Nat /\ p <= Len(fs) BY <1>1, <1>2
<1>4. Ids(trace) = Ids(shown) BY DEF ReplayInv, ReplayExact
<1> HIDE DEF fs, p
<1>5. shown \in Seq(Range(fs)) /\ Len(shown) = p BY <1>2, <1>3
<1> HIDE DEF shown
<1>6. Len(Ids(shown)) = p BY <1>2, <1>5, IdsFacts
<1>7. Numbered(Delivery) BY DEF Numbered, Delivery
<1>8. Len(Ids(trace)) = Len(trace) BY <1>1, <1>7, IdsFacts
<1>9. Len(trace) = p BY <1>4, <1>6, <1>8
<1>10. trace = <<>> <=> Len(trace) = 0 BY <1>1, EmptySeq
<1> QED BY <1>2, <1>3, <1>9, <1>10 DEF fs, p

\* A report of agreeing counts agrees with its verdict.
LEMMA ReportShown ==
  ASSUME VerifyTypeOK, Tallied
  PROVE  ReportFaithful
<1> DEFINE mis == \E i \in 1 .. Len(results) : results[i] = "mismatch"
           err == \E i \in 1 .. Len(results) : results[i] = "error"
<1>1. /\ vstats.found \in Nat /\ vstats.matched \in Nat /\ vstats.mismatched \in Nat
      /\ vstats.errors \in Nat
  BY DEF VerifyTypeOK
<1>2. (vstats.mismatched > 0 <=> mis) /\ (vstats.errors > 0 <=> err) BY DEF Tallied
<1>3. vstats.found = vstats.matched + vstats.mismatched + vstats.errors
  BY <1>1 DEF Tallied
<1>4. DOMAIN results = 1 .. Len(results) BY LenProperties DEF VerifyTypeOK
<1>5. (Details("mismatch") # {} <=> mis) /\ (Details("error") # {} <=> err)
  BY <1>4 DEF Details
<1> HIDE DEF mis, err
<1>6. is_successful <=> ~mis /\ ~err BY <1>1, <1>2 DEF is_successful
<1>7. ASSUME is_successful PROVE Entries \subseteq Severities \ Failing
  <2>1. vstats.matched = vstats.found BY <1>1, <1>3, <1>7 DEF is_successful
  <2>2. match_rate(100) BY <1>1, <2>1 DEF match_rate
  <2>3. Details("mismatch") = {} /\ Details("error") = {} BY <1>5, <1>6, <1>7
  <2>4. Entries = {"info", "info"} \cup {} \cup {} BY <2>2, <2>3 DEF Entries
  <2> QED BY <2>4 DEF Severities, Failing
<1>8. ASSUME ~is_successful PROVE ~(Entries \subseteq Severities \ Failing)
  <2>1. CASE mis
    <3>1. "error" \in Entries BY <1>5, <2>1 DEF Entries
    <3> QED BY <3>1 DEF Failing
  <2>2. CASE err
    <3>1. "critical" \in Entries BY <1>5, <2>2 DEF Entries
    <3> QED BY <3>1 DEF Failing
  <2> QED BY <1>6, <1>8, <2>1, <2>2
<1>9. report_status = "Pass" <=> is_successful BY DEF report_status
<1>10. Recommendations = {} <=> (is_successful /\ vstats.found > 0)
  <2>1. CASE vstats.mismatched > 0
    <3>1. "review" \in Recommendations BY <2>1 DEF Recommendations
    <3>2. ~is_successful BY <2>1, <1>1 DEF is_successful
    <3> QED BY <3>1, <3>2
  <2>2. CASE vstats.errors > 0
    <3>1. "check_journal" \in Recommendations BY <2>2 DEF Recommendations
    <3>2. ~is_successful BY <2>2, <1>1 DEF is_successful
    <3> QED BY <3>1, <3>2
  <2>3. CASE ~(vstats.mismatched > 0) /\ ~(vstats.errors > 0)
    <3>1. is_successful /\ ~(vstats.mismatched > 5) BY <1>1, <2>3 DEF is_successful
    <3>2. Recommendations = IF vstats.found = 0 THEN {"add_checkpoints"} ELSE {}
      BY <2>3, <3>1 DEF Recommendations
    <3> QED BY <1>1, <3>1, <3>2
  <2> QED BY <2>1, <2>2, <2>3
<1> QED BY <1>7, <1>8, <1>9, <1>10 DEF ReportFaithful, Tallied

\* The first checkpoint of a journal is still to come.
LEMMA NothingMet ==
  ASSUME src.position = 0, Len(src.frames) \in Nat
  PROVE  BadMet(src) = {} /\ OffMet(src) = {}
BY DEF BadMet, OffMet, Unreadable, Diverging

\* A verdict on the frames met is a right one.
LEMMA VerdictShown ==
  ASSUME ReplayInv, VerifyInv
  PROVE  VerdictSound
<1> SUFFICES ASSUME src.kind = "journal", vstats.events = Len(trace), ~stale
             PROVE  /\ is_successful <=> (BadMet(src) = {} /\ OffMet(src) = {})
                    /\ OffMet(src) = {} => vstats.first = <<>>
                    /\ OffMet(src) # {} =>
                         \E i \in OffMet(src) : /\ \A k \in OffMet(src) : i <= k
                                                /\ vstats.first = <<src.frames[i].id>>
  BY DEF VerdictSound, BadMet, OffMet
<1>1. vstats.mismatched \in Nat /\ vstats.errors \in Nat BY DEF VerifyInv, VerifyTypeOK
<1>2. CASE part = "verify"
  <2>1. Judged BY <1>2 DEF VerifyInv
  <2>2. is_successful <=> ~(vstats.mismatched > 0) /\ ~(vstats.errors > 0)
    BY <1>1 DEF is_successful
  <2> QED BY <2>1, <2>2 DEF Judged
<1>3. CASE part # "verify"
  <2>1. vstats = NoVerification BY <1>3 DEF VerifyInv
  <2>2. vstats.events = 0 /\ is_successful /\ vstats.first = <<>>
    BY <2>1 DEF NoVerification, is_successful
  <2>3. src.position = 0 /\ Len(src.frames) \in Nat BY <2>2, TraceLength
  <2> QED BY <2>2, <2>3, NothingMet
<1> QED BY <1>2, <1>3

\* Nothing was verified before the first call.
LEMMA VerifyInvInit == ReplayInit => VerifyInv
<1> SUFFICES ASSUME ReplayInit PROVE VerifyInv OBVIOUS
<1>1. /\ app = <<>> /\ results = <<>> /\ stale = FALSE /\ mark = 0
      /\ vstats = NoVerification /\ compared = [all |-> 0, matched |-> 0]
  BY DEF ReplayInit, VerifyInit
<1>2. VerifyTypeOK
  <2>1. stale \in BOOLEAN BY <1>1
  <2>2. /\ vstats \in [events : Nat, found : Nat, matched : Nat, mismatched : Nat, errors : Nat,
                      first : Seq(Nat)]
        /\ compared \in [all : Nat, matched : Nat]
        /\ results \in Seq({"match", "mismatch", "error"})
        /\ mark \in Nat /\ mark <= Len(results)
    BY <1>1 DEF NoVerification
  <2> QED BY <2>1, <2>2 DEF VerifyTypeOK
<1>3. Tallied BY <1>1 DEF Tallied, NoVerification
<1>4. StopsInTime BY <1>1 DEF StopsInTime
<1>5. ASSUME part = "verify" PROVE src.kind = "journal" /\ src.position = 0
  <2>1. PICK r \in Recordings : src = JournalDataSource(r)
    BY <1>5 DEF ReplayInit, EngineInit
  <2> QED BY <2>1 DEF JournalDataSource, Source
<1>6. ASSUME part = "verify" PROVE Judged
  <2>1. src.kind # "live" /\ src.position = 0 BY <1>5, <1>6
  <2>2. Len(src.frames) \in Nat BY <2>1, ReplayInvInit, TraceLength
  <2>3. BadMet(src) = {} /\ OffMet(src) = {} BY <2>1, <2>2, NothingMet
  <2>4. SeenAfter(src.frames)[0] = <<>> BY <2>2, SeenFacts
  <2> QED BY <1>1, <2>1, <2>3, <2>4 DEF Judged, NoVerification
<1>7. vstats.events = 0 BY <1>1 DEF NoVerification
<1> QED BY <1>1, <1>2, <1>3, <1>4, <1>5, <1>6, <1>7 DEF VerifyInv

Outcomes == {"match", "mismatch", "error"}

\* What a frame adds to the counts: a match, a mismatch or an error.
Adds(match, mismatch, error, first) ==
  /\ vstats' = [events |-> vstats.events + 1,
                found |-> vstats.found + (match + mismatch + error),
                matched |-> vstats.matched + match,
                mismatched |-> vstats.mismatched + mismatch,
                errors |-> vstats.errors + error, first |-> first]
  /\ compared' = [all |-> compared.all + (match + mismatch), matched |-> compared.matched + match]

\* A frame that is no checkpoint adds nothing, one that is adds what it is.
LEMMA SeenClassified ==
  ASSUME VerifyTypeOK, NEW f, Seen(f)
  PROVE  \/ /\ f.kind # "checkpoint"
            /\ Adds(0, 0, 0, vstats.first) /\ results' = results
         \/ /\ f.kind = "checkpoint" /\ f.hash = Malformed
            /\ Adds(0, 0, 1, vstats.first) /\ results' = Append(results, "error")
         \/ /\ f.kind = "checkpoint" /\ f.hash # Malformed /\ f.hash = app
            /\ Adds(1, 0, 0, vstats.first) /\ results' = Append(results, "match")
         \/ /\ f.kind = "checkpoint" /\ f.hash # Malformed /\ f.hash # app
            /\ Adds(0, 1, 0, IF vstats.first = <<>> THEN <<f.id>> ELSE vstats.first)
            /\ results' = Append(results, "mismatch")
<1> DEFINE e == vstats.events
           n == vstats.found
           m == vstats.matched
           x == vstats.mismatched
           r == vstats.errors
           a == vstats.first
<1>1. /\ vstats = [events |-> e, found |-> n, matched |-> m, mismatched |-> x, errors |-> r,
                   first |-> a]
      /\ e \in Nat /\ n \in Nat /\ m \in Nat /\ x \in Nat /\ r \in Nat
  BY DEF VerifyTypeOK
<1>2. /\ compared = [all |-> compared.all, matched |-> compared.matched]
      /\ compared.all \in Nat /\ compared.matched \in Nat
  BY DEF VerifyTypeOK
<1> HIDE DEF e, n, m, x, r, a
<1>3. CASE f.kind # "checkpoint"
  <2>1. /\ vstats' = [vstats EXCEPT !.events = @ + 1] /\ results' = results /\ compared' = compared
    BY <1>3 DEF Seen
  <2>2. vstats' = [events |-> e + 1, found |-> n + (0 + 0 + 0), matched |-> m + 0,
                   mismatched |-> x + 0, errors |-> r + 0, first |-> a]
    BY <1>1, <2>1
  <2>3. compared' = [all |-> compared.all + (0 + 0), matched |-> compared.matched + 0]
    BY <1>2, <2>1
  <2> QED BY <1>3, <2>1, <2>2, <2>3 DEF Adds, e, n, m, x, r, a
<1>4. CASE f.kind = "checkpoint" /\ f.hash = Malformed
  <2>1. /\ vstats' = [vstats EXCEPT !.events = @ + 1, !.found = @ + 1, !.errors = @ + 1]
        /\ results' = Append(results, "error") /\ compared' = compared
    BY <1>4 DEF Seen, verify_checkpoint, Parses
  <2>2. vstats' = [events |-> e + 1, found |-> n + 1, matched |-> m, mismatched |-> x,
                   errors |-> r + 1, first |-> a]
    BY <1>1, <2>1, Zenon
  <2>z. n + (0 + 0 + 1) = n + 1 /\ m + 0 = m /\ x + 0 = x BY <1>1
  <2>3. compared' = [all |-> compared.all + (0 + 0), matched |-> compared.matched + 0]
    BY <1>2, <2>1
  <2>4. vstats' = [events |-> e + 1, found |-> n + (0 + 0 + 1), matched |-> m + 0,
                   mismatched |-> x + 0, errors |-> r + 1, first |-> a]
    BY <2>2, <2>z
  <2> QED BY <1>4, <2>1, <2>3, <2>4 DEF Adds, e, n, m, x, r, a
<1>5. CASE f.kind = "checkpoint" /\ f.hash # Malformed /\ f.hash = app
  <2>1. Compared(f, app) BY <1>5 DEF Seen, verify_checkpoint, Parses
  <2>2. /\ compared' = [all |-> compared.all + 1, matched |-> compared.matched + 1]
        /\ vstats' = [vstats EXCEPT !.events = @ + 1, !.found = @ + 1, !.matched = @ + 1,
                                    !.mismatched = @ + 0, !.first = a]
        /\ results' = Append(results, "match")
    BY <1>5, <2>1, <1>1 DEF Compared, Verifies
  <2>3. vstats' = [events |-> e + 1, found |-> n + 1, matched |-> m + 1,
                   mismatched |-> x + 0, errors |-> r, first |-> a]
    BY <1>1, <2>2, Zenon
  <2>z. n + (1 + 0 + 0) = n + 1 /\ r + 0 = r BY <1>1
  <2>5. vstats' = [events |-> e + 1, found |-> n + (1 + 0 + 0), matched |-> m + 1,
                   mismatched |-> x + 0, errors |-> r + 0, first |-> a]
    BY <2>3, <2>z
  <2>4. compared' = [all |-> compared.all + (1 + 0), matched |-> compared.matched + 1]
    BY <1>2, <2>2
  <2> QED BY <1>5, <2>2, <2>4, <2>5 DEF Adds, e, n, m, x, r, a
<1>6. CASE f.kind = "checkpoint" /\ f.hash # Malformed /\ f.hash # app
  <2> DEFINE b == IF a = <<>> THEN <<f.id>> ELSE a
  <2>1. Compared(f, app) BY <1>6 DEF Seen, verify_checkpoint, Parses
  <2>2. /\ compared' = [all |-> compared.all + 1, matched |-> compared.matched + 0]
        /\ vstats' = [vstats EXCEPT !.events = @ + 1, !.found = @ + 1, !.matched = @ + 0,
                                    !.mismatched = @ + 1, !.first = b]
        /\ results' = Append(results, "mismatch")
    BY <1>6, <2>1, <1>1 DEF Compared, Verifies
  <2> HIDE DEF b
  <2>3. vstats' = [events |-> e + 1, found |-> n + 1, matched |-> m + 0,
                   mismatched |-> x + 1, errors |-> r, first |-> b]
    BY <1>1, <2>2, Zenon
  <2>z. n + (0 + 1 + 0) = n + 1 /\ r + 0 = r BY <1>1
  <2>5. vstats' = [events |-> e + 1, found |-> n + (0 + 1 + 0), matched |-> m + 0,
                   mismatched |-> x + 1, errors |-> r + 0, first |-> b]
    BY <2>3, <2>z
  <2>4. compared' = [all |-> compared.all + (0 + 1), matched |-> compared.matched + 0]
    BY <1>2, <2>2
  <2> QED BY <1>6, <2>2, <2>4, <2>5 DEF Adds, e, n, m, x, r, a, b
<1> QED BY <1>3, <1>4, <1>5, <1>6

\* What a sequence with one more element holds.
LEMMA AppendHolds ==
  ASSUME NEW S, NEW s \in Seq(S), NEW x \in S, NEW y
  PROVE  (\E i \in 1 .. Len(Append(s, x)) : Append(s, x)[i] = y)
           <=> (x = y \/ \E i \in 1 .. Len(s) : s[i] = y)
<1> DEFINE t == Append(s, x)
           n == Len(s)
<1>1. /\ n \in Nat /\ Len(t) = n + 1 /\ t[n + 1] = x /\ \A i \in 1 .. n : t[i] = s[i]
  BY LenProperties, AppendProperties
<1> HIDE DEF t, n
<1>2. \A i \in 1 .. Len(t) : i \in 1 .. n \/ i = n + 1 BY <1>1
<1>3. n + 1 \in 1 .. Len(t) /\ \A i \in 1 .. n : i \in 1 .. Len(t) BY <1>1
<1>4. (\E i \in 1 .. Len(t) : t[i] = y) <=> (x = y \/ \E i \in 1 .. n : s[i] = y)
  BY <1>1, <1>2, <1>3
<1> QED BY <1>4 DEF t, n

\* A frame that is seen keeps the counts in agreement.
LEMMA SeenCounts ==
  ASSUME VerifyTypeOK, Tallied, NEW f, f.id \in Nat, Seen(f), UNCHANGED <<mark, stale>>
  PROVE  /\ VerifyTypeOK' /\ Tallied' /\ vstats'.events = vstats.events + 1
         /\ results' = results \/ \E r \in Outcomes : results' = Append(results, r)
<1>1. /\ vstats.events \in Nat /\ vstats.found \in Nat /\ vstats.matched \in Nat
      /\ vstats.mismatched \in Nat /\ vstats.errors \in Nat /\ vstats.first \in Seq(Nat)
      /\ compared.all \in Nat /\ compared.matched \in Nat
  BY DEF VerifyTypeOK
<1>2. results \in Seq(Outcomes) /\ mark \in Nat /\ mark <= Len(results) /\ Len(results) \in Nat
  BY LenProperties DEF VerifyTypeOK, Outcomes
<1>s. stale' \in BOOLEAN BY DEF VerifyTypeOK
<1>3. ASSUME NEW a \in {0, 1}, NEW b \in {0, 1}, NEW c \in {0, 1}, NEW first \in Seq(Nat),
             Adds(a, b, c, first),
             \/ results' = results
             \/ \E r \in Outcomes : results' = Append(results, r)
      PROVE  VerifyTypeOK' /\ vstats'.events = vstats.events + 1
  <2>0. /\ vstats.events + 1 \in Nat /\ vstats.found + (a + b + c) \in Nat
        /\ vstats.matched + a \in Nat /\ vstats.mismatched + b \in Nat /\ vstats.errors + c \in Nat
        /\ compared.all + (a + b) \in Nat /\ compared.matched + a \in Nat
    <3>1. a \in Nat /\ b \in Nat /\ c \in Nat OBVIOUS
    <3>2. a + b \in Nat /\ a + b + c \in Nat /\ 1 \in Nat BY <3>1
    <3>3. \A i, j \in Nat : i + j \in Nat OBVIOUS
    <3> QED BY <1>1, <3>1, <3>2, <3>3, Zenon
  <2>1. /\ vstats' \in [events : Nat, found : Nat, matched : Nat, mismatched : Nat, errors : Nat,
                        first : Seq(Nat)]
        /\ compared' \in [all : Nat, matched : Nat] /\ vstats'.events = vstats.events + 1
    BY <1>3, <2>0, Zenon DEF Adds
  <2>2. results' \in Seq(Outcomes) /\ mark' \in Nat /\ mark' <= Len(results')
    <3>1. CASE results' = results BY <1>2, <3>1
    <3>2. ASSUME NEW r \in Outcomes, results' = Append(results, r)
          PROVE  results' \in Seq(Outcomes) /\ Len(results') = Len(results) + 1
      BY <1>2, <3>2, AppendProperties
    <3> QED BY <1>2, <1>3, <3>1, <3>2
  <2> QED BY <1>s, <2>1, <2>2 DEF VerifyTypeOK, Outcomes
<1>4. ASSUME NEW a \in {0, 1}, NEW b \in {0, 1}, NEW c \in {0, 1}, NEW first, Adds(a, b, c, first),
             (\E i \in 1 .. Len(results') : results'[i] = "mismatch")
               <=> (b = 1 \/ \E i \in 1 .. Len(results) : results[i] = "mismatch"),
             (\E i \in 1 .. Len(results') : results'[i] = "error")
               <=> (c = 1 \/ \E i \in 1 .. Len(results) : results[i] = "error")
      PROVE  Tallied'
  <2>1. /\ vstats'.found = vstats.found + (a + b + c) /\ vstats'.matched = vstats.matched + a
        /\ vstats'.mismatched = vstats.mismatched + b /\ vstats'.errors = vstats.errors + c
        /\ compared'.all = compared.all + (a + b) /\ compared'.matched = compared.matched + a
    BY <1>4 DEF Adds
  <2>2. /\ compared.all = vstats.matched + vstats.mismatched /\ compared.matched = vstats.matched
        /\ vstats.found = compared.all + vstats.errors
    BY DEF Tallied
  <2>3. /\ compared'.all = vstats'.matched + vstats'.mismatched
        /\ compared'.matched = vstats'.matched /\ vstats'.found = compared'.all + vstats'.errors
    <3>1. a \in Nat /\ b \in Nat /\ c \in Nat OBVIOUS
    <3> DEFINE m == vstats.matched
               x == vstats.mismatched
               e == vstats.errors
    <3>2. m \in Nat /\ x \in Nat /\ e \in Nat BY <1>1
    <3>m. /\ compared'.all = (m + x) + (a + b) /\ vstats'.matched = m + a
          /\ vstats'.mismatched = x + b /\ vstats'.errors = e + c
          /\ vstats'.found = ((m + x) + e) + (a + b + c)
      BY <2>1, <2>2, Zenon
    <3> HIDE DEF m, x, e
    <3>3. compared'.all = vstats'.matched + vstats'.mismatched BY <3>1, <3>2, <3>m
    <3>4. vstats'.found = compared'.all + vstats'.errors BY <3>1, <3>2, <3>m
    <3>5. compared'.matched = vstats'.matched BY <2>1, <2>2, Zenon
    <3> QED BY <3>3, <3>4, <3>5
  <2>4. /\ vstats'.mismatched > 0 <=> (b = 1 \/ vstats.mismatched > 0)
        /\ vstats'.errors > 0 <=> (c = 1 \/ vstats.errors > 0)
    <3>1. (b = 0 \/ b = 1) /\ (c = 0 \/ c = 1) OBVIOUS
    <3>2. vstats'.mismatched > 0 <=> (b = 1 \/ vstats.mismatched > 0) BY <1>1, <2>1, <3>1
    <3>3. vstats'.errors > 0 <=> (c = 1 \/ vstats.errors > 0) BY <1>1, <2>1, <3>1
    <3> QED BY <3>2, <3>3
  <2> QED BY <1>4, <2>3, <2>4 DEF Tallied
<1>5. ASSUME NEW r \in Outcomes, results' = Append(results, r), NEW y
      PROVE  (\E i \in 1 .. Len(results') : results'[i] = y)
               <=> (r = y \/ \E i \in 1 .. Len(results) : results[i] = y)
  BY <1>2, <1>5, AppendHolds
<1>6. CASE Adds(0, 0, 0, vstats.first) /\ results' = results
  <2>1. VerifyTypeOK' /\ vstats'.events = vstats.events + 1 BY <1>1, <1>3, <1>6
  <2>2. Tallied' BY <1>4, <1>6
  <2> QED BY <1>6, <2>1, <2>2
<1>7. CASE Adds(0, 0, 1, vstats.first) /\ results' = Append(results, "error")
  <2>0. "error" \in Outcomes BY DEF Outcomes
  <2>1. VerifyTypeOK' /\ vstats'.events = vstats.events + 1 BY <1>1, <1>3, <1>7, <2>0
  <2>2. Tallied' BY <1>4, <1>5, <1>7, <2>0
  <2> QED BY <1>7, <2>0, <2>1, <2>2
<1>8. CASE Adds(1, 0, 0, vstats.first) /\ results' = Append(results, "match")
  <2>0. "match" \in Outcomes BY DEF Outcomes
  <2>1. VerifyTypeOK' /\ vstats'.events = vstats.events + 1 BY <1>1, <1>3, <1>8, <2>0
  <2>2. Tallied' BY <1>4, <1>5, <1>8, <2>0
  <2> QED BY <1>8, <2>0, <2>1, <2>2
<1>9. CASE /\ Adds(0, 1, 0, IF vstats.first = <<>> THEN <<f.id>> ELSE vstats.first)
           /\ results' = Append(results, "mismatch")
  <2> DEFINE first == IF vstats.first = <<>> THEN <<f.id>> ELSE vstats.first
  <2>0. "mismatch" \in Outcomes /\ first \in Seq(Nat) BY <1>1 DEF Outcomes
  <2>1. Adds(0, 1, 0, first) BY <1>9
  <2> HIDE DEF first
  <2>2. VerifyTypeOK' /\ vstats'.events = vstats.events + 1 BY <1>3, <1>9, <2>0, <2>1
  <2>3. Tallied' BY <1>4, <1>5, <1>9, <2>0, <2>1
  <2> QED BY <1>9, <2>0, <2>2, <2>3
<1> QED BY <1>6, <1>7, <1>8, <1>9, SeenClassified

\* What the next frame of the journal adds to what tells against the replay.
LEMMA MetNext ==
  ASSUME NEW fs, Len(fs) \in Nat, NEW p \in Nat, NEW s, NEW t,
         s.frames = fs, s.position = p, t.frames = fs, t.position = p + 1
  PROVE  /\ BadMet(t) = BadMet(s) \cup (IF p + 1 \in Unreadable(fs) THEN {p + 1} ELSE {})
         /\ OffMet(t) = OffMet(s) \cup (IF p + 1 \in Diverging(fs) THEN {p + 1} ELSE {})
         /\ \A k \in OffMet(s) : k \in Nat /\ k <= p
<1>1. Unreadable(fs) \in SUBSET Nat /\ Diverging(fs) \in SUBSET Nat BY DEF Unreadable, Diverging
<1> DEFINE U == Unreadable(fs)
           D == Diverging(fs)
<1>2. /\ BadMet(s) = {i \in U : i <= p} /\ BadMet(t) = {i \in U : i <= p + 1}
      /\ OffMet(s) = {i \in D : i <= p} /\ OffMet(t) = {i \in D : i <= p + 1}
  BY DEF BadMet, OffMet
<1> HIDE DEF U, D
<1>3. /\ p + 1 \in U => BadMet(t) = BadMet(s) \cup {p + 1}
      /\ p + 1 \notin U => BadMet(t) = BadMet(s)
  BY <1>1, <1>2, MetMore DEF U
<1>4. /\ p + 1 \in D => OffMet(t) = OffMet(s) \cup {p + 1}
      /\ p + 1 \notin D => OffMet(t) = OffMet(s)
  BY <1>1, <1>2, MetMore DEF D
<1>5. \A k \in OffMet(s) : k \in Nat /\ k <= p BY <1>1, <1>2 DEF D
<1> QED BY <1>3, <1>4, <1>5 DEF U, D

\* A frame that is seen is judged by what the frames before it say.
LEMMA SeenJudges ==
  ASSUME VerifyTypeOK, Judged, NEW fs, Len(fs) \in Nat, NEW p \in Nat, p < Len(fs),
         src.frames = fs, src.position = p, src'.frames = fs, src'.position = p + 1, Seen(fs[p + 1])
  PROVE  Judged'
<1> DEFINE f == fs[p + 1]
           seen == SeenAfter(fs)
           off == OffMet(src)
           bad == BadMet(src)
<1>1. p + 1 \in 1 .. Len(fs) /\ (p + 1) - 1 = p OBVIOUS
<1>2. /\ f.kind = "data" => seen[p + 1] = Append(seen[p], f.id)
      /\ f.kind # "data" => seen[p + 1] = seen[p]
  BY <1>1, SeenFacts
<1>3. app = seen[p] BY DEF Judged
<1>4. app' = seen[p + 1] BY <1>2, <1>3 DEF Seen, on_frame
<1>5. /\ BadMet(src') = bad \cup (IF p + 1 \in Unreadable(fs) THEN {p + 1} ELSE {})
      /\ OffMet(src') = off \cup (IF p + 1 \in Diverging(fs) THEN {p + 1} ELSE {})
      /\ \A k \in off : k \in Nat /\ k <= p
  BY MetNext
<1>6. /\ p + 1 \in Unreadable(fs) <=> (f.kind = "checkpoint" /\ f.hash = Malformed)
      /\ p + 1 \in Diverging(fs) <=>
           (f.kind = "checkpoint" /\ f.hash # Malformed /\ f.hash # seen[p + 1])
  BY <1>1 DEF Unreadable, Diverging
<1>7. /\ vstats.errors > 0 <=> bad # {}
      /\ vstats.mismatched > 0 <=> off # {}
      /\ off = {} => vstats.first = <<>>
      /\ off # {} => \E i \in off : (\A k \in off : i <= k) /\ vstats.first = <<fs[i].id>>
  BY DEF Judged
<1>8. vstats.errors \in Nat /\ vstats.mismatched \in Nat BY DEF VerifyTypeOK
<1>9. app' = SeenAfter(src'.frames)[src'.position] BY <1>4
<1> HIDE DEF f, seen, off, bad
<1>10. ASSUME NEW b \in SUBSET {p + 1}, NEW o \in SUBSET {p + 1},
              BadMet(src') = bad \cup b, OffMet(src') = off \cup o,
              vstats'.errors > 0 <=> (vstats.errors > 0 \/ b # {}),
              vstats'.mismatched > 0 <=> (vstats.mismatched > 0 \/ o # {}),
              vstats'.first = IF o = {} \/ vstats.first # <<>> THEN vstats.first ELSE <<f.id>>
       PROVE  Judged'
  <2>1. /\ vstats'.errors > 0 <=> BadMet(src') # {}
        /\ vstats'.mismatched > 0 <=> OffMet(src') # {}
    BY <1>7, <1>10
  <2>2. OffMet(src') = {} => vstats'.first = <<>> BY <1>7, <1>10
  <2>3. ASSUME OffMet(src') # {}
        PROVE  \E i \in OffMet(src') : /\ \A k \in OffMet(src') : i <= k
                                       /\ vstats'.first = <<fs[i].id>>
    <3>1. CASE off = {}
      <4>1. o = {p + 1} /\ OffMet(src') = {p + 1} BY <1>10, <2>3, <3>1
      <4>2. vstats'.first = <<fs[p + 1].id>> BY <1>7, <1>10, <3>1, <4>1 DEF f
      <4> QED BY <4>1, <4>2
    <3>2. CASE off # {}
      <4>1. PICK i \in off : (\A k \in off : i <= k) /\ vstats.first = <<fs[i].id>> BY <1>7, <3>2
      <4>2. vstats'.first = <<fs[i].id>> BY <1>10, <4>1
      <4>3. i \in Nat /\ i <= p + 1 BY <1>5
      <4>4. \A k \in OffMet(src') : i <= k BY <1>10, <4>1, <4>3
      <4> QED BY <1>10, <4>1, <4>2, <4>4
    <3> QED BY <3>1, <3>2
  <2>4. src'.frames = fs OBVIOUS
  <2> QED BY <1>9, <2>1, <2>2, <2>3, <2>4 DEF Judged
<1>11. ASSUME NEW a, NEW b \in {0, 1}, NEW c \in {0, 1}, NEW first, Adds(a, b, c, first)
       PROVE  /\ vstats'.errors > 0 <=> (vstats.errors > 0 \/ c = 1)
              /\ vstats'.mismatched > 0 <=> (vstats.mismatched > 0 \/ b = 1)
              /\ vstats'.first = first
  <2>1. /\ vstats'.errors = vstats.errors + c /\ vstats'.mismatched = vstats.mismatched + b
        /\ vstats'.first = first
    BY <1>11 DEF Adds
  <2>2. (b = 0 \/ b = 1) /\ (c = 0 \/ c = 1) OBVIOUS
  <2>3. vstats'.errors > 0 <=> (vstats.errors > 0 \/ c = 1) BY <1>8, <2>1, <2>2
  <2>4. vstats'.mismatched > 0 <=> (vstats.mismatched > 0 \/ b = 1) BY <1>8, <2>1, <2>2
  <2> QED BY <2>1, <2>3, <2>4
<1>12. f.kind = "checkpoint" => seen[p + 1] = app BY <1>2, <1>3
<1>13. CASE f.kind # "checkpoint" /\ Adds(0, 0, 0, vstats.first)
  <2>1. BadMet(src') = bad \cup {} /\ OffMet(src') = off \cup {}
    BY <1>5, <1>6, <1>13
  <2>2. (vstats'.errors > 0 <=> vstats.errors > 0) /\ (vstats'.mismatched > 0 <=> vstats.mismatched > 0)
        /\ vstats'.first = vstats.first
    <3>1. Adds(0, 0, 0, vstats.first) /\ 0 \in {0, 1} /\ 1 \in {0, 1} /\ 0 # 1 BY <1>13
    <3> QED BY <1>11, <3>1, Zenon
  <2>3. {} \in SUBSET {p + 1} /\ {p + 1} \in SUBSET {p + 1} /\ {p + 1} # {} OBVIOUS
  <2> QED BY <1>10, <2>1, <2>2, <2>3
<1>14. CASE f.kind = "checkpoint" /\ f.hash = Malformed /\ Adds(0, 0, 1, vstats.first)
  <2>1. BadMet(src') = bad \cup {p + 1} /\ OffMet(src') = off \cup {}
    BY <1>5, <1>6, <1>14
  <2>2. vstats'.errors > 0 /\ (vstats'.mismatched > 0 <=> vstats.mismatched > 0)
        /\ vstats'.first = vstats.first
    <3>1. Adds(0, 0, 1, vstats.first) /\ 0 \in {0, 1} /\ 1 \in {0, 1} /\ 0 # 1 BY <1>14
    <3> QED BY <1>11, <3>1, Zenon
  <2>3. {} \in SUBSET {p + 1} /\ {p + 1} \in SUBSET {p + 1} /\ {p + 1} # {} OBVIOUS
  <2> QED BY <1>10, <2>1, <2>2, <2>3
<1>15. CASE /\ f.kind = "checkpoint" /\ f.hash # Malformed /\ f.hash = app
            /\ Adds(1, 0, 0, vstats.first)
  <2>1. BadMet(src') = bad \cup {} /\ OffMet(src') = off \cup {}
    <3>1. p + 1 \notin Unreadable(fs) /\ p + 1 \notin Diverging(fs) BY <1>6, <1>12, <1>15
    <3> QED BY <1>5, <3>1
  <2>2. (vstats'.errors > 0 <=> vstats.errors > 0) /\ (vstats'.mismatched > 0 <=> vstats.mismatched > 0)
        /\ vstats'.first = vstats.first
    <3>1. Adds(1, 0, 0, vstats.first) /\ 0 \in {0, 1} /\ 0 # 1 BY <1>15
    <3> QED BY <1>11, <3>1, Zenon
  <2>3. {} \in SUBSET {p + 1} /\ {p + 1} \in SUBSET {p + 1} /\ {p + 1} # {} OBVIOUS
  <2> QED BY <1>10, <2>1, <2>2, <2>3
<1>16. CASE /\ f.kind = "checkpoint" /\ f.hash # Malformed /\ f.hash # app
            /\ Adds(0, 1, 0, IF vstats.first = <<>> THEN <<f.id>> ELSE vstats.first)
  <2>1. BadMet(src') = bad \cup {} /\ OffMet(src') = off \cup {p + 1}
    BY <1>5, <1>6, <1>12, <1>16
  <2>2. (vstats'.errors > 0 <=> vstats.errors > 0) /\ vstats'.mismatched > 0
        /\ vstats'.first = IF vstats.first = <<>> THEN <<f.id>> ELSE vstats.first
    <3> DEFINE first == IF vstats.first = <<>> THEN <<f.id>> ELSE vstats.first
    <3>1. Adds(0, 1, 0, first) /\ 0 \in {0, 1} /\ 1 \in {0, 1} /\ 0 # 1 BY <1>16
    <3> HIDE DEF first
    <3>2. /\ vstats'.errors > 0 <=> vstats.errors > 0
          /\ vstats'.mismatched > 0 /\ vstats'.first = first
      BY <1>11, <3>1, Zenon
    <3> QED BY <3>2 DEF first
  <2>3. {} \in SUBSET {p + 1} /\ {p + 1} \in SUBSET {p + 1} /\ {p + 1} # {} OBVIOUS
  <2> QED BY <1>10, <2>1, <2>2, <2>3
<1> QED BY <1>13, <1>14, <1>15, <1>16, SeenClassified DEF f

\* While a call runs it has met nothing it should have stopped at, and the step
\* that meets it ends the call.
LEMMA StopsKept ==
  ASSUME VerifyTypeOK, StopsInTime, driving = "verify", mark' = mark,
         \/ results' = results
         \/ \E r \in Outcomes : results' = Append(results, r),
         (results' # results /\ Stops(results'[Len(results')])) => driving' = "none"
  PROVE  StopsInTime'
<1>1. results \in Seq(Outcomes) /\ mark \in Nat /\ Len(results) \in Nat
  BY LenProperties DEF VerifyTypeOK, Outcomes
<1>2. \A i \in (mark + 1) .. Len(results) : ~Stops(results[i]) BY DEF StopsInTime
<1>3. CASE results' = results
  <2>1. \A i \in (mark' + 1) .. Len(results') : ~Stops(results'[i]) BY <1>2, <1>3
  <2> QED BY <2>1 DEF StopsInTime, Stops
<1>4. ASSUME NEW r \in Outcomes, results' = Append(results, r) PROVE StopsInTime'
  <2> DEFINE n == Len(results)
  <2>1. Len(results') = n + 1 /\ \A i \in 1 .. n : results'[i] = results[i]
    BY <1>1, <1>4, AppendProperties
  <2>2. results' # results BY <1>1, <2>1
  <2> SUFFICES ASSUME NEW i \in (mark + 1) .. (n + 1), Stops(results'[i])
               PROVE  i = n + 1 /\ driving' # "verify"
    BY <2>1 DEF StopsInTime, Stops
  <2>3. ASSUME i # n + 1 PROVE FALSE
    <3>1. i \in (mark + 1) .. n /\ i \in 1 .. n BY <1>1, <2>3
    <3> QED BY <1>2, <2>1, <3>1
  <2>4. driving' = "none" BY <2>1, <2>2, <2>3
  <2> QED BY <2>3, <2>4
<1> QED BY <1>3, <1>4

\* A step of run_with_verification keeps the invariant.
LEMMA VerifyStepKeeps ==
  ASSUME ReplayInv, VerifyInv, part = "verify", part' = part, VerifyStep
  PROVE  VerifyInv'
<1>1. /\ VerifyTypeOK /\ Tallied /\ StopsInTime
      /\ src.kind = "journal" /\ vstats.events = src.position
      /\ src.position = 0 => vstats = NoVerification
      /\ ~stale => Judged
  BY DEF VerifyInv
<1>2. Peeked(src) = src /\ SourceOK(src) BY <1>1 DEF Peeked, ReplayInv, ReplayTypeOK
<1>3. /\ driving = "verify" /\ StepEffect /\ UNCHANGED <<stale, mark>>
  BY DEF VerifyStep
<1>s. (~stale)' <=> ~stale BY <1>3
<1>4. CASE peek(src) = <<>>
  <2>1. src' = src BY <1>2, <1>3, <1>4 DEF StepEffect
  <2>2. UNCHANGED <<app, vstats, results, compared, stale, mark>> BY <1>4 DEF VerifyStep
  <2>3. VerifyTypeOK' /\ Tallied' BY <1>1, <2>2 DEF VerifyTypeOK, Tallied
  <2>4. StopsInTime' BY <1>1, <1>3, <2>2, StopsKept
  <2>5. Judged => Judged' BY <2>1, <2>2 DEF Judged
  <2> QED BY <1>1, <1>s, <2>1, <2>2, <2>3, <2>4, <2>5 DEF VerifyInv
<1>5. CASE peek(src) # <<>>
  <2> DEFINE p == src.position
             fs == src.frames
             f == fs[p + 1]
  <2>1. p < Len(fs) /\ peek(src) = <<f>> /\ f.id \in Nat
    <3>1. p < Len(fs) /\ peek(src) = <<f>> BY <1>1, <1>2, <1>5, PeekFacts
    <3>2. PICK g : peek(src) = <<g>> /\ g.id \in Nat BY <1>2, <1>5, PeekFacts
    <3> QED BY <3>1, <3>2
  <2>2. src' = Taken(src) BY <1>2, <1>3, <1>5 DEF StepEffect, Deliver
  <2>3. src'.kind = "journal" /\ src'.frames = fs /\ src'.position = p + 1
    BY <1>1, <1>2, <1>5, <2>2, TakenFacts
  <2>4. p \in Nat /\ Len(fs) \in Nat BY <1>1, TraceLength
  <2>5. /\ Seen(f)
        /\ driving' = IF results' # results /\ Stops(results'[Len(results')])
                      THEN "none" ELSE driving
    BY <1>5, <2>1 DEF VerifyStep
  <2> HIDE DEF f
  <2>6. /\ VerifyTypeOK' /\ Tallied' /\ vstats'.events = vstats.events + 1
        /\ results' = results \/ \E r \in Outcomes : results' = Append(results, r)
    BY <1>1, <1>3, <2>1, <2>5, SeenCounts
  <2>7. StopsInTime' BY <1>1, <1>3, <2>5, <2>6, StopsKept
  <2>8. Judged => Judged' BY <1>1, <2>1, <2>3, <2>4, <2>5, SeenJudges DEF f
  <2>9. vstats'.events = src'.position /\ src'.position # 0 BY <1>1, <2>3, <2>4, <2>6
  <2> QED BY <1>1, <1>s, <2>3, <2>6, <2>7, <2>8, <2>9 DEF VerifyInv
<1> QED BY <1>4, <1>5

\* Every step keeps it.
LEMMA VerifyInvStep == ReplayInv /\ VerifyInv /\ [ReplayNext]_replayVars => VerifyInv'
<1> SUFFICES ASSUME ReplayInv, VerifyInv, [ReplayNext]_replayVars PROVE VerifyInv' OBVIOUS
<1>1. part' = part BY ReplayClassified
<1>2. VerifyTypeOK /\ Tallied /\ StopsInTime BY DEF VerifyInv
<1>3. ASSUME UNCHANGED verifyOnly PROVE VerifyTypeOK' /\ Tallied' /\ vstats' = vstats
  <2>1. UNCHANGED <<vstats, results, compared, stale, mark>> BY <1>3 DEF verifyOnly
  <2> QED BY <1>2, <2>1 DEF VerifyTypeOK, Tallied
<1>4. CASE part # "verify" /\ UNCHANGED verifyOnly
  <2>1. results = <<>> /\ vstats = NoVerification BY <1>4 DEF VerifyInv
  <2>2. results' = <<>> /\ vstats' = NoVerification BY <1>4, <2>1 DEF verifyOnly
  <2>3. mark' \in Nat /\ Len(results') = 0 BY <1>3, <1>4, <2>2 DEF VerifyTypeOK
  <2>4. StopsInTime'
    <3>1. ASSUME NEW m \in Nat, NEW i \in (m + 1) .. 0 PROVE FALSE OBVIOUS
    <3> QED BY <2>3, <3>1 DEF StopsInTime
  <2> QED BY <1>1, <1>3, <1>4, <2>2, <2>4 DEF VerifyInv
<1>5. CASE UNCHANGED verifyVars
  <2>1. UNCHANGED <<src, driving, app, vstats, results, compared, stale, mark>>
    BY <1>5 DEF verifyVars, verifyOnly, engineVars, engineOnly
  <2>2. VerifyTypeOK' /\ Tallied' BY <1>2, <2>1 DEF VerifyTypeOK, Tallied
  <2>3. StopsInTime' BY <1>2, <2>1 DEF StopsInTime, Stops
  <2>4. Judged => Judged' BY <2>1 DEF Judged
  <2>5. (~stale)' <=> ~stale BY <2>1
  <2> QED BY <1>1, <2>1, <2>2, <2>3, <2>4, <2>5 DEF VerifyInv
<1>6. CASE part = "verify" /\ VerifyNext
  <2>1. CASE VerifyBegin
    <3>1. UNCHANGED <<src, app, vstats, results, compared, stale>> /\ mark' = Len(results)
      BY <2>1 DEF VerifyBegin
    <3>2. Len(results) \in Nat BY <1>2, LenProperties DEF VerifyTypeOK
    <3>3. VerifyTypeOK' /\ Tallied' BY <1>2, <3>1, <3>2 DEF VerifyTypeOK, Tallied
    <3>4. StopsInTime' BY <3>1, <3>2 DEF StopsInTime
    <3>5. Judged => Judged' BY <3>1 DEF Judged
    <3>6. (~stale)' <=> ~stale BY <3>1
    <3> QED BY <1>1, <1>6, <3>1, <3>3, <3>4, <3>5, <3>6 DEF VerifyInv
  <2>2. CASE VerifyStep BY <1>1, <1>6, <2>2, VerifyStepKeeps
  <2>3. CASE VerifyReset
    <3>1. /\ src' = Rewound(src) /\ vstats' = NoVerification /\ results' = <<>> /\ mark' = 0
          /\ compared' = [all |-> 0, matched |-> 0] /\ app' = app
      BY <2>3 DEF VerifyReset, ResetEffect
    <3>2. stale' \in BOOLEAN /\ ((~stale)' => app' = <<>>) BY <2>3, <3>1 DEF VerifyReset
    <3>3. Len(src.frames) \in Nat /\ src.kind = "journal" BY <1>6, TraceLength DEF VerifyInv
    <3>4. src'.kind = "journal" /\ src'.frames = src.frames /\ src'.position = 0
      <4>1. SourceOK(src) BY DEF ReplayInv, ReplayTypeOK
      <4> QED BY <3>1, <3>3, <4>1 DEF Rewound, SourceOK
    <3>5. VerifyTypeOK' /\ Tallied' /\ StopsInTime' /\ vstats'.events = 0
      <4>1. /\ vstats' \in [events : Nat, found : Nat, matched : Nat, mismatched : Nat,
                            errors : Nat, first : Seq(Nat)]
            /\ compared' \in [all : Nat, matched : Nat]
            /\ results' \in Seq({"match", "mismatch", "error"})
            /\ mark' \in Nat /\ mark' <= Len(results') /\ vstats'.events = 0
        BY <3>1 DEF NoVerification
      <4>2. Tallied' BY <3>1 DEF Tallied, NoVerification
      <4>3. StopsInTime' BY <3>1 DEF StopsInTime
      <4> QED BY <3>2, <4>1, <4>2, <4>3 DEF VerifyTypeOK
    <3>6. (app' = <<>>) => Judged'
      <4>1. BadMet(src') = {} /\ OffMet(src') = {}
        BY <3>3, <3>4 DEF BadMet, OffMet, Unreadable, Diverging
      <4>2. SeenAfter(src'.frames)[0] = <<>> BY <3>3, <3>4, SeenFacts
      <4> QED BY <3>1, <3>4, <4>1, <4>2 DEF Judged, NoVerification
    <3> QED BY <1>1, <1>6, <3>1, <3>2, <3>4, <3>5, <3>6 DEF VerifyInv
  <2>4. CASE ResetCallback
    <3>1. /\ UNCHANGED <<src, driving, vstats, results, compared, mark>>
          /\ app' = <<>> /\ trace = <<>>
      BY <2>4 DEF ResetCallback, engineVars, engineOnly
    <3>2. stale' \in BOOLEAN BY <2>4 DEF ResetCallback
    <3>3. /\ Len(src.frames) \in Nat /\ src.kind = "journal" /\ src.position = 0
          /\ vstats = NoVerification
      BY <1>6, <3>1, TraceLength DEF VerifyInv
    <3>4. VerifyTypeOK' /\ Tallied' BY <1>2, <3>1, <3>2 DEF VerifyTypeOK, Tallied
    <3>5. StopsInTime' BY <1>2, <3>1 DEF StopsInTime, Stops
    <3>6. Judged'
      <4>1. BadMet(src) = {} /\ OffMet(src) = {} BY <3>3, NothingMet
      <4>2. SeenAfter(src.frames)[0] = <<>> BY <3>3, SeenFacts
      <4> QED BY <3>1, <3>3, <4>1, <4>2 DEF Judged, NoVerification
    <3>7. vstats.events = src.position BY <1>6 DEF VerifyInv
    <3> QED BY <1>1, <1>6, <3>1, <3>3, <3>4, <3>5, <3>6, <3>7 DEF VerifyInv
  <2> QED BY <1>6, <2>1, <2>2, <2>3, <2>4 DEF VerifyNext
<1>7. CASE UNCHANGED replayVars
  <2>1. UNCHANGED verifyVars BY <1>7 DEF replayVars
  <2> QED BY <1>5, <2>1
<1> QED BY <1>4, <1>5, <1>6, <1>7 DEF ReplayNext

\* For any recordings, checkpoints, calls, resets and settings of VerifyConfig:
\* a session's verdict is right about the frames it met, unless the callback
\* was left with what it saw before a reset; a call goes past no result it
\* should stop at; and ComparisonReport agrees with the verdict.
THEOREM VerdictsAlwaysSound == ReplaySpec => []VerificationSound
<1>1. ReplayInv /\ VerifyInv => VerificationSound
  BY VerdictShown, ReportShown DEF VerifyInv, VerificationSound
<1> QED
  BY <1>1, ReplayInvInit, ReplayInvStep, VerifyInvInit, VerifyInvStep, PTL DEF ReplaySpec

=============================================================================
