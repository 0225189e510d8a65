--------------------------- MODULE BookFeedProofs ---------------------------
(***************************************************************************)
(* Whatever the feed does, for any messages and limits: the sequence       *)
(* tracker's fields agree, the book's caches are those of its levels, and  *)
(* the book shows the exchange's levels as of the tracker's last number.   *)
(***************************************************************************)
EXTENDS BookFeed, FiniteSetTheorems, SequenceTheorems, WellFoundedInduction, TLAPS

Gap == [expected : Nat, received : Nat]

\* Keeping the newest max_gaps entries keeps the order of a list of gaps
\* whose last one may be the newest, and leaves one if one may be kept.
LEMMA TrimFacts ==
  ASSUME NEW gaps \in Seq(Gap), Len(gaps) <= MaxGaps + 1
  PROVE  /\ Trim(gaps) \in Seq(Gap)
         /\ Len(Trim(gaps)) <= MaxGaps
         /\ (MaxGaps > 0 /\ gaps # <<>>) => Trim(gaps) # <<>>
         /\ \E d \in Nat :
              /\ Len(Trim(gaps)) + d = Len(gaps)
              /\ \A i \in 1..Len(Trim(gaps)) : Trim(gaps)[i] = gaps[i + d]
<1>1. MaxGaps \in Nat BY TrackerAssumption
<1>2. CASE Len(gaps) <= MaxGaps
  <2>1. Trim(gaps) = gaps BY <1>2 DEF Trim
  <2>2. Len(gaps) + 0 = Len(gaps) /\ \A i \in 1..Len(gaps) : gaps[i] = gaps[i + 0]
    OBVIOUS
  <2> QED BY <1>2, <2>1, <2>2
<1>3. CASE Len(gaps) > MaxGaps
  <2>1. Len(gaps) = MaxGaps + 1 BY <1>1, <1>3
  <2>2. Trim(gaps) = SubSeq(gaps, 2, MaxGaps + 1) BY <1>1, <2>1 DEF Trim
  <2>3. /\ Trim(gaps) \in Seq(Gap)
        /\ Len(Trim(gaps)) = MaxGaps
        /\ \A i \in 1..MaxGaps : Trim(gaps)[i] = gaps[i + 1]
    BY <1>1, <2>1, <2>2
  <2> QED BY <1>1, <2>1, <2>3
<1> QED BY <1>1, <1>2, <1>3

\* record keeps the tracker consistent for every sequence number.
LEMMA RecordConsistent ==
  ASSUME TrackerConsistent, NEW n \in Nat, tracker' = Recorded(n)
  PROVE  TrackerConsistent'
<1> DEFINE gaps == tracker.gaps
<1>1. /\ MaxGaps \in Nat /\ NoSequence \notin Nat
      /\ tracker.state \in TrackerStates /\ gaps \in Seq(Gap)
      /\ tracker \in [state : TrackerStates,
                      last : Nat \cup {NoSequence},
                      expected : Nat \cup {NoSequence},
                      gaps : Seq(Gap)]
  BY TrackerAssumption DEF TrackerConsistent, Gap
<1>2. CASE CheckResult(n) = "Ok"
  <2>1. tracker' = [state |-> IF tracker.state = "Uninitialized"
                              THEN "Normal" ELSE tracker.state,
                    last |-> n, expected |-> n + 1, gaps |-> gaps]
    BY <1>2 DEF Recorded, Advance
  <2>2. /\ tracker'.gaps = gaps
        /\ tracker'.last = n
        /\ tracker'.expected = n + 1
        /\ tracker'.state = IF tracker.state = "Uninitialized"
                            THEN "Normal" ELSE tracker.state
    BY <1>1, <2>1
  <2>3. \A i \in 1..Len(gaps) : gaps[i].received <= n
    <3>1. CASE tracker.state = "Uninitialized"
      <4>1. CASE MaxGaps = 0 BY <1>1, <4>1 DEF TrackerConsistent
      <4>2. CASE MaxGaps > 0
        <5>1. gaps = <<>> BY <1>1, <3>1, <4>2 DEF TrackerConsistent, NeedsSnapshot
        <5> QED BY <5>1
      <4> QED BY <1>1, <4>1, <4>2
    <3>2. CASE tracker.state # "Uninitialized"
      <4>1. n = tracker.last + 1 /\ tracker.last \in Nat
        BY <1>1, <1>2, <3>2 DEF CheckResult, TrackerConsistent
      <4>2. \A i \in 1..Len(gaps) : gaps[i].received \in Nat /\ gaps[i].received <= tracker.last
        <5>1. \A i \in 1..Len(gaps) : gaps[i] \in Gap BY <1>1
        <5>2. \A i \in 1..Len(gaps) : gaps[i].received <= tracker.last
          BY DEF TrackerConsistent
        <5> QED BY <5>1, <5>2 DEF Gap
      <4> QED BY <4>1, <4>2
    <3> QED BY <3>1, <3>2
  <2>4. tracker' \in [state : TrackerStates, last : Nat \cup {NoSequence},
                      expected : Nat \cup {NoSequence}, gaps : Seq(Gap)]
    BY <1>1, <2>1 DEF TrackerStates
  <2>5. tracker'.state # "Uninitialized"
    BY <2>2
  <2>6. NeedsSnapshot' <=> NeedsSnapshot
    BY <2>2 DEF NeedsSnapshot
  <2> QED
    BY <1>1, <2>2, <2>3, <2>4, <2>5, <2>6 DEF TrackerConsistent, Gap
<1>3. CASE CheckResult(n) = "Gap"
  <2> DEFINE new == [expected |-> tracker.expected, received |-> n]
             all == Append(gaps, new)
  <2>1. tracker' = [state |-> "GapDetected", last |-> n, expected |-> n + 1,
                    gaps |-> Trim(all)]
    BY <1>3 DEF Recorded, Skip
  <2>2. /\ tracker.last \in Nat /\ tracker.expected = tracker.last + 1
        /\ n > tracker.expected
    BY <1>1, <1>3 DEF CheckResult, TrackerConsistent
  <2>3. /\ all \in Seq(Gap) /\ Len(all) = Len(gaps) + 1 /\ Len(gaps) <= MaxGaps
        /\ all # <<>>
    <3>1. new \in Gap BY <2>2 DEF Gap
    <3>2. Len(gaps) <= MaxGaps BY DEF TrackerConsistent
    <3> HIDE DEF new
    <3> QED BY <1>1, <3>1, <3>2
  <2>4. \A i \in 1..Len(all) :
          all[i].expected < all[i].received /\ all[i].received <= n
    <3> SUFFICES ASSUME NEW i \in 1..Len(all)
                 PROVE  all[i].expected < all[i].received /\ all[i].received <= n
      OBVIOUS
    <3>1. CASE i = Len(gaps) + 1
      <4>1. all[i] = new BY <1>1, <3>1
      <4> QED BY <2>2, <4>1
    <3>2. CASE i # Len(gaps) + 1
      <4>1. i \in 1..Len(gaps) /\ all[i] = gaps[i] BY <1>1, <2>3, <3>2
      <4>2. /\ gaps[i].expected < gaps[i].received /\ gaps[i].received <= tracker.last
            /\ gaps[i] \in Gap
        BY <1>1, <4>1 DEF TrackerConsistent
      <4> QED BY <2>2, <4>1, <4>2 DEF Gap
    <3> QED BY <3>1, <3>2
  <2>5. \A i, j \in 1..Len(all) : i < j => all[i].received < all[j].expected
    <3> SUFFICES ASSUME NEW i \in 1..Len(all), NEW j \in 1..Len(all), i < j
                 PROVE  all[i].received < all[j].expected
      OBVIOUS
    <3>1. i \in 1..Len(gaps) /\ all[i] = gaps[i] /\ gaps[i] \in Gap
          /\ gaps[i].received <= tracker.last
      BY <1>1, <2>3 DEF TrackerConsistent
    <3>2. CASE j = Len(gaps) + 1
      <4>1. all[j].expected = tracker.last + 1 BY <1>1, <2>2, <3>2
      <4>2. gaps[i].received \in Nat BY <3>1 DEF Gap
      <4> HIDE DEF all
      <4> QED BY <2>2, <3>1, <4>1, <4>2
    <3>3. CASE j # Len(gaps) + 1
      <4>1. j \in 1..Len(gaps) /\ all[j] = gaps[j] BY <1>1, <2>3, <3>3
      <4> QED BY <3>1, <4>1 DEF TrackerConsistent
    <3> QED BY <3>2, <3>3
  <2>6. /\ Trim(all) \in Seq(Gap) /\ Len(Trim(all)) <= MaxGaps
        /\ MaxGaps > 0 => Trim(all) # <<>>
        /\ \E d \in Nat :
             /\ Len(Trim(all)) + d = Len(all)
             /\ \A i \in 1..Len(Trim(all)) : Trim(all)[i] = all[i + d]
    <3>1. Len(all) <= MaxGaps + 1 BY <1>1, <2>3
    <3> HIDE DEF all
    <3> QED BY <2>3, <3>1, TrimFacts
  <2> DEFINE kept == Trim(all)
  <2>7. PICK d \in Nat : /\ Len(kept) + d = Len(all)
                         /\ \A i \in 1..Len(kept) : kept[i] = all[i + d]
    BY <2>6
  <2>8. Len(kept) \in Nat /\ Len(all) \in Nat BY <2>3, <2>6
  <2> HIDE DEF all, kept
  <2>9. \A i \in 1..Len(kept) : i + d \in 1..Len(all) BY <2>7, <2>8
  <2>10. /\ \A i \in 1..Len(kept) :
              kept[i].expected < kept[i].received /\ kept[i].received <= n
         /\ \A i, j \in 1..Len(kept) : i < j => kept[i].received < kept[j].expected
    <3>1. \A i \in 1..Len(kept) :
            kept[i].expected < kept[i].received /\ kept[i].received <= n
      BY <2>4, <2>7, <2>9
    <3>2. ASSUME NEW i \in 1..Len(kept), NEW j \in 1..Len(kept), i < j
          PROVE  kept[i].received < kept[j].expected
      <4>1. i + d \in 1..Len(all) /\ j + d \in 1..Len(all) /\ i + d < j + d
        BY <2>7, <2>8, <2>9, <3>2
      <4>2. all[i + d].received < all[j + d].expected BY <2>5, <4>1
      <4> QED BY <2>7, <4>2
    <3> QED BY <3>1, <3>2
  <2>11. /\ tracker'.gaps = kept /\ tracker'.last = n /\ tracker'.expected = n + 1
         /\ tracker'.state = "GapDetected"
    BY <2>1 DEF kept
  <2>12. tracker' \in [state : TrackerStates, last : Nat \cup {NoSequence},
                       expected : Nat \cup {NoSequence}, gaps : Seq(Gap)]
    BY <2>1, <2>6 DEF TrackerStates
  <2>13. Len(kept) <= MaxGaps /\ (MaxGaps > 0 => kept # <<>>) BY <2>6 DEF kept
  <2> QED
    BY <1>1, <2>10, <2>11, <2>12, <2>13 DEF TrackerConsistent, NeedsSnapshot, Gap
<1>4. CASE CheckResult(n) \notin {"Ok", "Gap"}
  <2>1. tracker' = tracker BY <1>4 DEF Recorded
  <2> QED BY <2>1 DEF TrackerConsistent, NeedsSnapshot
<1> QED BY <1>2, <1>3, <1>4

\* reset() and reset_with_sequence(n) make the tracker consistent.
LEMMA ResetConsistent ==
  ASSUME tracker' = Fresh \/ \E n \in Nat : tracker' = At(n)
  PROVE  TrackerConsistent'
<1>1. MaxGaps \in Nat /\ NoSequence \notin Nat BY TrackerAssumption
<1>2. CASE tracker' = Fresh
  BY <1>1, <1>2 DEF Fresh, TrackerConsistent, NeedsSnapshot, TrackerStates
<1>3. CASE \E n \in Nat : tracker' = At(n)
  BY <1>1, <1>3 DEF At, TrackerConsistent, NeedsSnapshot, TrackerStates
<1> QED BY <1>2, <1>3

-----------------------------------------------------------------------------
\* Sequence numbers are naturals.
Numbered ==
  /\ sent \in Seq(Messages)
  /\ DOMAIN market = 0..Len(sent)

FeedInv == Numbered /\ TrackerConsistent

\* The tracker starts consistent.
LEMMA FeedInvInit == FeedInit => FeedInv
<1> SUFFICES ASSUME FeedInit PROVE FeedInv OBVIOUS
<1>1. MaxGaps \in Nat /\ NoSequence \notin Nat BY TrackerAssumption
<1>2. TrackerConsistent
  BY <1>1 DEF FeedInit, Fresh, TrackerConsistent, NeedsSnapshot, TrackerStates
<1>3. sent = <<>> /\ DOMAIN market = {0} BY DEF FeedInit
<1> QED BY <1>2, <1>3 DEF FeedInv, Numbered

\* Every step of the feed keeps it so.
LEMMA FeedInvStep == FeedInv /\ [FeedNext]_feedVars => FeedInv'
<1> SUFFICES ASSUME FeedInv, [FeedNext]_feedVars PROVE FeedInv' OBVIOUS
<1>1. Numbered /\ TrackerConsistent BY DEF FeedInv
<1>2. tracker' = tracker => TrackerConsistent'
  BY <1>1 DEF TrackerConsistent, NeedsSnapshot
<1>3. sent' = sent /\ market' = market => Numbered'
  BY <1>1 DEF Numbered
<1>4. DOMAIN sent \subseteq Nat /\ DOMAIN market \subseteq Nat
  BY <1>1 DEF Numbered
<1>5. ASSUME NEW updates \in Messages, Publish(updates) PROVE FeedInv'
  <2>1. tracker' = tracker /\ sent' = Append(sent, updates) BY <1>5 DEF Publish
  <2>2. DOMAIN market' = 0..(Len(sent) + 1) BY <1>5 DEF Publish
  <2>3. Numbered' BY <1>1, <2>1, <2>2 DEF Numbered
  <2> QED BY <1>2, <2>1, <2>3 DEF FeedInv
<1>6. ASSUME NEW n \in DOMAIN sent,
             ProcessGap(n) \/ ProcessInvalid(n) \/ ProcessApplied(n)
      PROVE  FeedInv'
  <2>1. tracker' = Recorded(n) /\ sent' = sent /\ market' = market
    BY <1>6 DEF ProcessGap, ProcessInvalid, ProcessApplied
  <2>2. TrackerConsistent' BY <1>1, <1>4, <2>1, RecordConsistent
  <2> QED BY <1>3, <2>1, <2>2 DEF FeedInv
<1>7. ASSUME NEW n \in DOMAIN market, Resync(n) PROVE FeedInv'
  <2>1. tracker' = At(n) /\ sent' = sent /\ market' = market BY <1>7 DEF Resync
  <2>2. TrackerConsistent' BY <1>4, <2>1, ResetConsistent
  <2> QED BY <1>3, <2>1, <2>2 DEF FeedInv
<1>8. CASE Reset
  <2>1. tracker' = Fresh /\ sent' = sent /\ market' = market BY <1>8 DEF Reset
  <2> QED BY <1>3, <2>1, ResetConsistent DEF FeedInv
<1>9. CASE \/ \E snapshot \in Snapshots : PlainSnapshot(snapshot)
           \/ ClearBook
           \/ \E side \in Sides : \E p \in DOMAIN book[side].levels :
                RemoveLevel(side, p)
           \/ UNCHANGED feedVars
  <2>1. tracker' = tracker /\ sent' = sent /\ market' = market
    BY <1>9 DEF PlainSnapshot, ClearBook, RemoveLevel, feedVars
  <2> QED BY <1>2, <1>3, <2>1 DEF FeedInv
<1> QED BY <1>5, <1>6, <1>7, <1>8, <1>9 DEF FeedNext

\* Whatever messages are lost, repeated, late or refused and whenever the
\* caller resynchronises or resets, SequenceTracker's last and expected
\* numbers, its state and its list of gaps agree.
THEOREM TrackerAlwaysConsistent == FeedSpec => []TrackerConsistent
<1>1. FeedInv => TrackerConsistent BY DEF FeedInv
<1> QED BY <1>1, FeedInvInit, FeedInvStep, PTL DEF FeedSpec

-----------------------------------------------------------------------------
(***************************************************************************)
(* The book.  The loops over the updates of a message and over the levels  *)
(* of an update are recursive functions: IterationExists says that they    *)
(* are defined, and what they compute is shown by induction on the number  *)
(* of turns, as a statement about sets of numbers (Induction).             *)
(***************************************************************************)

\* A set of numbers that is not empty has a least one.
LEMMA LeastNatural ==
  ASSUME NEW T \in SUBSET Nat, T # {}
  PROVE  \E n \in T : \A m \in T : n <= m
<1> DEFINE R == OpToRel(<, Nat)
<1>1. IsWellFoundedOn(R, Nat) BY NatLessThanWellFounded
<1>2. \A x, y \in Nat : x < y => <<x, y>> \in R BY DEF OpToRel
<1> HIDE DEF R
<1>3. PICK n \in T : \A y \in T : ~(<<y, n>> \in R) BY <1>1, WFMin
<1>4. \A y \in T : y \in Nat /\ ~(y < n) BY <1>2, <1>3
<1>5. n \in T /\ n \in Nat OBVIOUS
<1> QED BY <1>4, <1>5

\* A set that has 0 and with every number the next one has them all.
LEMMA Induction ==
  ASSUME NEW S, 0 \in S, \A n \in Nat : n \in S => n + 1 \in S
  PROVE  Nat \subseteq S
<1> SUFFICES ASSUME ~(Nat \subseteq S) PROVE FALSE OBVIOUS
<1> DEFINE T == Nat \ S
<1>1. T # {} /\ T \in SUBSET Nat OBVIOUS
<1> HIDE DEF T
<1>2. PICK n \in T : \A m \in T : n <= m BY <1>1, LeastNatural
<1>3. n \in Nat /\ n # 0 /\ n \notin S BY DEF T
<1>4. n - 1 \in Nat /\ n - 1 \notin T BY <1>2, <1>3, <1>1
<1>5. n - 1 \in S BY <1>4 DEF T
<1> QED BY <1>3, <1>4, <1>5

\* The results of a loop of N turns that starts with a; F is its body.
IsIteration(f, A, a, N, F) ==
  /\ f \in [0..N -> A] /\ f[0] = a
  /\ \A n \in 1..N : f[n] = F[<<f[n - 1], n>>]

\* They exist.
LEMMA IterationExists ==
  ASSUME NEW A, NEW a \in A, NEW N \in Nat, NEW F \in [A \X (1..N) -> A]
  PROVE  \E f : IsIteration(f, A, a, N, F)
<1> DEFINE S == {m \in Nat : m <= N => \E f : IsIteration(f, A, a, m, F)}
<1>1. 0 \in S
  <2> DEFINE f == [k \in 0..0 |-> a]
  <2>1. IsIteration(f, A, a, 0, F) BY DEF IsIteration
  <2> QED BY <2>1
<1>2. ASSUME NEW m \in Nat, m \in S PROVE m + 1 \in S
  <2> SUFFICES ASSUME m + 1 <= N PROVE \E f : IsIteration(f, A, a, m + 1, F) OBVIOUS
  <2>1. PICK f : IsIteration(f, A, a, m, F) BY <1>2
  <2>2. f \in [0..m -> A] /\ f[0] = a /\ \A n \in 1..m : f[n] = F[<<f[n - 1], n>>]
    BY <2>1 DEF IsIteration
  <2>3. PICK x \in A : x = F[<<f[m], m + 1>>]
    <3>1. f[m] \in A /\ m + 1 \in 1..N BY <2>2
    <3> QED BY <3>1
  <2> DEFINE g == [k \in 0..m + 1 |-> IF k <= m THEN f[k] ELSE x]
  <2>4. g \in [0..m + 1 -> A] /\ g[0] = a /\ g[m + 1] = x /\ \A k \in 0..m : g[k] = f[k]
    BY <2>2, <2>3
  <2> HIDE DEF g
  <2>5. \A n \in 1..m + 1 : g[n] = F[<<g[n - 1], n>>]
    <3> SUFFICES ASSUME NEW n \in 1..m + 1 PROVE g[n] = F[<<g[n - 1], n>>] OBVIOUS
    <3>1. CASE n \in 1..m
      <4>1. n \in 0..m /\ n - 1 \in 0..m BY <3>1
      <4> QED BY <2>2, <2>4, <3>1, <4>1
    <3>2. CASE n = m + 1
      <4>1. n - 1 = m /\ m \in 0..m BY <3>2
      <4> QED BY <2>3, <2>4, <3>2, <4>1
    <3> QED BY <3>1, <3>2
  <2>6. IsIteration(g, A, a, m + 1, F) BY <2>4, <2>5 DEF IsIteration
  <2> QED BY <2>6
<1> HIDE DEF S
<1>3. Nat \subseteq S BY <1>1, <1>2, Induction
<1> QED BY <1>3 DEF S

-----------------------------------------------------------------------------
\* Types

Level == [price : Int, qty : Int]
PriceSets == {D \in SUBSET Int : IsFiniteSet(D)}
LevelMaps == UNION {[D -> Int] : D \in PriceSets}
BookSides == [levels : LevelMaps, total : Int, best : {None} \cup Level]

\* What a map of levels is.
LEMMA LevelMapFacts ==
  ASSUME NEW f \in LevelMaps
  PROVE  /\ f \in [DOMAIN f -> Int] /\ DOMAIN f \subseteq Int /\ IsFiniteSet(DOMAIN f)
         /\ \A p \in DOMAIN f : p \in Int /\ f[p] \in Int
         /\ \A p : QtyAt(f, p) \in Int
<1>1. PICK D \in PriceSets : f \in [D -> Int] BY DEF LevelMaps
<1>2. DOMAIN f = D BY <1>1
<1>3. D \subseteq Int /\ IsFiniteSet(D) BY DEF PriceSets
<1>4. \A p \in D : p \in Int /\ f[p] \in Int BY <1>1, <1>3
<1>5. \A p : QtyAt(f, p) \in Int BY <1>2, <1>4 DEF QtyAt
<1> QED BY <1>1, <1>2, <1>3, <1>4, <1>5

\* What is a map of levels.
LEMMA LevelMapType ==
  ASSUME NEW D, D \subseteq Int, IsFiniteSet(D), NEW f \in [D -> Int]
  PROVE  f \in LevelMaps
BY DEF LevelMaps, PriceSets

\* BTreeMap::insert and BTreeMap::remove.
LEMMA WithLevelFacts ==
  ASSUME NEW f \in LevelMaps, NEW p \in Int, NEW q \in Int
  PROVE  /\ WithLevel(f, p, q) \in LevelMaps
         /\ DOMAIN WithLevel(f, p, q) = DOMAIN f \cup {p}
         /\ WithLevel(f, p, q)[p] = q
         /\ \A r \in DOMAIN f : r # p => WithLevel(f, p, q)[r] = f[r]
<1>1. f \in [DOMAIN f -> Int] /\ DOMAIN f \subseteq Int /\ IsFiniteSet(DOMAIN f) BY LevelMapFacts
<1>2. IsFiniteSet(DOMAIN f \cup {p}) /\ DOMAIN f \cup {p} \subseteq Int BY <1>1, FS_AddElement
<1>3. WithLevel(f, p, q) \in [DOMAIN f \cup {p} -> Int] BY <1>1 DEF WithLevel
<1>4. WithLevel(f, p, q) \in LevelMaps BY <1>2, <1>3, LevelMapType
<1> QED BY <1>4 DEF WithLevel

\* Fewer levels.
LEMMA RestrictFacts ==
  ASSUME NEW f \in LevelMaps, NEW D, D \subseteq DOMAIN f
  PROVE  /\ Restrict(f, D) \in LevelMaps /\ DOMAIN Restrict(f, D) = D
         /\ \A r \in D : Restrict(f, D)[r] = f[r]
<1>1. f \in [DOMAIN f -> Int] /\ DOMAIN f \subseteq Int /\ IsFiniteSet(DOMAIN f) BY LevelMapFacts
<1>2. IsFiniteSet(D) /\ D \subseteq Int BY <1>1, FS_Subset
<1>3. Restrict(f, D) \in [D -> Int] BY <1>1 DEF Restrict
<1>4. Restrict(f, D) \in LevelMaps BY <1>2, <1>3, LevelMapType
<1> QED BY <1>4 DEF Restrict

-----------------------------------------------------------------------------
\* Sums of quantities

\* What holds of a finite set when it holds of the smaller ones.
LEMMA SubsetInduction ==
  ASSUME NEW S, IsFiniteSet(S), NEW K,
         \A T \in SUBSET S : (\A U \in SUBSET T : U # T => U \in K) => T \in K
  PROVE  SUBSET S \subseteq K
<1> SUFFICES ASSUME NEW X \in SUBSET S, X \notin K PROVE FALSE OBVIOUS
<1> DEFINE N == {n \in Nat : \E T \in SUBSET S : T \notin K /\ Cardinality(T) = n}
<1>1. \A T \in SUBSET S : IsFiniteSet(T) /\ Cardinality(T) \in Nat BY FS_Subset, FS_CardinalityType
<1>2. N \in SUBSET Nat /\ Cardinality(X) \in N BY <1>1
<1>3. PICK n \in N : \A m \in N : n <= m BY <1>2, LeastNatural
<1>4. PICK T \in SUBSET S : T \notin K /\ Cardinality(T) = n OBVIOUS
<1>5. ASSUME NEW U \in SUBSET T, U # T, U \notin K PROVE FALSE
  <2>1. IsFiniteSet(T) /\ U \in SUBSET S BY <1>1
  <2>2. Cardinality(U) <= n /\ Cardinality(U) # n BY <1>4, <1>5, <2>1, FS_Subset
  <2>3. Cardinality(U) \in N BY <1>1, <1>5, <2>1
  <2> QED BY <1>2, <1>3, <2>2, <2>3
<1> QED BY <1>4, <1>5

\* The sum over a part of a set, as MapThenSumSet takes it.
First(T) == CHOOSE x \in T : TRUE
IsSumming(s, f, S) ==
  s = [T \in SUBSET S |-> IF T = {} THEN 0 ELSE f[First(T)] + s[T \ {First(T)}]]
SumOver(f, S) == MapThenSumSet(LAMBDA p : f[p], S)

\* There is such a function.
LEMMA SummingExists ==
  ASSUME NEW S, IsFiniteSet(S), NEW f, \A p \in S : f[p] \in Int
  PROVE  \E s \in [SUBSET S -> Int] : IsSumming(s, f, S)
<1> DEFINE Sums(s, m) == \A T \in SUBSET S : Cardinality(T) <= m =>
                           s[T] = IF T = {} THEN 0 ELSE f[First(T)] + s[T \ {First(T)}]
           K == {m \in Nat : \E s \in [SUBSET S -> Int] : Sums(s, m)}
<1>1. \A T \in SUBSET S : IsFiniteSet(T) /\ Cardinality(T) \in Nat
                          /\ Cardinality(T) <= Cardinality(S) /\ (Cardinality(T) = 0 <=> T = {})
  BY FS_Subset, FS_CardinalityType, FS_EmptySet
<1>2. \A T \in SUBSET S : T # {} => First(T) \in T BY DEF First
<1>3. \A T \in SUBSET S : T # {} =>
        T \ {First(T)} \in SUBSET S /\ Cardinality(T \ {First(T)}) = Cardinality(T) - 1
  BY <1>1, <1>2, FS_RemoveElement
<1>4. 0 \in K
  <2> DEFINE s == [T \in SUBSET S |-> 0]
  <2>1. s \in [SUBSET S -> Int] OBVIOUS
  <2>2. Sums(s, 0) BY <1>1
  <2> HIDE DEF s
  <2> QED BY <2>1, <2>2
<1>5. ASSUME NEW m \in Nat, m \in K PROVE m + 1 \in K
  <2>1. PICK s \in [SUBSET S -> Int] : Sums(s, m) BY <1>5
  <2> DEFINE next(T) == IF T = {} THEN 0 ELSE f[First(T)] + s[T \ {First(T)}]
             t == [T \in SUBSET S |-> IF Cardinality(T) <= m THEN s[T] ELSE next(T)]
  <2>2. \A T \in SUBSET S : next(T) \in Int BY <1>2, <1>3
  <2> HIDE DEF next
  <2>3. t \in [SUBSET S -> Int] BY <2>1, <2>2
  <2>4. \A T \in SUBSET S : Cardinality(T) <= m => t[T] = s[T] /\ s[T] = next(T) BY <2>1 DEF next
  <2>5. \A T \in SUBSET S : t[T] = next(T) BY <2>4
  <2> HIDE DEF t
  <2>6. Sums(t, m + 1)
    <3> SUFFICES ASSUME NEW T \in SUBSET S, Cardinality(T) <= m + 1
                 PROVE  t[T] = IF T = {} THEN 0 ELSE f[First(T)] + t[T \ {First(T)}]
      OBVIOUS
    <3>1. CASE T = {} BY <2>5, <3>1 DEF next
    <3>2. CASE T # {}
      <4>1. T \ {First(T)} \in SUBSET S /\ Cardinality(T \ {First(T)}) <= m BY <1>1, <1>3, <3>2
      <4>2. t[T \ {First(T)}] = s[T \ {First(T)}] BY <2>4, <4>1
      <4>3. t[T] = f[First(T)] + s[T \ {First(T)}] BY <2>5, <3>2 DEF next
      <4> QED BY <3>2, <4>2, <4>3
    <3> QED BY <3>1, <3>2
  <2> HIDE DEF Sums
  <2>7. \E u \in [SUBSET S -> Int] : Sums(u, m + 1) BY <2>3, <2>6
  <2> QED BY <2>7
<1> HIDE DEF K
<1>6. Nat \subseteq K BY <1>4, <1>5, Induction
<1>7. Cardinality(S) \in K BY <1>1, <1>6
<1>8. PICK s \in [SUBSET S -> Int] : Sums(s, Cardinality(S)) BY <1>7 DEF K
<1>9. \A T \in SUBSET S : s[T] = IF T = {} THEN 0 ELSE f[First(T)] + s[T \ {First(T)}] BY <1>1, <1>8
<1>10. IsSumming(s, f, S) BY <1>9 DEF IsSumming
<1> QED BY <1>10

\* MapThenSumSet is one.
LEMMA SumIsSumming ==
  ASSUME NEW S, IsFiniteSet(S), NEW f, \A p \in S : f[p] \in Int
  PROVE  \E s : IsSumming(s, f, S) /\ SumOver(f, S) = s[S]
<1> DEFINE s == CHOOSE s : s = [T \in SUBSET S |->
                  IF T = {} THEN 0 ELSE f[First(T)] + s[T \ {First(T)}]]
<1>1. SumOver(f, S) = s[S] BY DEF SumOver, MapThenSumSet, MapThenFoldSet, First
<1>2. \E t : IsSumming(t, f, S) BY SummingExists
<1>3. IsSumming(s, f, S) BY <1>2 DEF IsSumming
<1> HIDE DEF s
<1> QED BY <1>1, <1>3

\* Two such functions agree where the quantities do.
LEMMA SummingUnique ==
  ASSUME NEW S, NEW R, NEW T, IsFiniteSet(T), T \subseteq S, T \subseteq R,
         NEW f, NEW g, \A p \in T : f[p] = g[p],
         NEW s, IsSumming(s, f, S), NEW r, IsSumming(r, g, R)
  PROVE  s[T] = r[T]
<1> DEFINE K == {U \in SUBSET T : s[U] = r[U]}
<1>1. ASSUME NEW U \in SUBSET T, \A V \in SUBSET U : V # U => V \in K PROVE U \in K
  <2>1. U \in SUBSET S /\ U \in SUBSET R OBVIOUS
  <2>2. /\ s[U] = IF U = {} THEN 0 ELSE f[First(U)] + s[U \ {First(U)}]
        /\ r[U] = IF U = {} THEN 0 ELSE g[First(U)] + r[U \ {First(U)}]
    BY <2>1 DEF IsSumming
  <2>3. CASE U = {} BY <2>2, <2>3
  <2>4. CASE U # {}
    <3>1. First(U) \in U BY <2>4 DEF First
    <3>2. U \ {First(U)} \in K BY <1>1, <3>1
    <3>3. f[First(U)] = g[First(U)] BY <3>1
    <3> QED BY <2>2, <2>4, <3>2, <3>3
  <2> QED BY <2>3, <2>4
<1>2. T \in SUBSET T OBVIOUS
<1> HIDE DEF K
<1>3. SUBSET T \subseteq K BY <1>1, SubsetInduction
<1> QED BY <1>2, <1>3 DEF K

\* The sums over the parts of a set, all from one function.
PartSums(s, f, S) ==
  /\ s \in [SUBSET S -> Int] /\ \A T \in SUBSET S : SumOver(f, T) = s[T]
  /\ \A T \in SUBSET S : s[T] = IF T = {} THEN 0 ELSE f[First(T)] + s[T \ {First(T)}]

\* There is that function.
LEMMA SumParts ==
  ASSUME NEW S, IsFiniteSet(S), NEW f, \A p \in S : f[p] \in Int
  PROVE  \E s : PartSums(s, f, S)
<1>1. PICK s \in [SUBSET S -> Int] : IsSumming(s, f, S) BY SummingExists
<1>2. ASSUME NEW T \in SUBSET S PROVE SumOver(f, T) = s[T]
  <2>1. IsFiniteSet(T) /\ \A p \in T : f[p] \in Int BY FS_Subset
  <2>2. PICK r : IsSumming(r, f, T) /\ SumOver(f, T) = r[T] BY <2>1, SumIsSumming
  <2>3. s[T] = r[T] BY <1>1, <2>1, <2>2, SummingUnique
  <2> QED BY <2>2, <2>3
<1>3. \A T \in SUBSET S : s[T] = IF T = {} THEN 0 ELSE f[First(T)] + s[T \ {First(T)}]
  BY <1>1 DEF IsSumming
<1>4. PartSums(s, f, S) BY <1>1, <1>2, <1>3 DEF PartSums
<1> QED BY <1>4

\* A sum is a number, nothing if there is nothing to add, and of natural
\* numbers a natural number.
LEMMA SumType ==
  ASSUME NEW S, IsFiniteSet(S), NEW f, \A p \in S : f[p] \in Int
  PROVE  /\ SumOver(f, S) \in Int /\ (S = {} => SumOver(f, S) = 0)
         /\ (\A p \in S : f[p] \in Nat) => SumOver(f, S) \in Nat
<1>0. PICK s : PartSums(s, f, S) BY SumParts
<1>1. s \in [SUBSET S -> Int] /\ \A T \in SUBSET S : SumOver(f, T) = s[T] BY <1>0 DEF PartSums
<1>2. /\ \A U \in SUBSET S : U # {} => s[U] = f[First(U)] + s[U \ {First(U)}]
      /\ s[{}] = 0
  BY <1>0 DEF PartSums
<1>3. S \in SUBSET S OBVIOUS
<1>4. ASSUME \A p \in S : f[p] \in Nat PROVE s[S] \in Nat
  <2> DEFINE K == {U \in SUBSET S : s[U] \in Nat}
  <2>1. ASSUME NEW U \in SUBSET S, \A V \in SUBSET U : V # U => V \in K PROVE U \in K
    <3>1. CASE U = {} BY <1>2, <3>1
    <3>2. CASE U # {}
      <4>1. First(U) \in U BY <3>2 DEF First
      <4>2. U \ {First(U)} \in K BY <2>1, <4>1
      <4>3. f[First(U)] \in Nat BY <1>4, <4>1
      <4>4. s[U] = f[First(U)] + s[U \ {First(U)}] BY <1>2, <3>2
      <4> QED BY <4>2, <4>3, <4>4
    <3> QED BY <3>1, <3>2
  <2> HIDE DEF K
  <2>2. SUBSET S \subseteq K BY <2>1, SubsetInduction
  <2> QED BY <1>3, <2>2 DEF K
<1> QED BY <1>1, <1>2, <1>3, <1>4

\* Any element can be taken out first.
LEMMA SumRemove ==
  ASSUME NEW S, IsFiniteSet(S), NEW f, \A p \in S : f[p] \in Int, NEW x \in S
  PROVE  SumOver(f, S) = f[x] + SumOver(f, S \ {x})
<1>0. PICK s : PartSums(s, f, S) BY SumParts
<1>1. s \in [SUBSET S -> Int] /\ \A T \in SUBSET S : SumOver(f, T) = s[T] BY <1>0 DEF PartSums
<1>2. \A U \in SUBSET S : U # {} => s[U] = f[First(U)] + s[U \ {First(U)}]
  BY <1>0 DEF PartSums
<1> DEFINE K == {U \in SUBSET S : \A y \in U : s[U] = f[y] + s[U \ {y}]}
<1>3. ASSUME NEW U \in SUBSET S, \A V \in SUBSET U : V # U => V \in K PROVE U \in K
  <2> SUFFICES ASSUME NEW y \in U PROVE s[U] = f[y] + s[U \ {y}] OBVIOUS
  <2>1. PICK c \in U : c = First(U) BY DEF First
  <2>2. s[U] = f[c] + s[U \ {c}] BY <1>2, <2>1
  <2>3. CASE y = c BY <2>2, <2>3
  <2>4. CASE y # c
    <3>1. U \ {c} \in K /\ U \ {y} \in K BY <1>3
    <3>2. s[U \ {c}] = f[y] + s[(U \ {c}) \ {y}] BY <2>4, <3>1
    <3>3. s[U \ {y}] = f[c] + s[(U \ {y}) \ {c}] BY <2>4, <3>1
    <3>4. (U \ {c}) \ {y} = (U \ {y}) \ {c} OBVIOUS
    <3>5. (U \ {y}) \ {c} \in SUBSET S OBVIOUS
    <3>6. PICK r \in Int : r = s[(U \ {y}) \ {c}] BY <1>1, <3>5
    <3>7. PICK a \in Int, b \in Int : a = f[y] /\ b = f[c] OBVIOUS
    <3>8. s[U \ {c}] = a + r /\ s[U \ {y}] = b + r BY <3>2, <3>3, <3>4, <3>6, <3>7
    <3>9. s[U] = b + (a + r) BY <2>2, <3>7, <3>8
    <3> QED BY <3>7, <3>8, <3>9
  <2> QED BY <2>3, <2>4
<1> HIDE DEF K
<1>4. SUBSET S \subseteq K BY <1>3, SubsetInduction
<1>5. s[S] = f[x] + s[S \ {x}] BY <1>4 DEF K
<1>6. S \in SUBSET S /\ S \ {x} \in SUBSET S OBVIOUS
<1> QED BY <1>1, <1>5, <1>6

\* The sum depends on the quantities alone.
LEMMA SumSame ==
  ASSUME NEW S, IsFiniteSet(S), NEW f, \A p \in S : f[p] \in Int, NEW g, \A p \in S : g[p] = f[p]
  PROVE  SumOver(g, S) = SumOver(f, S)
<1>1. PICK s : IsSumming(s, f, S) /\ SumOver(f, S) = s[S] BY SumIsSumming
<1>2. \A p \in S : g[p] \in Int OBVIOUS
<1>3. PICK r : IsSumming(r, g, S) /\ SumOver(g, S) = r[S] BY <1>2, SumIsSumming
<1>4. s[S] = r[S] BY <1>1, <1>3, SummingUnique
<1> QED BY <1>1, <1>3, <1>4

\* What a part adds up to, and the rest.
LEMMA SumSplit ==
  ASSUME NEW S, IsFiniteSet(S), NEW f, \A p \in S : f[p] \in Int, NEW T, T \subseteq S
  PROVE  SumOver(f, S \ T) = SumOver(f, S) - SumOver(f, T)
<1> DEFINE K == {U \in SUBSET T : SumOver(f, S \ U) = SumOver(f, S) - SumOver(f, U)}
<1>1. \A U \in SUBSET S : IsFiniteSet(U) /\ \A p \in U : f[p] \in Int BY FS_Subset
<1>2. \A U \in SUBSET S : SumOver(f, U) \in Int /\ (U = {} => SumOver(f, U) = 0)
  BY <1>1, SumType
<1>3. ASSUME NEW U \in SUBSET T, \A V \in SUBSET U : V # U => V \in K PROVE U \in K
  <2>1. CASE U = {}
    <3>1. S \ U = S /\ SumOver(f, U) = 0 /\ SumOver(f, S) \in Int BY <1>2, <2>1
    <3> QED BY <3>1
  <2>2. CASE U # {}
    <3>1. PICK x : x \in U BY <2>2
    <3> DEFINE V == U \ {x}
    <3>2. V \in K BY <1>3, <3>1
    <3>3. SumOver(f, S \ V) = SumOver(f, S) - SumOver(f, V) BY <3>2
    <3>4. x \in S \ V /\ (S \ V) \ {x} = S \ U /\ S \ V \in SUBSET S BY <3>1
    <3>5. SumOver(f, S \ V) = f[x] + SumOver(f, S \ U)
      <4>1. PICK R \in SUBSET S : R = S \ V BY <3>4
      <4>2. x \in R /\ R \ {x} = S \ U BY <3>4, <4>1
      <4>3. SumOver(f, R) = f[x] + SumOver(f, R \ {x}) BY <1>1, <4>2, SumRemove
      <4> QED BY <4>1, <4>2, <4>3
    <3>6. SumOver(f, U) = f[x] + SumOver(f, V) BY <1>1, <3>1, SumRemove
    <3>7. /\ SumOver(f, S) \in Int /\ SumOver(f, V) \in Int /\ SumOver(f, S \ U) \in Int /\ f[x] \in Int
      BY <1>2, <3>1
    <3> HIDE DEF V
    <3> QED BY <3>3, <3>5, <3>6, <3>7
  <2> QED BY <2>1, <2>2
<1>4. IsFiniteSet(T) BY <1>1
<1> HIDE DEF K
<1>5. SUBSET T \subseteq K BY <1>3, <1>4, SubsetInduction
<1>6. T \in SUBSET T OBVIOUS
<1> QED BY <1>5, <1>6 DEF K

-----------------------------------------------------------------------------
\* The order of a side

\* A side prefers one of two prices.
LEMMA BetterOrder ==
  ASSUME NEW side
  PROVE  /\ \A p \in Int : ~Better(side, p, p)
         /\ \A p, q \in Int : p # q => Better(side, p, q) \/ Better(side, q, p)
         /\ \A p, q, r \in Int : Better(side, p, q) /\ Better(side, q, r) => Better(side, p, r)
BY DEF Better

Preferred(side, S, p) == {q \in S : Better(side, q, p)}
Rank(side, S, p) == Cardinality(Preferred(side, S, p))

\* The ranks of the prices of a set count it through.
LEMMA RankFacts ==
  ASSUME NEW side, NEW S \in SUBSET Int, IsFiniteSet(S)
  PROVE  /\ \A p \in S : Rank(side, S, p) \in 0..(Cardinality(S) - 1)
         /\ \A p, q \in S : Rank(side, S, p) = Rank(side, S, q) => p = q
         /\ \A i \in 0..(Cardinality(S) - 1) : \E p \in S : Rank(side, S, p) = i
<1> DEFINE n == Cardinality(S)
           R == 0..(n - 1)
<1>0. n \in Nat BY FS_CardinalityType
<1>1. \A p \in S : Preferred(side, S, p) \in SUBSET S /\ p \notin Preferred(side, S, p)
  BY BetterOrder DEF Preferred
<1>2. \A p \in S : IsFiniteSet(Preferred(side, S, p)) /\ Rank(side, S, p) \in Nat
  BY <1>1, FS_Subset, FS_CardinalityType DEF Rank
<1>3. ASSUME NEW p \in S PROVE Rank(side, S, p) \in R
  <2>1. Rank(side, S, p) <= n /\ Rank(side, S, p) # n BY <1>1, FS_Subset DEF Rank
  <2> QED BY <1>0, <1>2, <2>1
<1>4. ASSUME NEW p \in S, NEW q \in S, Better(side, p, q) PROVE Rank(side, S, p) # Rank(side, S, q)
  <2> DEFINE P == Preferred(side, S, p)
             Q == Preferred(side, S, q)
  <2>1. P \subseteq Q BY <1>4, BetterOrder DEF Preferred
  <2>2. p \in Q /\ p \notin P BY <1>1, <1>4 DEF Preferred
  <2>3. IsFiniteSet(Q) BY <1>2
  <2> HIDE DEF P, Q
  <2>4. Cardinality(P) # Cardinality(Q) BY <2>1, <2>2, <2>3, FS_Subset
  <2> QED BY <2>4 DEF P, Q, Rank
<1>5. \A p, q \in S : Rank(side, S, p) = Rank(side, S, q) => p = q BY <1>4, BetterOrder
<1> DEFINE f == [p \in S |-> Rank(side, S, p)]
<1>6. f \in Injection(S, R) BY <1>3, <1>5 DEF Injection, IsInjective
<1>7. IsFiniteSet(R) /\ Cardinality(R) = n
  <2>1. 0 \in Int /\ n - 1 \in Int BY <1>0
  <2> QED BY <1>0, <2>1, FS_Interval
<1> HIDE DEF f, R
<1>8. f \in Surjection(S, R) BY <1>6, <1>7, FS_Injection
<1>9. \A i \in R : \E p \in S : f[p] = i BY <1>8 DEF Surjection
<1>10. \A i \in R : \E p \in S : Rank(side, S, p) = i BY <1>9 DEF f
<1> QED BY <1>3, <1>5, <1>10 DEF R

\* The prices of a side in order are all of them, each once.
LEMMA BestFirstFacts ==
  ASSUME NEW side, NEW S \in SUBSET Int, IsFiniteSet(S)
  PROVE  /\ BestFirst(side, S) \in [1..Cardinality(S) -> S]
         /\ \A i, j \in 1..Cardinality(S) : BestFirst(side, S)[i] = BestFirst(side, S)[j] => i = j
         /\ \A p \in S : \E i \in 1..Cardinality(S) : BestFirst(side, S)[i] = p
<1> DEFINE n == Cardinality(S)
           f == BestFirst(side, S)
<1>0. n \in Nat BY FS_CardinalityType
<1>1. f = [i \in 1..n |-> CHOOSE p \in S : Rank(side, S, p) = i - 1]
  BY DEF BestFirst, Rank, Preferred
<1>2. \A i \in 1..n : i - 1 \in 0..(n - 1) BY <1>0
<1>3. \A i \in 1..n : \E p \in S : Rank(side, S, p) = i - 1 BY <1>2, RankFacts
<1>4. \A i \in 1..n : f[i] \in S /\ Rank(side, S, f[i]) = i - 1 BY <1>1, <1>3
<1>5. DOMAIN f = 1..n /\ f = [i \in 1..n |-> f[i]] BY <1>1
<1> HIDE DEF f
<1>6. f \in [1..n -> S] BY <1>4, <1>5
<1>7. \A i, j \in 1..n : f[i] = f[j] => i = j BY <1>0, <1>4
<1>8. ASSUME NEW p \in S PROVE \E i \in 1..n : f[i] = p
  <2>1. PICK k \in 0..(n - 1) : k = Rank(side, S, p) BY RankFacts
  <2>2. k + 1 \in 1..n /\ (k + 1) - 1 = k BY <1>0
  <2>3. PICK r \in S : r = f[k + 1] /\ Rank(side, S, r) = Rank(side, S, p)
    BY <1>4, <2>1, <2>2
  <2>4. r = p BY <2>3, RankFacts
  <2> QED BY <2>2, <2>3, <2>4
<1> QED BY <1>6, <1>7, <1>8 DEF f

\* What remains of a side after a cut fits.
LEMMA ExcessFacts ==
  ASSUME NEW side, NEW s \in BookSides
  PROVE  /\ Excess(side, s) \subseteq DOMAIN s.levels
         /\ Cardinality(DOMAIN s.levels \ Excess(side, s)) <= MaxLevels
<1> DEFINE S == DOMAIN s.levels
           K == S \ Excess(side, s)
           R == 0..(MaxLevels - 1)
<1>1. s.levels \in LevelMaps BY DEF BookSides
<1>2. S \in SUBSET Int /\ IsFiniteSet(S) BY <1>1, LevelMapFacts
<1> HIDE DEF S
<1>3. Excess(side, s) = {p \in S : Rank(side, S, p) >= MaxLevels}
  BY DEF Excess, Rank, Preferred, S
<1>4. \A p \in S : Rank(side, S, p) \in Nat
  <2>1. Cardinality(S) \in Nat BY <1>2, FS_CardinalityType
  <2> QED BY <1>2, <2>1, RankFacts
<1>5. MaxLevels \in Nat /\ MaxLevels # 0 BY OrderBookAssumption
<1>6. \A p \in K : p \in S /\ Rank(side, S, p) \in R BY <1>3, <1>4, <1>5
<1> DEFINE f == [p \in K |-> Rank(side, S, p)]
<1>7. \A p, q \in K : Rank(side, S, p) = Rank(side, S, q) => p = q BY <1>2, <1>6, RankFacts
<1>8. f \in Injection(K, R) BY <1>6, <1>7 DEF Injection, IsInjective
<1>9. IsFiniteSet(R) /\ Cardinality(R) = MaxLevels
  <2>1. 0 \in Int /\ MaxLevels - 1 \in Int BY <1>5
  <2> QED BY <1>5, <2>1, FS_Interval
<1> HIDE DEF f, R, K
<1>10. Cardinality(K) <= MaxLevels BY <1>8, <1>9, FS_Injection
<1>11. Excess(side, s) \subseteq S BY <1>3
<1> QED BY <1>10, <1>11 DEF K, S

\* The best level of a side.
IsBest(side, s, best) ==
  /\ DOMAIN s.levels = {} => best = None
  /\ DOMAIN s.levels # {} =>
       \E p \in DOMAIN s.levels :
         /\ best = [price |-> p, qty |-> s.levels[p]]
         /\ \A q \in DOMAIN s.levels : q # p => Better(side, p, q)

\* update_best_bid_cache and update_best_ask_cache change the cache alone.
LEMMA UpdateBestFacts ==
  ASSUME NEW side, NEW s \in BookSides
  PROVE  /\ UpdateBest(side, s) \in BookSides
         /\ UpdateBest(side, s).levels = s.levels /\ UpdateBest(side, s).total = s.total
         /\ IsBest(side, s, UpdateBest(side, s).best)
<1> DEFINE S == DOMAIN s.levels
           t == UpdateBest(side, s)
           best == IF S = {} THEN None
                   ELSE LET p == CHOOSE p \in S : \A q \in S \ {p} : Better(side, p, q)
                        IN  [price |-> p, qty |-> s.levels[p]]
<1>1. s.levels \in LevelMaps BY DEF BookSides
<1>2. S \in SUBSET Int /\ IsFiniteSet(S) /\ \A p \in S : s.levels[p] \in Int BY <1>1, LevelMapFacts
<1>3. t = [s EXCEPT !.best = best] BY DEF UpdateBest
<1>4. IsBest(side, s, best)
  <2>1. CASE S = {} BY <2>1 DEF IsBest
  <2>2. CASE S # {}
    <3>1. Cardinality(S) \in Nat /\ Cardinality(S) # 0 BY <1>2, <2>2, FS_CardinalityType, FS_EmptySet
    <3>2. 0 \in 0..(Cardinality(S) - 1) BY <3>1
    <3>3. PICK p \in S : Rank(side, S, p) = 0 BY <1>2, <3>2, RankFacts
    <3>4. Preferred(side, S, p) \in SUBSET S BY DEF Preferred
    <3>5. IsFiniteSet(Preferred(side, S, p)) BY <1>2, <3>4, FS_Subset
    <3>6. Preferred(side, S, p) = {} BY <3>3, <3>5, FS_EmptySet DEF Rank
    <3>7. \A q \in S : ~Better(side, q, p) BY <3>6 DEF Preferred
    <3>8. \A q \in S \ {p} : Better(side, p, q) BY <1>2, <3>7, BetterOrder
    <3>9. PICK b : b = CHOOSE r \in S : \A q \in S \ {r} : Better(side, r, q) OBVIOUS
    <3>10. b \in S /\ \A q \in S \ {b} : Better(side, b, q) BY <3>8, <3>9
    <3>11. best = [price |-> b, qty |-> s.levels[b]] BY <2>2, <3>9
    <3> QED BY <2>2, <3>10, <3>11 DEF IsBest
  <2> QED BY <2>1, <2>2
<1> HIDE DEF best
<1>5. best \in {None} \cup Level BY <1>2, <1>4 DEF IsBest, Level
<1>6. t \in BookSides /\ t.levels = s.levels /\ t.total = s.total /\ t.best = best
  BY <1>3, <1>5 DEF BookSides
<1> QED BY <1>4, <1>6

-----------------------------------------------------------------------------
\* One side of the book

\* A level that the validators accept.
Quote == [price : Int, qty : Nat]

\* The total of a side is that of its levels and a number more, no quantity is
\* negative and, with auto_prune, none is zero.
Stocked(s, prune, over) ==
  /\ s \in BookSides
  /\ s.total = SumOver(s.levels, DOMAIN s.levels) + over
  /\ \A p \in DOMAIN s.levels : s.levels[p] \in Nat /\ (prune => s.levels[p] > 0)

\* The total without a level.
LEMMA SumWithout ==
  ASSUME NEW f \in LevelMaps, NEW p \in Int
  PROVE  SumOver(f, DOMAIN f \ {p}) = SumOver(f, DOMAIN f) - QtyAt(f, p)
<1> DEFINE S == DOMAIN f
<1>1. IsFiniteSet(S) /\ \A r \in S : f[r] \in Int BY LevelMapFacts
<1>2. IsFiniteSet(S \ {p}) /\ \A r \in S \ {p} : f[r] \in Int BY <1>1, FS_Subset
<1>3. PICK a \in Int, b \in Int : a = SumOver(f, S) /\ b = SumOver(f, S \ {p})
  BY <1>1, <1>2, SumType
<1>4. CASE p \in S
  <2>1. a = f[p] + b BY <1>1, <1>3, <1>4, SumRemove
  <2>2. QtyAt(f, p) = f[p] /\ f[p] \in Int BY <1>1, <1>4 DEF QtyAt
  <2>3. b = a - f[p] BY <2>1, <2>2
  <2> QED BY <1>3, <2>2, <2>3
<1>5. CASE p \notin S
  <2>1. S \ {p} = S BY <1>5
  <2>2. QtyAt(f, p) = 0 BY <1>5 DEF QtyAt
  <2>3. b = a - 0 BY <1>3, <2>1
  <2> QED BY <1>3, <2>2, <2>3
<1> QED BY <1>4, <1>5

\* remove() on the map, and the total that goes with it.
LEMMA TakenOut ==
  ASSUME NEW f \in LevelMaps, NEW p \in Int
  PROVE  /\ WithoutLevel(f, p) \in LevelMaps
         /\ DOMAIN WithoutLevel(f, p) = DOMAIN f \ {p}
         /\ \A r \in DOMAIN f \ {p} : WithoutLevel(f, p)[r] = f[r]
         /\ SumOver(WithoutLevel(f, p), DOMAIN f \ {p}) = SumOver(f, DOMAIN f) - QtyAt(f, p)
<1> DEFINE D == DOMAIN f \ {p}
<1>1. IsFiniteSet(DOMAIN f) /\ \A r \in DOMAIN f : f[r] \in Int BY LevelMapFacts
<1>2. D \subseteq DOMAIN f /\ \A r \in D : f[r] \in Int BY <1>1
<1>3. IsFiniteSet(D) BY <1>1, <1>2, FS_Subset
<1>4. WithoutLevel(f, p) = Restrict(f, D) BY DEF WithoutLevel
<1> HIDE DEF D
<1>5. /\ WithoutLevel(f, p) \in LevelMaps /\ DOMAIN WithoutLevel(f, p) = D
      /\ \A r \in D : WithoutLevel(f, p)[r] = f[r]
  BY <1>2, <1>4, RestrictFacts
<1>6. SumOver(WithoutLevel(f, p), D) = SumOver(f, D) BY <1>2, <1>3, <1>5, SumSame
<1>7. SumOver(f, D) = SumOver(f, DOMAIN f) - QtyAt(f, p) BY SumWithout DEF D
<1> QED BY <1>5, <1>6, <1>7 DEF D

\* insert() on the map, and the total that goes with it.
LEMMA PutIn ==
  ASSUME NEW f \in LevelMaps, NEW p \in Int, NEW q \in Int
  PROVE  SumOver(WithLevel(f, p, q), DOMAIN f \cup {p})
           = (SumOver(f, DOMAIN f) - QtyAt(f, p)) + q
<1> DEFINE g == WithLevel(f, p, q)
           D == DOMAIN f \ {p}
           E == DOMAIN f \cup {p}
<1>1. IsFiniteSet(DOMAIN f) /\ \A r \in DOMAIN f : f[r] \in Int BY LevelMapFacts
<1>2. g \in LevelMaps /\ DOMAIN g = E /\ g[p] = q /\ \A r \in DOMAIN f : r # p => g[r] = f[r]
  BY WithLevelFacts
<1> HIDE DEF g
<1>3. IsFiniteSet(E) /\ \A r \in E : g[r] \in Int BY <1>2, LevelMapFacts
<1>4. p \in E /\ E \ {p} = D OBVIOUS
<1>5. D \subseteq DOMAIN f /\ \A r \in D : f[r] \in Int /\ g[r] = f[r] BY <1>1, <1>2
<1>6. IsFiniteSet(D) BY <1>1, <1>5, FS_Subset
<1>7. SumOver(f, D) = SumOver(f, DOMAIN f) - QtyAt(f, p) BY SumWithout
<1> HIDE DEF D, E
<1>8. SumOver(g, E) = g[p] + SumOver(g, E \ {p}) BY <1>3, <1>4, SumRemove
<1>9. SumOver(g, D) = SumOver(f, D) BY <1>5, <1>6, SumSame
<1>10. PICK a \in Int : a = SumOver(f, D) BY <1>5, <1>6, SumType
<1>11. SumOver(g, E \ {p}) = a BY <1>4, <1>9, <1>10
<1>12. SumOver(g, E) = a + q
  <2>1. SumOver(g, E) = q + a BY <1>2, <1>8, <1>11
  <2> QED BY <2>1
<1> QED BY <1>7, <1>10, <1>12 DEF E, g

\* What one turn of the loop of apply_delta does to a side: the message's
\* quantity is shown at its price (a pruned level counts as quantity zero), and
\* the cached total stays the sum.
LEMMA PutLevelFacts ==
  ASSUME NEW over \in Int, NEW s, Stocked(s, auto_prune, over), NEW l \in Quote
  PROVE  /\ Stocked(PutLevel(s, l), auto_prune, over)
         /\ l.price \in DOMAIN PutLevel(s, l).levels => PutLevel(s, l).levels[l.price] = l.qty
         /\ l.price \notin DOMAIN PutLevel(s, l).levels => l.qty = 0
         /\ DOMAIN PutLevel(s, l).levels \ {l.price} = DOMAIN s.levels \ {l.price}
         /\ \A p \in DOMAIN s.levels \ {l.price} : PutLevel(s, l).levels[p] = s.levels[p]
<1>1. PICK f \in LevelMaps, n \in Int, p \in Int, q \in Nat, old \in Int :
        f = s.levels /\ n = s.total /\ p = l.price /\ q = l.qty /\ old = QtyAt(s.levels, l.price)
  <2>1. s.levels \in LevelMaps /\ s.total \in Int BY DEF Stocked, BookSides
  <2>2. QtyAt(s.levels, l.price) \in Int BY <2>1, LevelMapFacts
  <2> QED BY <2>1, <2>2 DEF Quote
<1>2. s \in BookSides /\ n = SumOver(f, DOMAIN f) + over BY <1>1 DEF Stocked
<1>3. \A r \in DOMAIN f : f[r] \in Nat BY <1>1 DEF Stocked
<1>4. auto_prune => \A r \in DOMAIN f : f[r] > 0 BY <1>1 DEF Stocked
<1>7. PICK sum \in Int : sum = SumOver(f, DOMAIN f)
  <2>1. IsFiniteSet(DOMAIN f) /\ \A r \in DOMAIN f : f[r] \in Int BY LevelMapFacts
  <2> QED BY <2>1, SumType
<1>5. CASE q > 0 \/ ~auto_prune
  <2> DEFINE g == WithLevel(f, p, q)
             t == [s EXCEPT !.levels = g, !.total = (n - old) + q]
  <2>1. PutLevel(s, l) = t
    <3>1. CASE q > 0 BY <1>1, <3>1 DEF PutLevel
    <3>2. CASE ~(q > 0) /\ ~auto_prune
      <4>1. PutLevel(s, l) = [s EXCEPT !.levels = g, !.total = n - old]
        BY <1>1, <3>2 DEF PutLevel
      <4>2. (n - old) + q = n - old BY <3>2
      <4> QED BY <4>1, <4>2
    <3> QED BY <1>5, <3>1, <3>2
  <2>2. /\ g \in LevelMaps /\ DOMAIN g = DOMAIN f \cup {p} /\ g[p] = q
        /\ \A r \in DOMAIN f : r # p => g[r] = f[r]
    <3> HIDE DEF g, t
    <3>1. q \in Int OBVIOUS
    <3>2. WithLevel(f, p, q) \in LevelMaps BY <3>1, WithLevelFacts
    <3>3. DOMAIN WithLevel(f, p, q) = DOMAIN f \cup {p} BY <3>1, WithLevelFacts
    <3>4. WithLevel(f, p, q)[p] = q BY <3>1, WithLevelFacts
    <3>5. \A r \in DOMAIN f : r # p => WithLevel(f, p, q)[r] = f[r] BY <3>1, WithLevelFacts
    <3> QED BY <3>2, <3>3, <3>4, <3>5 DEF g
  <2>3. (n - old) + q = SumOver(g, DOMAIN g) + over
    <3>1. q \in Int OBVIOUS
    <3>2. SumOver(g, DOMAIN g) = (sum - old) + q BY <1>1, <1>7, <2>2, <3>1, PutIn
    <3>3. n = sum + over BY <1>2, <1>7
    <3>4. (n - old) + q = ((sum - old) + q) + over BY <3>1, <3>3
    <3> QED BY <3>2, <3>4
  <2> HIDE DEF g
  <2>4. t \in BookSides /\ t.levels = g /\ t.total = (n - old) + q
    <3>1. PICK m \in Int : m = (n - old) + q OBVIOUS
    <3>2. t = [s EXCEPT !.levels = g, !.total = m] BY <3>1
    <3> HIDE DEF t
    <3>3. g \in LevelMaps BY <2>2
    <3> QED BY <1>2, <3>1, <3>2, <3>3 DEF BookSides
  <2> HIDE DEF t
  <2>5. \A r \in DOMAIN g : g[r] \in Nat BY <1>3, <2>2
  <2>6. auto_prune => \A r \in DOMAIN g : g[r] > 0
    <3>1. CASE ~auto_prune BY <3>1
    <3>2. CASE auto_prune
      <4>1. q > 0 BY <1>5, <3>2
      <4>2. \A r \in DOMAIN f : f[r] > 0 BY <1>4, <3>2
      <4>3. \A r \in DOMAIN g : g[r] > 0 BY <2>2, <4>1, <4>2
      <4> QED BY <4>3
    <3> QED BY <3>1, <3>2
  <2>7. Stocked(t, auto_prune, over) BY <2>3, <2>4, <2>5, <2>6 DEF Stocked
  <2>8. p \in DOMAIN g /\ DOMAIN g \ {p} = DOMAIN f \ {p} BY <2>2
  <2> QED BY <1>1, <2>1, <2>2, <2>4, <2>7, <2>8
<1>6. CASE ~(q > 0) /\ auto_prune
  <2> DEFINE g == WithoutLevel(f, p)
             t == [s EXCEPT !.levels = g, !.total = n - old]
  <2>1. PutLevel(s, l) = t BY <1>1, <1>6 DEF PutLevel
  <2>2. /\ g \in LevelMaps /\ DOMAIN g = DOMAIN f \ {p} /\ \A r \in DOMAIN f \ {p} : g[r] = f[r]
        /\ SumOver(g, DOMAIN f \ {p}) = SumOver(f, DOMAIN f) - QtyAt(f, p)
    BY TakenOut
  <2>3. n - old = SumOver(g, DOMAIN g) + over
    <3>1. SumOver(g, DOMAIN g) = sum - old BY <1>1, <1>7, <2>2
    <3>2. n = sum + over BY <1>2, <1>7
    <3>3. n - old = (sum - old) + over BY <3>2
    <3> QED BY <3>1, <3>3
  <2> HIDE DEF g
  <2>4. t \in BookSides /\ t.levels = g /\ t.total = n - old
    <3>1. PICK m \in Int : m = n - old OBVIOUS
    <3>2. t = [s EXCEPT !.levels = g, !.total = m] BY <3>1
    <3> HIDE DEF t
    <3>3. g \in LevelMaps BY <2>2
    <3> QED BY <1>2, <3>1, <3>2, <3>3 DEF BookSides
  <2> HIDE DEF t
  <2>5. \A r \in DOMAIN g : g[r] \in Nat BY <1>3, <2>2
  <2>6. auto_prune => \A r \in DOMAIN g : g[r] > 0 BY <1>4, <2>2
  <2>7. Stocked(t, auto_prune, over) BY <2>3, <2>4, <2>5, <2>6 DEF Stocked
  <2>8. p \notin DOMAIN g /\ DOMAIN g \ {p} = DOMAIN f \ {p} /\ q = 0 BY <1>6, <2>2
  <2> QED BY <1>1, <2>1, <2>2, <2>4, <2>7, <2>8
<1> QED BY <1>5, <1>6

\* y is the last quantity that levels have at a price, or x if they have none.
IsLatest(ls, p, x, y) ==
  \/ y = x /\ \A i \in 1..Len(ls) : ls[i].price # p
  \/ \E i \in 1..Len(ls) :
       ls[i].price = p /\ ls[i].qty = y /\ \A j \in 1..Len(ls) : j > i => ls[j].price # p

\* A map of levels has what was real before and then came as levels; all of it.
Shown(f, ls, real) == \A p \in DOMAIN f : IsLatest(ls, p, QtyAt(real, p), f[p])
AllShown(f, ls, real) == \A p \in Int : IsLatest(ls, p, QtyAt(real, p), QtyAt(f, p))

\* One more level.
LEMMA LatestAppend ==
  ASSUME NEW ls \in Seq(Quote), NEW l \in Quote
  PROVE  /\ \A x : IsLatest(Append(ls, l), l.price, x, l.qty)
         /\ \A p, x, y : p # l.price /\ IsLatest(ls, p, x, y) => IsLatest(Append(ls, l), p, x, y)
<1> DEFINE n == Len(ls)
           m == Append(ls, l)
<1>1. n \in Nat /\ Len(m) = n + 1 /\ m[n + 1] = l /\ \A i \in 1..n : m[i] = ls[i] OBVIOUS
<1> HIDE DEF m
<1>2. \A x : IsLatest(m, l.price, x, l.qty)
  <2>1. n + 1 \in 1..Len(m) /\ \A j \in 1..Len(m) : ~(j > n + 1) BY <1>1
  <2> QED BY <1>1, <2>1 DEF IsLatest
<1>3. ASSUME NEW p, NEW x, NEW y, p # l.price, IsLatest(ls, p, x, y) PROVE IsLatest(m, p, x, y)
  <2>1. \A j \in 1..Len(m) : j \in 1..n \/ j = n + 1 BY <1>1
  <2>2. CASE y = x /\ \A i \in 1..n : ls[i].price # p
    <3>1. \A j \in 1..Len(m) : m[j].price # p BY <1>1, <1>3, <2>1, <2>2
    <3> QED BY <2>2, <3>1 DEF IsLatest
  <2>3. CASE \E i \in 1..n : ls[i].price = p /\ ls[i].qty = y
                             /\ \A j \in 1..n : j > i => ls[j].price # p
    <3>1. PICK i \in 1..n : ls[i].price = p /\ ls[i].qty = y
                            /\ \A j \in 1..n : j > i => ls[j].price # p
      BY <2>3
    <3>2. i \in 1..Len(m) /\ m[i] = ls[i] BY <1>1
    <3>3. \A j \in 1..Len(m) : j > i => m[j].price # p BY <1>1, <1>3, <2>1, <3>1
    <3> QED BY <3>1, <3>2, <3>3 DEF IsLatest
  <2> QED BY <1>3, <2>2, <2>3 DEF IsLatest
<1> QED BY <1>2, <1>3 DEF m

\* One turn of the loop keeps showing what is real.
LEMMA PutShows ==
  ASSUME NEW over \in Int, NEW s, Stocked(s, auto_prune, over),
         NEW ls \in Seq(Quote), NEW l \in Quote, NEW real
  PROVE  /\ Shown(s.levels, ls, real) => Shown(PutLevel(s, l).levels, Append(ls, l), real)
         /\ AllShown(s.levels, ls, real) => AllShown(PutLevel(s, l).levels, Append(ls, l), real)
<1>1. PICK f, g : f = s.levels /\ g = PutLevel(s, l).levels OBVIOUS
<1>2. /\ l.price \in DOMAIN g => g[l.price] = l.qty
      /\ l.price \notin DOMAIN g => l.qty = 0
      /\ DOMAIN g \ {l.price} = DOMAIN f \ {l.price}
      /\ \A p \in DOMAIN f \ {l.price} : g[p] = f[p]
  BY <1>1, PutLevelFacts
<1>3. PICK m : m = Append(ls, l) OBVIOUS
<1>4. \A x : IsLatest(m, l.price, x, l.qty) BY <1>3, LatestAppend
<1>5. \A p, x, y : p # l.price /\ IsLatest(ls, p, x, y) => IsLatest(m, p, x, y)
  BY <1>3, LatestAppend
<1>6. ASSUME Shown(f, ls, real), NEW p \in DOMAIN g PROVE IsLatest(m, p, QtyAt(real, p), g[p])
  <2>1. CASE p = l.price BY <1>2, <1>4, <2>1
  <2>2. CASE p # l.price
    <3>1. p \in DOMAIN f /\ g[p] = f[p] BY <1>2, <2>2
    <3>2. IsLatest(ls, p, QtyAt(real, p), f[p]) BY <1>6, <3>1 DEF Shown
    <3> QED BY <1>5, <2>2, <3>1, <3>2
  <2> QED BY <2>1, <2>2
<1>7. ASSUME AllShown(f, ls, real), NEW p \in Int PROVE IsLatest(m, p, QtyAt(real, p), QtyAt(g, p))
  <2>1. CASE p = l.price
    <3>1. QtyAt(g, p) = l.qty BY <1>2, <2>1 DEF QtyAt
    <3> QED BY <1>4, <2>1, <3>1
  <2>2. CASE p # l.price
    <3>1. QtyAt(g, p) = QtyAt(f, p) BY <1>2, <2>2 DEF QtyAt
    <3>2. IsLatest(ls, p, QtyAt(real, p), QtyAt(f, p)) BY <1>7 DEF AllShown
    <3> QED BY <1>5, <2>2, <3>1, <3>2
  <2> QED BY <2>1, <2>2
<1>8. Shown(f, ls, real) => Shown(g, m, real) BY <1>6 DEF Shown
<1>9. AllShown(f, ls, real) => AllShown(g, m, real) BY <1>7 DEF AllShown
<1> QED BY <1>1, <1>3, <1>8, <1>9

\* The loop of apply_delta is the iteration of its turns.
LEMMA PutAllLoop ==
  ASSUME NEW over \in Int, NEW s, Stocked(s, auto_prune, over), NEW ls \in Seq(Quote)
  PROVE  \E g : /\ PutAll(s, ls) = g[Len(ls)] /\ g[0] = s
                /\ \A n \in 1..Len(ls) : g[n] = PutLevel(g[n - 1], ls[n])
<1> DEFINE A == {x \in BookSides : Stocked(x, auto_prune, over)}
           N == Len(ls)
           F == [z \in A \X (1..N) |-> PutLevel(z[1], ls[z[2]])]
<1>1. N \in Nat /\ \A n \in 1..N : ls[n] \in Quote OBVIOUS
<1>2. \A x \in A : \A l \in Quote : PutLevel(x, l) \in A
  <2> SUFFICES ASSUME NEW x \in A, NEW l \in Quote PROVE PutLevel(x, l) \in A OBVIOUS
  <2>1. Stocked(PutLevel(x, l), auto_prune, over) BY PutLevelFacts
  <2> QED BY <2>1 DEF Stocked
<1>3. s \in A BY DEF Stocked
<1> HIDE DEF A
<1>4. F \in [A \X (1..N) -> A] /\ \A x \in A, n \in 1..N : F[<<x, n>>] = PutLevel(x, ls[n])
  BY <1>1, <1>2
<1> HIDE DEF F
<1>5. PICK f : IsIteration(f, A, s, N, F) BY <1>1, <1>3, <1>4, IterationExists
<1>6. f \in [0..N -> A] /\ f[0] = s /\ \A n \in 1..N : f[n] = F[<<f[n - 1], n>>]
  BY <1>5 DEF IsIteration
<1>7. \A n \in 1..N : f[n] = PutLevel(f[n - 1], ls[n])
  <2> SUFFICES ASSUME NEW n \in 1..N PROVE f[n] = PutLevel(f[n - 1], ls[n]) OBVIOUS
  <2>1. f[n - 1] \in A BY <1>1, <1>6
  <2> QED BY <1>4, <1>6, <2>1
<1>8. f = [n \in 0..N |-> IF n = 0 THEN s ELSE PutLevel(f[n - 1], ls[n])]
  <2>1. \A n \in 0..N : f[n] = IF n = 0 THEN s ELSE PutLevel(f[n - 1], ls[n]) BY <1>1, <1>6, <1>7
  <2> QED BY <1>6, <2>1
<1> DEFINE g == CHOOSE g : g = [n \in 0..N |-> IF n = 0 THEN s ELSE PutLevel(g[n - 1], ls[n])]
<1>9. g = [n \in 0..N |-> IF n = 0 THEN s ELSE PutLevel(g[n - 1], ls[n])] BY <1>8
<1>10. PutAll(s, ls) = g[N] BY DEF PutAll
<1> HIDE DEF g
<1>11. g[0] = s /\ \A n \in 1..N : g[n] = PutLevel(g[n - 1], ls[n]) BY <1>1, <1>9
<1> QED BY <1>10, <1>11

\* A sequence taken one element at a time.
LEMMA PrefixGrows ==
  ASSUME NEW E, NEW ls \in Seq(E), NEW new \in Seq(E)
  PROVE  /\ ls \o SubSeq(new, 1, 0) = ls
         /\ ls \o SubSeq(new, 1, Len(new)) = ls \o new
         /\ \A n \in 0..Len(new) : ls \o SubSeq(new, 1, n) \in Seq(E)
         /\ \A n \in 0..(Len(new) - 1) :
              ls \o SubSeq(new, 1, n + 1) = Append(ls \o SubSeq(new, 1, n), new[n + 1])
<1>1. SubSeq(new, 1, 0) = <<>> /\ ls \o <<>> = ls OBVIOUS
<1>2. SubSeq(new, 1, Len(new)) = new OBVIOUS
<1>3. \A n \in 0..Len(new) : SubSeq(new, 1, n) \in Seq(E) OBVIOUS
<1>4. ASSUME NEW n \in 0..(Len(new) - 1)
      PROVE  ls \o SubSeq(new, 1, n + 1) = Append(ls \o SubSeq(new, 1, n), new[n + 1])
  <2>1. n + 1 \in 1..Len(new) /\ n \in 0..Len(new) OBVIOUS
  <2>2. PICK t, x : t = SubSeq(new, 1, n) /\ x = new[n + 1] OBVIOUS
  <2>3. t \in Seq(E) /\ x \in E BY <1>3, <2>1, <2>2
  <2>4. SubSeq(new, 1, n + 1) = Append(t, x)
    <3>1. SubSeq(new, 1, n + 1) \in Seq(E) /\ Len(SubSeq(new, 1, n + 1)) = n + 1 BY <2>1
    <3>2. Append(t, x) \in Seq(E) /\ Len(Append(t, x)) = n + 1 BY <2>1, <2>2, <2>3
    <3>3. \A i \in 1..n + 1 : SubSeq(new, 1, n + 1)[i] = Append(t, x)[i] BY <2>1, <2>2, <2>3
    <3> QED BY <2>1, <3>1, <3>2, <3>3, SeqEqual
  <2>5. ls \o Append(t, x) = Append(ls \o t, x)
    <3>1. ls \o Append(t, x) \in Seq(E) /\ Append(ls \o t, x) \in Seq(E) BY <2>3
    <3>2. Len(ls \o Append(t, x)) = Len(ls) + Len(t) + 1 /\ Len(Append(ls \o t, x)) = Len(ls) + Len(t) + 1
      BY <2>3
    <3>3. \A i \in 1..Len(ls) + Len(t) + 1 : (ls \o Append(t, x))[i] = Append(ls \o t, x)[i]
      BY <2>3
    <3> QED BY <3>1, <3>2, <3>3, SeqEqual
  <2> QED BY <2>2, <2>4, <2>5
<1>5. \A n \in 0..Len(new) : ls \o SubSeq(new, 1, n) \in Seq(E) BY <1>3
<1> QED BY <1>1, <1>2, <1>4, <1>5

\* The loop of apply_delta over all levels of an update.
LEMMA PutAllFacts ==
  ASSUME NEW over \in Int, NEW s, Stocked(s, auto_prune, over),
         NEW ls \in Seq(Quote), NEW new \in Seq(Quote), NEW real
  PROVE  /\ Stocked(PutAll(s, new), auto_prune, over)
         /\ Shown(s.levels, ls, real) => Shown(PutAll(s, new).levels, ls \o new, real)
         /\ AllShown(s.levels, ls, real) => AllShown(PutAll(s, new).levels, ls \o new, real)
<1>1. PICK g : /\ PutAll(s, new) = g[Len(new)] /\ g[0] = s
               /\ \A n \in 1..Len(new) : g[n] = PutLevel(g[n - 1], new[n])
  BY PutAllLoop
<1> DEFINE N == Len(new)
           pre(n) == ls \o SubSeq(new, 1, n)
           K == {n \in Nat : n <= N =>
                   /\ Stocked(g[n], auto_prune, over)
                   /\ Shown(s.levels, ls, real) => Shown(g[n].levels, pre(n), real)
                   /\ AllShown(s.levels, ls, real) => AllShown(g[n].levels, pre(n), real)}
<1>2. /\ pre(0) = ls /\ pre(N) = ls \o new
      /\ \A n \in 0..N : pre(n) \in Seq(Quote)
      /\ \A n \in 0..(N - 1) : pre(n + 1) = Append(pre(n), new[n + 1])
  BY PrefixGrows
<1> HIDE DEF pre
<1>3. 0 \in K BY <1>1, <1>2
<1>4. ASSUME NEW n \in Nat, n \in K PROVE n + 1 \in K
  <2> SUFFICES ASSUME n + 1 <= N
               PROVE  /\ Stocked(g[n + 1], auto_prune, over)
                      /\ Shown(s.levels, ls, real) => Shown(g[n + 1].levels, pre(n + 1), real)
                      /\ AllShown(s.levels, ls, real) => AllShown(g[n + 1].levels, pre(n + 1), real)
    OBVIOUS
  <2>1. n + 1 \in 1..N /\ (n + 1) - 1 = n /\ n \in 0..(N - 1) /\ n \in 0..N OBVIOUS
  <2>2. PICK l \in Quote, m \in Seq(Quote), a \in {g[n]}, b \in {g[n + 1]} : l = new[n + 1] /\ m = pre(n)
    BY <1>2, <2>1
  <2>3. b = PutLevel(a, l) BY <1>1, <2>1, <2>2
  <2>4. pre(n + 1) = Append(m, l) BY <1>2, <2>1, <2>2
  <2>5. /\ Stocked(a, auto_prune, over)
        /\ Shown(s.levels, ls, real) => Shown(a.levels, m, real)
        /\ AllShown(s.levels, ls, real) => AllShown(a.levels, m, real)
    BY <1>4, <2>1, <2>2
  <2>6. Stocked(b, auto_prune, over) BY <2>3, <2>5, PutLevelFacts
  <2>7. /\ Shown(a.levels, m, real) => Shown(b.levels, Append(m, l), real)
        /\ AllShown(a.levels, m, real) => AllShown(b.levels, Append(m, l), real)
    BY <2>3, <2>5, PutShows
  <2> QED BY <2>2, <2>4, <2>5, <2>6, <2>7
<1> HIDE DEF K
<1>5. Nat \subseteq K BY <1>3, <1>4, Induction
<1>6. N \in K /\ N \in Nat /\ N <= N BY <1>5
<1>7. /\ Stocked(g[N], auto_prune, over)
      /\ Shown(s.levels, ls, real) => Shown(g[N].levels, pre(N), real)
      /\ AllShown(s.levels, ls, real) => AllShown(g[N].levels, pre(N), real)
  BY <1>6 DEF K
<1> QED BY <1>1, <1>2, <1>7

\* A side within its limit, with its best level cached.
Kept(side, s, prune, over) ==
  /\ Stocked(s, prune, over)
  /\ Cardinality(DOMAIN s.levels) <= MaxLevels
  /\ IsBest(side, s, s.best)

\* update_best_bid_cache and update_best_ask_cache on a side that fits.
LEMMA BestKept ==
  ASSUME NEW over \in Int, NEW side, NEW s, NEW prune, Stocked(s, prune, over),
         Cardinality(DOMAIN s.levels) <= MaxLevels
  PROVE  Kept(side, UpdateBest(side, s), prune, over) /\ UpdateBest(side, s).levels = s.levels
<1>1. s \in BookSides BY DEF Stocked
<1>2. PICK t : t = UpdateBest(side, s) OBVIOUS
<1>3. t \in BookSides /\ t.levels = s.levels /\ t.total = s.total /\ IsBest(side, s, t.best)
  BY <1>1, <1>2, UpdateBestFacts
<1>4. Stocked(t, prune, over) BY <1>3 DEF Stocked
<1>5. IsBest(side, t, t.best) BY <1>3 DEF IsBest
<1>6. Kept(side, t, prune, over) BY <1>3, <1>4, <1>5 DEF Kept
<1> QED BY <1>2, <1>3, <1>6

\* Cutting a side at max_levels.
LEMMA TruncateFacts ==
  ASSUME NEW over \in Int, NEW side, NEW s, NEW prune, Stocked(s, prune, over)
  PROVE  /\ Stocked(Truncate(side, s), prune, over)
         /\ Cardinality(DOMAIN Truncate(side, s).levels) <= MaxLevels
         /\ DOMAIN Truncate(side, s).levels \subseteq DOMAIN s.levels
         /\ \A p \in DOMAIN Truncate(side, s).levels : Truncate(side, s).levels[p] = s.levels[p]
         /\ Excess(side, s) = {} => DOMAIN Truncate(side, s).levels = DOMAIN s.levels
<1>1. PICK f \in LevelMaps, n \in Int : f = s.levels /\ n = s.total BY DEF Stocked, BookSides
<1>2. s \in BookSides /\ n = SumOver(f, DOMAIN f) + over BY <1>1 DEF Stocked
<1>3. PICK X : X = Excess(side, s) OBVIOUS
<1>4. X \subseteq DOMAIN f /\ Cardinality(DOMAIN f \ X) <= MaxLevels BY <1>1, <1>2, <1>3, ExcessFacts
<1>5. IsFiniteSet(DOMAIN f) /\ \A p \in DOMAIN f : f[p] \in Int BY LevelMapFacts
<1>6. PICK D : D = DOMAIN f \ X OBVIOUS
<1>7. D \subseteq DOMAIN f /\ IsFiniteSet(D) /\ IsFiniteSet(X) BY <1>4, <1>5, <1>6, FS_Subset
<1>8. PICK g : g = Restrict(f, D) OBVIOUS
<1>9. g \in LevelMaps /\ DOMAIN g = D /\ \A r \in D : g[r] = f[r] BY <1>7, <1>8, RestrictFacts
<1>10. SumOver(g, D) = SumOver(f, D) BY <1>5, <1>7, <1>9, SumSame
<1>11. PICK x : x = SumOver(f, X) OBVIOUS
<1>13. x \in Int BY <1>4, <1>5, <1>7, <1>11, SumType
<1>12. n - x = SumOver(f, D) + over
  <2>1. PICK sum \in Int : sum = SumOver(f, DOMAIN f) BY <1>5, SumType
  <2>2. SumOver(f, D) = sum - x BY <1>4, <1>5, <1>6, <1>11, <2>1, SumSplit
  <2>3. n = sum + over BY <1>2, <2>1
  <2>4. n - x = (sum - x) + over BY <1>13, <2>3
  <2> QED BY <2>2, <2>4
<1>14. PICK t : t = Truncate(side, s) OBVIOUS
<1>15. t = [s EXCEPT !.levels = g, !.total = n - x]
  BY <1>1, <1>3, <1>6, <1>8, <1>11, <1>14 DEF Truncate, SumOver
<1>16. t \in BookSides /\ t.levels = g /\ t.total = n - x
  <2>1. PICK m \in Int : m = n - x BY <1>13
  <2> QED BY <1>2, <1>9, <1>15, <2>1 DEF BookSides
<1>17. \A r \in D : g[r] \in Nat /\ (prune => g[r] > 0) BY <1>1, <1>7, <1>9 DEF Stocked
<1>18. Stocked(t, prune, over) BY <1>9, <1>10, <1>12, <1>16, <1>17 DEF Stocked
<1> QED BY <1>1, <1>3, <1>4, <1>6, <1>7, <1>9, <1>14, <1>16, <1>18

\* apply_delta on one side.
LEMMA DeltaFacts ==
  ASSUME NEW over \in Int, NEW side, NEW s, Stocked(s, auto_prune, over),
         NEW ls \in Seq(Quote), NEW new \in Seq(Quote), NEW real
  PROVE  /\ Kept(side, DeltaSide(side, s, new), auto_prune, over)
         /\ Shown(s.levels, ls, real) => Shown(DeltaSide(side, s, new).levels, ls \o new, real)
         /\ AllShown(s.levels, ls, real) /\ Excess(side, PutAll(s, new)) = {} =>
              AllShown(DeltaSide(side, s, new).levels, ls \o new, real)
<1>1. PICK a : a = PutAll(s, new) OBVIOUS
<1>2. PICK b : b = Truncate(side, a) OBVIOUS
<1>3. PICK c : c = UpdateBest(side, b) OBVIOUS
<1>4. DeltaSide(side, s, new) = c BY <1>1, <1>2, <1>3 DEF DeltaSide
<1>5. PICK m : m = ls \o new OBVIOUS
<1>6. /\ Stocked(a, auto_prune, over)
      /\ Shown(s.levels, ls, real) => Shown(a.levels, m, real)
      /\ AllShown(s.levels, ls, real) => AllShown(a.levels, m, real)
  BY <1>1, <1>5, PutAllFacts
<1>7. /\ Stocked(b, auto_prune, over) /\ Cardinality(DOMAIN b.levels) <= MaxLevels
      /\ DOMAIN b.levels \subseteq DOMAIN a.levels
      /\ \A p \in DOMAIN b.levels : b.levels[p] = a.levels[p]
      /\ Excess(side, a) = {} => DOMAIN b.levels = DOMAIN a.levels
  BY <1>2, <1>6, TruncateFacts
<1>8. Kept(side, c, auto_prune, over) /\ c.levels = b.levels BY <1>3, <1>7, BestKept
<1>9. Shown(a.levels, m, real) => Shown(c.levels, m, real) BY <1>7, <1>8 DEF Shown
<1>10. ASSUME AllShown(a.levels, m, real), Excess(side, a) = {} PROVE AllShown(c.levels, m, real)
  <2>1. \A p : QtyAt(c.levels, p) = QtyAt(a.levels, p) BY <1>7, <1>8, <1>10 DEF QtyAt
  <2> QED BY <1>10, <2>1 DEF AllShown
<1> QED BY <1>1, <1>4, <1>5, <1>6, <1>8, <1>9, <1>10

-----------------------------------------------------------------------------
\* Messages

UpdatesOf(E) == [side : Sides, levels : Seq(E)]

\* The levels of a message for a side, update by update.
LEMMA LevelsForFacts ==
  ASSUME NEW E, NEW updates \in Seq(UpdatesOf(E)), NEW side
  PROVE  /\ LevelsFor(updates, side)[0] = <<>>
         /\ \A n \in 0..Len(updates) : LevelsFor(updates, side)[n] \in Seq(E)
         /\ \A n \in 1..Len(updates) :
              LevelsFor(updates, side)[n] =
                IF updates[n].side = side
                THEN LevelsFor(updates, side)[n - 1] \o updates[n].levels
                ELSE LevelsFor(updates, side)[n - 1]
<1> DEFINE A == Seq(E)
           N == Len(updates)
           next(x, n) == IF updates[n].side = side THEN x \o updates[n].levels ELSE x
           F == [z \in A \X (1..N) |-> next(z[1], z[2])]
<1>1. N \in Nat /\ \A n \in 1..N : updates[n].levels \in Seq(E)
  <2>1. N \in Nat /\ \A n \in 1..N : updates[n] \in UpdatesOf(E) OBVIOUS
  <2> QED BY <2>1 DEF UpdatesOf
<1>2. \A x \in A : \A n \in 1..N : next(x, n) \in A BY <1>1
<1>3. <<>> \in A OBVIOUS
<1> HIDE DEF A, next
<1>4. F \in [A \X (1..N) -> A] /\ \A x \in A, n \in 1..N : F[<<x, n>>] = next(x, n)
  BY <1>2
<1> HIDE DEF F
<1>5. PICK f : IsIteration(f, A, <<>>, N, F) BY <1>1, <1>3, <1>4, IterationExists
<1>6. f \in [0..N -> A] /\ f[0] = <<>> /\ \A n \in 1..N : f[n] = F[<<f[n - 1], n>>]
  BY <1>5 DEF IsIteration
<1>7. \A n \in 1..N : f[n] = next(f[n - 1], n)
  <2> SUFFICES ASSUME NEW n \in 1..N PROVE f[n] = next(f[n - 1], n) OBVIOUS
  <2>1. f[n - 1] \in A BY <1>1, <1>6
  <2> QED BY <1>4, <1>6, <2>1
<1>8. f = [n \in 0..N |-> IF n = 0 THEN <<>> ELSE next(f[n - 1], n)]
  <2>1. \A n \in 0..N : f[n] = IF n = 0 THEN <<>> ELSE next(f[n - 1], n) BY <1>1, <1>6, <1>7
  <2> QED BY <1>6, <2>1
<1> DEFINE g == CHOOSE g : g = [n \in 0..N |-> IF n = 0 THEN <<>> ELSE next(g[n - 1], n)]
<1>9. g = [n \in 0..N |-> IF n = 0 THEN <<>> ELSE next(g[n - 1], n)] BY <1>8
<1>10. LevelsFor(updates, side) = g BY DEF LevelsFor, next
<1> HIDE DEF g
<1>11. g[0] = <<>> /\ \A n \in 1..N : g[n] = next(g[n - 1], n) BY <1>1, <1>9
<1> DEFINE K == {n \in Nat : n <= N => g[n] \in A}
<1>12. 0 \in K BY <1>3, <1>11
<1>13. ASSUME NEW n \in Nat, n \in K PROVE n + 1 \in K
  <2> SUFFICES ASSUME n + 1 <= N PROVE g[n + 1] \in A OBVIOUS
  <2>1. n + 1 \in 1..N /\ (n + 1) - 1 = n /\ g[n] \in A BY <1>1, <1>13
  <2> QED BY <1>2, <1>11, <2>1
<1> HIDE DEF K
<1>14. Nat \subseteq K BY <1>12, <1>13, Induction
<1>15. \A n \in 0..N : g[n] \in A BY <1>1, <1>14 DEF K
<1> QED BY <1>10, <1>11, <1>15 DEF A, next

\* A book whose sides are kept.
KeptBook(b, prune, over) ==
  b \in [Sides -> BookSides] /\ \A side \in Sides : Kept(side, b[side], prune, over[side])

AfterUpdate(b, u) == [b EXCEPT ![u.side] = DeltaSide(u.side, b[u.side], u.levels)]

\* One update changes one side and keeps it.
LEMMA UpdateFacts ==
  ASSUME NEW over \in [Sides -> Int], NEW b, KeptBook(b, auto_prune, over), NEW u \in UpdatesOf(Quote)
  PROVE  /\ KeptBook(AfterUpdate(b, u), auto_prune, over)
         /\ AfterUpdate(b, u)[u.side] = DeltaSide(u.side, b[u.side], u.levels)
         /\ \A side \in Sides : side # u.side => AfterUpdate(b, u)[side] = b[side]
<1>1. PICK w \in Sides, ls \in Seq(Quote) : w = u.side /\ ls = u.levels BY DEF UpdatesOf
<1>2. b \in [Sides -> BookSides] /\ \A side \in Sides : Kept(side, b[side], auto_prune, over[side])
  BY DEF KeptBook
<1>3. PICK d : d = DeltaSide(w, b[w], ls) OBVIOUS
<1>4. Stocked(b[w], auto_prune, over[w]) /\ <<>> \in Seq(Quote) BY <1>2 DEF Kept
<1>5. Kept(w, d, auto_prune, over[w]) BY <1>3, <1>4, DeltaFacts
<1>6. d \in BookSides BY <1>5 DEF Kept, Stocked
<1>7. PICK c : c = [b EXCEPT ![w] = d] OBVIOUS
<1>8. /\ c \in [Sides -> BookSides] /\ c[w] = d
      /\ \A side \in Sides : side # w => c[side] = b[side]
  BY <1>2, <1>6, <1>7
<1>9. KeptBook(c, auto_prune, over) BY <1>2, <1>5, <1>8 DEF KeptBook
<1>10. AfterUpdate(b, u) = c BY <1>1, <1>3, <1>7 DEF AfterUpdate
<1> QED BY <1>1, <1>3, <1>8, <1>9, <1>10

\* A message is applied update by update.
LEMMA BooksLoop ==
  ASSUME NEW over \in [Sides -> Int], NEW b, KeptBook(b, auto_prune, over),
         NEW updates \in Seq(UpdatesOf(Quote))
  PROVE  /\ BooksAfter(b, updates)[0] = b
         /\ \A n \in 1..Len(updates) :
              BooksAfter(b, updates)[n] = AfterUpdate(BooksAfter(b, updates)[n - 1], updates[n])
<1> DEFINE A == {x \in [Sides -> BookSides] : KeptBook(x, auto_prune, over)}
           N == Len(updates)
           F == [z \in A \X (1..N) |-> AfterUpdate(z[1], updates[z[2]])]
<1>1. N \in Nat /\ \A n \in 1..N : updates[n] \in UpdatesOf(Quote) OBVIOUS
<1>2. \A x \in A : \A u \in UpdatesOf(Quote) : AfterUpdate(x, u) \in A
  <2> SUFFICES ASSUME NEW x \in A, NEW u \in UpdatesOf(Quote) PROVE AfterUpdate(x, u) \in A OBVIOUS
  <2>1. KeptBook(AfterUpdate(x, u), auto_prune, over) BY UpdateFacts
  <2> QED BY <2>1 DEF KeptBook
<1>3. b \in A BY DEF KeptBook
<1> HIDE DEF A
<1>4. F \in [A \X (1..N) -> A] /\ \A x \in A, n \in 1..N : F[<<x, n>>] = AfterUpdate(x, updates[n])
  BY <1>1, <1>2
<1> HIDE DEF F
<1>5. PICK f : IsIteration(f, A, b, N, F) BY <1>1, <1>3, <1>4, IterationExists
<1>6. f \in [0..N -> A] /\ f[0] = b /\ \A n \in 1..N : f[n] = F[<<f[n - 1], n>>]
  BY <1>5 DEF IsIteration
<1>7. \A n \in 1..N : f[n] = AfterUpdate(f[n - 1], updates[n])
  <2> SUFFICES ASSUME NEW n \in 1..N PROVE f[n] = AfterUpdate(f[n - 1], updates[n]) OBVIOUS
  <2>1. f[n - 1] \in A BY <1>1, <1>6
  <2> QED BY <1>4, <1>6, <2>1
<1>8. f = [n \in 0..N |-> IF n = 0 THEN b ELSE AfterUpdate(f[n - 1], updates[n])]
  <2>1. \A n \in 0..N : f[n] = IF n = 0 THEN b ELSE AfterUpdate(f[n - 1], updates[n])
    BY <1>1, <1>6, <1>7
  <2> QED BY <1>6, <2>1
<1> DEFINE g == CHOOSE g : g = [n \in 0..N |-> IF n = 0 THEN b ELSE AfterUpdate(g[n - 1], updates[n])]
<1>9. g = [n \in 0..N |-> IF n = 0 THEN b ELSE AfterUpdate(g[n - 1], updates[n])] BY <1>8
<1>10. BooksAfter(b, updates) = g BY DEF BooksAfter, AfterUpdate
<1> HIDE DEF g
<1>11. g[0] = b /\ \A n \in 1..N : g[n] = AfterUpdate(g[n - 1], updates[n]) BY <1>1, <1>9
<1> QED BY <1>10, <1>11

\* No update of a message cuts a side of the book.
NoCut(b, updates) ==
  \A k \in 1..Len(updates) :
    Excess(updates[k].side,
           PutAll(BooksAfter(b, updates)[k - 1][updates[k].side], updates[k].levels)) = {}

\* A message that the validator accepts keeps the book, what it shows follows
\* the message, and if nothing is cut it shows everything that the message says.
LEMMA MessageFacts ==
  ASSUME NEW over \in [Sides -> Int], NEW b, KeptBook(b, auto_prune, over),
         NEW updates \in Seq(UpdatesOf(Quote)),
         NEW side \in Sides, NEW real
  PROVE  LET after == BooksAfter(b, updates)[Len(updates)]
             ls == LevelsFor(updates, side)[Len(updates)]
         IN  /\ KeptBook(after, auto_prune, over)
             /\ Shown(b[side].levels, <<>>, real) => Shown(after[side].levels, ls, real)
             /\ AllShown(b[side].levels, <<>>, real) /\ NoCut(b, updates) =>
                  AllShown(after[side].levels, ls, real)
<1> DEFINE N == Len(updates)
<1>0. PICK g, h : g = BooksAfter(b, updates) /\ h = LevelsFor(updates, side) OBVIOUS
<1>1. g[0] = b /\ \A n \in 1..N : g[n] = AfterUpdate(g[n - 1], updates[n]) BY <1>0, BooksLoop
<1>2. /\ h[0] = <<>> /\ \A n \in 0..N : h[n] \in Seq(Quote)
      /\ \A n \in 1..N :
           h[n] = IF updates[n].side = side THEN h[n - 1] \o updates[n].levels ELSE h[n - 1]
  BY <1>0, LevelsForFacts
<1> DEFINE P(n) == Shown(b[side].levels, <<>>, real) => Shown(g[n][side].levels, h[n], real)
           Q(n) == AllShown(b[side].levels, <<>>, real) /\ NoCut(b, updates) =>
                     AllShown(g[n][side].levels, h[n], real)
           K == {n \in Nat : n <= N => KeptBook(g[n], auto_prune, over) /\ P(n) /\ Q(n)}
<1>3. 0 \in K BY <1>1, <1>2
<1>4. ASSUME NEW n \in Nat, n \in K PROVE n + 1 \in K
  <2> SUFFICES ASSUME n + 1 <= N
               PROVE  KeptBook(g[n + 1], auto_prune, over) /\ P(n + 1) /\ Q(n + 1)
    OBVIOUS
  <2>1. n + 1 \in 1..N /\ (n + 1) - 1 = n /\ n \in 0..N OBVIOUS
  <2>2. PICK u \in UpdatesOf(Quote) : u = updates[n + 1] BY <2>1
  <2>3. PICK ls \in Seq(Quote), a \in {g[n]}, c \in {g[n + 1]} : ls = h[n] BY <1>2, <2>1
  <2>4. KeptBook(a, auto_prune, over) /\ P(n) /\ Q(n) BY <1>4, <2>1, <2>3
  <2>5. c = AfterUpdate(a, u) BY <1>1, <2>1, <2>2, <2>3
  <2>6. /\ KeptBook(c, auto_prune, over) /\ c[u.side] = DeltaSide(u.side, a[u.side], u.levels)
        /\ \A w \in Sides : w # u.side => c[w] = a[w]
    BY <2>4, <2>5, UpdateFacts
  <2>7. h[n + 1] = IF u.side = side THEN ls \o u.levels ELSE ls BY <1>2, <2>1, <2>2, <2>3
  <2>8. CASE u.side # side
    <3>1. c[side] = a[side] /\ h[n + 1] = h[n] BY <2>3, <2>6, <2>7, <2>8
    <3>2. P(n + 1) /\ Q(n + 1) BY <2>3, <2>4, <3>1
    <3> QED BY <2>3, <2>6, <3>2
  <2>9. CASE u.side = side
    <3>1. PICK new \in Seq(Quote) : new = u.levels BY DEF UpdatesOf
    <3>2. h[n + 1] = ls \o new BY <2>7, <2>9, <3>1
    <3>3. c[side] = DeltaSide(side, a[side], new) BY <2>6, <2>9, <3>1
    <3>4. Stocked(a[side], auto_prune, over[side]) BY <2>4 DEF KeptBook, Kept
    <3>5. /\ Shown(a[side].levels, ls, real) => Shown(c[side].levels, ls \o new, real)
          /\ AllShown(a[side].levels, ls, real) /\ Excess(side, PutAll(a[side], new)) = {} =>
               AllShown(c[side].levels, ls \o new, real)
      BY <3>3, <3>4, DeltaFacts
    <3>6. NoCut(b, updates) => Excess(side, PutAll(a[side], new)) = {}
      BY <1>0, <2>1, <2>2, <2>3, <2>9, <3>1 DEF NoCut
    <3>7. P(n + 1) /\ Q(n + 1) BY <2>3, <2>4, <3>2, <3>5, <3>6
    <3> QED BY <2>3, <2>6, <3>7
  <2> QED BY <2>8, <2>9
<1> HIDE DEF K
<1>5. Nat \subseteq K BY <1>3, <1>4, Induction
<1>6. N \in K /\ N \in Nat /\ N <= N BY <1>5
<1>7. KeptBook(g[N], auto_prune, over) /\ P(N) /\ Q(N) BY <1>6 DEF K
<1> QED BY <1>0, <1>7

-----------------------------------------------------------------------------
\* The exchange's book

LastWith(ls, p) == SelectLastInSeq(ls, LAMBDA l : l.price = p)

\* SelectLastInSeq finds the last level of a price that some level has.
LEMMA LastWithFacts ==
  ASSUME NEW ls \in Seq(Level), NEW p, \E i \in 1..Len(ls) : ls[i].price = p
  PROVE  /\ LastWith(ls, p) \in 1..Len(ls) /\ ls[LastWith(ls, p)].price = p
         /\ \A j \in 1..Len(ls) : j > LastWith(ls, p) => ls[j].price # p
<1> DEFINE N == Len(ls)
           I == {i \in 1..N : ls[i].price = p}
           T == {n \in Nat : n <= N /\ N - n \in I}
<1>1. N \in Nat /\ I # {} OBVIOUS
<1>2. \A i \in I : i \in 1..N OBVIOUS
<1>3. \A i \in I : N - i \in T BY <1>1, <1>2
<1>4. T # {} /\ T \in SUBSET Nat BY <1>1, <1>3
<1>5. PICK n \in T : \A m \in T : n <= m BY <1>4, LeastNatural
<1>6. N - n \in I /\ n \in Nat OBVIOUS
<1>7. ASSUME NEW i \in I PROVE N - n >= i
  <2>1. i \in 1..N /\ N - i \in T BY <1>2, <1>3
  <2>2. n <= N - i BY <1>5, <2>1
  <2> QED BY <1>1, <1>6, <2>1, <2>2
<1>8. LastWith(ls, p) = Max(I) BY <1>1 DEF LastWith, SelectLastInSeq
<1> HIDE DEF I, T
<1>9. Max(I) \in I /\ \A i \in I : Max(I) >= i BY <1>6, <1>7 DEF Max
<1>10. PICK k \in I : k = LastWith(ls, p) /\ \A i \in I : k >= i BY <1>8, <1>9
<1>11. k \in 1..N /\ ls[k].price = p BY DEF I
<1>12. \A j \in 1..N : j > k => j \notin I BY <1>10, <1>11
<1>13. \A j \in 1..N : j > k => ls[j].price # p BY <1>12 DEF I
<1> QED BY <1>10, <1>11, <1>13

\* Two answers to what came last are the same.
LEMMA LatestUnique ==
  ASSUME NEW ls, Len(ls) \in Nat, NEW p, NEW x, NEW y, IsLatest(ls, p, x, y),
         NEW z, IsLatest(ls, p, x, z)
  PROVE  y = z
<1>1. CASE \A i \in 1..Len(ls) : ls[i].price # p BY <1>1 DEF IsLatest
<1>2. CASE \E i \in 1..Len(ls) : ls[i].price = p
  <2>1. PICK i \in 1..Len(ls) : /\ ls[i].price = p /\ ls[i].qty = y
                                /\ \A j \in 1..Len(ls) : j > i => ls[j].price # p
    BY <1>2 DEF IsLatest
  <2>2. PICK k \in 1..Len(ls) : /\ ls[k].price = p /\ ls[k].qty = z
                                /\ \A j \in 1..Len(ls) : j > k => ls[j].price # p
    BY <1>2 DEF IsLatest
  <2>3. i = k BY <2>1, <2>2
  <2> QED BY <2>1, <2>2, <2>3
<1> QED BY <1>1, <1>2

\* Levels of an exchange: none of quantity zero.
Traded(f) == f \in LevelMaps /\ \A p \in DOMAIN f : f[p] > 0

\* After a message the exchange's side holds at every price the last quantity.
LEMMA MarketFacts ==
  ASSUME NEW old, Traded(old), NEW ls \in Seq(Level)
  PROVE  /\ Traded(MarketSide(old, ls))
         /\ ls \in Seq(Quote) =>
              \A p \in Int : IsLatest(ls, p, QtyAt(old, p), QtyAt(MarketSide(old, ls), p))
<1> DEFINE N == Len(ls)
           M == {ls[i].price : i \in DOMAIN ls}
           qty(p) == IF p \in M THEN ls[LastWith(ls, p)].qty ELSE QtyAt(old, p)
           D == {p \in DOMAIN old \cup M : qty(p) > 0}
           new == [p \in D |-> qty(p)]
<1>1. old \in LevelMaps /\ \A p \in DOMAIN old : old[p] > 0 BY DEF Traded
<1>2. DOMAIN old \subseteq Int /\ IsFiniteSet(DOMAIN old) /\ \A p : QtyAt(old, p) \in Int
  BY <1>1, LevelMapFacts
<1>3. N \in Nat /\ DOMAIN ls = 1..N /\ \A i \in 1..N : ls[i] \in Level OBVIOUS
<1>4. \A i \in 1..N : ls[i].price \in Int /\ ls[i].qty \in Int BY <1>3 DEF Level
<1>5. M \subseteq Int BY <1>3, <1>4
<1>6. IsFiniteSet(M)
  <2> DEFINE f == [i \in 1..N |-> ls[i].price]
             S == 1..N
  <2>1. IsFiniteSet(S) BY <1>3, FS_Interval
  <2>2. f \in Surjection(S, M) BY <1>3 DEF Surjection
  <2> HIDE DEF f, S, M
  <2> QED BY <2>1, <2>2, FS_Surjection
<1>7. \A p \in M : \E i \in 1..N : ls[i].price = p BY <1>3
<1>8. \A p \in M : LastWith(ls, p) \in 1..N BY <1>7, LastWithFacts
<1>9. MarketSide(old, ls) = new BY DEF MarketSide, LastWith
<1>10. \A p : qty(p) \in Int BY <1>2, <1>4, <1>8
<1>11. D \subseteq DOMAIN old \cup M OBVIOUS
<1>12. IsFiniteSet(DOMAIN old \cup M) BY <1>2, <1>6, FS_Union
<1>13. IsFiniteSet(D) BY <1>11, <1>12, FS_Subset
<1>14. \A p \in D : qty(p) > 0 OBVIOUS
<1>15. Traded(new)
  <2>1. D \subseteq Int BY <1>2, <1>5, <1>11
  <2> HIDE DEF D, qty
  <2>2. new \in [D -> Int] BY <1>10
  <2>3. new \in LevelMaps BY <1>13, <2>1, <2>2, LevelMapType
  <2>4. DOMAIN new = D /\ \A p \in D : new[p] = qty(p) OBVIOUS
  <2> QED BY <1>14, <2>3, <2>4 DEF Traded
<1>16. ASSUME ls \in Seq(Quote), NEW p \in Int PROVE IsLatest(ls, p, QtyAt(old, p), QtyAt(new, p))
  <2>1. \A i \in 1..N : ls[i].qty \in Nat
    <3>1. \A i \in 1..N : ls[i] \in Quote BY <1>16
    <3> QED BY <3>1 DEF Quote
  <2>2. QtyAt(old, p) \in Nat BY <1>1, <1>2 DEF QtyAt
  <2>3. QtyAt(old, p) # 0 => p \in DOMAIN old BY DEF QtyAt
  <2>4. qty(p) \in Nat BY <1>8, <2>1, <2>2
  <2>5. QtyAt(new, p) = qty(p)
    <3>1. CASE qty(p) > 0
      <4>1. p \in D BY <2>2, <2>3, <3>1
      <4> HIDE DEF D, qty
      <4> QED BY <4>1 DEF QtyAt
    <3>2. CASE qty(p) = 0
      <4>1. p \notin D BY <3>2
      <4> HIDE DEF D, qty
      <4> QED BY <3>2, <4>1 DEF QtyAt
    <3> QED BY <2>4, <3>1, <3>2
  <2>6. CASE p \in M
    <3>1. qty(p) = ls[LastWith(ls, p)].qty BY <2>6
    <3>2. /\ LastWith(ls, p) \in 1..N /\ ls[LastWith(ls, p)].price = p
          /\ \A j \in 1..N : j > LastWith(ls, p) => ls[j].price # p
      BY <1>7, <2>6, LastWithFacts
    <3> QED BY <2>5, <3>1, <3>2 DEF IsLatest
  <2>7. CASE p \notin M
    <3>1. \A i \in 1..N : ls[i].price # p BY <1>3, <2>7
    <3>2. qty(p) = QtyAt(old, p) BY <2>7
    <3> QED BY <2>5, <3>1, <3>2 DEF IsLatest
  <2> QED BY <2>6, <2>7
<1> QED BY <1>9, <1>15, <1>16

-----------------------------------------------------------------------------
\* Snapshots

\* A side without levels is kept.
LEMMA EmptyKept ==
  ASSUME NEW side, NEW prune
  PROVE  Kept(side, EmptySide, prune, 0) /\ DOMAIN EmptySide.levels = {} /\ Traded(EmptySide.levels)
<1>1. PICK f : f = [p \in {} |-> 0] OBVIOUS
<1>2. DOMAIN f = {} /\ f \in [{} -> Int] BY <1>1
<1>3. IsFiniteSet({}) /\ Cardinality({}) = 0 /\ {} \subseteq Int BY FS_EmptySet
<1>4. f \in LevelMaps BY <1>2, <1>3, LevelMapType
<1>5. SumOver(f, {}) = 0 BY <1>3, SumType
<1>6. EmptySide = [levels |-> f, total |-> 0, best |-> None] BY <1>1 DEF EmptySide
<1>7. EmptySide \in BookSides BY <1>4, <1>6 DEF BookSides
<1>8. Stocked(EmptySide, prune, 0) BY <1>2, <1>5, <1>6, <1>7 DEF Stocked
<1>9. 0 <= MaxLevels BY OrderBookAssumption
<1>10. IsBest(side, EmptySide, EmptySide.best) BY <1>2, <1>6 DEF IsBest
<1> QED BY <1>2, <1>3, <1>4, <1>6, <1>8, <1>9, <1>10 DEF Kept, Traded

\* The levels of a side as the exchange lists them: each price once.
LEMMA ListedFacts ==
  ASSUME NEW side, NEW f, Traded(f)
  PROVE  /\ Listed(side, f) \in Seq(Quote)
         /\ \A i \in 1..Len(Listed(side, f)) :
              /\ Listed(side, f)[i].price \in DOMAIN f /\ Listed(side, f)[i].qty > 0
              /\ Listed(side, f)[i].qty = f[Listed(side, f)[i].price]
         /\ \A i, j \in 1..Len(Listed(side, f)) :
              Listed(side, f)[i].price = Listed(side, f)[j].price => i = j
         /\ \A p \in DOMAIN f : \E i \in 1..Len(Listed(side, f)) : Listed(side, f)[i].price = p
<1>1. f \in LevelMaps /\ \A p \in DOMAIN f : f[p] > 0 BY DEF Traded
<1>2. PICK S : S = DOMAIN f OBVIOUS
<1>3. S \in SUBSET Int /\ IsFiniteSet(S) /\ \A p \in S : p \in Int /\ f[p] \in Int
  BY <1>1, <1>2, LevelMapFacts
<1>4. PICK n \in Nat : n = Cardinality(S) BY <1>3, FS_CardinalityType
<1>5. PICK o : o = BestFirst(side, S) OBVIOUS
<1>6. /\ o \in [1..n -> S] /\ \A i, j \in 1..n : o[i] = o[j] => i = j
      /\ \A p \in S : \E i \in 1..n : o[i] = p
  BY <1>3, <1>4, <1>5, BestFirstFacts
<1>7. PICK ls : ls = Listed(side, f) OBVIOUS
<1>8. ls = [i \in 1..n |-> [price |-> o[i], qty |-> f[o[i]]]]
  <2>1. DOMAIN o = 1..n BY <1>6
  <2>2. ls = [i \in DOMAIN o |-> [price |-> o[i], qty |-> f[o[i]]]] BY <1>2, <1>5, <1>7 DEF Listed
  <2> QED BY <2>1, <2>2
<1>9. \A i \in 1..n : o[i] \in S /\ f[o[i]] \in Nat /\ f[o[i]] > 0 BY <1>1, <1>2, <1>3, <1>6
<1>10. \A i \in 1..n : ls[i] \in Quote /\ ls[i].price = o[i] /\ ls[i].qty = f[o[i]]
  BY <1>3, <1>8, <1>9 DEF Quote
<1>11. ls \in Seq(Quote) /\ Len(ls) = n
  <2>1. ls \in [1..n -> Quote] BY <1>8, <1>10
  <2> QED BY <1>4, <2>1
<1> QED BY <1>2, <1>6, <1>7, <1>9, <1>10, <1>11

\* One turn of a loop of apply_snapshot: what it replaces stays in the total.
LEMMA AddFacts ==
  ASSUME NEW over \in Int, NEW s, Stocked(s, auto_prune, over),
         NEW l \in Quote, l.qty > 0 \/ ~auto_prune
  PROVE  /\ Stocked(AddLevel(s, l), auto_prune, over + QtyAt(s.levels, l.price))
         /\ DOMAIN AddLevel(s, l).levels = DOMAIN s.levels \cup {l.price}
         /\ AddLevel(s, l).levels[l.price] = l.qty
         /\ \A p \in DOMAIN s.levels : p # l.price => AddLevel(s, l).levels[p] = s.levels[p]
<1>1. PICK f \in LevelMaps, n \in Int, p \in Int, q \in Nat, old \in Int :
        f = s.levels /\ n = s.total /\ p = l.price /\ q = l.qty /\ old = QtyAt(s.levels, l.price)
  <2>1. s.levels \in LevelMaps /\ s.total \in Int BY DEF Stocked, BookSides
  <2>2. QtyAt(s.levels, l.price) \in Int BY <2>1, LevelMapFacts
  <2> QED BY <2>1, <2>2 DEF Quote
<1>2. s \in BookSides /\ n = SumOver(f, DOMAIN f) + over BY <1>1 DEF Stocked
<1>3. \A r \in DOMAIN f : f[r] \in Nat BY <1>1 DEF Stocked
<1>4. auto_prune => \A r \in DOMAIN f : f[r] > 0 BY <1>1 DEF Stocked
<1> DEFINE g == WithLevel(f, p, q)
           t == [s EXCEPT !.levels = g, !.total = n + q]
<1>5. AddLevel(s, l) = t BY <1>1 DEF AddLevel
<1>6. /\ g \in LevelMaps /\ DOMAIN g = DOMAIN f \cup {p} /\ g[p] = q
      /\ \A r \in DOMAIN f : r # p => g[r] = f[r]
  <2>1. q \in Int OBVIOUS
  <2> QED BY <2>1, WithLevelFacts
<1>7. n + q = SumOver(g, DOMAIN g) + (over + old)
  <2>1. q \in Int OBVIOUS
  <2>2. PICK sum \in Int : sum = SumOver(f, DOMAIN f)
    <3>1. IsFiniteSet(DOMAIN f) /\ \A r \in DOMAIN f : f[r] \in Int BY LevelMapFacts
    <3> QED BY <3>1, SumType
  <2>3. SumOver(g, DOMAIN g) = (sum - old) + q BY <1>1, <1>6, <2>1, <2>2, PutIn
  <2>4. n = sum + over BY <1>2, <2>2
  <2>5. n + q = ((sum - old) + q) + (over + old) BY <2>1, <2>4
  <2> QED BY <2>3, <2>5
<1> HIDE DEF g
<1>8. t \in BookSides /\ t.levels = g /\ t.total = n + q
  <2>1. PICK m \in Int : m = n + q OBVIOUS
  <2>2. t = [s EXCEPT !.levels = g, !.total = m] BY <2>1
  <2>3. g \in LevelMaps BY <1>6
  <2> HIDE DEF t
  <2> QED BY <1>2, <2>1, <2>2, <2>3 DEF BookSides
<1> HIDE DEF t
<1>9. \A r \in DOMAIN g : g[r] \in Nat BY <1>3, <1>6
<1>10. auto_prune => \A r \in DOMAIN g : g[r] > 0
  <2>1. CASE ~auto_prune BY <2>1
  <2>2. CASE auto_prune
    <3>1. q > 0 BY <1>1, <2>2
    <3>2. \A r \in DOMAIN f : f[r] > 0 BY <1>4, <2>2
    <3>3. \A r \in DOMAIN g : g[r] > 0 BY <1>6, <3>1, <3>2
    <3> QED BY <3>3
  <2> QED BY <2>1, <2>2
<1>11. Stocked(t, auto_prune, over + old) BY <1>7, <1>8, <1>9, <1>10 DEF Stocked
<1> QED BY <1>1, <1>5, <1>6, <1>8, <1>11

\* The loop of apply_snapshot is the iteration of its turns.
LEMMA SnapshotLoop ==
  ASSUME NEW side, NEW ls \in Seq(Quote)
  PROVE  \E g : /\ SnapshotSide(side, ls) =
                     UpdateBest(side, g[IF Len(ls) < MaxLevels THEN Len(ls) ELSE MaxLevels])
                /\ g[0] = EmptySide /\ \A n \in 1..Len(ls) : g[n] = AddLevel(g[n - 1], ls[n])
<1> DEFINE N == Len(ls)
           F == [z \in BookSides \X (1..N) |-> AddLevel(z[1], ls[z[2]])]
<1>1. N \in Nat /\ \A n \in 1..N : ls[n] \in Quote OBVIOUS
<1>2. ASSUME NEW s \in BookSides, NEW l \in Quote PROVE AddLevel(s, l) \in BookSides
  <2>1. PICK f \in LevelMaps, n \in Int, p \in Int, q \in Int :
          f = s.levels /\ n = s.total /\ p = l.price /\ q = l.qty
    BY DEF BookSides, Quote
  <2>2. PICK g \in LevelMaps : g = WithLevel(f, p, q) BY WithLevelFacts
  <2>3. PICK m \in Int : m = n + q OBVIOUS
  <2>4. AddLevel(s, l) = s \/ AddLevel(s, l) = [s EXCEPT !.levels = g, !.total = m]
    BY <2>1, <2>2, <2>3 DEF AddLevel
  <2>5. [s EXCEPT !.levels = g, !.total = m] \in BookSides BY DEF BookSides
  <2> QED BY <2>4, <2>5
<1>3. EmptySide \in BookSides BY EmptyKept DEF Kept, Stocked
<1>4. F \in [BookSides \X (1..N) -> BookSides]
      /\ \A x \in BookSides, n \in 1..N : F[<<x, n>>] = AddLevel(x, ls[n])
  BY <1>1, <1>2
<1> HIDE DEF F
<1>5. PICK f : IsIteration(f, BookSides, EmptySide, N, F) BY <1>1, <1>3, <1>4, IterationExists
<1>6. f \in [0..N -> BookSides] /\ f[0] = EmptySide /\ \A n \in 1..N : f[n] = F[<<f[n - 1], n>>]
  BY <1>5 DEF IsIteration
<1>7. \A n \in 1..N : f[n] = AddLevel(f[n - 1], ls[n])
  <2> SUFFICES ASSUME NEW n \in 1..N PROVE f[n] = AddLevel(f[n - 1], ls[n]) OBVIOUS
  <2>1. f[n - 1] \in BookSides BY <1>1, <1>6
  <2> QED BY <1>4, <1>6, <2>1
<1>8. f = [n \in 0..N |-> IF n = 0 THEN EmptySide ELSE AddLevel(f[n - 1], ls[n])]
  <2>1. \A n \in 0..N : f[n] = IF n = 0 THEN EmptySide ELSE AddLevel(f[n - 1], ls[n])
    BY <1>1, <1>6, <1>7
  <2> QED BY <1>6, <2>1
<1> DEFINE g == CHOOSE g : g = [n \in 0..N |-> IF n = 0 THEN EmptySide ELSE AddLevel(g[n - 1], ls[n])]
<1>9. g = [n \in 0..N |-> IF n = 0 THEN EmptySide ELSE AddLevel(g[n - 1], ls[n])] BY <1>8
<1>10. SnapshotSide(side, ls) = UpdateBest(side, g[IF N < MaxLevels THEN N ELSE MaxLevels])
  BY DEF SnapshotSide
<1> HIDE DEF g
<1>11. g[0] = EmptySide /\ \A n \in 1..N : g[n] = AddLevel(g[n - 1], ls[n]) BY <1>1, <1>9
<1> QED BY <1>10, <1>11

\* apply_snapshot on one side, from the exchange's own list: the side has levels
\* of the exchange, and all of them if the limit allows.
LEMMA SnapshotFacts ==
  ASSUME NEW side, NEW f, Traded(f)
  PROVE  LET t == SnapshotSide(side, Listed(side, f))
         IN  /\ Kept(side, t, auto_prune, 0)
             /\ DOMAIN t.levels \subseteq DOMAIN f /\ \A p \in DOMAIN t.levels : t.levels[p] = f[p]
             /\ Len(Listed(side, f)) <= MaxLevels => DOMAIN f \subseteq DOMAIN t.levels
<1>1. PICK ls : ls = Listed(side, f) OBVIOUS
<1>2. /\ ls \in Seq(Quote)
      /\ \A i \in 1..Len(ls) :
           ls[i].price \in DOMAIN f /\ ls[i].qty > 0 /\ ls[i].qty = f[ls[i].price]
      /\ \A i, j \in 1..Len(ls) : ls[i].price = ls[j].price => i = j
      /\ \A p \in DOMAIN f : \E i \in 1..Len(ls) : ls[i].price = p
  BY <1>1, ListedFacts
<1>3. PICK g : /\ SnapshotSide(side, ls) =
                    UpdateBest(side, g[IF Len(ls) < MaxLevels THEN Len(ls) ELSE MaxLevels])
               /\ g[0] = EmptySide /\ \A n \in 1..Len(ls) : g[n] = AddLevel(g[n - 1], ls[n])
  BY <1>2, SnapshotLoop
<1> DEFINE N == Len(ls)
           Holds(n) == /\ Stocked(g[n], auto_prune, 0)
                       /\ Cardinality(DOMAIN g[n].levels) = n
                       /\ \A p \in DOMAIN g[n].levels :
                            (\E i \in 1..n : ls[i].price = p) /\ g[n].levels[p] = f[p]
                       /\ \A i \in 1..n : ls[i].price \in DOMAIN g[n].levels
           K == {n \in Nat : n <= N => Holds(n)}
<1>4. N \in Nat /\ MaxLevels \in Nat BY <1>2, OrderBookAssumption
<1>5. 0 \in K
  <2>1. Stocked(EmptySide, auto_prune, 0) /\ DOMAIN EmptySide.levels = {} BY EmptyKept DEF Kept
  <2>2. Cardinality({}) = 0 BY FS_EmptySet
  <2>3. g[0] = EmptySide /\ \A i \in 1..0 : FALSE BY <1>3
  <2>4. Holds(0) BY <2>1, <2>2, <2>3
  <2> HIDE DEF Holds
  <2> QED BY <2>4
<1>6. ASSUME NEW n \in Nat, n \in K PROVE n + 1 \in K
  <2> SUFFICES ASSUME n + 1 <= N PROVE Holds(n + 1) OBVIOUS
  <2>1. n + 1 \in 1..N /\ (n + 1) - 1 = n /\ \A i \in 1..n : i \in 1..N /\ i # n + 1 BY <1>4
  <2>2. \A i \in 1..n + 1 : i \in 1..n \/ i = n + 1 OBVIOUS
  <2>3. PICK l \in Quote, a \in {g[n]}, b \in {g[n + 1]} : l = ls[n + 1] BY <1>2, <2>1
  <2>4. /\ Stocked(a, auto_prune, 0) /\ Cardinality(DOMAIN a.levels) = n
        /\ \A p \in DOMAIN a.levels : (\E i \in 1..n : ls[i].price = p) /\ a.levels[p] = f[p]
        /\ \A i \in 1..n : ls[i].price \in DOMAIN a.levels
    BY <1>6, <2>1, <2>3
  <2>5. b = AddLevel(a, l) BY <1>3, <2>1, <2>3
  <2>6. l.qty > 0 /\ l.qty = f[l.price] BY <1>2, <2>1, <2>3
  <2>7. l.price \notin DOMAIN a.levels
    <3> SUFFICES ASSUME l.price \in DOMAIN a.levels PROVE FALSE OBVIOUS
    <3>1. PICK i \in 1..n : ls[i].price = ls[n + 1].price BY <2>3, <2>4
    <3> QED BY <1>2, <2>1, <3>1
  <2>8. /\ Stocked(b, auto_prune, 0) /\ DOMAIN b.levels = DOMAIN a.levels \cup {l.price}
        /\ b.levels[l.price] = l.qty /\ \A p \in DOMAIN a.levels : b.levels[p] = a.levels[p]
        /\ Cardinality(DOMAIN b.levels) = Cardinality(DOMAIN a.levels) + 1
    <3>1. QtyAt(a.levels, l.price) = 0 BY <2>7 DEF QtyAt
    <3>2. /\ Stocked(b, auto_prune, 0 + QtyAt(a.levels, l.price))
          /\ DOMAIN b.levels = DOMAIN a.levels \cup {l.price} /\ b.levels[l.price] = l.qty
          /\ \A p \in DOMAIN a.levels : p # l.price => b.levels[p] = a.levels[p]
      <4>1. 0 \in Int OBVIOUS
      <4> QED BY <2>4, <2>5, <2>6, <4>1, AddFacts
    <3>3. Stocked(b, auto_prune, 0) BY <3>1, <3>2
    <3>4. IsFiniteSet(DOMAIN a.levels) BY <2>4, LevelMapFacts DEF Stocked, BookSides
    <3>5. Cardinality(DOMAIN b.levels) = Cardinality(DOMAIN a.levels) + 1
      BY <2>7, <3>2, <3>4, FS_AddElement
    <3> QED BY <2>7, <3>2, <3>3, <3>5
  <2>9. \A p \in DOMAIN b.levels : (\E i \in 1..n + 1 : ls[i].price = p) /\ b.levels[p] = f[p]
    <3> SUFFICES ASSUME NEW p \in DOMAIN b.levels
                 PROVE  (\E i \in 1..n + 1 : ls[i].price = p) /\ b.levels[p] = f[p]
      OBVIOUS
    <3>1. CASE p = l.price
      <4>1. n + 1 \in 1..n + 1 /\ ls[n + 1].price = p BY <2>3, <3>1
      <4> QED BY <2>6, <2>8, <3>1, <4>1
    <3>2. CASE p # l.price
      <4>1. p \in DOMAIN a.levels BY <2>8, <3>2
      <4>2. PICK i \in 1..n : ls[i].price = p BY <2>4, <4>1
      <4>3. i \in 1..n + 1 OBVIOUS
      <4> QED BY <2>4, <2>8, <4>1, <4>2, <4>3
    <3> QED BY <3>1, <3>2
  <2>10. \A i \in 1..n + 1 : ls[i].price \in DOMAIN b.levels BY <2>2, <2>3, <2>4, <2>8
  <2>11. Cardinality(DOMAIN b.levels) = n + 1 BY <2>4, <2>8
  <2> QED BY <2>3, <2>8, <2>9, <2>10, <2>11
<1> HIDE DEF K
<1>7. Nat \subseteq K BY <1>5, <1>6, Induction
<1>8. PICK n \in Nat : n = IF N < MaxLevels THEN N ELSE MaxLevels BY <1>4
<1>9. n <= N /\ n <= MaxLevels /\ (N <= MaxLevels => n = N) BY <1>4, <1>8
<1>10. Holds(n) BY <1>7, <1>9 DEF K
<1>11. PICK a : a = g[n] OBVIOUS
<1>12. Stocked(a, auto_prune, 0) /\ Cardinality(DOMAIN a.levels) <= MaxLevels BY <1>9, <1>10, <1>11
<1>13. PICK t : t = UpdateBest(side, a) OBVIOUS
<1>14. Kept(side, t, auto_prune, 0) /\ t.levels = a.levels BY <1>12, <1>13, BestKept
<1>15. t = SnapshotSide(side, ls) BY <1>3, <1>8, <1>11, <1>13
<1>16. \A p \in DOMAIN a.levels : p \in DOMAIN f /\ a.levels[p] = f[p]
  <2> SUFFICES ASSUME NEW p \in DOMAIN a.levels PROVE p \in DOMAIN f /\ a.levels[p] = f[p] OBVIOUS
  <2>1. PICK i \in 1..n : ls[i].price = p /\ a.levels[p] = f[p] BY <1>10, <1>11
  <2>2. i \in 1..N BY <1>4, <1>9
  <2> QED BY <1>2, <2>1, <2>2
<1>17. ASSUME N <= MaxLevels, NEW p \in DOMAIN f PROVE p \in DOMAIN a.levels
  <2>1. PICK i \in 1..N : ls[i].price = p BY <1>2
  <2>2. \A j \in 1..n : ls[j].price \in DOMAIN a.levels BY <1>10, <1>11
  <2>3. i \in 1..n BY <1>9, <1>17
  <2> QED BY <2>1, <2>2, <2>3
<1> QED BY <1>1, <1>14, <1>15, <1>16, <1>17

\* apply_snapshot on one side, from levels of any prices in any order: the
\* total is too high by the quantities of the prices that come again.
LEMMA SnapshotKept ==
  ASSUME NEW side, NEW ls \in Seq(Quote)
  PROVE  /\ CountedTwice(ls) \in Nat
         /\ Kept(side, SnapshotSide(side, ls), auto_prune, CountedTwice(ls))
<1>1. PICK g : /\ SnapshotSide(side, ls) =
                    UpdateBest(side, g[IF Len(ls) < MaxLevels THEN Len(ls) ELSE MaxLevels])
               /\ g[0] = EmptySide /\ \A n \in 1..Len(ls) : g[n] = AddLevel(g[n - 1], ls[n])
  BY SnapshotLoop
<1> DEFINE N == Len(ls)
           T(n) == {i \in 1..n : ls[i].qty > 0 \/ ~auto_prune}
           R(n) == {i \in T(n) : \E j \in T(n) : j > i /\ ls[j].price = ls[i].price}
<1>2. PICK qty : qty = [i \in DOMAIN ls |-> ls[i].qty] OBVIOUS
<1>0. N \in Nat /\ MaxLevels \in Nat BY OrderBookAssumption
<1>3. /\ N \in Nat /\ MaxLevels \in Nat /\ DOMAIN ls = 1..N
      /\ \A i \in 1..N : ls[i] \in Quote /\ ls[i].qty \in Nat /\ qty[i] = ls[i].qty
  <2>1. DOMAIN ls = 1..N /\ \A i \in 1..N : ls[i] \in Quote OBVIOUS
  <2>2. \A i \in 1..N : ls[i].qty \in Nat BY <2>1 DEF Quote
  <2>3. \A i \in DOMAIN ls : qty[i] = ls[i].qty BY <1>2
  <2> QED BY <1>0, <2>1, <2>2, <2>3
<1>4. ASSUME NEW n \in Nat, n <= N
      PROVE  /\ R(n) \subseteq T(n) /\ T(n) \subseteq 1..N /\ IsFiniteSet(R(n))
             /\ \A i \in R(n) : qty[i] \in Int /\ qty[i] \in Nat
             /\ SumOver(qty, R(n)) \in Nat
  <2>1. R(n) \subseteq T(n) /\ T(n) \subseteq 1..n /\ 1..n \subseteq 1..N BY <1>3, <1>4
  <2>2. IsFiniteSet(R(n))
    <3>1. IsFiniteSet(1..n) BY FS_Interval
    <3>2. R(n) \subseteq 1..n BY <2>1
    <3> HIDE DEF R
    <3> QED BY <3>1, <3>2, FS_Subset
  <2>3. \A i \in R(n) : qty[i] \in Int /\ qty[i] \in Nat BY <1>3, <2>1
  <2> HIDE DEF R, T
  <2>4. SumOver(qty, R(n)) \in Nat BY <2>2, <2>3, SumType
  <2> QED BY <2>1, <2>2, <2>3, <2>4
<1> DEFINE Holds(n) ==
             /\ Stocked(g[n], auto_prune, SumOver(qty, R(n)))
             /\ Cardinality(DOMAIN g[n].levels) <= n
             /\ \A p \in DOMAIN g[n].levels :
                  \E k \in T(n) : ls[k].price = p /\ ls[k].qty = g[n].levels[p] /\ k \notin R(n)
             /\ \A i \in T(n) : ls[i].price \in DOMAIN g[n].levels
           K == {n \in Nat : n <= N => Holds(n)}
<1>5. 0 \in K
  <2>1. Stocked(EmptySide, auto_prune, 0) /\ DOMAIN EmptySide.levels = {} BY EmptyKept DEF Kept
  <2>2. Cardinality({}) = 0 /\ IsFiniteSet({}) BY FS_EmptySet
  <2>3. T(0) = {} /\ R(0) = {} OBVIOUS
  <2>4. SumOver(qty, {}) = 0 BY <2>2, SumType
  <2>5. Holds(0) BY <1>1, <2>1, <2>2, <2>3, <2>4
  <2> HIDE DEF Holds
  <2> QED BY <2>5
<1>6. ASSUME NEW n \in Nat, n \in K PROVE n + 1 \in K
  <2> SUFFICES ASSUME n + 1 <= N PROVE Holds(n + 1) OBVIOUS
  <2>1. n + 1 \in 1..N /\ (n + 1) - 1 = n /\ n <= N BY <1>3
  <2>2. PICK l \in Quote, a \in {g[n]}, b \in {g[n + 1]} : l = ls[n + 1] BY <1>3, <2>1
  <2>3. PICK t, r : t = T(n) /\ r = R(n) OBVIOUS
  <2>4. PICK over \in Nat : over = SumOver(qty, r) BY <1>4, <2>1, <2>3
  <2>5. /\ Stocked(a, auto_prune, over) /\ Cardinality(DOMAIN a.levels) <= n
        /\ \A p \in DOMAIN a.levels :
             \E k \in t : ls[k].price = p /\ ls[k].qty = a.levels[p] /\ k \notin r
        /\ \A i \in t : ls[i].price \in DOMAIN a.levels
    <3>1. Holds(n) BY <1>6, <2>1
    <3> HIDE DEF T, R
    <3> QED BY <2>2, <2>3, <2>4, <3>1
  <2>6. b = AddLevel(a, l) BY <1>1, <2>1, <2>2
  <2>7. t \subseteq 1..n /\ r \subseteq t BY <2>3
  <2>8. CASE ~(l.qty > 0 \/ ~auto_prune)
    <3>1. b = a BY <2>6, <2>8 DEF AddLevel
    <3>2. T(n + 1) = t BY <2>1, <2>2, <2>3, <2>8
    <3>3. R(n + 1) = r BY <2>3, <3>2
    <3>4. Cardinality(DOMAIN a.levels) <= n + 1
      <4>1. IsFiniteSet(DOMAIN a.levels) BY <2>5, LevelMapFacts DEF Stocked, BookSides
      <4>2. Cardinality(DOMAIN a.levels) \in Nat BY <4>1, FS_CardinalityType
      <4> QED BY <2>5, <4>2
    <3> HIDE DEF T, R
    <3> QED BY <2>2, <2>4, <2>5, <3>1, <3>2, <3>3, <3>4
  <2>9. CASE l.qty > 0 \/ ~auto_prune
    <3>1. T(n + 1) = t \cup {n + 1} /\ n + 1 \notin t
      <4>1. n + 1 \notin t BY <2>7
      <4>2. \A i \in 1..(n + 1) : i \in 1..n \/ i = n + 1 OBVIOUS
      <4>3. \A i \in 1..n : i \in 1..(n + 1) OBVIOUS
      <4> QED BY <2>2, <2>3, <2>9, <4>1, <4>2, <4>3
    <3>2. PICK same : same = {i \in t : ls[i].price = l.price} OBVIOUS
    <3>3. R(n + 1) = r \cup same
      <4>1. \A i \in t : n + 1 > i /\ i < n + 1 /\ ~(i > n + 1) BY <2>7
      <4>2. ls[n + 1].price = l.price /\ ~(n + 1 > n + 1) BY <2>2
      <4>3. r = {i \in t : \E j \in t : j > i /\ ls[j].price = ls[i].price} BY <2>3
      <4>4. R(n + 1) = {i \in t \cup {n + 1} :
                          \E j \in t \cup {n + 1} : j > i /\ ls[j].price = ls[i].price}
        BY <3>1
      <4> HIDE DEF R, T
      <4>5. \A i \in t : i \in R(n + 1) <=> i \in r \/ i \in same BY <3>2, <4>1, <4>2, <4>3, <4>4
      <4>6. n + 1 \notin R(n + 1) BY <4>1, <4>2, <4>4
      <4>7. R(n + 1) \subseteq t \cup {n + 1} /\ r \subseteq t /\ same \subseteq t BY <3>2, <4>3, <4>4
      <4> QED BY <4>5, <4>6, <4>7
    <3>4. n + 1 \notin R(n + 1) BY <2>7, <3>1, <3>2, <3>3
    <3>5. PICK old \in Int : old = QtyAt(a.levels, l.price)
      <4>1. a.levels \in LevelMaps BY <2>5 DEF Stocked, BookSides
      <4> QED BY <4>1, LevelMapFacts
    <3>6. SumOver(qty, R(n + 1)) = over + old
      <4>1. CASE l.price \notin DOMAIN a.levels
        <5>1. same = {} BY <2>5, <3>2, <4>1
        <5>2. R(n + 1) = r /\ old = 0 BY <3>3, <3>5, <4>1, <5>1 DEF QtyAt
        <5>3. over + old = over BY <5>2
        <5> QED BY <2>4, <5>2, <5>3
      <4>2. CASE l.price \in DOMAIN a.levels
        <5>1. PICK k \in t : ls[k].price = l.price /\ ls[k].qty = a.levels[l.price] /\ k \notin r
          BY <2>5, <4>2
        <5>2. k \in same BY <3>2, <5>1
        <5>3. ASSUME NEW i \in same, i # k PROVE i \in r
          <6>1. i \in t /\ ls[i].price = ls[k].price BY <3>2, <5>1, <5>3
          <6>2. i \in Nat /\ k \in Nat BY <2>7, <6>1
          <6>3. ~(i > k)
            <7> SUFFICES ASSUME i > k PROVE FALSE OBVIOUS
            <7>1. k \in r BY <2>3, <6>1
            <7> QED BY <5>1, <7>1
          <6>4. k > i BY <5>3, <6>2, <6>3
          <6> QED BY <2>3, <6>1, <6>4
        <5>4. R(n + 1) = r \cup {k} BY <3>3, <5>2, <5>3
        <5>5. PICK rr : rr = R(n + 1) OBVIOUS
        <5>6. k \in rr /\ rr \ {k} = r BY <5>1, <5>4, <5>5
        <5>7. IsFiniteSet(rr) /\ \A i \in rr : qty[i] \in Int
          <6>1. n + 1 \in Nat /\ n + 1 <= N OBVIOUS
          <6> HIDE DEF T, R
          <6> QED BY <1>4, <5>5, <6>1
        <5>8. SumOver(qty, rr) = qty[k] + SumOver(qty, rr \ {k}) BY <5>6, <5>7, SumRemove
        <5>9. k \in 1..N BY <2>1, <2>7, <1>3
        <5>10. qty[k] = old /\ old \in Int BY <1>3, <3>5, <4>2, <5>1, <5>9 DEF QtyAt
        <5>11. SumOver(qty, rr) = old + over BY <2>4, <5>6, <5>8, <5>10
        <5>12. old + over = over + old OBVIOUS
        <5> QED BY <5>5, <5>11, <5>12
      <4> QED BY <4>1, <4>2
    <3>7. /\ Stocked(b, auto_prune, over + old)
          /\ DOMAIN b.levels = DOMAIN a.levels \cup {l.price} /\ b.levels[l.price] = l.qty
          /\ \A p \in DOMAIN a.levels : p # l.price => b.levels[p] = a.levels[p]
      <4>1. over \in Int OBVIOUS
      <4> QED BY <2>5, <2>6, <2>9, <3>5, <4>1, AddFacts
    <3>8. Cardinality(DOMAIN b.levels) <= n + 1
      <4>1. IsFiniteSet(DOMAIN a.levels) BY <2>5, LevelMapFacts DEF Stocked, BookSides
      <4>2. Cardinality(DOMAIN a.levels) \in Nat BY <4>1, FS_CardinalityType
      <4>3. \/ Cardinality(DOMAIN b.levels) = Cardinality(DOMAIN a.levels)
            \/ Cardinality(DOMAIN b.levels) = Cardinality(DOMAIN a.levels) + 1
        BY <3>7, <4>1, FS_AddElement
      <4> QED BY <2>5, <4>2, <4>3
    <3>9. ASSUME NEW p \in DOMAIN b.levels
          PROVE  \E k \in T(n + 1) : ls[k].price = p /\ ls[k].qty = b.levels[p] /\ k \notin R(n + 1)
      <4> HIDE DEF T, R
      <4>1. CASE p = l.price BY <2>2, <3>1, <3>4, <3>7, <4>1
      <4>2. CASE p # l.price
        <5>1. p \in DOMAIN a.levels /\ b.levels[p] = a.levels[p] BY <3>7, <4>2
        <5>2. PICK k \in t : ls[k].price = p /\ ls[k].qty = a.levels[p] /\ k \notin r BY <2>5, <5>1
        <5>3. k \notin same BY <3>2, <4>2, <5>2
        <5> QED BY <3>1, <3>3, <5>1, <5>2, <5>3
      <4> QED BY <4>1, <4>2
    <3>10. \A i \in T(n + 1) : ls[i].price \in DOMAIN b.levels
      <4> HIDE DEF T
      <4> QED BY <2>2, <2>5, <3>1, <3>7
    <3> HIDE DEF T, R
    <3> QED BY <2>2, <3>6, <3>7, <3>8, <3>9, <3>10
  <2> QED BY <2>8, <2>9
<1> HIDE DEF K
<1>7. Nat \subseteq K BY <1>5, <1>6, Induction
<1>8. PICK n \in Nat : n = IF N < MaxLevels THEN N ELSE MaxLevels BY <1>3
<1>9. n <= N /\ n <= MaxLevels BY <1>0, <1>8
<1>10. Holds(n) BY <1>7, <1>9 DEF K
<1>11. Repeated(ls) = R(n)
  <2>1. {i \in DOMAIN ls : i <= MaxLevels /\ (ls[i].qty > 0 \/ ~auto_prune)} = T(n)
    <3>1. \A i \in 1..N : i <= MaxLevels <=> i <= n BY <1>3, <1>8
    <3>2. \A i \in 1..N : i <= n <=> i \in 1..n BY <1>9
    <3>3. \A i \in 1..n : i \in 1..N BY <1>3, <1>9
    <3> QED BY <1>3, <3>1, <3>2, <3>3
  <2> QED BY <2>1 DEF Repeated
<1>12. CountedTwice(ls) = SumOver(qty, R(n)) BY <1>2, <1>11 DEF CountedTwice, SumOver
<1>13. PICK over \in Nat : over = CountedTwice(ls) BY <1>4, <1>9, <1>12
<1>14. PICK a : a = g[n] OBVIOUS
<1>15. Stocked(a, auto_prune, over) /\ Cardinality(DOMAIN a.levels) <= MaxLevels
  <2>1. Stocked(a, auto_prune, over) /\ Cardinality(DOMAIN a.levels) <= n
    BY <1>10, <1>12, <1>13, <1>14
  <2>2. IsFiniteSet(DOMAIN a.levels) BY <2>1, LevelMapFacts DEF Stocked, BookSides
  <2>3. Cardinality(DOMAIN a.levels) \in Nat BY <2>2, FS_CardinalityType
  <2> QED BY <1>3, <1>9, <2>1, <2>3
<1>16. over \in Int OBVIOUS
<1>17. Kept(side, UpdateBest(side, a), auto_prune, over) BY <1>15, <1>16, BestKept
<1> QED BY <1>1, <1>8, <1>13, <1>14, <1>17

-----------------------------------------------------------------------------
\* The feed

\* A message that the validator accepts has levels in range.
LEMMA ValidMessage ==
  ASSUME NEW m \in Messages
  PROVE  /\ m \in Seq(UpdatesOf(Level))
         /\ ValidUpdates(m) => m \in Seq(UpdatesOf(Quote))
<1>1. m \in Seq(UpdatesOf(Level)) BY MessageAssumption DEF UpdatesOf, Level
<1>2. ASSUME ValidUpdates(m) PROVE m \in Seq(UpdatesOf(Quote))
  <2>1. Len(m) \in Nat /\ DOMAIN m = 1..Len(m) /\ \A i \in 1..Len(m) : m[i] \in UpdatesOf(Level)
    BY <1>1
  <2>2. \A i \in 1..Len(m) : m[i] \in UpdatesOf(Quote)
    <3> SUFFICES ASSUME NEW i \in 1..Len(m) PROVE m[i] \in UpdatesOf(Quote) OBVIOUS
    <3>1. PICK u : u = m[i] OBVIOUS
    <3>2. u \in ToSet(m) BY <2>1, <3>1 DEF ToSet
    <3>3. \A l \in ToSet(u.levels) : ValidLevel(l) BY <1>2, <3>2 DEF ValidUpdates
    <3>4. u \in UpdatesOf(Level) BY <2>1, <3>1
    <3>5. u.side \in Sides /\ u.levels \in Seq(Level) BY <3>4 DEF UpdatesOf
    <3>6. PICK ls \in Seq(Level) : ls = u.levels BY <3>5
    <3>7. Len(ls) \in Nat /\ DOMAIN ls = 1..Len(ls) /\ \A j \in 1..Len(ls) : ls[j] \in Level OBVIOUS
    <3>8. \A j \in 1..Len(ls) : ls[j] \in Quote
      <4> SUFFICES ASSUME NEW j \in 1..Len(ls) PROVE ls[j] \in Quote OBVIOUS
      <4>1. ls[j] \in ToSet(ls) BY <3>7 DEF ToSet
      <4>2. ls[j].qty >= 0 BY <3>3, <3>6, <4>1 DEF ValidLevel
      <4>3. ls[j] \in Level BY <3>7
      <4> QED BY <4>2, <4>3 DEF Level, Quote
    <3>9. ls \in Seq(Quote)
      <4>1. ls = [j \in 1..Len(ls) |-> ls[j]] BY <3>7
      <4>2. ls \in [1..Len(ls) -> Quote] BY <3>8, <4>1
      <4> QED BY <3>7, <4>2
    <3>10. u = [side |-> u.side, levels |-> u.levels] BY <3>4 DEF UpdatesOf
    <3>11. u \in UpdatesOf(Quote) BY <3>5, <3>6, <3>9, <3>10 DEF UpdatesOf
    <3> QED BY <3>1, <3>11
  <2>3. m = [i \in 1..Len(m) |-> m[i]] BY <2>1, <1>1
  <2>4. m \in [1..Len(m) -> UpdatesOf(Quote)] BY <2>2, <2>3
  <2> QED BY <2>1, <2>4
<1> QED BY <1>1, <1>2

\* The exchange's levels after a message are those before it with the message
\* applied.
MarketFollows ==
  /\ \A n \in 0..Len(sent) : \A side \in Sides : Traded(market[n][side])
  /\ \A n \in 1..Len(sent) : \A side \in Sides :
       market[n][side] =
         MarketSide(market[n - 1][side], LevelsFor(sent[n], side)[Len(sent[n])])

\* The tracker knows no number that was not sent, and one after a snapshot.
TrackerBehind ==
  /\ tracker.state # "Uninitialized" => tracker.last \in 0..Len(sent)
  /\ clean => tracker.state # "Uninitialized"

\* The exchange goes on by one message.
LEMMA PublishMarket ==
  ASSUME Numbered, MarketFollows, NEW updates \in Messages, Publish(updates)
  PROVE  MarketFollows' /\ \A n \in 0..Len(sent) : market'[n] = market[n]
<1>1. sent \in Seq(Messages) /\ DOMAIN market = 0..Len(sent) BY DEF Numbered
<1>2. PICK k \in Nat : k = Len(sent) BY <1>1
<1>3. PICK next : next = [side \in Sides |->
                            MarketSide(market[k][side], LevelsFor(updates, side)[Len(updates)])]
  OBVIOUS
<1>4. (k + 1) - 1 = k OBVIOUS
<1>5. market' = [i \in 0..k + 1 |-> IF i = k + 1 THEN next ELSE market[i]]
  BY <1>2, <1>3, <1>4 DEF Publish
<1>6. sent' = Append(sent, updates) BY DEF Publish
<1>7. Len(sent') = k + 1 /\ sent'[k + 1] = updates /\ \A n \in 1..k : sent'[n] = sent[n]
  BY <1>1, <1>2, <1>6
<1>8. market'[k + 1] = next /\ \A n \in 0..k : market'[n] = market[n] BY <1>5
<1>9. \A n \in 0..k : \A side \in Sides : Traded(market[n][side]) BY <1>2 DEF MarketFollows
<1>10. ASSUME NEW side \in Sides PROVE Traded(next[side])
  <2>1. updates \in Seq(UpdatesOf(Level)) BY ValidMessage
  <2>2. PICK ls \in Seq(Level) : ls = LevelsFor(updates, side)[Len(updates)]
    <3>1. Len(updates) \in 0..Len(updates) BY <2>1
    <3> QED BY <2>1, <3>1, LevelsForFacts
  <2>3. PICK old : old = market[k][side] OBVIOUS
  <2>4. Traded(old) BY <1>9, <2>3
  <2>5. Traded(MarketSide(old, ls)) BY <2>4, MarketFacts
  <2> QED BY <1>3, <2>2, <2>3, <2>5
<1>11. \A n \in 0..k + 1 : \A side \in Sides : Traded(market'[n][side])
  <2>1. \A n \in 0..k + 1 : n \in 0..k \/ n = k + 1 OBVIOUS
  <2> QED BY <1>8, <1>9, <1>10, <2>1
<1>12. ASSUME NEW n \in 1..k + 1, NEW side \in Sides
       PROVE  market'[n][side] =
                MarketSide(market'[n - 1][side], LevelsFor(sent'[n], side)[Len(sent'[n])])
  <2>1. CASE n = k + 1
    <3>1. n - 1 = k /\ k \in 0..k BY <2>1
    <3>2. market'[n - 1] = market[k] /\ market'[n] = next /\ sent'[n] = updates
      BY <1>7, <1>8, <2>1, <3>1
    <3> QED BY <1>3, <3>2
  <2>2. CASE n # k + 1
    <3>1. n \in 1..k /\ n \in 0..k /\ n - 1 \in 0..k BY <2>2
    <3>2. market'[n - 1] = market[n - 1] /\ market'[n] = market[n] /\ sent'[n] = sent[n]
      BY <1>7, <1>8, <3>1
    <3> QED BY <1>2, <3>1, <3>2 DEF MarketFollows
  <2> QED BY <2>1, <2>2
<1> QED BY <1>2, <1>7, <1>8, <1>11, <1>12 DEF MarketFollows

\* A message that is applied to a book that shows the exchange's levels leaves
\* one that shows the exchange's levels after the message.
LEMMA SideFollows ==
  ASSUME surplus \in [Sides -> Int], KeptBook(book, auto_prune, surplus), NEW m \in Messages,
         ValidUpdates(m), NEW side \in Sides, NEW old, Traded(old),
         \A p \in DOMAIN book[side].levels : book[side].levels[p] = QtyAt(old, p)
  PROVE  LET after == BooksAfter(book, m)[Len(m)][side].levels
             real == MarketSide(old, LevelsFor(m, side)[Len(m)])
         IN  /\ \A p \in DOMAIN after : after[p] = QtyAt(real, p)
             /\ DOMAIN old \subseteq DOMAIN book[side].levels /\ ~Overflows(m) =>
                  DOMAIN real \subseteq DOMAIN after
<1>1. m \in Seq(UpdatesOf(Level)) /\ m \in Seq(UpdatesOf(Quote)) BY ValidMessage
<1>2. Len(m) \in 0..Len(m) BY <1>1
<1>3. PICK ls : ls = LevelsFor(m, side)[Len(m)] OBVIOUS
<1>4. ls \in Seq(Level) BY <1>1, <1>2, <1>3, LevelsForFacts
<1>5. ls \in Seq(Quote) BY <1>1, <1>2, <1>3, LevelsForFacts
<1>6. PICK real : real = MarketSide(old, ls) OBVIOUS
<1>7. /\ Traded(real)
      /\ \A p \in Int : IsLatest(ls, p, QtyAt(old, p), QtyAt(real, p))
  BY <1>4, <1>5, <1>6, MarketFacts
<1>8. PICK b : b = BooksAfter(book, m)[Len(m)] OBVIOUS
<1>9. /\ KeptBook(b, auto_prune, surplus)
      /\ Shown(book[side].levels, <<>>, old) => Shown(b[side].levels, ls, old)
      /\ AllShown(book[side].levels, <<>>, old) /\ NoCut(book, m) => AllShown(b[side].levels, ls, old)
  BY <1>1, <1>3, <1>8, MessageFacts
<1>10. \A p, x : IsLatest(<<>>, p, x, x)
  <2>1. \A i \in 1..Len(<<>>) : FALSE OBVIOUS
  <2> QED BY <2>1 DEF IsLatest
<1>11. Shown(book[side].levels, <<>>, old) BY <1>10 DEF Shown
<1>12. PICK f : f = b[side].levels OBVIOUS
<1>13. f \in LevelMaps BY <1>9, <1>12 DEF KeptBook, BookSides
<1>14. DOMAIN f \subseteq Int BY <1>13, LevelMapFacts
<1>15. Len(ls) \in Nat BY <1>4
<1>16. ASSUME NEW p \in DOMAIN f PROVE f[p] = QtyAt(real, p)
  <2>1. IsLatest(ls, p, QtyAt(old, p), f[p]) BY <1>9, <1>11, <1>12 DEF Shown
  <2>2. IsLatest(ls, p, QtyAt(old, p), QtyAt(real, p)) BY <1>7, <1>14
  <2> QED BY <1>15, <2>1, <2>2, LatestUnique
<1>17. ASSUME DOMAIN old \subseteq DOMAIN book[side].levels, ~Overflows(m), NEW p \in DOMAIN real
       PROVE  p \in DOMAIN f
  <2>1. \A r \in Int : QtyAt(book[side].levels, r) = QtyAt(old, r) BY <1>17 DEF QtyAt
  <2>2. AllShown(book[side].levels, <<>>, old) BY <1>10, <2>1 DEF AllShown
  <2>3. NoCut(book, m)
    <3>1. DOMAIN m = 1..Len(m) BY <1>1
    <3> QED BY <1>17, <3>1 DEF NoCut, Overflows
  <2>4. real \in LevelMaps /\ real[p] > 0 BY <1>7 DEF Traded
  <2>5. p \in Int BY <2>4, LevelMapFacts
  <2>6. IsLatest(ls, p, QtyAt(old, p), QtyAt(f, p)) BY <1>9, <1>12, <2>2, <2>3, <2>5 DEF AllShown
  <2>7. IsLatest(ls, p, QtyAt(old, p), QtyAt(real, p)) BY <1>7, <2>5
  <2>8. QtyAt(f, p) = QtyAt(real, p) BY <1>15, <2>6, <2>7, LatestUnique
  <2>9. QtyAt(real, p) > 0 BY <2>4 DEF QtyAt
  <2>10. CASE p \in DOMAIN f BY <2>10
  <2>11. CASE p \notin DOMAIN f
    <3>1. QtyAt(f, p) = 0 BY <2>11 DEF QtyAt
    <3> QED BY <2>8, <2>9, <3>1
  <2> QED BY <2>10, <2>11
<1> QED BY <1>3, <1>6, <1>8, <1>12, <1>16, <1>17

\* The book is kept and follows the exchange.
BookInv ==
  /\ FeedInv
  /\ auto_prune \in BOOLEAN /\ clean \in BOOLEAN /\ truncated \in BOOLEAN
  /\ surplus \in [Sides -> Nat]
  /\ KeptBook(book, auto_prune, surplus)
  /\ MarketFollows
  /\ TrackerBehind
  /\ InSync

\* A kept book is what BookSound says.
LEMMA KeptSound ==
  ASSUME BookInv
  PROVE  BookSound
<1>1. DOMAIN market = 0..Len(sent) BY DEF BookInv, FeedInv, Numbered
<1>2. ASSUME NEW side \in Sides
      PROVE  LET s == book[side]
             IN  /\ s.total \in Nat
                 /\ \A p \in DOMAIN s.levels : p \in Int /\ s.levels[p] \in Nat
                 /\ s.best \in {None} \cup [price : Int, qty : Nat]
                 /\ s.total = SumOver(s.levels, DOMAIN s.levels) + surplus[side]
                 /\ Cardinality(DOMAIN s.levels) <= MaxLevels
                 /\ (s.best = None) <=> (DOMAIN s.levels = {})
                 /\ \A p \in DOMAIN s.levels :
                      /\ p = s.best.price \/ Better(side, s.best.price, p)
                      /\ p = s.best.price => s.levels[p] = s.best.qty
                      /\ auto_prune => s.levels[p] > 0
  <2>1. PICK s : s = book[side] OBVIOUS
  <2>0. PICK over \in Nat : over = surplus[side] BY DEF BookInv
  <2>2. Kept(side, s, auto_prune, over) BY <2>0, <2>1 DEF BookInv, KeptBook
  <2>3. Stocked(s, auto_prune, over) /\ Cardinality(DOMAIN s.levels) <= MaxLevels /\ IsBest(side, s, s.best)
    BY <2>2 DEF Kept
  <2>4. PICK f : f = s.levels OBVIOUS
  <2>5. f \in LevelMaps /\ s.total = SumOver(f, DOMAIN f) + over /\ \A p \in DOMAIN f : f[p] \in Nat
    BY <2>3, <2>4 DEF Stocked, BookSides
  <2>6. auto_prune => \A p \in DOMAIN f : f[p] > 0 BY <2>3, <2>4 DEF Stocked
  <2>7. IsFiniteSet(DOMAIN f) /\ \A p \in DOMAIN f : p \in Int /\ f[p] \in Int
    BY <2>5, LevelMapFacts
  <2>8. s.total \in Nat
    <3>1. PICK sum \in Nat : sum = SumOver(f, DOMAIN f) BY <2>5, <2>7, SumType
    <3> QED BY <2>5, <3>1
  <2>9. PICK best : best = s.best OBVIOUS
  <2>10. CASE DOMAIN f = {}
    <3>1. best = None BY <2>3, <2>4, <2>9, <2>10 DEF IsBest
    <3> QED BY <2>0, <2>1, <2>3, <2>4, <2>5, <2>8, <2>9, <2>10, <3>1
  <2>11. CASE DOMAIN f # {}
    <3>1. PICK p \in DOMAIN f : /\ best = [price |-> p, qty |-> f[p]]
                                /\ \A q \in DOMAIN f : q # p => Better(side, p, q)
      BY <2>3, <2>4, <2>9, <2>11 DEF IsBest
    <3>2. best \in [price : Int, qty : Nat] /\ best.price = p /\ best.qty = f[p]
      BY <2>5, <2>7, <3>1
    <3>3. best # None BY <3>2, OrderBookAssumption
    <3>4. \A q \in DOMAIN f : /\ q = best.price \/ Better(side, best.price, q)
                              /\ q = best.price => f[q] = best.qty
      BY <3>1, <3>2
    <3> QED BY <2>0, <2>1, <2>3, <2>4, <2>5, <2>6, <2>7, <2>8, <2>9, <2>11, <3>2, <3>3, <3>4
  <2> QED BY <2>10, <2>11
<1>3. FeedTypeOK BY <1>1, <1>2 DEF FeedTypeOK, BookInv
<1>4. BookConsistent BY <1>2 DEF BookConsistent, SumOver
<1> QED BY <1>3, <1>4 DEF BookSound

\* The book is kept by every step.
LEMMA BookStep ==
  ASSUME BookInv, [FeedNext]_feedVars
  PROVE  /\ KeptBook(book', auto_prune, surplus') /\ auto_prune' = auto_prune
         /\ surplus' \in [Sides -> Nat]
<1> DEFINE Goal == /\ KeptBook(book', auto_prune, surplus') /\ auto_prune' = auto_prune
                   /\ surplus' \in [Sides -> Nat]
<1>1. /\ sent \in Seq(Messages) /\ DOMAIN market = 0..Len(sent)
      /\ KeptBook(book, auto_prune, surplus) /\ surplus \in [Sides -> Nat]
      /\ \A n \in 0..Len(sent) : \A side \in Sides : Traded(market[n][side])
  BY DEF BookInv, FeedInv, Numbered, MarketFollows
<1>0. surplus \in [Sides -> Int] BY <1>1
<1>2. ASSUME book' = book, auto_prune' = auto_prune, surplus' = surplus PROVE Goal BY <1>1, <1>2
<1>3. ASSUME NEW n \in DOMAIN sent, ProcessApplied(n) PROVE Goal
  <2>1. PICK m \in Messages : m = sent[n] BY <1>1
  <2>2. /\ ValidUpdates(m) /\ book' = BooksAfter(book, m)[Len(m)]
        /\ auto_prune' = auto_prune /\ surplus' = surplus
    BY <1>3, <2>1 DEF ProcessApplied, apply_delta
  <2>3. m \in Seq(UpdatesOf(Quote)) BY <2>2, ValidMessage
  <2>4. "bid" \in Sides BY DEF Sides
  <2>5. KeptBook(BooksAfter(book, m)[Len(m)], auto_prune, surplus)
    BY <1>0, <1>1, <2>3, <2>4, MessageFacts
  <2> QED BY <1>1, <2>2, <2>5
<1>4. ASSUME NEW bids \in Seq(Quote), NEW asks \in Seq(Quote), apply_snapshot(bids, asks)
      PROVE  Goal
  <2>1. PICK b, a : b = SnapshotSide("bid", bids) /\ a = SnapshotSide("ask", asks) OBVIOUS
  <2>2. PICK x \in Nat, y \in Nat : x = CountedTwice(bids) /\ y = CountedTwice(asks)
    BY SnapshotKept
  <2>3. /\ book' = [bid |-> b, ask |-> a] /\ auto_prune' = auto_prune
        /\ surplus' = [bid |-> x, ask |-> y]
    BY <1>4, <2>1, <2>2 DEF apply_snapshot
  <2>4. Kept("bid", b, auto_prune, x) BY <2>1, <2>2, SnapshotKept
  <2>5. Kept("ask", a, auto_prune, y) BY <2>1, <2>2, SnapshotKept
  <2>6. b \in BookSides /\ a \in BookSides BY <2>4, <2>5 DEF Kept, Stocked
  <2>7. book' \in [Sides -> BookSides] /\ book'["bid"] = b /\ book'["ask"] = a
    BY <2>3, <2>6 DEF Sides
  <2>8. surplus' \in [Sides -> Nat] /\ surplus'["bid"] = x /\ surplus'["ask"] = y
    BY <2>3 DEF Sides
  <2>9. KeptBook(book', auto_prune, surplus') BY <2>4, <2>5, <2>7, <2>8 DEF KeptBook, Sides
  <2> QED BY <2>3, <2>8, <2>9
<1>8. ASSUME NEW n \in DOMAIN market, Resync(n) PROVE Goal
  <2>1. apply_snapshot(Listed("bid", market[n]["bid"]), Listed("ask", market[n]["ask"]))
    BY <1>8 DEF Resync
  <2>2. Traded(market[n]["bid"]) /\ Traded(market[n]["ask"]) BY <1>1 DEF Sides
  <2>3. Listed("bid", market[n]["bid"]) \in Seq(Quote) /\ Listed("ask", market[n]["ask"]) \in Seq(Quote)
    BY <2>2, ListedFacts
  <2> QED BY <1>4, <2>1, <2>3
<1>9. ASSUME NEW snapshot \in Snapshots, PlainSnapshot(snapshot) PROVE Goal
  <2>1. apply_snapshot(snapshot.bids, snapshot.asks) BY <1>9 DEF PlainSnapshot
  <2>2. snapshot.bids \in Seq(Quote) /\ snapshot.asks \in Seq(Quote)
    BY SnapshotAssumption DEF Quote
  <2> QED BY <1>4, <2>1, <2>2
<1>5. ASSUME ClearBook PROVE Goal
  <2>1. book' = EmptyBook /\ surplus' = NoSurplus /\ auto_prune' = auto_prune
    BY <1>5 DEF ClearBook, clear
  <2>2. \A side \in Sides : Kept(side, EmptySide, auto_prune, 0) BY EmptyKept
  <2>3. EmptySide \in BookSides BY <2>2 DEF Kept, Stocked, Sides
  <2>4. surplus' \in [Sides -> Nat] /\ \A side \in Sides : surplus'[side] = 0
    BY <2>1 DEF NoSurplus
  <2> QED BY <2>1, <2>2, <2>3, <2>4 DEF EmptyBook, KeptBook
<1>6. ASSUME NEW side \in Sides, NEW p \in DOMAIN book[side].levels, RemoveLevel(side, p)
      PROVE  Goal
  <2>1. PICK s \in BookSides : s = book[side] BY <1>1 DEF KeptBook
  <2>0. PICK over \in Nat : over = surplus[side] BY <1>1
  <2>2. Stocked(s, auto_prune, over) /\ Cardinality(DOMAIN s.levels) <= MaxLevels
    BY <1>1, <2>0, <2>1 DEF KeptBook, Kept
  <2>3. PICK f \in LevelMaps, n \in Int : f = s.levels /\ n = s.total BY DEF BookSides
  <2>4. p \in DOMAIN f /\ p \in Int /\ QtyAt(f, p) \in Int BY <2>1, <2>3, LevelMapFacts
  <2>5. PICK g : g = WithoutLevel(f, p) OBVIOUS
  <2>6. PICK m \in Int : m = n - QtyAt(f, p) BY <2>4
  <2>7. /\ g \in LevelMaps /\ DOMAIN g = DOMAIN f \ {p} /\ \A r \in DOMAIN f \ {p} : g[r] = f[r]
        /\ SumOver(g, DOMAIN f \ {p}) = SumOver(f, DOMAIN f) - QtyAt(f, p)
    BY <2>4, <2>5, TakenOut
  <2>8. PICK t : t = [levels |-> g, total |-> m, best |-> s.best] OBVIOUS
  <2>9. t \in BookSides /\ t.levels = g /\ t.total = m BY <2>7, <2>8 DEF BookSides
  <2>10. n = SumOver(f, DOMAIN f) + over /\ \A r \in DOMAIN f : f[r] \in Nat BY <2>2, <2>3 DEF Stocked
  <2>11. auto_prune => \A r \in DOMAIN f : f[r] > 0 BY <2>2, <2>3 DEF Stocked
  <2>12. m = SumOver(g, DOMAIN g) + over
    <3>1. PICK sum \in Int : sum = SumOver(f, DOMAIN f)
      <4>1. IsFiniteSet(DOMAIN f) /\ \A r \in DOMAIN f : f[r] \in Int BY LevelMapFacts
      <4> QED BY <4>1, SumType
    <3>2. PICK old \in Int : old = QtyAt(f, p) BY <2>4
    <3>3. n = sum + over BY <2>10, <3>1
    <3>4. SumOver(g, DOMAIN g) = sum - old BY <2>7, <3>1, <3>2
    <3>5. m = (sum - old) + over BY <2>6, <3>2, <3>3
    <3> QED BY <3>4, <3>5
  <2>13. \A r \in DOMAIN g : g[r] \in Nat /\ g[r] = f[r] /\ r \in DOMAIN f BY <2>7, <2>10
  <2>14. auto_prune => \A r \in DOMAIN g : g[r] > 0 BY <2>11, <2>13
  <2>15. Stocked(t, auto_prune, over) BY <2>9, <2>12, <2>13, <2>14 DEF Stocked
  <2>16. Cardinality(DOMAIN g) <= MaxLevels
    <3>1. IsFiniteSet(DOMAIN f) /\ DOMAIN g \subseteq DOMAIN f BY <2>7, LevelMapFacts
    <3>2. Cardinality(DOMAIN g) <= Cardinality(DOMAIN f) BY <3>1, FS_Subset
    <3>3. Cardinality(DOMAIN g) \in Nat /\ Cardinality(DOMAIN f) \in Nat
      BY <3>1, FS_Subset, FS_CardinalityType
    <3>4. MaxLevels \in Nat BY OrderBookAssumption
    <3> QED BY <2>2, <2>3, <3>2, <3>3, <3>4
  <2>17. PICK u : u = UpdateBest(side, t) OBVIOUS
  <2>18. Kept(side, u, auto_prune, over) BY <2>9, <2>15, <2>16, <2>17, BestKept
  <2>19. u \in BookSides BY <2>18 DEF Kept, Stocked
  <2>20. book' = [book EXCEPT ![side] = u] /\ auto_prune' = auto_prune /\ surplus' = surplus
    BY <1>6, <2>1, <2>3, <2>5, <2>6, <2>8, <2>17 DEF RemoveLevel, remove_level
  <2>21. book \in [Sides -> BookSides] /\ \A w \in Sides : Kept(w, book[w], auto_prune, surplus[w])
    BY <1>1 DEF KeptBook
  <2>22. /\ book' \in [Sides -> BookSides] /\ book'[side] = u
         /\ \A w \in Sides : w # side => book'[w] = book[w]
    BY <2>19, <2>20, <2>21
  <2>23. KeptBook(book', auto_prune, surplus) BY <2>0, <2>18, <2>21, <2>22 DEF KeptBook
  <2> QED BY <1>1, <2>20, <2>23
<1>7. CASE \/ \E updates \in Messages : Publish(updates)
           \/ \E n \in DOMAIN sent : ProcessGap(n) \/ ProcessInvalid(n)
           \/ Reset
           \/ UNCHANGED feedVars
  <2>1. book' = book /\ auto_prune' = auto_prune /\ surplus' = surplus
    BY <1>7 DEF Publish, ProcessGap, ProcessInvalid, Reset, feedVars, bookVars
  <2> QED BY <1>2, <2>1
<1> QED BY <1>3, <1>5, <1>6, <1>7, <1>8, <1>9 DEF FeedNext

\* What a step may change without the book ceasing to be in sync.
LEMMA SyncKept ==
  ASSUME InSync, TrackerBehind,
         clean' => clean /\ book' = book /\ tracker' = tracker /\ truncated' = truncated,
         \A n \in 0..Len(sent) : market'[n] = market[n]
  PROVE  InSync'
<1> SUFFICES ASSUME clean', tracker'.state = "Normal", NEW side \in Sides
             PROVE  LET shown == book'[side].levels
                        real == market'[tracker'.last][side]
                    IN  /\ \A p \in DOMAIN shown : shown[p] = QtyAt(real, p)
                        /\ ~truncated' => DOMAIN real \subseteq DOMAIN shown
  BY DEF InSync
<1>1. clean /\ book' = book /\ tracker' = tracker /\ truncated' = truncated OBVIOUS
<1>2. tracker.state = "Normal" /\ tracker.last \in 0..Len(sent) BY <1>1 DEF TrackerBehind
<1>3. market'[tracker'.last] = market[tracker.last] BY <1>1, <1>2
<1>4. LET shown == book[side].levels
          real == market[tracker.last][side]
      IN  /\ \A p \in DOMAIN shown : shown[p] = QtyAt(real, p)
          /\ ~truncated => DOMAIN real \subseteq DOMAIN shown
  BY <1>1, <1>2 DEF InSync
<1> QED BY <1>1, <1>3, <1>4

\* A message in order keeps the book in sync.
LEMMA AppliedSync ==
  ASSUME BookInv, NEW n \in DOMAIN sent, ProcessApplied(n)
  PROVE  InSync'
<1> SUFFICES ASSUME clean', tracker'.state = "Normal", NEW side \in Sides
             PROVE  LET shown == book'[side].levels
                        real == market'[tracker'.last][side]
                    IN  /\ \A p \in DOMAIN shown : shown[p] = QtyAt(real, p)
                        /\ ~truncated' => DOMAIN real \subseteq DOMAIN shown
  BY DEF InSync
<1>1. /\ sent \in Seq(Messages) /\ TrackerConsistent /\ KeptBook(book, auto_prune, surplus)
      /\ TrackerBehind /\ InSync /\ MarketFollows /\ surplus \in [Sides -> Nat]
  BY DEF BookInv, FeedInv, Numbered
<1>0. surplus \in [Sides -> Int] BY <1>1
<1>2. n \in 1..Len(sent) /\ n \in Nat /\ n \in 0..Len(sent) /\ n - 1 \in 0..Len(sent) BY <1>1
<1>3. PICK m \in Messages : m = sent[n] BY <1>1
<1>4. /\ ValidUpdates(m) /\ book' = BooksAfter(book, m)[Len(m)] /\ market' = market
      /\ tracker' = Recorded(n)
  BY <1>3 DEF ProcessApplied, apply_delta
<1>5. clean /\ CheckResult(n) = "Ok" BY DEF ProcessApplied
<1>6. tracker.state # "Uninitialized" BY <1>1, <1>5 DEF TrackerBehind
<1>7. tracker.last \in Nat /\ n = tracker.last + 1
  BY <1>1, <1>2, <1>5, <1>6 DEF CheckResult, TrackerConsistent
<1>8. tracker' = [state |-> tracker.state, last |-> n, expected |-> n + 1, gaps |-> tracker.gaps]
  BY <1>4, <1>5, <1>6 DEF Recorded, Advance
<1>9. tracker.state = "Normal" /\ tracker'.last = n BY <1>8
<1>10. PICK old, real : old = market[n - 1][side] /\ real = market[n][side] OBVIOUS
<1>11. tracker.last = n - 1 BY <1>7
<1>12. /\ \A p \in DOMAIN book[side].levels : book[side].levels[p] = QtyAt(old, p)
       /\ ~truncated => DOMAIN old \subseteq DOMAIN book[side].levels
  BY <1>1, <1>5, <1>9, <1>10, <1>11 DEF InSync
<1>13. Traded(old) BY <1>1, <1>2, <1>10 DEF MarketFollows
<1>14. real = MarketSide(old, LevelsFor(m, side)[Len(m)]) BY <1>1, <1>2, <1>3, <1>10 DEF MarketFollows
<1>15. PICK shown : shown = book'[side].levels OBVIOUS
<1>16. /\ \A p \in DOMAIN shown : shown[p] = QtyAt(real, p)
       /\ DOMAIN old \subseteq DOMAIN book[side].levels /\ ~Overflows(m) =>
            DOMAIN real \subseteq DOMAIN shown
  BY <1>0, <1>1, <1>4, <1>12, <1>13, <1>14, <1>15, SideFollows
<1>17. truncated' = (truncated \/ Overflows(m)) BY <1>3 DEF ProcessApplied
<1>18. ~truncated' => ~truncated /\ ~Overflows(m) BY <1>17
<1>19. ~truncated' => DOMAIN real \subseteq DOMAIN shown BY <1>12, <1>16, <1>18
<1>20. market'[tracker'.last][side] = real BY <1>4, <1>9, <1>10
<1> QED BY <1>15, <1>16, <1>19, <1>20

\* A snapshot brings the book in sync.
LEMMA ResyncSync ==
  ASSUME BookInv, NEW n \in DOMAIN market, Resync(n)
  PROVE  InSync'
<1>1. /\ DOMAIN market = 0..Len(sent)
      /\ \A i \in 0..Len(sent) : \A side \in Sides : Traded(market[i][side])
  BY DEF BookInv, FeedInv, Numbered, MarketFollows
<1>2. PICK x, y : x = market[n]["bid"] /\ y = market[n]["ask"] OBVIOUS
<1>3. Traded(x) /\ Traded(y) BY <1>1, <1>2 DEF Sides
<1>4. PICK b, a : b = SnapshotSide("bid", Listed("bid", x)) /\ a = SnapshotSide("ask", Listed("ask", y))
  OBVIOUS
<1>5. /\ book' = [bid |-> b, ask |-> a] /\ tracker' = At(n) /\ market' = market
      /\ truncated' = (Len(Listed("bid", x)) > MaxLevels \/ Len(Listed("ask", y)) > MaxLevels)
  BY <1>2, <1>4 DEF Resync, apply_snapshot
<1>6. book'["bid"] = b /\ book'["ask"] = a /\ tracker'.last = n BY <1>5 DEF At
<1>7. /\ DOMAIN b.levels \subseteq DOMAIN x /\ \A p \in DOMAIN b.levels : b.levels[p] = x[p]
      /\ Len(Listed("bid", x)) <= MaxLevels => DOMAIN x \subseteq DOMAIN b.levels
  BY <1>3, <1>4, SnapshotFacts
<1>8. /\ DOMAIN a.levels \subseteq DOMAIN y /\ \A p \in DOMAIN a.levels : a.levels[p] = y[p]
      /\ Len(Listed("ask", y)) <= MaxLevels => DOMAIN y \subseteq DOMAIN a.levels
  BY <1>3, <1>4, SnapshotFacts
<1>9. Len(Listed("bid", x)) \in Nat /\ Len(Listed("ask", y)) \in Nat /\ MaxLevels \in Nat
  <2>1. Listed("bid", x) \in Seq(Quote) /\ Listed("ask", y) \in Seq(Quote) BY <1>3, ListedFacts
  <2> QED BY <2>1, OrderBookAssumption
<1>10. ~truncated' => Len(Listed("bid", x)) <= MaxLevels /\ Len(Listed("ask", y)) <= MaxLevels
  <2>1. ~truncated' => ~(Len(Listed("bid", x)) > MaxLevels) /\ ~(Len(Listed("ask", y)) > MaxLevels)
    BY <1>5
  <2> QED BY <1>9, <2>1
<1>11. /\ \A p \in DOMAIN b.levels : b.levels[p] = QtyAt(x, p)
       /\ \A p \in DOMAIN a.levels : a.levels[p] = QtyAt(y, p)
  BY <1>7, <1>8 DEF QtyAt
<1>12. market'[tracker'.last]["bid"] = x /\ market'[tracker'.last]["ask"] = y BY <1>2, <1>5, <1>6
<1>13. \A side \in Sides :
         LET shown == book'[side].levels
             real == market'[tracker'.last][side]
         IN  /\ \A p \in DOMAIN shown : shown[p] = QtyAt(real, p)
             /\ ~truncated' => DOMAIN real \subseteq DOMAIN shown
  BY <1>6, <1>7, <1>8, <1>10, <1>11, <1>12 DEF Sides
<1> QED BY <1>13 DEF InSync

\* An empty book and a fresh tracker.
LEMMA BookInvInit == FeedInit => BookInv
<1> SUFFICES ASSUME FeedInit PROVE BookInv OBVIOUS
<1>1. FeedInv BY FeedInvInit
<1>2. /\ auto_prune \in BOOLEAN /\ clean = FALSE /\ truncated = FALSE /\ tracker = Fresh
      /\ sent = <<>> /\ market = [n \in {0} |-> [side \in Sides |-> EmptySide.levels]]
      /\ book = EmptyBook /\ surplus = NoSurplus
  BY DEF FeedInit, OrderBookInit
<1>3. \A side \in Sides : Kept(side, EmptySide, auto_prune, 0) /\ Traded(EmptySide.levels)
  BY EmptyKept
<1>4. EmptySide \in BookSides BY <1>3 DEF Kept, Stocked, Sides
<1>11. surplus \in [Sides -> Nat] /\ \A side \in Sides : surplus[side] = 0 BY <1>2 DEF NoSurplus
<1>5. KeptBook(book, auto_prune, surplus) BY <1>2, <1>3, <1>4, <1>11 DEF EmptyBook, KeptBook
<1>6. 0..Len(sent) = {0} /\ 1..Len(sent) = {} BY <1>2
<1>7. MarketFollows BY <1>2, <1>3, <1>6 DEF MarketFollows
<1>8. tracker.state = "Uninitialized" BY <1>2 DEF Fresh
<1>9. TrackerBehind BY <1>2, <1>8 DEF TrackerBehind
<1>10. InSync BY <1>2 DEF InSync
<1> QED BY <1>1, <1>2, <1>5, <1>7, <1>9, <1>10, <1>11 DEF BookInv

\* Every step of the feed keeps the book and follows the exchange.
LEMMA BookInvStep == BookInv /\ [FeedNext]_feedVars => BookInv'
<1> SUFFICES ASSUME BookInv, [FeedNext]_feedVars PROVE BookInv' OBVIOUS
<1>1. FeedInv' BY FeedInvStep DEF BookInv
<1>2. /\ KeptBook(book', auto_prune, surplus') /\ auto_prune' = auto_prune
      /\ surplus' \in [Sides -> Nat]
  BY BookStep
<1>3. KeptBook(book, auto_prune, surplus)' BY <1>2
<1>4. /\ auto_prune \in BOOLEAN /\ clean \in BOOLEAN /\ truncated \in BOOLEAN
      /\ MarketFollows /\ TrackerBehind /\ InSync
      /\ sent \in Seq(Messages) /\ DOMAIN market = 0..Len(sent) /\ Numbered
  BY DEF BookInv, FeedInv, Numbered
<1>5. Len(sent) \in Nat /\ DOMAIN sent = 1..Len(sent) BY <1>4
<1> SUFFICES clean' \in BOOLEAN /\ truncated' \in BOOLEAN /\ MarketFollows' /\ TrackerBehind' /\ InSync'
  BY <1>1, <1>2, <1>3, <1>4 DEF BookInv
<1>6. ASSUME sent' = sent, market' = market
      PROVE  MarketFollows' /\ \A n \in 0..Len(sent) : market'[n] = market[n]
  BY <1>4, <1>6 DEF MarketFollows
<1>7. ASSUME NEW updates \in Messages, Publish(updates)
      PROVE  clean' \in BOOLEAN /\ truncated' \in BOOLEAN /\ MarketFollows' /\ TrackerBehind' /\ InSync'
  <2>1. /\ book' = book /\ tracker' = tracker /\ clean' = clean /\ truncated' = truncated
        /\ sent' = Append(sent, updates)
    BY <1>7 DEF Publish, bookVars
  <2>2. MarketFollows' /\ \A n \in 0..Len(sent) : market'[n] = market[n]
    BY <1>4, <1>7, PublishMarket
  <2>3. Len(sent') = Len(sent) + 1 BY <1>4, <2>1
  <2>4. TrackerBehind' BY <1>4, <1>5, <2>1, <2>3 DEF TrackerBehind
  <2>5. InSync' BY <1>4, <2>1, <2>2, SyncKept
  <2> QED BY <1>4, <2>1, <2>2, <2>4, <2>5
<1>8. ASSUME NEW n \in DOMAIN sent, ProcessGap(n) \/ ProcessInvalid(n) \/ ProcessApplied(n)
      PROVE  clean' \in BOOLEAN /\ truncated' \in BOOLEAN /\ MarketFollows' /\ TrackerBehind' /\ InSync'
  <2>1. tracker' = Recorded(n) /\ sent' = sent /\ market' = market
    BY <1>8 DEF ProcessGap, ProcessInvalid, ProcessApplied
  <2>2. MarketFollows' /\ \A i \in 0..Len(sent) : market'[i] = market[i] BY <1>6, <2>1
  <2>3. n \in 0..Len(sent) BY <1>5
  <2>4. /\ tracker'.state # "Uninitialized" => tracker'.last \in 0..Len(sent)
        /\ tracker.state # "Uninitialized" => tracker'.state # "Uninitialized"
    <3>1. CASE CheckResult(n) = "Ok"
      <4>1. tracker' = [state |-> IF tracker.state = "Uninitialized" THEN "Normal" ELSE tracker.state,
                        last |-> n, expected |-> n + 1, gaps |-> tracker.gaps]
        BY <2>1, <3>1 DEF Recorded, Advance
      <4> QED BY <2>3, <4>1
    <3>2. CASE CheckResult(n) = "Gap"
      <4>1. tracker' = Skip(n) BY <2>1, <3>2 DEF Recorded
      <4>2. tracker'.last = n /\ tracker'.state = "GapDetected" BY <4>1 DEF Skip
      <4> QED BY <2>3, <4>2
    <3>3. CASE CheckResult(n) \notin {"Ok", "Gap"}
      <4>1. tracker' = tracker BY <2>1, <3>3 DEF Recorded
      <4> QED BY <1>4, <4>1 DEF TrackerBehind
    <3> QED BY <3>1, <3>2, <3>3
  <2>5. clean' => clean BY <1>8 DEF ProcessGap, ProcessInvalid, ProcessApplied
  <2>6. TrackerBehind' BY <1>4, <2>1, <2>4, <2>5 DEF TrackerBehind
  <2>7. clean' \in BOOLEAN /\ truncated' \in BOOLEAN
    BY <1>4, <1>8 DEF ProcessGap, ProcessInvalid, ProcessApplied
  <2>8. InSync'
    <3>1. CASE ProcessGap(n)
      <4>1. CheckResult(n) = "Gap" BY <3>1 DEF ProcessGap
      <4>2. tracker' = Skip(n) BY <2>1, <4>1 DEF Recorded
      <4>3. tracker'.state = "GapDetected" BY <4>2 DEF Skip
      <4> QED BY <4>3 DEF InSync
    <3>2. CASE ProcessInvalid(n)
      <4>1. clean' => clean /\ CheckResult(n) # "Ok" BY <3>2 DEF ProcessInvalid
      <4>2. CheckResult(n) # "Gap" /\ book' = book /\ truncated' = truncated
        BY <3>2 DEF ProcessInvalid, bookVars
      <4>3. clean' => tracker' = tracker BY <2>1, <4>1, <4>2 DEF Recorded
      <4>4. clean' => clean /\ book' = book /\ tracker' = tracker /\ truncated' = truncated
        BY <4>1, <4>2, <4>3
      <4> QED BY <1>4, <2>2, <4>4, SyncKept
    <3>3. CASE ProcessApplied(n) BY <3>3, AppliedSync
    <3> QED BY <1>8, <3>1, <3>2, <3>3
  <2> QED BY <2>2, <2>6, <2>7, <2>8
<1>9. ASSUME NEW n \in DOMAIN market, Resync(n)
      PROVE  clean' \in BOOLEAN /\ truncated' \in BOOLEAN /\ MarketFollows' /\ TrackerBehind' /\ InSync'
  <2>1. /\ tracker' = At(n) /\ sent' = sent /\ market' = market /\ clean' = TRUE
        /\ truncated' \in BOOLEAN
    BY <1>9 DEF Resync
  <2>2. tracker'.state = "Normal" /\ tracker'.last = n BY <2>1 DEF At
  <2>3. TrackerBehind' BY <1>4, <2>1, <2>2 DEF TrackerBehind
  <2>4. InSync' BY <1>9, ResyncSync
  <2> QED BY <1>6, <2>1, <2>3, <2>4
<1>10. ASSUME \/ \E snapshot \in Snapshots : PlainSnapshot(snapshot)
              \/ Reset \/ ClearBook
              \/ \E side \in Sides : \E p \in DOMAIN book[side].levels : RemoveLevel(side, p)
       PROVE  clean' \in BOOLEAN /\ truncated' \in BOOLEAN /\ MarketFollows' /\ TrackerBehind' /\ InSync'
  <2>1. /\ sent' = sent /\ market' = market /\ clean' = FALSE /\ truncated' = truncated
        /\ tracker' = tracker \/ tracker' = Fresh
    BY <1>10 DEF PlainSnapshot, Reset, ClearBook, RemoveLevel
  <2>2. TrackerBehind' BY <1>4, <2>1 DEF TrackerBehind, Fresh
  <2>3. InSync' BY <2>1 DEF InSync
  <2> QED BY <1>4, <1>6, <2>1, <2>2, <2>3
<1>11. ASSUME UNCHANGED feedVars
       PROVE  clean' \in BOOLEAN /\ truncated' \in BOOLEAN /\ MarketFollows' /\ TrackerBehind' /\ InSync'
  <2>1. /\ sent' = sent /\ market' = market /\ clean' = clean /\ truncated' = truncated
        /\ tracker' = tracker /\ book' = book
    BY <1>11 DEF feedVars, bookVars
  <2>2. TrackerBehind' BY <1>4, <2>1 DEF TrackerBehind
  <2>3. InSync' BY <1>4, <1>6, <2>1, SyncKept
  <2> QED BY <1>4, <1>6, <2>1, <2>2, <2>3
<1> QED BY <1>7, <1>8, <1>9, <1>10, <1>11 DEF FeedNext

\* Whatever messages arrive, however often and in whatever order, and whoever
\* else changes the book, with snapshots of any levels too: the cached best
\* levels of OrderBook are those of its levels, a side never exceeds max_levels,
\* with auto_prune no level of quantity zero stays, and the cached totals are
\* the sums of the levels and of what the last snapshot gave for a price before
\* it gave that price again, which apply_snapshot leaves in the total.
THEOREM BookAlwaysSound == FeedSpec => []BookSound
<1>1. BookInv => BookSound BY KeptSound
<1> QED BY <1>1, BookInvInit, BookInvStep, PTL DEF FeedSpec

\* After a snapshot, and until the tracker reports a gap or somebody refuses an
\* update or touches the book, every level DeltaProcessor's book shows is the
\* exchange's as of last_sequence, and none is missing unless max_levels has
\* cut: a lost, late or repeated message is never passed over unnoticed.
THEOREM BookAlwaysInSync == FeedSpec => []InSync
<1>1. BookInv => InSync BY DEF BookInv
<1> QED BY <1>1, BookInvInit, BookInvStep, PTL DEF FeedSpec

=============================================================================
