------------------------------ MODULE BookFeed ------------------------------
(***************************************************************************)
(* An order book that follows an exchange: DeltaProcessor, DeltaValidator  *)
(* and SequenceTracker (flash/src/book/delta.rs) and                       *)
(* SnapshotProcessor::apply_with_validation (snapshot.rs) on an OrderBook. *)
(*                                                                         *)
(* The exchange numbers its messages; message n may reach the processor at *)
(* any time after it was sent, again and again, or never.  market[n] is    *)
(* the exchange's own book after message n.  The caller may resynchronise  *)
(* from a snapshot of any age, reset the processor, or change the book     *)
(* behind its back.                                                        *)
(***************************************************************************)
EXTENDS OrderBook

-----------------------------------------------------------------------------
(***************************************************************************)
(* SequenceTracker, as DeltaProcessor uses it: the sequence numbers seen,  *)
(* the gaps noticed, and whether a snapshot is needed.  start_recovery and *)
(* complete_recovery are not reachable through DeltaProcessor, which keeps *)
(* its tracker private; neither is the state Recovering.  reorder_window   *)
(* and recovery_timeout_us are never read.                                 *)
(***************************************************************************)

CONSTANTS MaxGaps,       \* SequenceConfig::max_gaps
          NoSequence     \* Option::None for a sequence number

ASSUME TrackerAssumption == MaxGaps \in Nat /\ NoSequence \notin Nat

VARIABLE tracker

TrackerStates == {"Uninitialized", "Normal", "GapDetected"}

\* new() and reset().
Fresh == [state |-> "Uninitialized", last |-> NoSequence,
          expected |-> NoSequence, gaps |-> <<>>]

\* Mutant: reset_with_sequence does not clear the gaps.
AtKeepsGaps(n) ==
  [state |-> "Normal", last |-> n, expected |-> n + 1, gaps |-> tracker.gaps]

\* reset_with_sequence(n).
At(n) == [state |-> "Normal", last |-> n, expected |-> n + 1, gaps |-> <<>>]

\* What record answers for sequence number n.
CheckResult(n) ==
  IF tracker.state = "Uninitialized" \/ n = tracker.expected THEN "Ok"
  ELSE IF n > tracker.expected THEN "Gap"
  ELSE "OutOfOrder"

\* gaps.remove(0) until at most max_gaps are left.
Trim(gaps) ==
  IF Len(gaps) <= MaxGaps THEN gaps
  ELSE SubSeq(gaps, Len(gaps) - MaxGaps + 1, Len(gaps))

\* record on an expected number, or on the first one.
Advance(n) ==
  [state |-> IF tracker.state = "Uninitialized" THEN "Normal" ELSE tracker.state,
   last |-> n, expected |-> n + 1, gaps |-> tracker.gaps]

\* Mutant: a gap is reported to the caller and not remembered.
SkipQuietly(n) == [tracker EXCEPT !.last = n, !.expected = n + 1]

\* record on a number that is too large.
Skip(n) ==
  [state |-> "GapDetected", last |-> n, expected |-> n + 1,
   gaps |-> Trim(Append(tracker.gaps,
                        [expected |-> tracker.expected, received |-> n]))]

\* record(n): an old number leaves the tracker as it is.
Recorded(n) ==
  IF CheckResult(n) = "Ok" THEN Advance(n)
  ELSE IF CheckResult(n) = "Gap" THEN Skip(n)
  ELSE tracker

\* needs_recovery and DeltaProcessor::needs_snapshot.
NeedsSnapshot == tracker.state = "GapDetected"

-----------------------------------------------------------------------------
\* The tracker's fields agree, after any mix of lost, late and repeated
\* messages and resets: the next expected number follows the last one, a
\* gap is pending exactly while a snapshot is needed (so that
\* create_snapshot_request has one to name, unless max_gaps is zero), and
\* the pending gaps are at most max_gaps disjoint ranges in ascending order,
\* all before the last number.
TrackerConsistent ==
  LET gaps == tracker.gaps
  IN  /\ tracker \in [state : TrackerStates,
                      last : Nat \cup {NoSequence},
                      expected : Nat \cup {NoSequence},
                      gaps : Seq([expected : Nat, received : Nat])]
      /\ tracker.state = "Uninitialized" =>
           tracker.last = NoSequence /\ tracker.expected = NoSequence
      /\ tracker.state # "Uninitialized" =>
           tracker.last \in Nat /\ tracker.expected = tracker.last + 1
      /\ Len(gaps) <= MaxGaps
      /\ MaxGaps > 0 => (gaps # <<>> <=> NeedsSnapshot)
      /\ \A i \in 1..Len(gaps) :
           /\ gaps[i].expected < gaps[i].received
           /\ gaps[i].received <= tracker.last
      /\ \A i, j \in 1..Len(gaps) : i < j => gaps[i].received < gaps[j].expected

-----------------------------------------------------------------------------
(* The feed *)

CONSTANTS Messages,            \* what the exchange may send: sequences of updates
          Snapshots,           \* what PlainSnapshot is called with
          MaxSent,             \* bound on the messages it sends
          MinPrice, MaxPrice,  \* min_price and max_price of both validators
          MaxLevelsPerUpdate   \* DeltaValidationConfig::max_levels_per_update

\* Updates of a side; the exchange may send prices and quantities out of range.
ASSUME MessageAssumption ==
  /\ Messages \subseteq Seq([side : Sides, levels : Seq([price : Int, qty : Int])])
  /\ MinPrice \in Int /\ MaxPrice \in Int

\* Levels in any order, of any price and more than once; no amount is negative.
ASSUME SnapshotAssumption ==
  Snapshots \subseteq [bids : Seq([price : Int, qty : Nat]), asks : Seq([price : Int, qty : Nat])]

VARIABLES sent,       \* the exchange's messages, by sequence number
          market,     \* the exchange's levels per side, from message 0 on
          clean,      \* history: a snapshot was applied, and since then no
                      \* update was refused by the validator or out of order,
                      \* and nobody else changed the book or the tracker
          truncated   \* history: levels were cut off since that snapshot

feedVars == <<bookVars, tracker, sent, market, clean, truncated>>

\* The levels that the first n updates of a message have for a side, in order.
LevelsFor(updates, side) ==
  LET until[n \in 0..Len(updates)] ==
        IF n = 0 THEN <<>>
        ELSE IF updates[n].side = side THEN until[n - 1] \o updates[n].levels
        ELSE until[n - 1]
  IN  until

\* The exchange's levels after a message: at each price the last quantity
\* the message gives, or the old one; a level of quantity zero is gone.
MarketSide(old, ls) ==
  LET mentioned == {ls[i].price : i \in DOMAIN ls}
      last(p) == ls[SelectLastInSeq(ls, LAMBDA l : l.price = p)].qty
      qty(p) == IF p \in mentioned THEN last(p) ELSE QtyAt(old, p)
  IN  [p \in {p \in DOMAIN old \cup mentioned : qty(p) > 0} |-> qty(p)]

\* The levels of a side as an exchange lists them, best first.
Listed(side, levels) ==
  LET order == BestFirst(side, DOMAIN levels)
  IN  [i \in DOMAIN order |-> [price |-> order[i], qty |-> levels[order[i]]]]

-----------------------------------------------------------------------------
\* DeltaValidator::validate and validate_batch; the per-level checks are
\* also those of SnapshotValidator::validate_levels.
ValidLevel(l) == l.price >= MinPrice /\ l.price <= MaxPrice /\ l.qty >= 0

ValidUpdates(updates) ==
  \A u \in ToSet(updates) :
    /\ Len(u.levels) <= MaxLevelsPerUpdate
    /\ \A l \in ToSet(u.levels) : ValidLevel(l)

\* SnapshotValidator::validate with ValidationConfig::default(): levels in
\* range, not crossed, no price twice.
ValidSnapshot(bids, asks) ==
  /\ \A l \in ToSet(bids \o asks) : ValidLevel(l)
  /\ \A b \in ToSet(bids), a \in ToSet(asks) : b.price < a.price
  /\ \A ls \in {bids, asks} : \A i, j \in DOMAIN ls :
       ls[i].price = ls[j].price => i = j

\* Applying the updates cuts levels off at max_levels.
Overflows(updates) ==
  \E k \in DOMAIN updates :
    LET b == BooksAfter(book, updates)[k - 1]
        u == updates[k]
    IN  Excess(u.side, PutAll(b[u.side], u.levels)) # {}

-----------------------------------------------------------------------------
FeedInit ==
  /\ OrderBookInit
  /\ tracker = Fresh
  /\ sent = <<>>
  /\ market = [n \in {0} |-> [side \in Sides |-> EmptySide.levels]]
  /\ clean = FALSE
  /\ truncated = FALSE

\* External: the exchange changes its book and sends the change.
Publish(updates) ==
  /\ Len(sent) < MaxSent
  /\ sent' = Append(sent, updates)
  /\ LET n == Len(sent) + 1
         next == [side \in Sides |->
                    MarketSide(market[n - 1][side], LevelsFor(updates, side)[Len(updates)])]
     IN  market' = [i \in 0..n |-> IF i = n THEN next ELSE market[i]]
  /\ UNCHANGED <<bookVars, tracker, clean, truncated>>

\* process_delta (one update) and process_batch (any number) on message n.
\* A gap is recorded and the message refused.
ProcessGap(n) ==
  /\ CheckResult(n) = "Gap"
  /\ tracker' = Recorded(n)
  /\ UNCHANGED <<bookVars, sent, market, clean, truncated>>

\* The validator refuses the message after its number has been recorded.
ProcessInvalid(n) ==
  /\ CheckResult(n) # "Gap"
  /\ ~ValidUpdates(sent[n])
  /\ tracker' = Recorded(n)
  /\ clean' = (clean /\ CheckResult(n) # "Ok")
  /\ UNCHANGED <<bookVars, sent, market, truncated>>

\* The message is applied, be it in order or out of order.
ProcessApplied(n) ==
  /\ CheckResult(n) # "Gap"
  /\ ValidUpdates(sent[n])
  /\ tracker' = Recorded(n)
  /\ apply_delta(sent[n])
  /\ clean' = (clean /\ CheckResult(n) = "Ok")
  /\ truncated' = (truncated \/ Overflows(sent[n]))
  /\ UNCHANGED <<sent, market>>

\* The caller has got the exchange's book as of message n:
\* apply_with_validation, and reset_with_sequence(n) when that was Ok.
Resync(n) ==
  LET bids == Listed("bid", market[n]["bid"])
      asks == Listed("ask", market[n]["ask"])
  IN  /\ ValidSnapshot(bids, asks)
      /\ apply_snapshot(bids, asks)
      /\ tracker' = At(n)
      /\ clean' = TRUE
      /\ truncated' = (Len(bids) > MaxLevels \/ Len(asks) > MaxLevels)
      /\ UNCHANGED <<sent, market>>

\* OrderBook::apply_snapshot without validator or tracker, with the vectors
\* as they come from the wire (main.rs) or from Python (the bindings).
PlainSnapshot(snapshot) ==
  /\ apply_snapshot(snapshot.bids, snapshot.asks)
  /\ clean' = FALSE
  /\ UNCHANGED <<tracker, sent, market, truncated>>

\* DeltaProcessor::reset.
Reset ==
  /\ tracker' = Fresh
  /\ clean' = FALSE
  /\ UNCHANGED <<bookVars, sent, market, truncated>>

\* Another holder of the shared book clears it or removes a level.
ClearBook ==
  /\ clear
  /\ clean' = FALSE
  /\ UNCHANGED <<tracker, sent, market, truncated>>

RemoveLevel(side, p) ==
  /\ remove_level(side, p)
  /\ clean' = FALSE
  /\ UNCHANGED <<tracker, sent, market, truncated>>

FeedNext ==
  \/ \E updates \in Messages : Publish(updates)
  \/ \E n \in DOMAIN sent : ProcessGap(n) \/ ProcessInvalid(n) \/ ProcessApplied(n)
  \/ \E n \in DOMAIN market : Resync(n)
  \/ \E snapshot \in Snapshots : PlainSnapshot(snapshot)
  \/ Reset
  \/ ClearBook
  \/ \E side \in Sides : \E p \in DOMAIN book[side].levels : RemoveLevel(side, p)

FeedSpec == FeedInit /\ [][FeedNext]_feedVars

-----------------------------------------------------------------------------
\* Every variable has its type; totals and quantities are never negative.
FeedTypeOK ==
  /\ auto_prune \in BOOLEAN /\ clean \in BOOLEAN /\ truncated \in BOOLEAN
  /\ DOMAIN market = 0..Len(sent)
  /\ surplus \in [Sides -> Nat]
  /\ \A side \in Sides :
       /\ book[side].total \in Nat
       /\ \A p \in DOMAIN book[side].levels :
            p \in Int /\ book[side].levels[p] \in Nat
       /\ book[side].best \in {None} \cup [price : Int, qty : Nat]

\* The book is what the tracker says it is.  After a snapshot, as long as
\* the tracker is Normal, no update was refused or came out of order and
\* nobody else touched the book, every level shown is the exchange's level
\* as of last_sequence, whatever was lost, delayed or repeated on the way,
\* however old the snapshot was and however often max_levels cut; and no
\* level of the exchange is missing unless max_levels has cut since the
\* snapshot.  In particular a lost message is never passed over unnoticed.
InSync ==
  clean /\ tracker.state = "Normal" =>
    \A side \in Sides :
      LET shown == book[side].levels
          real == market[tracker.last][side]
      IN  /\ \A p \in DOMAIN shown : shown[p] = QtyAt(real, p)
          /\ ~truncated => DOMAIN real \subseteq DOMAIN shown

\* The book is sound: its values have their types, its best levels are those
\* of its levels, its totals too but for what the last snapshot counted twice,
\* and there are at most max_levels of a side after a cut, after any mix of
\* snapshots (of levels in any order and repeated), deltas, single updates and
\* clears.
BookSound == FeedTypeOK /\ BookConsistent
=============================================================================
