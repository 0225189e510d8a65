---------------------------- MODULE BookReports ----------------------------
(***************************************************************************)
(* What a book and its processors tell: the views of OrderBook             *)
(* (flash/src/book/orderbook.rs), the statistics and snapshot requests of  *)
(* DeltaProcessor (delta.rs), and SnapshotDiff and SnapshotMetadata        *)
(* (snapshot.rs).  The processor's steps are those of BookFeed, with the   *)
(* counters they change.  levels_added, levels_modified, levels_removed    *)
(* and snapshots_requested are never set by the code.                      *)
(***************************************************************************)
EXTENDS BookFeed, Bitwise

CONSTANT MaxReports   \* bound on the steps of a behaviour with counters

VARIABLES deltaStats,   \* DeltaProcessorStats
          reported      \* steps taken

reportVars == <<deltaStats, reported>>

ReportsInit ==
  /\ deltaStats = [processed |-> 0, applied |-> 0, rejected |-> 0, gaps |-> 0]
  /\ reported = 0

\* The counters after p more deltas processed, a applied, r rejected, g gaps.
Count(p, a, r, g) ==
  deltaStats' = [processed |-> deltaStats.processed + p,
                 applied |-> deltaStats.applied + a,
                 rejected |-> deltaStats.rejected + r,
                 gaps |-> deltaStats.gaps + g]

\* process_delta: every delta is processed, and applied or rejected.
process_delta(n) ==
  /\ Len(sent[n]) = 1
  /\ \/ ProcessGap(n) /\ Count(1, 0, 1, 1)
     \/ ProcessInvalid(n) /\ Count(1, 0, 1, 0)
     \/ ProcessApplied(n) /\ Count(1, 1, 0, 0)

\* process_batch: the updates of a batch are counted when they are applied,
\* and not at all when the batch is refused.
process_batch(n) ==
  \/ ProcessGap(n) /\ Count(0, 0, 0, 1)
  \/ ProcessInvalid(n) /\ Count(0, 0, 0, 0)
  \/ ProcessApplied(n) /\ Count(Len(sent[n]), Len(sent[n]), 0, 0)

ReportsNext ==
  /\ reported < MaxReports
  /\ reported' = reported + 1
  /\ \/ \E updates \in Messages : Publish(updates) /\ UNCHANGED deltaStats
     \/ \E n \in DOMAIN sent : process_delta(n) \/ process_batch(n)
     \/ \E n \in DOMAIN market : Resync(n) /\ UNCHANGED deltaStats
     \/ Reset /\ UNCHANGED deltaStats

\* Mutant: the request names the first gap.
RequestFirst == IF NeedsSnapshot /\ tracker.gaps # <<>> THEN Head(tracker.gaps) ELSE None

\* create_snapshot_request: the last pending gap, if a snapshot is needed.
create_snapshot_request ==
  IF NeedsSnapshot /\ tracker.gaps # <<>> THEN Last(tracker.gaps) ELSE None

-----------------------------------------------------------------------------
\* The views of a book.

\* top_bids, top_asks, all_bids and all_asks: the n best levels in order.
Top(side, s, n) ==
  LET all == BestFirst(side, DOMAIN s.levels)
  IN  [i \in 1..Min({n, Len(all)}) |-> [price |-> all[i], qty |-> s.levels[all[i]]]]

to_snapshot(b, depth) ==
  [bids |-> Top("bid", b.bid, depth), asks |-> Top("ask", b.ask, depth)]

from_snapshot(snapshot) ==
  [bid |-> SnapshotSide("bid", snapshot.bids), ask |-> SnapshotSide("ask", snapshot.asks)]

\* spread, and twice the mid price.
spread(b) ==
  IF b.bid.best = None \/ b.ask.best = None THEN None
  ELSE b.ask.best.price - b.bid.best.price

mid_price2(b) ==
  IF b.bid.best = None \/ b.ask.best = None THEN None
  ELSE b.ask.best.price + b.bid.best.price

get_level(b, side, p) == IF p \in DOMAIN b[side].levels THEN b[side].levels[p] ELSE None

\* imbalance as a fraction: total_bid_qty - total_ask_qty over their sum.
imbalance(b) ==
  IF b.bid.total + b.ask.total = 0 THEN None
  ELSE <<b.bid.total - b.ask.total, b.bid.total + b.ask.total>>

-----------------------------------------------------------------------------
\* SnapshotProcessor::diff and SnapshotMetadata.

PricesIn(ls) == {ls[i].price : i \in DOMAIN ls}
QtyIn(ls, p) == ls[SelectLastInSeq(ls, LAMBDA l : l.price = p)].qty

\* Of one side: levels added, prices removed, and levels of another quantity.
SideDiff(old, new) ==
  [added |-> SelectSeq(new, LAMBDA l : l.price \notin PricesIn(old)),
   removed |-> {p \in PricesIn(old) : p \notin PricesIn(new)},
   modified |-> {[price |-> p, old |-> QtyIn(old, p), new |-> QtyIn(new, p)] :
                   p \in {q \in PricesIn(old) \cap PricesIn(new) :
                            QtyIn(old, q) # QtyIn(new, q)}}]

BestPrice(ls) == IF ls = <<>> THEN None ELSE ls[1].price

\* SnapshotMetadata::from_snapshot: the spread of a snapshot.
SpreadOf(snapshot) ==
  IF snapshot.bids = <<>> \/ snapshot.asks = <<>> THEN None
  ELSE snapshot.asks[1].price - snapshot.bids[1].price

diff(old, new) ==
  [bids |-> SideDiff(old.bids, new.bids),
   asks |-> SideDiff(old.asks, new.asks),
   best_bid_changed |-> BestPrice(old.bids) # BestPrice(new.bids),
   best_ask_changed |-> BestPrice(old.asks) # BestPrice(new.asks),
   spread_changed |-> SpreadOf(old) # SpreadOf(new)]

SideChanges(d) == Len(d.added) + Cardinality(d.removed) + Cardinality(d.modified)

\* SnapshotDiff::total_changes; is_empty says that it is zero.
total_changes(d) == SideChanges(d.bids) + SideChanges(d.asks)

\* SnapshotMetadata::compute_checksum: exclusive or of the prices.
compute_checksum(snapshot) ==
  FoldLeft(LAMBDA c, l : c ^^ l.price, 0, snapshot.bids \o snapshot.asks)

-----------------------------------------------------------------------------
\* Every delta processed was applied or rejected, by whichever way and in
\* whichever order deltas and batches come; every pending gap was counted.
DeltasAccounted ==
  reported > 0 =>
    /\ deltaStats.processed = deltaStats.applied + deltaStats.rejected
    /\ deltaStats.gaps >= Len(tracker.gaps)

\* A snapshot at the message that the request names, or a later one, leaves
\* nothing missing: it is not older than any gap still pending.
RequestCoversGaps ==
  NeedsSnapshot /\ MaxGaps > 0 =>
    /\ create_snapshot_request # None
    /\ \A i \in DOMAIN tracker.gaps :
         tracker.gaps[i].received <= create_snapshot_request.received

\* The views agree with each other.  A book rebuilt from a snapshot of
\* itself has the same best levels, spread and mid price at any depth, and
\* at full depth is the same book with no price counted twice; the imbalance lies between -1 and 1 and
\* is missing only when nothing is for sale or wanted.
ViewsAgree ==
  /\ \A n \in 1..MaxLevels :
       LET again == from_snapshot(to_snapshot(book, n))
       IN  /\ \A side \in Sides : again[side].best = book[side].best
           /\ spread(again) = spread(book) /\ mid_price2(again) = mid_price2(book)
           /\ \A side \in Sides : \A p \in DOMAIN again[side].levels :
                get_level(again, side, p) = get_level(book, side, p)
  /\ from_snapshot(to_snapshot(book, MaxLevels)) =
       [side \in Sides |-> [book[side] EXCEPT !.total = @ - surplus[side]]]
  /\ LET i == imbalance(book)
     IN  IF i = None
         THEN \A side \in Sides : \A p \in DOMAIN book[side].levels :
                book[side].levels[p] = 0
         ELSE -i[2] <= i[1] /\ i[1] <= i[2]

\* The exchange's book after message n as a snapshot.
MarketSnapshot(n) ==
  [bids |-> Listed("bid", market[n].bid), asks |-> Listed("ask", market[n].ask)]

\* A side with a diff applied.
Patched(ls, d) ==
  LET kept == {p \in PricesIn(ls) : p \notin d.removed}
      changed(p) == {m \in d.modified : m.price = p}
  IN  {[price |-> p, qty |-> IF changed(p) = {} THEN QtyIn(ls, p)
                             ELSE (CHOOSE m \in changed(p) : TRUE).new] : p \in kept}
      \cup ToSet(d.added)

\* Between any two states of the exchange's book the diff is the change:
\* applied to the old snapshot it gives the new one, it is empty only for
\* equal ones, there and back it has the same size, and the spread changes
\* only with a best price.
DiffExact ==
  reported > 0 => \A i, j \in DOMAIN market :
    LET old == MarketSnapshot(i)
        new == MarketSnapshot(j)
        d == diff(old, new)
    IN  /\ Patched(old.bids, d.bids) = ToSet(new.bids)
        /\ Patched(old.asks, d.asks) = ToSet(new.asks)
        /\ total_changes(d) = 0 <=> old = new
        /\ total_changes(d) = total_changes(diff(new, old))
        /\ d.spread_changed => d.best_bid_changed \/ d.best_ask_changed

\* Snapshots that differ by one level of a positive price, more or less,
\* have different checksums.  (Quantities do not enter, and two changes
\* may cancel.)
ChecksumTells ==
  reported > 0 => \A i, j \in DOMAIN market :
    LET old == MarketSnapshot(i)
        new == MarketSnapshot(j)
        d == diff(old, new)
        moved == PricesIn(d.bids.added \o d.asks.added) \cup d.bids.removed \cup d.asks.removed
    IN  /\ total_changes(d) - Cardinality(d.bids.modified \cup d.asks.modified) = 1
        /\ 0 \notin moved
        => compute_checksum(old) # compute_checksum(new)
=============================================================================
