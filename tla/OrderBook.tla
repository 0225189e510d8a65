----------------------------- MODULE OrderBook -----------------------------
(***************************************************************************)
(* flash/src/book/orderbook.rs: the level maps of the two sides with the   *)
(* totals and best levels cached beside them.  ThreadSafeOrderBook         *)
(* (thread_safe.rs) runs each operation under the write lock, so an        *)
(* operation is one step.                                                  *)
(*                                                                         *)
(* Prices and quantities are integers for OrderedFloat<f64> and Decimal.   *)
(* Timestamps and OrderBookStats, which nothing here reads, and the tap,   *)
(* which only records, are left out.                                       *)
(***************************************************************************)
EXTENDS Integers, Sequences, FiniteSets, SequencesExt

CONSTANTS MaxLevels,   \* OrderBookConfig::max_levels
          None         \* Option::None

ASSUME OrderBookAssumption ==
  MaxLevels \in Nat \ {0} /\ None \notin [price : Int, qty : Nat]

VARIABLES book,        \* per side: levels, cached total, cached best
          auto_prune,  \* OrderBookConfig::auto_prune
          surplus      \* history: per side, what the last snapshot has in
                       \* the total twice

bookVars == <<book, auto_prune, surplus>>

Sides == {"bid", "ask"}

\* Side s prefers price p to price q.
Better(side, p, q) == IF side = "bid" THEN p > q ELSE p < q

\* Prices in the order of a side, the best one first.
BestFirst(side, prices) ==
  [i \in 1..Cardinality(prices) |->
     CHOOSE p \in prices : Cardinality({q \in prices : Better(side, q, p)}) = i - 1]

\* A side without levels: OrderBook::new and clear.
EmptySide == [levels |-> [p \in {} |-> 0], total |-> 0, best |-> None]

EmptyBook == [side \in Sides |-> EmptySide]

\* The quantity a side holds at a price, zero if it has no such level.
QtyAt(levels, p) == IF p \in DOMAIN levels THEN levels[p] ELSE 0

\* BTreeMap::insert and BTreeMap::remove.
WithLevel(levels, p, q) ==
  [r \in DOMAIN levels \cup {p} |-> IF r = p THEN q ELSE levels[r]]

WithoutLevel(levels, p) == Restrict(levels, DOMAIN levels \ {p})

\* update_best_bid_cache and update_best_ask_cache.
UpdateBest(side, s) ==
  [s EXCEPT !.best =
     IF DOMAIN s.levels = {} THEN None
     ELSE LET p == CHOOSE p \in DOMAIN s.levels :
                     \A q \in DOMAIN s.levels \ {p} : Better(side, p, q)
          IN  [price |-> p, qty |-> s.levels[p]]]

\* Mutant: the quantity a level had before stays in the total.
PutLevelAdds(s, l) ==
  IF l.qty <= 0 /\ auto_prune
  THEN [s EXCEPT !.levels = WithoutLevel(@, l.price),
                 !.total = @ - QtyAt(s.levels, l.price)]
  ELSE [s EXCEPT !.levels = WithLevel(@, l.price, l.qty), !.total = @ + l.qty]

\* One turn of the loop of apply_delta over the levels of the message.
PutLevel(s, l) ==
  LET old == QtyAt(s.levels, l.price)
  IN  CASE l.qty > 0 ->
             [s EXCEPT !.levels = WithLevel(@, l.price, l.qty),
                       !.total = @ - old + l.qty]
        [] l.qty <= 0 /\ auto_prune ->
             [s EXCEPT !.levels = WithoutLevel(@, l.price), !.total = @ - old]
        [] OTHER ->
             [s EXCEPT !.levels = WithLevel(@, l.price, l.qty), !.total = @ - old]

\* The levels that fall to the max_levels limit: pop_first on the bids and
\* pop_last on the asks until the side fits.
Excess(side, s) ==
  {p \in DOMAIN s.levels :
     Cardinality({q \in DOMAIN s.levels : Better(side, q, p)}) >= MaxLevels}

Truncate(side, s) ==
  [s EXCEPT !.levels = Restrict(@, DOMAIN @ \ Excess(side, s)),
            !.total = @ - MapThenSumSet(LAMBDA p : s.levels[p],
                                        Excess(side, s))]

\* A side after all levels of a message, before the limit is enforced.
PutAll(s, levels) ==
  LET after[n \in 0..Len(levels)] ==
        IF n = 0 THEN s ELSE PutLevel(after[n - 1], levels[n])
  IN  after[Len(levels)]

\* apply_delta on one side.
DeltaSide(side, s, levels) ==
  UpdateBest(side, Truncate(side, PutAll(s, levels)))

\* The loops of apply_snapshot: the first max_levels levels of the message,
\* each added to the total and inserted.
AddLevel(s, l) ==
  IF l.qty > 0 \/ ~auto_prune
  THEN [s EXCEPT !.levels = WithLevel(@, l.price, l.qty), !.total = @ + l.qty]
  ELSE s

SnapshotSide(side, levels) ==
  LET after[n \in 0..Len(levels)] ==
        IF n = 0 THEN EmptySide ELSE AddLevel(after[n - 1], levels[n])
  IN  UpdateBest(side, after[IF Len(levels) < MaxLevels THEN Len(levels) ELSE MaxLevels])

\* The levels of a snapshot whose price comes again among those that the loop
\* adds: the map keeps the later one alone, the total both.
Repeated(levels) ==
  LET added == {i \in DOMAIN levels : i <= MaxLevels /\ (levels[i].qty > 0 \/ ~auto_prune)}
  IN  {i \in added : \E j \in added : j > i /\ levels[j].price = levels[i].price}

CountedTwice(levels) ==
  LET qty == [i \in DOMAIN levels |-> levels[i].qty]
  IN  MapThenSumSet(LAMBDA i : qty[i], Repeated(levels))

NoSurplus == [side \in Sides |-> 0]

-----------------------------------------------------------------------------
OrderBookInit == book = EmptyBook /\ auto_prune \in BOOLEAN /\ surplus = NoSurplus

apply_snapshot(bids, asks) ==
  /\ book' = [bid |-> SnapshotSide("bid", bids), ask |-> SnapshotSide("ask", asks)]
  /\ surplus' = [bid |-> CountedTwice(bids), ask |-> CountedTwice(asks)]
  /\ UNCHANGED auto_prune

\* apply_delta for each update of a message in turn: the book after the first n.
BooksAfter(b, updates) ==
  LET after[n \in 0..Len(updates)] ==
        IF n = 0 THEN b
        ELSE LET u == updates[n]
             IN  [after[n - 1] EXCEPT ![u.side] = DeltaSide(u.side, @, u.levels)]
  IN  after

apply_delta(updates) ==
  /\ book' = BooksAfter(book, updates)[Len(updates)]
  /\ UNCHANGED <<auto_prune, surplus>>

remove_level(side, p) ==
  LET s == book[side]
      rest == [levels |-> WithoutLevel(s.levels, p),
               total |-> s.total - QtyAt(s.levels, p), best |-> s.best]
  IN  /\ book' = [book EXCEPT ![side] = UpdateBest(side, rest)]
      /\ UNCHANGED <<auto_prune, surplus>>

clear == book' = EmptyBook /\ surplus' = NoSurplus /\ UNCHANGED auto_prune

-----------------------------------------------------------------------------
\* The caches tell what the level maps hold, after any sequence of
\* operations: the best level is the extreme one, no side is over max_levels,
\* with auto_prune no level of quantity zero stays, and the total is the sum
\* of the quantities, but for one thing: a snapshot that lists a price more
\* than once leaves the earlier quantities in the total (orderbook.rs:454-455
\* adds before it inserts).  The total is then too high by just that much,
\* whatever deltas follow, until the next snapshot or clear.
BookConsistent ==
  \A side \in Sides :
    LET s == book[side]
    IN  /\ s.total = MapThenSumSet(LAMBDA p : s.levels[p], DOMAIN s.levels) + surplus[side]
        /\ Cardinality(DOMAIN s.levels) <= MaxLevels
        /\ (s.best = None) <=> (DOMAIN s.levels = {})
        /\ \A p \in DOMAIN s.levels :
             /\ p = s.best.price \/ Better(side, s.best.price, p)
             /\ p = s.best.price => s.levels[p] = s.best.qty
             /\ auto_prune => s.levels[p] > 0
=============================================================================
