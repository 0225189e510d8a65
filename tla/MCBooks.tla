------------------------------ MODULE MCBooks -------------------------------
(***************************************************************************)
(* The order book of flash as it follows an exchange: BookFeed without     *)
(* counters and with no bound on the processor's calls, or BookReports     *)
(* with counters and views.  A behaviour exercises one of them.            *)
(***************************************************************************)
EXTENDS BookReports

VARIABLE part

booksVars == <<part, feedVars, reportVars>>

BooksInit == part \in {"feed", "reports"} /\ FeedInit /\ ReportsInit

BooksNext ==
  /\ UNCHANGED part
  /\ \/ part = "feed" /\ FeedNext /\ UNCHANGED reportVars
     \/ part = "reports" /\ ReportsNext

BooksSpec == BooksInit /\ [][BooksNext]_booksVars

-----------------------------------------------------------------------------
\* The instance for TLC.

Level(p, q) == [price |-> p, qty |-> q]
Bids(levels) == [side |-> "bid", levels |-> levels]
Asks(levels) == [side |-> "ask", levels |-> levels]

\* Levels inserted, changed and deleted; one below MinPrice; a level moved
\* within one update; a batch that passes over MaxLevels on its way; and a
\* batch for both sides, whose ask the bid at 2 crosses.
MCMessages ==
  {<<Bids(<<Level(2, 1)>>)>>,
   <<Bids(<<Level(0, 1)>>)>>,
   <<Bids(<<Level(2, 0), Level(1, 2)>>)>>,
   <<Bids(<<Level(3, 1)>>), Bids(<<Level(1, 1)>>), Bids(<<Level(3, 0)>>)>>,
   <<Bids(<<Level(1, 1)>>), Asks(<<Level(2, 1)>>)>>}

\* A snapshot as a caller may pass it: worst level first, a price twice, more
\* levels than MaxLevels, and an ask with nothing left.
MCSnapshots ==
  {[bids |-> <<Level(1, 1), Level(1, 2), Level(2, 1)>>, asks |-> <<Level(3, 0)>>]}

\* What is derived from a book and its tracker is true of them: the counts of
\* deltas, the snapshot request, the views at every depth, the diff of two
\* snapshots and their checksums.
ReportsTrue == DeltasAccounted /\ RequestCoversGaps /\ ViewsAgree /\ DiffExact /\ ChecksumTells
=============================================================================
