------------------------------ MODULE Signals ------------------------------
(***************************************************************************)
(* What is published for a book: the AlphaSignal of flash fusion/mod.rs    *)
(* and the OrderBookSnapshot of flash gateway/mod.rs, which a client       *)
(* decodes again.  The instrument is one that an adapter has parsed.       *)
(*                                                                         *)
(* An imbalance is the pair of its numerator and its denominator.          *)
(* Quantities are decimals that travel as f64: F64Exact of them are exact, *)
(* of the larger ones only the even ones are.                              *)
(***************************************************************************)
EXTENDS Adapters

CONSTANTS LevelQuantities,  \* quantities of a level
          F64Exact,
          MaxLevels,        \* bound on the levels of a side
          OddSymbols        \* OddSymbols[x]: names of exchange x that no wire symbol can hold

VARIABLE snap   \* a BookSnapshot of the order book: its sides are sorted

Level(price, quantity) == [price |-> price, quantity |-> quantity]

Parsed(x, symbol) ==
  CASE x = "deribit" -> DeribitInstrument(symbol)
    [] x = "binance" -> BinanceInstrument(symbol)
    [] x = "oanda" -> OandaInstrument(symbol)

\* Its symbol is the raw_symbol of the instrument.
EmptyBook(x, symbol) ==
  [base |-> Parsed(x, symbol).base, quote |-> Parsed(x, symbol).quote, exchange |-> x,
   symbol |-> symbol, bids |-> <<>>, asks |-> <<>>]

SignalsInit ==
  \E x \in Venue : \E symbol \in Symbols[x] \cup OddSymbols[x] : snap = EmptyBook(x, symbol)

\* The book grows a level at its far end.
AddBid(q) ==
  /\ Len(snap.bids) < MaxLevels
  /\ snap' = [snap EXCEPT !.bids = Append(@, Level(10 - Len(@), q))]
AddAsk(q) ==
  /\ Len(snap.asks) < MaxLevels
  /\ snap' = [snap EXCEPT !.asks = Append(@, Level(11 + Len(@), q))]

SignalsNext == \E q \in LevelQuantities : AddBid(q) \/ AddAsk(q)

-----------------------------------------------------------------------------
\* A decimal read as an f64.
AsF64(q) == IF q <= F64Exact THEN q ELSE q - (q % 2)

TotalQuantity(levels) == FoldLeft(LAMBDA sum, l : sum + AsF64(l.quantity), 0, levels)

Imbalance(s) ==
  LET bid == TotalQuantity(s.bids)
      ask == TotalQuantity(s.asks)
  IN  IF bid + ask > 0 THEN <<bid - ask, bid + ask>> ELSE <<0, 1>>

Abs(n) == IF n < 0 THEN 0 - n ELSE n

\* SignalDirection::from_imbalance: beyond a tenth.
from_imbalance(i) ==
  IF 10 * i[1] > i[2] THEN "LONG" ELSE IF 10 * i[1] < 0 - i[2] THEN "SHORT" ELSE "NEUTRAL"

\* AlphaSignalMetadata
Metadata(i) == [source_strategy |-> "flash", raw_direction |-> i]

\* AlphaSignal::from_book_snapshot
AlphaSignal(s) ==
  LET i == Imbalance(s)
  IN  [symbol |-> s.base \o <<"_">> \o s.quote, signal |-> from_imbalance(i),
       strength |-> <<Abs(i[1]), i[2]>>, metadata |-> Metadata(i)]

\* AlphaSignal::validate
SignalValid(a) == a.symbol # <<>> /\ a.strength[1] \in 0 .. a.strength[2]

\* OrderBookLevel::from_price_level
WireLevels(levels) == [k \in DOMAIN levels |-> Level(levels[k].price, AsF64(levels[k].quantity))]

\* OrderBookSnapshot::from_book_snapshot
Wire(s) == [symbol |-> s.base \o <<"_">> \o s.quote, exchange |-> s.exchange,
            bids |-> WireLevels(s.bids), asks |-> WireLevels(s.asks)]

\* OrderBookSnapshot::validate
WireValid(w) ==
  /\ w.symbol # <<>>
  /\ \A k \in 2 .. Len(w.bids) : w.bids[k - 1].price >= w.bids[k].price
  /\ \A k \in 2 .. Len(w.asks) : w.asks[k - 1].price <= w.asks[k].price

Cut(w) == SelectInSeq(w.symbol, LAMBDA c : c = "_")
Split(w) == [base |-> SubSeq(w.symbol, 1, Cut(w) - 1),
             quote |-> SubSeq(w.symbol, Cut(w) + 1, Len(w.symbol))]

\* try_into_book_snapshot refuses a symbol without a base or a quote.
Decodes(w) == Split(w).base # <<>> /\ Split(w).quote # <<>>

\* The raw_symbol is the one on the wire, whatever the exchange calls it.
Decoded(w) == [base |-> Split(w).base, quote |-> Split(w).quote, exchange |-> w.exchange,
               symbol |-> w.symbol, bids |-> w.bids, asks |-> w.asks]

-----------------------------------------------------------------------------
\* What a client decodes is the book that was published, level for level,
\* with quantities that differ by what an f64 cannot hold, of the same exchange,
\* base and quote.  It is refused or cut elsewhere only if the base or the quote
\* is empty or the base has a "_" in it.  The name the exchange gives the
\* instrument does not travel: it is the decoded raw_symbol at OANDA, and base
\* and quote in a row at Binance, but nothing tells the Deribit instruments of
\* one currency from each other (BTC-PERPETUAL and BTC-29DEC23 are BTC_USD).
WireRoundTrip ==
  LET w == Wire(snap)
      d == Decoded(w)
      same(a, b) == /\ DOMAIN a = DOMAIN b
                    /\ \A k \in DOMAIN a : /\ a[k].price = b[k].price
                                           /\ a[k].quantity - b[k].quantity \in 0 .. 1
                                           /\ a[k].quantity <= F64Exact => b[k].quantity = a[k].quantity
      kept == Decodes(w) /\ <<d.base, d.quote>> = <<snap.base, snap.quote>>
      named == CASE snap.exchange = "oanda" -> d.symbol = snap.symbol
                 [] snap.exchange = "binance" -> Len(snap.symbol) > 1 => d.base \o d.quote = snap.symbol
                 [] snap.exchange = "deribit" -> d.base = snap.symbol \/ IsPrefix(d.base \o <<"-">>, snap.symbol)
  IN  /\ WireValid(w)
      /\ Decodes(w) => d.exchange = snap.exchange /\ same(snap.bids, d.bids) /\ same(snap.asks, d.asks)
      /\ IF snap.base = <<>> \/ snap.quote = <<>> \/ Contains(snap.base, "_")
         THEN ~kept ELSE kept /\ named

Rank(direction) == CASE direction = "SHORT" -> 1 [] direction = "NEUTRAL" -> 2 [] direction = "LONG" -> 3

\* The signal of every book is valid, and a further bid never turns it towards
\* SHORT, nor a further ask towards LONG.
SignalMonotone ==
  LET rank(s) == Rank(AlphaSignal(s).signal)
  IN  /\ SignalValid(AlphaSignal(snap))
      /\ snap.bids # <<>> => rank(snap) >= rank([snap EXCEPT !.bids = Front(@)])
      /\ snap.asks # <<>> => rank(snap) <= rank([snap EXCEPT !.asks = Front(@)])
=============================================================================
