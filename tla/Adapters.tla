------------------------------ MODULE Adapters ------------------------------
(***************************************************************************)
(* The exchange adapters of flash/src/network/adapters: how requests are   *)
(* built and numbered, and what parse_message makes of what an exchange    *)
(* sends.                                                                  *)
(*                                                                         *)
(* A raw message is a record: whether it is JSON, which of the optional    *)
(* fields it has, its kind (the field "method", "e" or "type") and what it *)
(* carries.  A symbol is a sequence of tokens, cut where the adapters may  *)
(* cut it.  A level of a book is "good", "bad" (price or quantity do not   *)
(* parse) or "scalar" (not an array); a trade is "good" or "bad".          *)
(***************************************************************************)
EXTENDS Integers, Sequences, SequencesExt, FiniteSets

CONSTANTS Clients,       \* the threads that hold a clone of the adapter
          Symbols,       \* Symbols[x]: the instruments of exchange x
          MaxRequests    \* bound on the requests of one adapter

\* Exchange
Venue == {"deribit", "binance", "oanda"}

VARIABLES next_id,   \* next_id of the adapter of each exchange, shared by its clones
          requests,  \* history: the requests sent to each exchange, in order
          drawn,     \* the identifier a client has drawn but not yet sent
          raw,       \* the message being handled, or Nothing
          result     \* what parse_message returned for it

adapterVars == <<next_id, requests, drawn, raw, result>>

Nothing == [exchange |-> "none", json |-> FALSE, fields |-> {}, kind |-> "",
            channel |-> "", symbol |-> <<>>, bids |-> <<>>, asks |-> <<>>,
            trades |-> <<>>, sequence |-> 0]
NotDrawn == [exchange |-> "none", id |-> 0]
Err == [ok |-> FALSE, events |-> <<>>]
Ok(events) == [ok |-> TRUE, events |-> events]

\* create_adapter, for each exchange.
AdaptersInit ==
  /\ next_id = [x \in Venue |-> 1]
  /\ requests = [x \in Venue |-> <<>>]
  /\ drawn = [c \in Clients |-> NotDrawn]
  /\ raw = Nothing
  /\ result = Ok(<<>>)

Has(m, f) == f \in m.fields

-----------------------------------------------------------------------------
(* Levels and instruments.                                                 *)

\* Instrument::new, with raw_symbol; its exchange is that of the adapter.
Instrument(base, quote, symbol) == [base |-> base, quote |-> quote, symbol |-> symbol]

\* parse_price and parse_quantity.
LevelParses(level) == level # "bad"

\* parse_levels_array with parse_level_array: one level that does not parse
\* fails all, one that is no array is skipped.
parse_levels_array(levels) ==
  IF \E i \in DOMAIN levels : ~LevelParses(levels[i]) THEN Err
  ELSE Ok(SelectSeq(levels, LAMBDA l : l = "good"))

\* parse_liquidity_levels: what does not parse is a level of price or
\* quantity zero.
parse_liquidity_levels(levels) == Ok([i \in DOMAIN levels |->
                                        IF levels[i] = "good" THEN "good" ELSE "zero"])

\* parse_instrument of Deribit: the base is what precedes the first "-".
DeribitInstrument(symbol) ==
  Instrument(IF Contains(symbol, "-") THEN SubSeq(symbol, 1, SelectInSeq(symbol, LAMBDA t : t = "-") - 1)
             ELSE symbol,
             <<"USD">>, symbol)

\* The quote currencies, in the order in which parse_instrument tries them.
Quotes == << <<"USD", "T">>, <<"B", "USD">>, <<"BTC">>, <<"ETH">>, <<"BN", "B">>, <<"USD">> >>

\* parse_instrument of Binance: the first quote currency the symbol ends
\* with; else the last four characters, here the last token; a symbol of one
\* token has at most four, and is taken for a base in USDT.
BinanceInstrument(symbol) ==
  LET hits == {i \in DOMAIN Quotes : IsSuffix(Quotes[i], symbol)}
      quote == IF hits # {} THEN Quotes[CHOOSE i \in hits : \A k \in hits : i <= k]
               ELSE IF Len(symbol) > 1 THEN <<Last(symbol)>> ELSE <<"USD", "T">>
  IN  Instrument(IF IsSuffix(quote, symbol) THEN SubSeq(symbol, 1, Len(symbol) - Len(quote))
                 ELSE symbol,
                 quote, symbol)

\* parse_instrument of OANDA: two parts around one "_".
OandaInstrument(symbol) ==
  IF Len(symbol) = 3 /\ symbol[2] = "_"
  THEN Instrument(<<symbol[1]>>, <<symbol[3]>>, symbol)
  ELSE Instrument(symbol, <<>>, symbol)

UNKNOWN == <<"UNKNOWN">>

-----------------------------------------------------------------------------
(* Incoming messages.                                                      *)

\* A MarketEvent whose MarketData is Book or Trade.
MarketEvent(type, instrument, sequence, bids, asks, trade) ==
  [type |-> type, instrument |-> instrument, sequence |-> sequence,
   bids |-> bids, asks |-> asks, trade |-> trade]

\* A book event, if both sides parse.
BookEvent(type, instrument, sequence, bids, asks) ==
  IF bids.ok /\ asks.ok
  THEN Ok(<<MarketEvent(type, instrument, sequence, bids.events, asks.events, "")>>)
  ELSE Err

\* A trade event; a price or an amount that does not parse becomes zero.
TradeEvent(instrument, trade) ==
  MarketEvent("Trade", instrument, 0, <<>>, <<>>, IF trade = "good" THEN "good" ELSE "zero")

\* Mutant: only the data is asked.
DeribitNameOfData(m) == IF Has(m, "instrument_name") THEN m.symbol ELSE <<>>

\* The instrument name of the data, else the part of the channel after its
\* first ".".  The channel starts with "book." or "trades.", so that part may
\* be empty but is never missing, and the code's "UNKNOWN" is never taken.
DeribitName(m) ==
  IF Has(m, "instrument_name") \/ Has(m, "channel_name") THEN m.symbol ELSE <<>>

parse_book_message(m) ==
  BookEvent(IF Has(m, "snapshot") THEN "Snapshot" ELSE "Delta",
            DeribitInstrument(DeribitName(m)), m.sequence,
            parse_levels_array(m.bids), parse_levels_array(m.asks))

\* Trades are an array, or the message is unknown.
DeribitTrades(m) ==
  IF ~Has(m, "trades") THEN Err
  ELSE Ok([i \in DOMAIN m.trades |-> TradeEvent(DeribitInstrument(DeribitName(m)), m.trades[i])])

\* parse_error: an error without a code is none.
ParsesAsError(m) ==
  /\ m.json
  /\ IF m.exchange = "oanda" THEN Has(m, "errorMessage") ELSE Has(m, "error") /\ Has(m, "code")

DeribitParse(m) ==
  IF m.kind = "heartbeat" THEN Ok(<<>>)
  ELSE IF ParsesAsError(m) \/ ~m.json THEN Err
  ELSE IF m.kind # "subscription" THEN Ok(<<>>)
  ELSE IF ~Has(m, "params") \/ ~Has(m, "data") THEN Err
  ELSE IF m.channel = "book" THEN parse_book_message(m)
  ELSE IF m.channel = "trades" THEN DeribitTrades(m)
  ELSE Ok(<<>>)

parse_depth_update(m) ==
  BookEvent("Delta", BinanceInstrument(m.symbol), m.sequence,
            parse_levels_array(m.bids), parse_levels_array(m.asks))

\* A partial depth does not say whose it is.
parse_partial_depth(m) ==
  BookEvent("Snapshot", Instrument(UNKNOWN, <<"USD", "T">>, UNKNOWN),
            m.sequence, parse_levels_array(m.bids), parse_levels_array(m.asks))

parse_trade_message(m) == Ok(<<TradeEvent(BinanceInstrument(m.symbol), m.trades[1])>>)

\* parse_message of Binance; for a combined stream it is called again with
\* the payload, which has the same fields here.
BinanceParse(m) ==
  IF ParsesAsError(m) \/ ~m.json THEN Err
  ELSE IF m.kind = "depthUpdate" THEN parse_depth_update(m)
  ELSE IF m.kind = "trade" THEN parse_trade_message(m)
  ELSE IF m.kind = "" /\ Has(m, "bids") /\ Has(m, "asks") THEN parse_partial_depth(m)
  ELSE Ok(<<>>)

parse_price_message(m) ==
  BookEvent("Snapshot", OandaInstrument(m.symbol), 0,
            parse_liquidity_levels(m.bids), parse_liquidity_levels(m.asks))

OandaParse(m) ==
  IF ParsesAsError(m) \/ ~m.json THEN Err
  ELSE IF m.kind = "PRICE" THEN parse_price_message(m)
  ELSE Ok(<<>>)

parse_message(m) ==
  IF m.exchange = "deribit" THEN DeribitParse(m)
  ELSE IF m.exchange = "binance" THEN BinanceParse(m)
  ELSE OandaParse(m)

is_heartbeat(m) == \/ m.exchange = "deribit" /\ m.kind = "heartbeat"
                   \/ m.exchange = "oanda" /\ m.kind = "HEARTBEAT"

is_subscription_response(m) ==
  \/ m.exchange = "deribit" /\ Has(m, "result") /\ m.kind = ""
  \/ m.exchange = "binance" /\ Has(m, "result") /\ Has(m, "id")

-----------------------------------------------------------------------------
(* Requests.                                                               *)

\* build_channel and build_stream: the latter asks in lower case.
Channel(x, symbol) == [symbol |-> symbol, lower |-> x = "binance"]

Request(c, method, channels) ==
  [id |-> drawn[c].id, by |-> c, method |-> method, channels |-> channels]

\* next_request_id: fetch_add on the counter all clones share.
Draw(c, x) ==
  /\ drawn' = [drawn EXCEPT ![c] = [exchange |-> x, id |-> next_id[x]]]
  /\ next_id' = [next_id EXCEPT ![x] = @ + 1]

\* A client of the Deribit or Binance adapter begins to build a request; OANDA
\* has none (its build functions return nothing).
RequestBegin(c, x) ==
  /\ drawn[c] = NotDrawn
  /\ x # "oanda"
  /\ next_id["deribit"] + next_id["binance"] < 2 + MaxRequests
  /\ Draw(c, x)
  /\ UNCHANGED <<requests, raw, result>>

\* build_subscribe and build_unsubscribe for the instruments, in one message.
RequestSent(c, method, symbols) ==
  LET x == drawn[c].exchange
  IN  /\ x # "none"
      /\ symbols # {} /\ symbols \subseteq Symbols[x]
      /\ requests' = [requests EXCEPT ![x] =
           Append(@, Request(c, method, {Channel(x, s) : s \in symbols}))]
      /\ drawn' = [drawn EXCEPT ![c] = NotDrawn]
      /\ UNCHANGED <<next_id, raw, result>>

\* build_auth, and the answer to a Deribit heartbeat (handle_ping): only
\* Deribit needs either.
DeribitAnswer(c, method) ==
  /\ drawn[c].exchange = "deribit"
  /\ requests' = [requests EXCEPT !["deribit"] = Append(@, Request(c, method, {}))]
  /\ drawn' = [drawn EXCEPT ![c] = NotDrawn]
  /\ UNCHANGED <<next_id, raw, result>>

-----------------------------------------------------------------------------
(* The exchange: it sends data for channels it was asked for (OANDA, for   *)
(* any instrument in its URL) and control messages.                        *)

Asked(x) ==
  IF x = "oanda" THEN Symbols[x]
  ELSE {s \in Symbols[x] : \E i \in DOMAIN requests[x] :
          requests[x][i].method = "subscribe" /\ Channel(x, s) \in requests[x][i].channels}

LevelsSent == {<<>>, <<"good">>, <<"good", "bad">>, <<"scalar", "good">>}

DataKinds(x) ==
  IF x = "deribit" THEN {[kind |-> "subscription", channel |-> c] : c \in {"book", "trades", "other"}}
  ELSE IF x = "binance" THEN {[kind |-> k, channel |-> ""] : k \in {"depthUpdate", "trade", "", "kline"}}
  ELSE {[kind |-> k, channel |-> ""] : k \in {"PRICE", "HEARTBEAT", "other"}}

\* Which optional fields a data message has.
FieldSets(x) ==
  IF x = "deribit"
  THEN {{"params", "data", "channel_name", "trades"}, {"params", "data", "instrument_name", "snapshot"},
        {"params", "data"}, {"params"}, {}}
  ELSE IF x = "binance" THEN {{"data", "bids", "asks"}, {"bids", "asks"}, {}}
  ELSE {{}}

DataReceived(x, symbol, k, fields, bids, trades) ==
  LET m == [exchange |-> x, json |-> TRUE, fields |-> fields, kind |-> k.kind,
            channel |-> k.channel, symbol |-> symbol, bids |-> bids, asks |-> <<"good">>,
            trades |-> <<trades>>, sequence |-> 7]
  IN  /\ raw = Nothing
      /\ symbol \in Asked(x)
      /\ trades = "good" \/ bids = <<>>  \* the two never meet in one message
      /\ k \in DataKinds(x) /\ fields \in FieldSets(x)
      /\ raw' = m
      /\ result' = parse_message(m)
      /\ UNCHANGED <<next_id, requests, drawn>>

\* Heartbeats, answers, errors, and what is no JSON at all.
ControlReceived(x, kind, fields, json) ==
  LET m == [Nothing EXCEPT !.exchange = x, !.json = json, !.kind = kind, !.fields = fields]
  IN  /\ raw = Nothing
      /\ raw' = m
      /\ result' = parse_message(m)
      /\ UNCHANGED <<next_id, requests, drawn>>

\* The caller is done with the message and its events.
Handled ==
  /\ raw # Nothing
  /\ raw' = Nothing /\ result' = Ok(<<>>)
  /\ UNCHANGED <<next_id, requests, drawn>>

AdaptersNext ==
  \/ \E c \in Clients :
       \/ \E x \in {"deribit", "binance"} : RequestBegin(c, x)
       \/ \E method \in {"subscribe", "unsubscribe"}, symbols \in SUBSET UNION {Symbols[x] : x \in Venue} :
            RequestSent(c, method, symbols)
       \/ \E method \in {"public/test", "public/auth"} : DeribitAnswer(c, method)
  \/ \E x \in Venue : \E symbol \in Symbols[x], k \in DataKinds(x), fields \in FieldSets(x),
                         bids \in LevelsSent, trade \in {"good", "bad"} :
       DataReceived(x, symbol, k, fields, bids, trade)
  \/ \E x \in Venue, kind \in {"", "heartbeat", "HEARTBEAT"},
        fields \in {{}, {"error"}, {"error", "code"}, {"errorMessage"}, {"result", "id"}},
        json \in BOOLEAN : ControlReceived(x, kind, fields, json)
  \/ Handled

-----------------------------------------------------------------------------
\* The clones of an adapter never give two requests the same identifier, so
\* that an answer of the exchange belongs to one request.
RequestIdsUnique ==
  \A x \in Venue : \A i, k \in DOMAIN requests[x] :
    requests[x][i].id = requests[x][k].id => i = k

\* Every event is about an instrument whose channel was asked for; only a
\* message that does not say whose it is gives an event for another: a partial
\* depth of Binance for UNKNOWN, a Deribit channel without a name for the
\* empty symbol.  The base and the quote of a Binance symbol are its two parts,
\* except that a symbol of at most four characters which ends with no known
\* quote currency is put into USDT, which it does not name.
EventsBelong ==
  LET named == CASE raw.exchange = "deribit" ->
                      raw.fields \cap {"instrument_name", "channel_name"} # {}
                 [] raw.exchange = "binance" -> raw.kind # ""
                 [] OTHER -> TRUE
      nobody == IF raw.exchange = "binance" THEN UNKNOWN ELSE <<>>
  IN  \A i \in DOMAIN result.events :
        LET instrument == result.events[i].instrument
            pair == instrument.base \o instrument.quote
        IN  /\ IF named THEN instrument.symbol \in Asked(raw.exchange)
               ELSE instrument.symbol = nobody
            /\ raw.exchange = "binance" /\ named =>
                 pair = instrument.symbol \o (IF Len(instrument.symbol) = 1 THEN <<"USD", "T">> ELSE <<>>)

\* A data message that is complete comes out as events that carry all of its
\* levels, and is not taken for a heartbeat or an answer; one with a level that
\* does not parse gives no event at all (at OANDA, a level of zero), so that no
\* book is updated by half.
NothingSwallowed ==
  LET data == CASE raw.exchange = "deribit" ->
                     /\ raw.kind = "subscription" /\ {"params", "data"} \subseteq raw.fields
                     /\ raw.channel = "book" \/ (raw.channel = "trades" /\ "trades" \in raw.fields)
                [] raw.exchange = "binance" ->
                     \/ raw.kind \in {"depthUpdate", "trade"}
                     \/ raw.kind = "" /\ {"bids", "asks"} \subseteq raw.fields
                [] raw.exchange = "oanda" -> raw.kind = "PRICE"
                [] OTHER -> FALSE
      book == raw.channel = "book" \/ raw.kind \in {"depthUpdate", "", "PRICE"}
      broken == raw.exchange # "oanda" /\ "bad" \in Range(raw.bids)
  IN  /\ data /\ ~broken =>
           /\ result.ok /\ Len(result.events) = 1
           /\ ~is_heartbeat(raw) /\ ~is_subscription_response(raw)
           /\ book => LET lost == IF raw.exchange = "oanda" THEN {} ELSE {"scalar"}
                      IN  Len(result.events[1].bids) =
                            Cardinality({i \in DOMAIN raw.bids : raw.bids[i] \notin lost})
      /\ data /\ book /\ broken => ~result.ok
=============================================================================
