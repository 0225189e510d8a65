----------------------------- MODULE MCTrading ------------------------------
(***************************************************************************)
(* The two ends of flash: what comes from the exchanges (Adapters), what   *)
(* is sent to them (OrderManager), and what consumers get of a book        *)
(* (Signals, StreamClient) and strategies share it (SharedBook).  A        *)
(* behaviour exercises one of them.                                        *)
(***************************************************************************)
EXTENDS OrderManager, Signals, StreamClient, SharedBook

VARIABLE part

tradingVars == <<part, orderVars, adapterVars, snap, clientVars, sharedVars>>

TradingInit ==
  /\ part \in {"orders", "adapters", "signals", "client", "shared"}
  /\ OrderInit /\ AdaptersInit /\ ClientInit /\ SharedInit
  /\ part # "orders" => tapped
  /\ handle[CHOOSE t \in Threads : TRUE] = CHOOSE h \in Handles : TRUE  \* handles are alike
  /\ part # "shared" => handle = [t \in Threads |-> CHOOSE h \in Handles : TRUE]
  /\ part # "client" => last_ids = [t \in StreamTopics |-> 0]
  /\ IF part = "signals" THEN SignalsInit ELSE snap = EmptyBook("binance", UNKNOWN)

TradingNext ==
  /\ UNCHANGED part
  /\ \/ part = "orders" /\ OrderNext /\ UNCHANGED <<adapterVars, snap, clientVars, sharedVars>>
     \/ part = "adapters" /\ AdaptersNext /\ UNCHANGED <<orderVars, snap, clientVars, sharedVars>>
     \/ part = "signals" /\ SignalsNext
        /\ UNCHANGED <<orderVars, adapterVars, clientVars, sharedVars>>
     \/ part = "client" /\ ClientNext /\ UNCHANGED <<orderVars, adapterVars, snap, sharedVars>>
     \/ part = "shared" /\ SharedNext /\ UNCHANGED <<orderVars, adapterVars, snap, clientVars>>

\* A thread that can go on does; the bound on its calls keeps the others
\* from waiting behind it for ever.
SharedFairness == \A t \in Threads : WF_sharedVars(part = "shared" /\ SharedStep(t))

TradingSpec ==
  TradingInit /\ [][TradingNext]_tradingVars /\ ClientFairness /\ SharedFairness

-----------------------------------------------------------------------------
\* The instance for TLC.

\* The symbols of Binance end with a known quote currency, or with another, or
\* are too short to have one.
MCSymbols == [deribit |-> {<<"BTC", "-", "PERPETUAL">>},
              binance |-> {<<"BN", "B", "USD">>, <<"BTC", "USDC">>, <<"EURI">>},
              oanda |-> {<<"EUR", "_", "USD">>}]

\* A channel of Deribit without a name and a future in USDC; a partial depth of
\* Binance; an OANDA name without a quote, and one of three parts.
MCOddSymbols == [deribit |-> {<<>>, <<"BTC", "_", "USDC", "-", "PERPETUAL">>},
                 binance |-> {UNKNOWN},
                 oanda |-> {<<"XAU">>, <<"US", "_", "TEC", "_", "USD">>}]

\* What the binary publishes, and messages the client cannot read.
MCMessages == {[by |-> "dual", format |-> "json"], [by |-> "event", format |-> "rkyv"]}

\* What the order manager and TAP-3 of the journal say of the orders agrees with
\* what was done: each order has one number and is in one place, the journal
\* tells its requests as far as records were not lost, and a lost checkpoint
\* shows as a missing number.
OrdersRecorded == JournalTellsOrders /\ OrdersConserved /\ OrderIdsUnique /\ CheckpointGapsTell

\* Between the exchange and the client nothing changes its meaning: answers
\* belong to one request, messages become events of the instrument asked for
\* with all of their levels, books come out of the wire as they went in, and
\* signals point where the book leans.
TranslationFaithful == RequestIdsUnique /\ EventsBelong /\ NothingSwallowed /\ WireRoundTrip /\ SignalMonotone

\* Calls of the stream client end, and calls on the shared book are served
\* unless its threads wait for each other in a cycle.
TradingReturns == ReadsEnd /\ LockCallsServed
=============================================================================
