----------------------------- MODULE MCNetwork ------------------------------
(***************************************************************************)
(* The network layer of flash: the WebSocket connector, the heartbeat and  *)
(* reconnection managers and the OANDA stream of the binary.  The managers *)
(* hold the connector and each other but never call them (the fields are   *)
(* marked dead_code), and the binary uses none of the three, so that no    *)
(* state is shared: a behaviour exercises one of the parts while the       *)
(* others rest.                                                            *)
(***************************************************************************)
EXTENDS Connector, Heartbeat, Reconnection, OandaStream, Startup

VARIABLE part

networkVars == <<part, connVars, hbVars, reconnVars, oandaVars, startVars>>

\* A start that is over.
AtRest ==
  /\ entry = "main" /\ base = File("missing", <<>>) /\ overlay = base
  /\ env = [layer |-> <<>>, junk |-> FALSE] /\ config = FlashDefault /\ loaded = FALSE
  /\ stage = "exited"

NetworkInit ==
  /\ part \in {"connector", "heartbeat", "reconnection", "oanda", "startup"}
  /\ ConnectorInit /\ HeartbeatInit /\ ReconnectionInit /\ OandaInit
  /\ IF part = "startup" THEN StartupInit ELSE AtRest

NetworkNext ==
  /\ UNCHANGED part
  /\ \/ part = "connector" /\ ConnectorNext /\ UNCHANGED <<hbVars, reconnVars, oandaVars, startVars>>
     \/ part = "heartbeat" /\ HeartbeatNext /\ UNCHANGED <<connVars, reconnVars, oandaVars, startVars>>
     \/ part = "reconnection" /\ ReconnectionNext /\ UNCHANGED <<connVars, hbVars, oandaVars, startVars>>
     \/ part = "oanda" /\ OandaNext /\ UNCHANGED <<connVars, hbVars, reconnVars, startVars>>
     \/ part = "startup" /\ StartupNext /\ UNCHANGED <<connVars, hbVars, reconnVars, oandaVars>>

NetworkSpec == NetworkInit /\ [][NetworkNext]_networkVars /\ ConnectorFairness

-----------------------------------------------------------------------------
\* The instance for TLC.

\* Lines whole, cut, joined and empty, a character whole and cut; a price that
\* does not fit the channel.
MCChunks == {<<"price">>, <<"nl">>, <<"price", "nl">>, <<"beat", "nl", "price">>,
             <<"nl", "price", "nl">>, <<"lead", "tail">>, <<"price", "lead">>,
             <<"tail", "nl">>}

\* The keys of a section that depend on each other or take part in a start,
\* with values on both sides of their limits.
Probe(section, key, values, key2, values2) ==
  [section |-> section, first |-> key, firstValues |-> values,
   second |-> key2, secondValues |-> values2, also |-> <<>>]
MCProbes ==
  [delays |-> Probe("websocket", "reconnect_delay_ms", {99, 30000},
                    "max_reconnect_delay_ms", {29999, 300000}),
   attempts |-> Probe("websocket", "max_reconnect_attempts", {0, 100}, "reconnect_jitter", {50, 51}),
   times |-> Probe("websocket", "read_timeout_ms", {30001}, "ping_interval_ms", {5000}),
   depths |-> Probe("orderbook", "max_depth", {100, 101}, "max_levels", {99, 10000}),
   redis |-> Probe("redis", "url", {"", "redis://"}, "pool_size", {1, 100}),
   bases |-> Probe("redis", "database", {15, 16}, "connect_timeout_ms", {100}),
   capacity |-> Probe("backpressure", "capacity", {99, 100}, "warn_threshold", {95}),
   thresholds |-> Probe("backpressure", "warn_threshold", {10, 95}, "critical_threshold", {10, 101}),
   topics |-> Probe("publisher", "topic_prefix", {"", "p"}, "format", {"Json"}),
   logs |-> Probe("logging", "level", {"Warn"}, "max_files", {0, 100}),
   metrics |-> Probe("metrics", "port", {1023, 65535}, "path", {"metrics"}),
   shadow |-> Probe("shadow_mode", "enabled", {TRUE}, "namespace", {"", "a:b"}),
   keys |-> [Probe("oanda", "api_key", {"", "key"}, "account_id", {" ", "id"})
               EXCEPT !.also = [enabled |-> TRUE]]]

\* The binary starts on a usable configuration and streams from it as it should.
BinarySound == OandaSound /\ StartupSound
=============================================================================
