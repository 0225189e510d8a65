------------------------------ MODULE Startup -------------------------------
(***************************************************************************)
(* How the flash binary comes by its configuration (core/config.rs) and    *)
(* starts (main.rs): a base file, an overlay for the environment, variables *)
(* of the environment, validation, and defaults when any of these fails.   *)
(*                                                                         *)
(* A configuration is a function on sections and their keys; the nested    *)
(* sections backpressure and oanda are sections of their own, and the two  *)
(* other exchanges, which nothing starts, are left out.  A file gives some *)
(* keys of some sections.  Fractions are in percent.                       *)
(***************************************************************************)
EXTENDS Naturals, FiniteSets, TLC

CONSTANTS Probes   \* by name, what the inputs are about: a section, and values of two of its keys

VARIABLES entry,    \* who asks: the binary, or a caller of the library
          base,     \* the base file or the text
          overlay,  \* the overlay file
          env,      \* the variables that parse, and whether another does not
          config,   \* FlashConfig
          loaded,   \* load returned a configuration
          stage

startVars == <<entry, base, overlay, env, config, loaded, stage>>

-----------------------------------------------------------------------------
(* The sections and their defaults.                                        *)

WebSocketDefault ==
  [connect_timeout_ms |-> 5000, read_timeout_ms |-> 5000, ping_interval_ms |-> 30000,
   pong_timeout_ms |-> 10000, max_reconnect_attempts |-> 10, reconnect_delay_ms |-> 1000,
   max_reconnect_delay_ms |-> 30000, reconnect_jitter |-> 10]

OrderBookDefault == [max_depth |-> 50, max_levels |-> 100]

RedisDefault == [url |-> "redis://", database |-> 0, pool_size |-> 10, connect_timeout_ms |-> 5000]

BackpressureDefault == [capacity |-> 10000, warn_threshold |-> 75, critical_threshold |-> 95]

PublisherDefault == [format |-> "Bincode", topic_prefix |-> "astra:signals:flash"]

LoggingDefault == [level |-> "Info", max_file_size_mb |-> 100, max_files |-> 5]

MetricsDefault == [enabled |-> TRUE, port |-> 9090, path |-> "/metrics"]

ShadowDefault == [enabled |-> FALSE, namespace |-> "rust"]

NoCredential == "none"

\* ExchangeConfig::default, and what ExchangesConfig::default makes of it.
ExchangeDefault ==
  [enabled |-> FALSE, ws_url |-> "", api_key |-> NoCredential, account_id |-> NoCredential]
OandaDefault == [ExchangeDefault EXCEPT !.ws_url = "wss://practice"]

FlashDefault ==
  [websocket |-> WebSocketDefault, orderbook |-> OrderBookDefault, redis |-> RedisDefault,
   backpressure |-> BackpressureDefault, publisher |-> PublisherDefault,
   logging |-> LoggingDefault, metrics |-> MetricsDefault, shadow_mode |-> ShadowDefault,
   oanda |-> OandaDefault]

-----------------------------------------------------------------------------
(* Validation: the keys that are refused.                                  *)

\* ConfigValidationError::OutOfRange
OutOfRange(s, key, lo, hi) == IF s[key] \in lo .. hi THEN {} ELSE {key}

\* ConfigValidationError::Empty, Invalid, InvalidUrl and Ordering
Refuse(condition, key) == IF condition THEN {key} ELSE {}

WebSocketErrors(s) ==
  OutOfRange(s, "connect_timeout_ms", 1000, 60000)
    \cup OutOfRange(s, "read_timeout_ms", 1000, 30000)
    \cup OutOfRange(s, "ping_interval_ms", 5000, 120000)
    \cup OutOfRange(s, "pong_timeout_ms", 1000, 60000)
    \cup OutOfRange(s, "max_reconnect_attempts", 1, 100)
    \cup OutOfRange(s, "reconnect_delay_ms", 100, 30000)
    \cup OutOfRange(s, "max_reconnect_delay_ms", s.reconnect_delay_ms, 300000)
    \cup OutOfRange(s, "reconnect_jitter", 0, 50)

OrderBookErrors(s) ==
  OutOfRange(s, "max_depth", 1, 1000)
    \cup Refuse(s.max_levels < s.max_depth \/ s.max_levels > 10000, "max_levels")

\* parsed_url and validate; a text without a scheme is no URL.
RedisErrors(s) ==
  Refuse(s.url # "redis://", "url")
    \cup OutOfRange(s, "database", 0, 15)
    \cup OutOfRange(s, "pool_size", 1, 100)
    \cup OutOfRange(s, "connect_timeout_ms", 100, 30000)

BackpressureErrors(s) ==
  OutOfRange(s, "capacity", 100, 1000000)
    \cup OutOfRange(s, "warn_threshold", 10, 95)
    \cup Refuse(s.critical_threshold <= s.warn_threshold \/ s.critical_threshold > 100,
                "critical_threshold")

PublisherErrors(s) == Refuse(s.topic_prefix = "", "topic_prefix")

LoggingErrors(s) == OutOfRange(s, "max_file_size_mb", 1, 10000) \cup OutOfRange(s, "max_files", 1, 100)

\* A path must begin with "/".
MetricsErrors(s) == OutOfRange(s, "port", 1024, 65535) \cup Refuse(s.path = "metrics", "path")

\* Empty, or with a colon.
ShadowErrors(s) == Refuse(s.enabled /\ s.namespace \in {"", "a:b"}, "namespace")

\* Exchanges are not validated.
validate_all(c) ==
  WebSocketErrors(c.websocket) \cup OrderBookErrors(c.orderbook) \cup RedisErrors(c.redis)
    \cup PublisherErrors(c.publisher) \cup BackpressureErrors(c.backpressure)
    \cup LoggingErrors(c.logging) \cup MetricsErrors(c.metrics) \cup ShadowErrors(c.shadow_mode)

-----------------------------------------------------------------------------
(* Layers.                                                                 *)

deep_merge(c, layer) == [s \in DOMAIN c |-> IF s \in DOMAIN layer THEN layer[s] @@ c[s] ELSE c[s]]

\* serde: a section that is named takes the defaults of its type for what it
\* leaves out, and for an exchange they are not those of ExchangesConfig.
SectionDefault(s) == IF s = "oanda" THEN ExchangeDefault ELSE FlashDefault[s]
Parsed(layer) == [s \in DOMAIN FlashDefault |->
                    IF s \in DOMAIN layer THEN layer[s] @@ SectionDefault(s) ELSE FlashDefault[s]]

clean(credential) == IF credential \in {"", " "} THEN NoCredential ELSE credential
normalize_credentials(c) ==
  [c EXCEPT !.oanda.api_key = clean(@), !.oanda.account_id = clean(@)]

\* apply_env_overrides with apply_credential_env_overrides, when every
\* variable parses.
apply_env_overrides(c) == normalize_credentials(deep_merge(c, env.layer))

\* The keys that a variable overrides; one that is a number, a flag or a name
\* may fail to parse.
EnvKeys ==
  {<<"websocket", "connect_timeout_ms">>, <<"websocket", "ping_interval_ms">>,
   <<"websocket", "max_reconnect_attempts">>, <<"redis", "url">>, <<"redis", "pool_size">>,
   <<"redis", "database">>, <<"publisher", "format">>, <<"backpressure", "capacity">>,
   <<"logging", "level">>, <<"metrics", "enabled">>, <<"metrics", "port">>,
   <<"shadow_mode", "enabled">>, <<"shadow_mode", "namespace">>,
   <<"oanda", "api_key">>, <<"oanda", "account_id">>}
EnvText == {<<"redis", "url">>, <<"shadow_mode", "namespace">>,
            <<"oanda", "api_key">>, <<"oanda", "account_id">>}

-----------------------------------------------------------------------------
(* The inputs of a probe: any part of its two keys, in each layer, and in  *)
(* a file that has one of them also what the probe adds.                   *)

Some(key, values) == {<<>>} \cup {key :> v : v \in values}
Layers(probe) ==
  {IF keys = <<>> THEN <<>> ELSE probe.section :> keys :
     keys \in {a @@ b : a \in Some(probe.first, probe.firstValues),
                        b \in Some(probe.second, probe.secondValues)}}
File(kind, layer) == [kind |-> kind, layer |-> layer]
Files(probe) == {File("given", [s \in DOMAIN l |-> l[s] @@ probe.also]) : l \in Layers(probe)}
                  \cup {File(k, <<>>) : k \in {"missing", "broken", "empty"}}
Keys(layer) == UNION {{<<s, k>> : k \in DOMAIN layer[s]} : s \in DOMAIN layer}
Environments(probe) ==
  {[layer |-> l, junk |-> j] : l \in {m \in Layers(probe) : Keys(m) \subseteq EnvKeys},
                               j \in {FALSE, \E k \in {probe.first, probe.second} :
                                               <<probe.section, k>> \in EnvKeys \ EnvText}}

StartupInit ==
  /\ entry \in {"main", "from_yaml", "from_yaml_with_env", "from_env"}
  /\ \E p \in DOMAIN Probes :
       base \in Files(Probes[p]) /\ overlay \in Files(Probes[p]) /\ env \in Environments(Probes[p])
  /\ entry # "main" => overlay = File("missing", <<>>) /\ base.kind # "missing"
  /\ config = FlashDefault /\ loaded = FALSE /\ stage = "begun"

Stays == UNCHANGED <<entry, base, overlay, env>>

\* An error of load: main goes on with the defaults, a caller gets it.
Failed ==
  /\ config' = FlashDefault /\ loaded' = FALSE
  /\ stage' = IF entry = "main" THEN "configured" ELSE "failed"

\* External: what serde_yaml makes of a document without content, an error or
\* a section list without sections.
FromNothing(next) == Failed \/ (config' = FlashDefault /\ stage' = next /\ UNCHANGED loaded)

\* main and load up to the base file.
ReadBase ==
  /\ stage = "begun" /\ entry = "main" /\ Stays
  /\ \/ base.kind \in {"missing", "broken"} /\ Failed
     \/ base.kind = "empty" /\ FromNothing("read")
     \/ base.kind = "given" /\ config' = Parsed(base.layer) /\ stage' = "read" /\ UNCHANGED loaded

\* merge_yaml; an overlay without content replaces all of the base by nothing.
MergeOverlay ==
  /\ stage = "read" /\ Stays
  /\ \/ overlay.kind = "missing" /\ stage' = "merged" /\ UNCHANGED <<config, loaded>>
     \/ overlay.kind = "broken" /\ Failed
     \/ overlay.kind = "empty" /\ FromNothing("merged")
     \/ /\ overlay.kind = "given" /\ stage' = "merged"
        /\ config' = deep_merge(config, overlay.layer) /\ UNCHANGED loaded

\* from_yaml
FromYaml ==
  /\ stage = "begun" /\ entry \in {"from_yaml", "from_yaml_with_env"} /\ Stays
  /\ LET next == IF entry = "from_yaml" THEN "returned" ELSE "merged"
     IN  \/ base.kind = "empty" /\ stage' = next /\ UNCHANGED <<config, loaded>>
         \/ base.kind = "broken" /\ Failed
         \/ /\ base.kind = "given" /\ stage' = next
            /\ config' = normalize_credentials(Parsed(base.layer)) /\ UNCHANGED loaded

\* from_env begins with the defaults.
ApplyEnv ==
  /\ stage = "merged" \/ (stage = "begun" /\ entry = "from_env")
  /\ \/ env.junk /\ Failed
     \/ /\ ~env.junk /\ config' = apply_env_overrides(config) /\ UNCHANGED loaded
        /\ stage' = IF entry = "main" THEN "overridden" ELSE "returned"
  /\ Stays

Validate ==
  /\ stage = "overridden" /\ Stays
  /\ \/ validate_all(config) # {} /\ Failed
     \/ /\ validate_all(config) = {} /\ stage' = "configured" /\ loaded' = TRUE
        /\ UNCHANGED config

\* PoolConfig::validate on what main makes of the section; min_idle is 2.
PoolAccepts(c) == c.redis.url # "" /\ c.redis.database <= 15 /\ c.redis.pool_size >= 2

\* RedisPool::new and the first health check, then the tasks.
CreatePool ==
  /\ stage = "configured" /\ Stays /\ UNCHANGED <<config, loaded>>
  /\ \/ stage' = "exited"
     \/ PoolAccepts(config) /\ stage' = "pooled"

\* run_oanda_stream up to its first attempt.
SpawnOanda ==
  /\ stage = "pooled" /\ Stays /\ UNCHANGED <<config, loaded>>
  /\ stage' = IF config.oanda.enabled /\ config.oanda.account_id # NoCredential
                   /\ config.oanda.api_key # NoCredential
              THEN "streaming" ELSE "without_stream"

StartupNext == ReadBase \/ MergeOverlay \/ FromYaml \/ ApplyEnv \/ Validate \/ CreatePool \/ SpawnOanda

-----------------------------------------------------------------------------
Up == {"pooled", "streaming", "without_stream"}

\* What the layers say of a key: the variable, the overlay, the base, and the
\* default of the type, in this order.
Said(s, k) ==
  LET says(layer) == s \in DOMAIN layer /\ k \in DOMAIN layer[s]
      over == IF overlay.kind = "empty" THEN <<>> ELSE base.layer
  IN  IF says(env.layer) THEN env.layer[s][k]
      ELSE IF says(overlay.layer) THEN overlay.layer[s][k]
      ELSE IF says(over) THEN over[s][k]
      ELSE IF s \in DOMAIN over THEN SectionDefault(s)[k] ELSE FlashDefault[s][k]

\* The binary starts on all of what it was told or on none of it: if load
\* succeeds, each value is that of the highest layer which names it, wherever
\* in its section the others are named, and if anything fails (a variable that
\* does not parse, a range) it is the default throughout.
AllOrDefaults ==
  stage \in Up =>
    IF loaded
    THEN \A s \in DOMAIN config : \A k \in DOMAIN config[s] :
           config[s][k] = IF k \in {"api_key", "account_id"} THEN clean(Said(s, k)) ELSE Said(s, k)
    ELSE config = FlashDefault

\* Whatever the files and variables say, the parts are started on values they
\* are correct for: delays that grow to a cap and a jitter of at most half
\* (OandaStream), a pool that can hold what it keeps idle (Pool), a book that
\* is not cut below its depth.
PartsGetValid ==
  stage \in Up =>
    /\ validate_all(config) = {}
    /\ config.websocket.reconnect_delay_ms <= config.websocket.max_reconnect_delay_ms
    /\ config.websocket.reconnect_jitter <= 50
    /\ config.redis.pool_size >= 2
    /\ config.orderbook.max_depth <= config.orderbook.max_levels

\* No request is made with a blank key or account, from whichever layer the
\* blank came, and no entry point of the library returns one.
CredentialsReal ==
  stage \in Up \cup {"returned"} =>
    \A k \in {"api_key", "account_id"} :
      /\ config.oanda[k] \notin {"", " "}
      /\ stage = "streaming" => config.oanda[k] # NoCredential

\* The binary starts on a configuration that is whole, valid and usable.
StartupSound == AllOrDefaults /\ PartsGetValid /\ CredentialsReal
=============================================================================
