------------------------------- MODULE Topics -------------------------------
(***************************************************************************)
(* flash/src/publisher/topics.rs with TopicBuilder of stream.rs: patterns  *)
(* and templates, and TopicRouter, which sends an event to the topics of   *)
(* the rules it matches.                                                   *)
(*                                                                         *)
(* A pattern or a topic is the sequence of its segments, a template the    *)
(* sequence of its braces and words; a segment or word is a string that    *)
(* Lower folds to lower case.  The pattern of a rule is stored but no rule *)
(* evaluation reads it, so that rules have none here.                      *)
(***************************************************************************)
EXTENDS Naturals, FiniteSets, Sequences, SequencesExt, FiniteSetsExt

CONSTANTS Words,           \* words of topics and templates, wildcards excluded
          Events,          \* market events: [exchange, base, quote, type]
          RuleBodies,      \* rules a caller may add: [filter, targets, priority, enabled, action]
          DefaultPrefix,   \* default_prefix
          StrictModes,     \* the values of strict_mode a router may be built with
          MaxTopics,       \* max_topics_per_event
          MaxRules, MaxRouted,    \* bounds on the rules added and on route
          MaxSegments             \* bound on the length of patterns and topics

\* RouterConfig::validate
ValidRouterConfig == DefaultPrefix # "" /\ MaxTopics > 0

ASSUME TopicsAssumption == ValidRouterConfig /\ StrictModes \subseteq BOOLEAN /\ StrictModes # {}

VARIABLES strict_mode,  \* of the router's configuration
          rules,     \* TopicRouter::rules; "at", which addition it was, is history
          next_rule, \* RULE_ID_COUNTER
          additions, \* rules added so far
          rstats,    \* RoutingStats
          routed,    \* the event routed last, with its RoutingResult and the rules
          probe      \* the pattern or template looked at last, with the answer

topicsVars == <<strict_mode, rules, next_rule, additions, rstats, routed, probe>>

None == [kind |-> "none"]

\* RoutingStats::default
NoRouting == [routed |-> 0, matched |-> 0, unmatched |-> 0, dropped |-> 0, topics |-> 0,
              rule_matches |-> <<>>]

TopicsInit ==
  /\ strict_mode \in StrictModes
  /\ rules = <<>> /\ next_rule = 1 /\ additions = 0
  /\ rstats = NoRouting
  /\ routed = None /\ probe = None

\* to_lowercase, on the words of the model.
Lower(w) == IF w = "BTC" THEN "btc" ELSE IF w = "MD" THEN "md" ELSE IF w = "Base" THEN "base" ELSE w

-----------------------------------------------------------------------------
\* Patterns

\* TopicPattern::match_segments: m[i, j] is its answer on the pattern from
\* its i-th and the topic from its j-th segment on.
match_segments(pattern, topic) ==
  LET m[i \in 1 .. Len(pattern) + 1, j \in 1 .. Len(topic) + 1] ==
        IF i > Len(pattern) THEN j > Len(topic)
        ELSE IF j > Len(topic) THEN pattern[i] = "#" /\ m[i + 1, j]
        ELSE IF pattern[i] = "#" THEN m[i + 1, j] \/ m[i, j + 1]
        ELSE (pattern[i] = "*" \/ pattern[i] = Lower(topic[j])) /\ m[i + 1, j + 1]
  IN  m[1, 1]

\* TopicPattern::parse lowers what is not a wildcard, matches splits the topic.
matches(pattern, topic) ==
  match_segments([i \in DOMAIN pattern |-> Lower(pattern[i])], topic)

Segments == UNION {[1 .. n -> Words] : n \in 1 .. MaxSegments}
Patterns == UNION {[1 .. n -> Words \cup {"*", "#"}] : n \in 1 .. MaxSegments}

MatchPattern(pattern, topic) ==
  /\ probe' = [kind |-> "pattern", pattern |-> pattern, topic |-> topic,
               ok |-> matches(pattern, topic)]
  /\ UNCHANGED <<strict_mode, rules, next_rule, additions, rstats, routed>>

-----------------------------------------------------------------------------
\* Templates

Placeholders == {"exchange", "base", "quote", "type", "prefix"}

\* TopicTemplate::parse, the step for one token: p collects the segments, the
\* text since the last brace and whether that is within braces.
Parsed(p, tok) ==
  IF ~p.ok THEN p
  ELSE IF tok = "{"
       THEN IF p.inside THEN [p EXCEPT !.ok = FALSE]
            ELSE [p EXCEPT !.inside = TRUE, !.current = <<>>,
                           !.segments = IF p.current = <<>> THEN @
                                        ELSE Append(@, [literal |-> TRUE, text |-> p.current])]
  ELSE IF tok = "}"
       THEN IF p.inside /\ Len(p.current) = 1 /\ Lower(p.current[1]) \in Placeholders
            THEN [p EXCEPT !.inside = FALSE, !.current = <<>>,
                           !.segments = Append(@, [literal |-> FALSE,
                                                   text |-> <<Lower(p.current[1])>>])]
            ELSE [p EXCEPT !.ok = FALSE]
  ELSE [p EXCEPT !.current = Append(@, tok)]

\* TopicTemplate::parse: its segments, with ok false for an error.
parse_template(tokens) ==
  LET p == FoldLeft(Parsed, [ok |-> TRUE, inside |-> FALSE, current |-> <<>>, segments |-> <<>>],
                    tokens)
  IN  [ok |-> p.ok /\ ~p.inside,
       segments |-> IF p.current = <<>> THEN p.segments
                    ELSE Append(p.segments, [literal |-> TRUE, text |-> p.current])]

\* TopicTemplate::expand_with_prefix
expand(segments, event) ==
  LET value == [exchange |-> event.exchange, base |-> Lower(event.base),
                quote |-> Lower(event.quote), type |-> event.type, prefix |-> DefaultPrefix]
      text == [i \in DOMAIN segments |->
                 IF segments[i].literal THEN segments[i].text
                 ELSE <<value[segments[i].text[1]]>>]
  IN  FlattenSeq(text)

\* RoutingRuleBuilder::build, for a rule without a target.
DefaultTemplate ==
  parse_template(<<"{", "prefix", "}", ".", "{", "exchange", "}", ".", "{", "base", "}", "_",
                   "{", "quote", "}", ".", "{", "type", "}">>).segments

\* TopicBuilder::for_instrument lowers the prefix too.
default_topic(event) ==
  <<Lower(DefaultPrefix), ".", event.exchange, ".", Lower(event.base), "_", Lower(event.quote),
    ".", event.type>>

Tokens == {"{", "}", "Base", "x"}
Templates == UNION {[1 .. n -> Tokens] : n \in 1 .. 5}

ParseTemplate(tokens) ==
  /\ probe' = [kind |-> "template", tokens |-> tokens, parsed |-> parse_template(tokens)]
  /\ UNCHANGED <<strict_mode, rules, next_rule, additions, rstats, routed>>

-----------------------------------------------------------------------------
\* The router

\* RoutingFilter::matches: an empty list lets everything pass.
filter_matches(f, event) ==
  LET fold(w) == IF f.case_insensitive THEN Lower(w) ELSE w
  IN  /\ f.exchanges = {} \/ event.exchange \in f.exchanges
      /\ f.topic_types = {} \/ event.type \in f.topic_types
      /\ f.bases = {} \/ \E b \in f.bases : fold(b) = fold(event.base)
      /\ f.quotes = {} \/ \E q \in f.quotes : fold(q) = fold(event.quote)

\* target_template and build: the templates that parse, or the default one.
BuiltTargets(templates) ==
  LET parsed == SelectSeq([i \in DOMAIN templates |-> parse_template(templates[i])],
                          LAMBDA t : t.ok)
  IN  IF parsed = <<>> THEN <<DefaultTemplate>>
      ELSE [i \in DOMAIN parsed |-> parsed[i].segments]

\* Mutant: the new rule goes before the rules of its priority.
InsertedFirst(rs, rule) ==
  LET before == SelectSeq(rs, LAMBDA r : r.priority < rule.priority)
  IN  before \o <<rule>> \o SubSeq(rs, Len(before) + 1, Len(rs))

\* add_rule pushes and sorts; the sort is stable, so that the new rule comes
\* after those of its own priority.
Inserted(rs, rule) ==
  LET before == SelectSeq(rs, LAMBDA r : r.priority <= rule.priority)
  IN  before \o <<rule>> \o SubSeq(rs, Len(before) + 1, Len(rs))

RuleAdded(rule) ==
  /\ probe = None
  /\ additions < MaxRules
  /\ additions' = additions + 1
  /\ rules' = Inserted(rules, [rule EXCEPT !.at = additions'])
  /\ UNCHANGED <<strict_mode, rstats, routed, probe>>

\* A rule is built, which draws its identifier, and added.
add_rule(body) ==
  /\ RuleAdded([id |-> next_rule, filter |-> body.filter, targets |-> BuiltTargets(body.targets),
                priority |-> body.priority, enabled |-> body.enabled, action |-> body.action,
                at |-> 0])
  /\ next_rule' = next_rule + 1

\* add_rule for a clone of what get_rule returns: the identifier is there twice.
add_clone(i) ==
  /\ i \in DOMAIN rules
  /\ RuleAdded(rules[i])
  /\ UNCHANGED next_rule

\* remove_rule: the first rule of that identifier.
remove_rule(id) ==
  LET hits == {i \in DOMAIN rules : rules[i].id = id}
  IN  /\ probe = None
      /\ hits # {}
      /\ rules' = RemoveAt(rules, Min(hits))
      /\ UNCHANGED <<strict_mode, next_rule, additions, rstats, routed, probe>>

\* The topics of a rule that are not in the result yet.
AddTopics(topics, rule, event) ==
  FoldLeft(LAMBDA ts, t : LET x == expand(t, event)
                          IN  IF x \in {ts[i] : i \in DOMAIN ts} THEN ts ELSE Append(ts, x),
           topics, rule.targets)

\* Mutant: a Drop rule stops without clearing the topics found before it.
EvaluatedDropKeeps(r, rule, event) ==
  IF r.stop \/ ~rule.enabled \/ ~filter_matches(rule.filter, event) THEN r
  ELSE LET hit == [r EXCEPT !.matched = Append(@, rule.id)]
           ts == AddTopics(r.topics, rule, event)
       IN  IF rule.action = "Drop" THEN [hit EXCEPT !.dropped = TRUE, !.stop = TRUE]
           ELSE IF rule.action = "RouteAndStop" THEN [hit EXCEPT !.topics = ts, !.stop = TRUE]
           ELSE IF Len(ts) >= MaxTopics
                THEN [hit EXCEPT !.topics = SubSeq(ts, 1, MaxTopics), !.stop = TRUE]
           ELSE [hit EXCEPT !.topics = ts]

\* One round of route's loop; only Route reaches the topic limit.
Evaluated(r, rule, event) ==
  IF r.stop \/ ~rule.enabled \/ ~filter_matches(rule.filter, event) THEN r
  ELSE LET hit == [r EXCEPT !.matched = Append(@, rule.id)]
           ts == AddTopics(r.topics, rule, event)
       IN  IF rule.action = "Drop" THEN [hit EXCEPT !.dropped = TRUE, !.topics = <<>>, !.stop = TRUE]
           ELSE IF rule.action = "RouteAndStop" THEN [hit EXCEPT !.topics = ts, !.stop = TRUE]
           ELSE IF Len(ts) >= MaxTopics
                THEN [hit EXCEPT !.topics = SubSeq(ts, 1, MaxTopics), !.stop = TRUE]
           ELSE [hit EXCEPT !.topics = ts]

RoutingResult(event) ==
  LET r == FoldLeft(LAMBDA acc, rule : Evaluated(acc, rule, event),
                    [topics |-> <<>>, matched |-> <<>>, dropped |-> FALSE, stop |-> FALSE], rules)
  IN  IF r.matched = <<>> /\ ~strict_mode THEN [r EXCEPT !.topics = <<default_topic(event)>>] ELSE r

CountMatches(counts, ids) ==
  [id \in DOMAIN counts \cup {ids[i] : i \in DOMAIN ids} |->
     (IF id \in DOMAIN counts THEN counts[id] ELSE 0)
     + Cardinality({i \in DOMAIN ids : ids[i] = id})]

route(event) ==
  LET r == RoutingResult(event)
      hit == r.matched # <<>>
      one(b) == IF b THEN 1 ELSE 0
  IN  /\ probe = None
      /\ rstats.routed < MaxRouted
      /\ routed' = [kind |-> "routed", event |-> event, result |-> r, rules |-> rules]
      /\ rstats' = [routed |-> rstats.routed + 1, matched |-> rstats.matched + one(hit),
                    unmatched |-> rstats.unmatched + one(~hit),
                    dropped |-> rstats.dropped + one(r.dropped),
                    topics |-> rstats.topics + Len(r.topics),
                    rule_matches |-> CountMatches(rstats.rule_matches, r.matched)]
      /\ UNCHANGED <<strict_mode, rules, next_rule, additions, probe>>

reset_stats ==
  /\ probe = None /\ rstats.routed > 0
  /\ rstats' = NoRouting
  /\ UNCHANGED <<strict_mode, rules, next_rule, additions, routed, probe>>

TopicsNext ==
  \/ /\ probe = None /\ additions = 0 /\ rstats.routed = 0
     /\ \/ \E p \in Patterns, t \in Segments : MatchPattern(p, t)
        \/ \E t \in Templates : ParseTemplate(t)
  \/ \E b \in RuleBodies : add_rule(b)
  \/ \E i \in 1 .. MaxRules : add_clone(i) \/ remove_rule(i)
  \/ \E e \in Events : route(e)
  \/ reset_stats

-----------------------------------------------------------------------------
Sum(f) == FoldFunction(LAMBDA a, b : a + b, 0, f)

\* A pattern matches a topic iff the topic can be cut into as many pieces as
\* the pattern has segments, one segment long except for those of "#", each
\* word equal to the pattern's up to case.
PatternExact ==
  probe.kind = "pattern" =>
    LET p == probe.pattern
        t == probe.topic
        cuts == {n \in [DOMAIN p -> 0 .. Len(t)] :
                   \A i \in DOMAIN p : p[i] # "#" => n[i] = 1}
        before(n, i) == Sum([k \in 1 .. i - 1 |-> n[k]])
    IN  probe.ok <=> \E n \in cuts :
                       /\ Sum(n) = Len(t)
                       /\ \A i \in DOMAIN p :
                            p[i] \notin {"*", "#"} => Lower(p[i]) = Lower(t[before(n, i) + 1])

\* A template parses iff its braces pair up, one after the other, around
\* exactly one known name; nothing of it is lost: the segments spell it out.
TemplateExact ==
  probe.kind = "template" =>
    LET ts == probe.tokens
        opens == {i \in DOMAIN ts : ts[i] = "{"}
        closes == {i \in DOMAIN ts : ts[i] = "}"}
        spelt == [i \in DOMAIN probe.parsed.segments |->
                    LET s == probe.parsed.segments[i]
                    IN  IF s.literal THEN s.text ELSE <<"{">> \o s.text \o <<"}">>]
    IN  /\ probe.parsed.ok <=> /\ closes = {i + 2 : i \in opens}
                               /\ \A i \in opens : ts[i + 1] = "Base"
        /\ probe.parsed.ok =>
             FlattenSeq(spelt) = [i \in DOMAIN ts |-> IF i - 1 \in opens THEN Lower(ts[i]) ELSE ts[i]]

\* What an event is routed to is what its rules say: rules count in the order
\* of priority and, within one, of their addition, clones included; a dropped
\* event reaches no topic although rules before matched; no topic is there
\* twice, and none is missing unless a rule stopped the evaluation or the limit
\* was reached.  Without a match the event gets the default topic alone or, in
\* strict mode, none: an empty result, although topics.rs:922 says that strict
\* mode fails and :1070 has an error for it, which nothing returns.
RouteExact ==
  routed.kind = "routed" =>
    LET r == routed.result
        hits == {routed.rules[i] : i \in {k \in DOMAIN routed.rules :
                   routed.rules[k].enabled /\ filter_matches(routed.rules[k].filter, routed.event)}}
        Before(a, b) == a.priority < b.priority \/ (a.priority = b.priority /\ a.at < b.at)
        stoppers == {h \in hits : h.action # "Route"}
        asked == {h \in hits : \A s \in stoppers : ~Before(s, h)}
        wanted == UNION {{expand(h.targets[i], routed.event) : i \in DOMAIN h.targets} : h \in asked}
        got == {r.topics[i] : i \in DOMAIN r.topics}
    IN  /\ Cardinality(got) = Len(r.topics)
        /\ r.dropped => got = {}
        /\ hits = {} => got = (IF strict_mode THEN {} ELSE {default_topic(routed.event)})
        /\ hits # {} => got \subseteq wanted
        /\ (hits # {} /\ ~r.dropped) => (got = wanted \/ Len(r.topics) = MaxTopics)
        /\ (\E h \in asked : h.action = "Drop") =>
             (r.dropped \/ Len(r.topics) = MaxTopics)

\* Patterns, templates and rules mean what they say, compared with definitions
\* that do not backtrack, parse or sort.
RoutingExact == PatternExact /\ TemplateExact /\ RouteExact
=============================================================================
