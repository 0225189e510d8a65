---------------------------- MODULE MCPublisher -----------------------------
(***************************************************************************)
(* The publisher layer of flash: the Redis pool with its publishers, the   *)
(* non-blocking sender, the batch accumulator, the serialization buffer    *)
(* and the topic router.  In this code base none of them calls another     *)
(* except the publishers the pool, so that a behaviour exercises one part  *)
(* while the others rest.                                                  *)
(***************************************************************************)
EXTENDS Publishers, Buffers, Topics

VARIABLE part

publisherLayerVars ==
  <<part, publisherVars, backpressureVars, serBufferVars, batchingVars, topicsVars>>

PublisherInit ==
  /\ part \in {"publishers", "backpressure", "buffer", "batching", "topics"}
  /\ PublishersInit /\ BackpressureInit /\ SerBufferInit /\ BatchingInit /\ TopicsInit
  /\ part # "topics" => strict_mode = CHOOSE m \in StrictModes : TRUE

PublisherNext ==
  /\ UNCHANGED part
  /\ \/ /\ part = "publishers" /\ PublishersNext
        /\ UNCHANGED <<backpressureVars, serBufferVars, batchingVars, topicsVars>>
     \/ /\ part = "backpressure" /\ BackpressureNext
        /\ UNCHANGED <<publisherVars, serBufferVars, batchingVars, topicsVars>>
     \/ /\ part = "buffer" /\ SerBufferNext
        /\ UNCHANGED <<publisherVars, backpressureVars, batchingVars, topicsVars>>
     \/ /\ part = "batching" /\ BatchingNext
        /\ UNCHANGED <<publisherVars, backpressureVars, serBufferVars, topicsVars>>
     \/ /\ part = "topics" /\ TopicsNext
        /\ UNCHANGED <<publisherVars, backpressureVars, serBufferVars, batchingVars>>

PublisherSpec == PublisherInit /\ [][PublisherNext]_publisherLayerVars

-----------------------------------------------------------------------------
\* The instance for TLC.

MCSymmetry == Permutations(PoolClients) \cup Permutations(Senders)

MCPayloads == {<<"a">>, <<"b", "c">>, <<"d", "e", "f">>}

Event(base, type) == [exchange |-> "deribit", base |-> base, quote |-> "usd", type |-> type]
MCEvents == {Event("BTC", "book"), Event("eth", "trade")}

Filter(bases, fold) == [exchanges |-> {}, topic_types |-> {}, bases |-> bases, quotes |-> {},
                        case_insensitive |-> fold]

\* Templates of one and of two topics, and one that does not parse.
One == <<"{", "base", "}">>
Two == <<"all">>
Bad == <<"{", "symbol", "}">>

Rule(filter, targets, priority, enabled, action) ==
  [filter |-> filter, targets |-> targets, priority |-> priority, enabled |-> enabled,
   action |-> action]

MCRuleBodies ==
  {Rule(Filter({}, FALSE), <<One, Two>>, 2, TRUE, "Route"),
   Rule(Filter({"btc"}, TRUE), <<Two, Bad>>, 1, TRUE, "Route"),
   Rule(Filter({"btc"}, FALSE), <<Bad>>, 2, TRUE, "RouteAndStop"),
   Rule([Filter({}, FALSE) EXCEPT !.topic_types = {"book"}], <<One>>, 2, TRUE, "RouteAndStop"),
   Rule(Filter({"BTC"}, FALSE), <<One>>, 2, TRUE, "Drop"),
   Rule(Filter({}, FALSE), <<Two>>, 1, FALSE, "Drop")}
=============================================================================
