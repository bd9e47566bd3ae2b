-------------------------- MODULE MC_KafkaExporter --------------------------
(* Three batches for TLC: one with an item that is too large, and two that   *)
(* are too large only in one message; one of two traces over two resources of*)
(* which the second names a topic, and which is just not too large as a      *)
(* whole; and one with an item that cannot be serialised.                    *)
EXTENDS KafkaExporter, TLC

CONSTANTS large, mixed, broken, t1, t2, x, y, h1, h2

Of(c, size, trace, r) == [class |-> c, size |-> size, trace |-> trace, resource |-> r]
On(topic, hash) == [topic |-> topic, hash |-> hash]

MCContent ==
    large :> [resources |-> <<On(NoTopic, h1), On(NoTopic, h2)>>,
              items |-> <<Of("serializable", 4, x, 1), Of("serializable", 2, y, 2),
                          Of("serializable", 2, x, 2)>>]
 @@ mixed :> [resources |-> <<On(NoTopic, h1), On(t2, h2)>>,
              items |-> <<Of("serializable", 1, x, 1), Of("empty", 2, y, 2)>>]
 @@ broken :> [resources |-> <<On(t2, h2)>>,
               items |-> <<Of("unserializable", 1, x, 1), Of("serializable", 1, y, 1)>>]

With(signal, encoding, partition, drop) ==
    [signal |-> signal, encoding |-> encoding, partition |-> partition, dropSpans |-> drop]

MCConfigs ==
    {With("traces", "otlp", FALSE, FALSE), With("traces", "otlp", TRUE, FALSE),
     With("traces", "jaeger", FALSE, TRUE), With("metrics", "otlp", TRUE, FALSE),
     With("logs", "raw", FALSE, FALSE), With("traces", "raw", FALSE, FALSE)}

MCSiblings ==
    {With("traces", "otlp", TRUE, FALSE), With("logs", "otlp", FALSE, FALSE)}
=============================================================================
