--------------------------- MODULE KafkaMarshalers ---------------------------
(* What the marshalers of the Kafka exporter make of a batch                 *)
(* (src/exporter/kafkaexporter: jaeger_marshaler.go, pdata_marshaler.go,     *)
(* raw_marshaler.go), and the topic it goes to (getTopic).                   *)
(*                                                                           *)
(* A batch has resources, and items: spans, metrics or log records.  An item *)
(* has the size it has once it is serialised, and cured (SpanCuring) if the  *)
(* marshaler cures; and a class: it can be serialised, or it cannot, or it is*)
(* empty.                                                                    *)
EXTENDS FiniteSets, Functions, Naturals, Sequences

CONSTANTS
    Batches,
    Content,         \* Content[b]: its resources and its items
    Topics,
    NoTopic,         \* a resource without the attribute, or an empty one
    DefaultTopic,    \* config.Topic
    TopicFromAttribute,
    Traces,          \* trace ids
    Hashes,          \* hashes of the attributes of a resource
    MaxMessageBytes, \* config.Producer.MaxMessageBytes
    NoKey            \* a message without a key

Classes == {"serializable", "unserializable", "empty"}
Keys == Traces \cup Hashes

(* The maps of the factory.  All encodings but Jaeger's and the raw one share*)
(* their code, and one stands for them here.                                 *)
Encodings ==
    [traces |-> {"otlp", "jaeger"}, metrics |-> {"otlp"}, logs |-> {"otlp", "raw"}]

(* What this module needs of an exporter's configuration.                    *)
Configurations ==
    [signal : DOMAIN Encodings,
     encoding : {"otlp", "jaeger", "raw"},
     partition : BOOLEAN,  \* partition_traces_by_id or ..._by_resource_attributes
     dropSpans : BOOLEAN]  \* span_curing is enabled and drops what it cannot cure

ASSUME TopicAssumption ==
    /\ NoTopic \notin Topics
    /\ DefaultTopic \in Topics
    /\ TopicFromAttribute \in BOOLEAN

ASSUME KeyAssumption == NoKey \notin Keys

ASSUME SizeAssumption == MaxMessageBytes \in Nat

ASSUME ContentAssumption ==
    \A b \in Batches :
        /\ Content[b].resources \in
              Seq([topic : Topics \cup {NoTopic}, hash : Hashes])
        /\ Content[b].items \in
              Seq([class : Classes, size : Nat, trace : Traces,
                   resource : 1 .. Len(Content[b].resources)])

resources == [b \in Batches |-> Content[b].resources]
items == [b \in Batches |-> Content[b].items]

Items(b) == 1 .. Len(items[b])
Item(b, i) == items[b][i]
Hash(b, i) == resources[b][Item(b, i).resource].hash
Oversize(b, i) == Item(b, i).size > MaxMessageBytes

-----------------------------------------------------------------------------
(* The first resource that names a topic names it for the whole batch.       *)
Naming(b) ==
    {r \in 1 .. Len(resources[b]) : resources[b][r].topic # NoTopic}

(* Mutant: only the first resource is asked.                                 *)
getTopicOfFirst(b) ==
    IF TopicFromAttribute /\ 1 \in Naming(b) THEN resources[b][1].topic ELSE DefaultTopic

getTopic(b) ==
    IF TopicFromAttribute /\ Naming(b) # {}
    THEN resources[b][CHOOSE r \in Naming(b) : \A q \in Naming(b) : r <= q].topic
    ELSE DefaultTopic

(* An error for any item makes Marshal return an error.                      *)
MarshalError(b) == \E i \in Items(b) : Item(b, i).class = "unserializable"

Whole(b) == {[items |-> Items(b), key |-> NoKey]}

(* pdataTracesMarshaler: SplitTraces makes a batch of the spans of one       *)
(* resource and trace.                                                       *)
SameGroup(b, i, j) ==
    Item(b, i).resource = Item(b, j).resource /\ Item(b, i).trace = Item(b, j).trace

MarshalTraces(isKeyed, b) ==
    IF isKeyed
    THEN {[items |-> {j \in Items(b) : SameGroup(b, i, j)}, key |-> Item(b, i).trace] :
             i \in Items(b)}
    ELSE Whole(b)

(* Mutant: each resource gets a message, but with all metrics.               *)
MarshalMetricsUncut(isKeyed, b) ==
    IF isKeyed
    THEN {[items |-> Items(b), key |-> resources[b][r].hash] : r \in 1 .. Len(resources[b])}
    ELSE Whole(b)

(* pdataMetricsMarshaler: one message for each resource.                     *)
MarshalMetrics(isKeyed, b) ==
    IF isKeyed
    THEN {[items |-> {i \in Items(b) : Item(b, i).resource = r}, key |-> resources[b][r].hash] :
             r \in 1 .. Len(resources[b])}
    ELSE Whole(b)

(* rawMarshaler leaves out records without a body.                           *)
MarshalRaw(b) ==
    {[items |-> {i}, key |-> NoKey] : i \in {j \in Items(b) : Item(b, j).class # "empty"}}

(* Mutant: a span that is too large ends the loop.                           *)
MarshalJaegerUpToOversize(dropSpans, b) ==
    {[items |-> {i}, key |-> Item(b, i).trace] :
        i \in {n \in Items(b) : \A j \in 1 .. n : ~Oversize(b, j)}}

(* jaegerMarshaler, or the curer, which may drop what it cannot cure.        *)
MarshalJaeger(dropSpans, b) ==
    {[items |-> {i}, key |-> Item(b, i).trace] :
        i \in {j \in Items(b) : ~(dropSpans /\ Oversize(b, j))}}

(* Marshal, by the marshaler that the configuration names, keyed or not.     *)
Marshal(cfg, isKeyed, b) ==
    CASE cfg.encoding = "jaeger" -> MarshalJaeger(cfg.dropSpans, b)
      [] cfg.encoding = "raw" -> MarshalRaw(b)
      [] cfg.encoding = "otlp" /\ cfg.signal = "traces" -> MarshalTraces(isKeyed, b)
      [] cfg.encoding = "otlp" /\ cfg.signal = "metrics" -> MarshalMetrics(isKeyed, b)
      [] OTHER -> Whole(b)  \* pdataLogsMarshaler

(* The producer refuses a message larger than producer.max_message_bytes,    *)
(* which items that fit one by one may be together.                          *)
TooLarge(b, m) ==
    SumFunctionOnSet([i \in m.items |-> Item(b, i).size], m.items) > MaxMessageBytes
=============================================================================
