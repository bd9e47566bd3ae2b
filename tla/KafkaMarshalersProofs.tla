------------------------ MODULE KafkaMarshalersProofs ------------------------
(* Lemmas about the messages that the marshalers make of a batch: for any    *)
(* configuration, batches and contents.                                      *)
EXTENDS KafkaMarshalers, SumTheorems

LEMMA ItemType ==
    ASSUME NEW b \in Batches, NEW i \in Items(b)
    PROVE  /\ Item(b, i).class \in Classes
           /\ Item(b, i).size \in Nat
           /\ Item(b, i).trace \in Traces
           /\ Item(b, i).resource \in 1 .. Len(resources[b])
<1> DEFINE s == Content[b].items
           n == Len(Content[b].resources)
           S == [class : Classes, size : Nat, trace : Traces, resource : 1 .. n]
<1>1. s \in Seq(S) /\ i \in 1 .. Len(s)
  BY ContentAssumption DEF Items, items
<1>2. Item(b, i) = s[i] /\ Len(resources[b]) = n
  BY DEF Item, items, resources
<1> HIDE DEF s, S, n
<1>3. s[i] \in S
  BY <1>1
<1> QED
  BY <1>2, <1>3 DEF S

LEMMA ResourceType ==
    ASSUME NEW b \in Batches, NEW r \in 1 .. Len(resources[b])
    PROVE  /\ resources[b][r].topic \in Topics \cup {NoTopic}
           /\ resources[b][r].hash \in Hashes
<1> DEFINE s == Content[b].resources
           S == [topic : Topics \cup {NoTopic}, hash : Hashes]
<1>1. s \in Seq(S) /\ r \in 1 .. Len(s) /\ resources[b] = s
  BY ContentAssumption DEF resources
<1> HIDE DEF s, S
<1>2. s[r] \in S
  BY <1>1
<1> QED
  BY <1>1, <1>2 DEF S

(* The topic of a batch is that of a resource that names one, if any does,   *)
(* and else the default.                                                     *)
LEMMA TopicOfBatch ==
    ASSUME NEW b \in Batches
    PROVE  /\ getTopic(b) \in Topics
           /\ TopicFromAttribute /\ Naming(b) # {} =>
                 \E r \in Naming(b) : getTopic(b) = resources[b][r].topic
           /\ ~TopicFromAttribute \/ Naming(b) = {} => getTopic(b) = DefaultTopic
<1>1. CASE TopicFromAttribute /\ Naming(b) # {}
  <2> DEFINE First(r) == \A q \in Naming(b) : r <= q
             f == CHOOSE r \in Naming(b) : First(r)
  <2>1. Naming(b) \subseteq Nat
    BY DEF Naming
  <2>2. \E r \in Naming(b) : First(r)
    BY <1>1, <2>1, Smallest
  <2>3. f \in Naming(b)
    BY <2>2
  <2>4. getTopic(b) = resources[b][f].topic
    BY <1>1 DEF getTopic
  <2> HIDE DEF f
  <2> QED
    BY <1>1, <2>3, <2>4, ResourceType DEF Naming
<1>2. CASE ~(TopicFromAttribute /\ Naming(b) # {})
  BY <1>2, TopicAssumption DEF getTopic
<1> QED
  BY <1>1, <1>2

(* A message consists of items of its batch, and an item is in one message.  *)
LEMMA MessagesShape ==
    ASSUME NEW cfg, NEW k \in BOOLEAN, NEW b \in Batches,
           NEW m \in Marshal(cfg, k, b)
    PROVE  /\ m.items \subseteq Items(b)
           /\ m.key \in Keys \cup {NoKey}
           /\ \A n \in Marshal(cfg, k, b) : \A i \in m.items : i \in n.items => m = n
<1>1. CASE Marshal(cfg, k, b) = MarshalJaeger(cfg.dropSpans, b)
  <2> DEFINE Msg(i) == [items |-> {i}, key |-> Item(b, i).trace]
  <2>1. \A n \in Marshal(cfg, k, b) : \E i \in Items(b) : n = Msg(i)
    BY <1>1 DEF MarshalJaeger
  <2>2. \A i \in Items(b) : Msg(i).key \in Keys
    BY ItemType DEF Keys
  <2> QED
    BY <2>1, <2>2
<1>2. CASE Marshal(cfg, k, b) = MarshalRaw(b)
  BY <1>2 DEF MarshalRaw
<1>3. CASE Marshal(cfg, k, b) = Whole(b)
  BY <1>3 DEF Whole
<1>4. CASE k /\ Marshal(cfg, k, b) = MarshalTraces(k, b)
  <2> DEFINE Msg(i) == [items |-> {j \in Items(b) : SameGroup(b, i, j)},
                        key |-> Item(b, i).trace]
  <2>1. Marshal(cfg, k, b) = {Msg(i) : i \in Items(b)}
    BY <1>4 DEF MarshalTraces
  <2>2. \A i, j \in Items(b) : SameGroup(b, i, j) => Msg(i) = Msg(j)
    BY DEF SameGroup
  <2>3. \A i \in Items(b) : \A j \in Msg(i).items : j \in Items(b) /\ Msg(i) = Msg(j)
    BY <2>2
  <2>4. \A i \in Items(b) : Msg(i).items \subseteq Items(b) /\ Msg(i).key \in Keys
    BY ItemType DEF Keys
  <2> HIDE DEF Msg
  <2> QED
    BY <2>1, <2>3, <2>4
<1>5. CASE k /\ Marshal(cfg, k, b) = MarshalMetrics(k, b)
  <2> DEFINE Msg(r) == [items |-> {i \in Items(b) : Item(b, i).resource = r},
                        key |-> resources[b][r].hash]
  <2>1. Marshal(cfg, k, b) = {Msg(r) : r \in 1 .. Len(resources[b])}
    BY <1>5 DEF MarshalMetrics
  <2>2. \A r \in 1 .. Len(resources[b]) : \A i \in Msg(r).items : Item(b, i).resource = r
    OBVIOUS
  <2>3. \A r \in 1 .. Len(resources[b]) :
           Msg(r).items \subseteq Items(b) /\ Msg(r).key \in Keys
    BY ResourceType DEF Keys
  <2> HIDE DEF Msg
  <2> QED
    BY <2>1, <2>2, <2>3
<1> QED
  BY <1>1, <1>2, <1>3, <1>4, <1>5 DEF Marshal, MarshalTraces, MarshalMetrics

(* Every item is in a message, unless the marshaler leaves it out.           *)
LEMMA MessagesCover ==
    ASSUME NEW cfg \in Configurations, NEW k \in BOOLEAN, NEW b \in Batches,
           NEW i \in Items(b),
           ~(Oversize(b, i) /\ cfg.encoding = "jaeger" /\ cfg.dropSpans),
           ~(Item(b, i).class = "empty" /\ cfg.encoding = "raw")
    PROVE  \E m \in Marshal(cfg, k, b) : i \in m.items
<1>1. CASE Marshal(cfg, k, b) = MarshalJaeger(cfg.dropSpans, b) /\ cfg.encoding = "jaeger"
  <2>1. [items |-> {i}, key |-> Item(b, i).trace] \in Marshal(cfg, k, b)
    BY <1>1 DEF MarshalJaeger
  <2> QED
    BY <2>1
<1>2. CASE Marshal(cfg, k, b) = MarshalRaw(b) /\ cfg.encoding = "raw"
  <2>1. [items |-> {i}, key |-> NoKey] \in Marshal(cfg, k, b)
    BY <1>2 DEF MarshalRaw
  <2> QED
    BY <2>1
<1>3. CASE Marshal(cfg, k, b) = Whole(b)
  BY <1>3 DEF Whole
<1>4. CASE k /\ Marshal(cfg, k, b) = MarshalTraces(k, b)
  <2> DEFINE group == {j \in Items(b) : SameGroup(b, i, j)}
  <2>1. i \in group
    BY DEF SameGroup
  <2>2. [items |-> group, key |-> Item(b, i).trace] \in Marshal(cfg, k, b)
    BY <1>4 DEF MarshalTraces
  <2> QED
    BY <2>1, <2>2
<1>5. CASE k /\ Marshal(cfg, k, b) = MarshalMetrics(k, b)
  <2> DEFINE r == Item(b, i).resource
             group == {j \in Items(b) : Item(b, j).resource = r}
  <2>1. r \in 1 .. Len(resources[b])
    BY ItemType
  <2>2. [items |-> group, key |-> resources[b][r].hash] \in Marshal(cfg, k, b)
    BY <1>5, <2>1 DEF MarshalMetrics
  <2> QED
    BY <2>2
<1> QED
  BY <1>1, <1>2, <1>3, <1>4, <1>5 DEF Marshal, MarshalTraces, MarshalMetrics

(* The key of a message is that of each of its items.                        *)
LEMMA MessagesKeyed ==
    ASSUME NEW cfg, NEW k \in BOOLEAN, NEW b \in Batches,
           NEW m \in Marshal(cfg, k, b), NEW i \in m.items
    PROVE  /\ cfg.encoding = "jaeger" => m.key = Item(b, i).trace
           /\ cfg.encoding = "otlp" /\ cfg.signal = "traces" /\ k => m.key = Item(b, i).trace
           /\ cfg.encoding = "otlp" /\ cfg.signal = "metrics" /\ k => m.key = Hash(b, i)
<1>1. CASE cfg.encoding = "jaeger"
  BY <1>1 DEF Marshal, MarshalJaeger
<1>2. CASE cfg.encoding = "otlp" /\ cfg.signal = "traces" /\ k
  BY <1>2 DEF Marshal, MarshalTraces, SameGroup
<1>3. CASE cfg.encoding = "otlp" /\ cfg.signal = "metrics" /\ k
  BY <1>3 DEF Marshal, MarshalMetrics, Hash
<1> QED
  BY <1>1, <1>2, <1>3
=============================================================================
