---------------------------- MODULE KafkaExporter ----------------------------
(* An exporter to Kafka (src/exporter/kafkaexporter: factory.go and          *)
(* kafka_exporter.modified.go).                                              *)
(*                                                                           *)
(* The factory builds an exporter for one signal and lends it a marshaler    *)
(* that it shares with the other exporters.  exporterhelper keeps the batches*)
(* in a bounded queue; consumers take them out and call the exporter's       *)
(* pusher, again after an error unless it is permanent.  A pusher serialises *)
(* a batch (KafkaMarshalers) and gives the messages to a synchronous Kafka   *)
(* producer.  The queue, the retries and the producer are other people's     *)
(* code and modelled from how they are used.                                 *)
EXTENDS KafkaMarshalers

CONSTANTS
    Configs,         \* configurations that the exporter may have
    Siblings,        \* configurations of other exporters of the same factory
    Consumers,       \* sending_queue.num_consumers
    QueueSize,       \* sending_queue.queue_size
    MaxTries,        \* bound: attempts until retry_on_failure gives up
    MaxFaults,       \* bound: attempts that meet a broker fault
    MaxResends       \* sarama's Producer.Retry.Max, which stays at its default

ASSUME QueueAssumption ==
    /\ QueueSize \in Nat \ {0}
    /\ MaxTries \in Nat \ {0}
    /\ MaxFaults \in Nat
    /\ MaxResends \in Nat

ASSUME ConfigAssumption ==
    /\ Configs \subseteq Configurations
    /\ Siblings \subseteq Configurations

VARIABLES
    config,  \* the exporter's configuration
    keyed,   \* the factory's marshalers on which Key was called
    mode,    \* "building", "refused" (there is no such encoding), "built",
             \* "running", "failed" (to start), "stopping" (retries are off)
             \* or "closed"
    queue,   \* the sending queue
    holds,   \* consumer: the batch it is exporting, or none
    tries,   \* batch: attempts made with it
    fate,    \* batch: what became of it
    stored,  \* batch: for each item, the topics and keys it is stored under
    copies,  \* batch: for each item, how many times it is stored
    faults   \* broker faults so far

factory == <<config, keyed>>
log == <<stored, copies, faults>>
vars == <<factory, mode, queue, holds, tries, fate, log>>

None == "none"

ASSUME NoneAssumption == None \notin Batches

Modes == {"building", "refused", "built", "failed", "running", "stopping", "closed"}
Fates == {"new", "rejected", "queued", "exporting", "ok", "permanent",
          "exhausted", "interrupted"}
Ended == {"rejected", "ok", "permanent", "exhausted", "interrupted"}

-----------------------------------------------------------------------------
(* The factory.  It makes its marshalers once, and every exporter gets the   *)
(* one that its encoding names.                                              *)

Marshaler(cfg) == <<cfg.signal, cfg.encoding>>

(* The type assertion to a KeyableTracesMarshaler or KeyableMetricsMarshaler.*)
Keyable == {<<"traces", "otlp">>, <<"metrics", "otlp">>}

Recognized(cfg) == cfg.encoding \in Encodings[cfg.signal]

KeyCalled(cfg) ==
    IF Recognized(cfg) /\ cfg.partition THEN {Marshaler(cfg)} \cap Keyable ELSE {}

(* Mutant: the marshaler of a traces exporter is not told to key.            *)
newTracesExporterUnkeyed(cfg) == cfg.signal = "traces" /\ UNCHANGED keyed

newTracesExporter(cfg) ==
    /\ cfg.signal = "traces"
    /\ keyed' = keyed \cup KeyCalled(cfg)

newMetricsExporter(cfg) ==
    /\ cfg.signal = "metrics"
    /\ keyed' = keyed \cup KeyCalled(cfg)

newLogsExporter(cfg) == cfg.signal = "logs" /\ UNCHANGED keyed

newExporter(cfg) ==
    newTracesExporter(cfg) \/ newMetricsExporter(cfg) \/ newLogsExporter(cfg)

(* The service creates all its exporters before it starts one.               *)
Create ==
    /\ mode = "building"
    /\ newExporter(config)
    /\ mode' = IF Recognized(config) THEN "built" ELSE "refused"
    /\ UNCHANGED <<config, queue, holds, tries, fate, log>>

CreateSibling(cfg) ==
    /\ mode \in {"building", "built"}
    /\ newExporter(cfg)
    /\ UNCHANGED <<config, mode, queue, holds, tries, fate, log>>

(* newSaramaProducer fails for an unknown version or codec, for credentials  *)
(* it cannot use and for brokers it cannot reach.                            *)
newSaramaProducer(r) == r \in {"running", "failed"}

start ==
    /\ mode = "built"
    /\ newSaramaProducer(mode')
    /\ UNCHANGED <<factory, queue, holds, tries, fate, log>>

-----------------------------------------------------------------------------
(* The pushers, and the producer.                                            *)

Messages(b) == Marshal(config, Marshaler(config) \in keyed, b)

(* The broker stores each of the messages that many times.                   *)
Store(b, times) ==
    LET with(i) == {m \in DOMAIN times : i \in m.items}
    IN  /\ stored' = [stored EXCEPT ![b] = [i \in Items(b) |->
              @[i] \cup {[topic |-> getTopic(b), key |-> m.key] :
                             m \in {n \in with(i) : times[n] > 0}}]]
        /\ copies' = [copies EXCEPT ![b] = [i \in Items(b) |->
              @[i] + SumFunctionOnSet(times, with(i))]]

(* The messages that the producer does not send at all.                      *)
Refused(b) == {m \in Messages(b) : TooLarge(b, m)}

(* SendMessages waits for an answer for every message, and is ok when none is*)
(* an error.  After a fault of the broker the producer sends a message again *)
(* by itself, and since it is not idempotent, the broker may have stored it  *)
(* each time, also when the answer is an error in the end.                   *)
SendMessages(b, ok) ==
    /\ tries' = [tries EXCEPT ![b] = @ + 1]
    /\ ok => Refused(b) = {}
    /\ \/ /\ ok = (Refused(b) = {})
          /\ UNCHANGED faults
          /\ Store(b, [m \in Messages(b) \ Refused(b) |-> 1])
       \/ /\ faults < MaxFaults
          /\ faults' = faults + 1
          /\ \E times \in [Messages(b) \ Refused(b) -> 0 .. 1 + MaxResends] :
                /\ ok => \A m \in Messages(b) : times[m] > 0
                /\ Store(b, times)

End(c, f) ==
    /\ fate' = [fate EXCEPT ![holds[c]] = f]
    /\ holds' = [holds EXCEPT ![c] = None]

(* Mutant: an error of Marshal is retried, without end.                      *)
PushPermanentRetried(c) ==
    /\ MarshalError(holds[c])
    /\ UNCHANGED <<holds, fate, tries, log>>

(* An error of Marshal is permanent, and the messages it made are not sent.  *)
PushPermanent(c) ==
    /\ MarshalError(holds[c])
    /\ End(c, "permanent")
    /\ UNCHANGED <<tries, log>>

PushOk(c) ==
    /\ ~MarshalError(holds[c])
    /\ End(c, "ok")
    /\ SendMessages(holds[c], TRUE)

(* Mutant: the producer's errors are logged and not returned.                *)
PushFailsSilently(c) ==
    /\ ~MarshalError(holds[c])
    /\ SendMessages(holds[c], FALSE)
    /\ End(c, "ok")

(* Mutant: one attempt too many.                                             *)
PushFailsOnceMore(c) ==
    /\ ~MarshalError(holds[c])
    /\ tries[holds[c]] <= MaxTries
    /\ SendMessages(holds[c], FALSE)
    /\ UNCHANGED <<holds, fate>>

(* A producer error is returned, with their number, and can be retried.      *)
PushFails(c) ==
    /\ ~MarshalError(holds[c])
    /\ CASE mode # "running" -> End(c, "interrupted")
         [] mode = "running" /\ tries[holds[c]] + 1 = MaxTries -> End(c, "exhausted")
         [] OTHER -> UNCHANGED <<holds, fate>>
    /\ SendMessages(holds[c], FALSE)

Push(c) ==
    /\ holds[c] # None
    /\ UNCHANGED <<factory, mode, queue>>
    /\ PushPermanent(c) \/ PushOk(c) \/ PushFails(c)

tracesPusher(c) == config.signal = "traces" /\ Push(c)
metricsDataPusher(c) == config.signal = "metrics" /\ Push(c)
logsDataPusher(c) == config.signal = "logs" /\ Push(c)

-----------------------------------------------------------------------------
(* exporterhelper, as the factory sets it up.                                *)

(* Mutant: a full queue refuses a batch that it keeps.                       *)
OfferAndKeep(b) ==
    /\ mode \in {"running", "stopping"}
    /\ fate[b] = "new"
    /\ queue' = IF mode = "running" THEN Append(queue, b) ELSE queue
    /\ fate' = [fate EXCEPT ![b] =
                   IF mode = "running" /\ Len(queue) < QueueSize THEN "queued" ELSE "rejected"]
    /\ UNCHANGED <<factory, mode, holds, tries, log>>

(* The pipeline hands over a batch: it is queued, or refused with an error.  *)
Offer(b) ==
    /\ mode \in {"running", "stopping"}
    /\ fate[b] = "new"
    /\ IF mode = "running" /\ Len(queue) < QueueSize
       THEN /\ queue' = Append(queue, b)
            /\ fate' = [fate EXCEPT ![b] = "queued"]
       ELSE /\ fate' = [fate EXCEPT ![b] = "rejected"]
            /\ UNCHANGED queue
    /\ UNCHANGED <<factory, mode, holds, tries, log>>

Take(c) ==
    /\ holds[c] = None
    /\ queue # <<>>
    /\ holds' = [holds EXCEPT ![c] = Head(queue)]
    /\ fate' = [fate EXCEPT ![Head(queue)] = "exporting"]
    /\ queue' = Tail(queue)
    /\ UNCHANGED <<factory, mode, tries, log>>

(* Shutdown first ends the retries.                                          *)
Shutdown ==
    /\ mode = "running"
    /\ mode' = "stopping"
    /\ UNCHANGED <<factory, queue, holds, tries, fate, log>>

(* A consumer that waits for its next attempt gives up.                      *)
Interrupt(c) ==
    /\ mode = "stopping"
    /\ holds[c] # None
    /\ tries[holds[c]] > 0
    /\ End(c, "interrupted")
    /\ UNCHANGED <<factory, mode, queue, tries, log>>

(* The queue is drained, and then the producer is closed, if there is one.   *)
Close ==
    /\ mode \in {"stopping", "failed"}
    /\ queue = <<>>
    /\ \A c \in Consumers : holds[c] = None
    /\ mode' = "closed"
    /\ UNCHANGED <<factory, queue, holds, tries, fate, log>>

-----------------------------------------------------------------------------
Init ==
    /\ config \in Configs
    /\ keyed = {}
    /\ mode = "building"
    /\ queue = <<>>
    /\ holds = [c \in Consumers |-> None]
    /\ tries = [b \in Batches |-> 0]
    /\ fate = [b \in Batches |-> "new"]
    /\ stored = [b \in Batches |-> [i \in Items(b) |-> {}]]
    /\ copies = [b \in Batches |-> [i \in Items(b) |-> 0]]
    /\ faults = 0

Export(c) ==
    \/ tracesPusher(c) \/ metricsDataPusher(c) \/ logsDataPusher(c)
    \/ Take(c)
    \/ Interrupt(c)

Next ==
    \/ Create
    \/ \E cfg \in Siblings : CreateSibling(cfg)
    \/ start
    \/ \E b \in Batches : Offer(b)
    \/ \E c \in Consumers : Export(c)
    \/ Shutdown
    \/ Close

Spec == Init /\ [][Next]_vars

(* Consumers go on; nobody has to shut down.                                 *)
FairSpec ==
    /\ Spec
    /\ \A c \in Consumers : WF_vars(Export(c))

-----------------------------------------------------------------------------
(* Properties.                                                               *)

TypeOK ==
    /\ config \in Configs
    /\ keyed \subseteq Keyable
    /\ mode \in Modes
    /\ queue \in Seq(Batches) /\ Len(queue) <= QueueSize
    /\ holds \in [Consumers -> Batches \cup {None}]
    /\ tries \in [Batches -> 0 .. MaxTries]
    /\ fate \in [Batches -> Fates]
    /\ DOMAIN stored = Batches /\ DOMAIN copies = Batches
    /\ \A b \in Batches :
          /\ stored[b] \in [Items(b) -> SUBSET [topic : Topics, key : Keys \cup {NoKey}]]
          /\ copies[b] \in [Items(b) -> Nat]
    /\ faults \in 0 .. MaxFaults

Stored(b, i) == copies[b][i] > 0

(* What an exporter that is configured so owes for a batch: all that curing  *)
(* was not told to drop and that is not an empty log record.                 *)
Owed(b) ==
    {i \in Items(b) :
        /\ ~(Oversize(b, i) /\ config.encoding = "jaeger" /\ config.dropSpans)
        /\ ~(Item(b, i).class = "empty" /\ config.encoding = "raw")}

(* A batch that is reported as exported is in Kafka, item for item, except   *)
(* those the exporter leaves out (the error handling of the pushers).        *)
OkIsStored ==
    \A b \in Batches : fate[b] = "ok" => \A i \in Owed(b) : Stored(b, i)

(* Kafka has an item more often than the exporter tried to send it only by a *)
(* fault of the broker, after which the producer sends it again: without one *)
(* an attempt stores an item once, however the marshaler splits the batch.   *)
CopiesAreRetries ==
    \A b \in Batches : \A i \in Items(b) :
        copies[b][i] <= tries[b] + MaxResends * faults

(* An exporter that partitions stores every span under its own trace id and  *)
(* every metric under the hash of its own resource, also when other          *)
(* exporters share its marshaler; and so does a Jaeger encoding.             *)
KeyedAsConfigured ==
    \A b \in Batches : \A i \in Items(b) : \A at \in stored[b][i] :
        /\ config.signal = "traces" /\ (config.partition \/ config.encoding = "jaeger") =>
              at.key = Item(b, i).trace
        /\ config.signal = "metrics" /\ config.partition => at.key = Hash(b, i)

(* A batch whose resources name one topic, those that name any, goes there;  *)
(* one whose resources name none, or need not be asked, to the default topic.*)
AgreedTopic ==
    \A b \in Batches : \A i \in Items(b) : \A at \in stored[b][i] :
        /\ ~TopicFromAttribute \/ Naming(b) = {} => at.topic = DefaultTopic
        /\ \A r \in Naming(b) :
              /\ TopicFromAttribute
              /\ \A q \in Naming(b) : resources[b][q].topic = resources[b][r].topic
              => at.topic = resources[b][r].topic

(* At-least-once delivery of each batch until it has an outcome, for the     *)
(* configuration the exporter has (exporterhelper's promise to a pipeline).  *)
Outcome(b) ==
    CASE fate[b] = "ok" -> "ok"
      [] fate[b] \in Ended \ {"ok"} -> "failed"
      [] OTHER -> "pending"

Delivery == INSTANCE BatchDelivery WITH
    owed <- [b \in Batches |-> Owed(b)],
    outcome <- [b \in Batches |-> Outcome(b)],
    MaxSends <- 1 + MaxResends

DeliveryRefined == Delivery!Spec

(* A batch that was queued comes to an end, whatever the broker does.        *)
QueuedEnds == \A b \in Batches : fate[b] = "queued" ~> fate[b] \in Ended

(* A shutdown does not wait for ever: the consumers empty the queue and let  *)
(* go of every batch, whatever the broker does and the batches hold, so that *)
(* Close may run (the service waits for it).                                 *)
StoppingDrains ==
    mode = "stopping" ~> queue = <<>> /\ \A c \in Consumers : holds[c] = None

(* Items that a broker which answers stores: what is owed, but for items in a*)
(* message that is too large with what else the marshaler put in it.         *)
Fitting(b) ==
    {i \in Owed(b) : \A m \in Messages(b) : i \in m.items => ~TooLarge(b, m)}

(* Faults of the broker end before the retries do: the items that fit reach  *)
(* Kafka, whatever else is in the queue or in their batch, unless the        *)
(* exporter is shut down.                                                    *)
FittingItemsArrive ==
    \A b \in Batches :
        fate[b] = "queued" /\ ~MarshalError(b)
        ~> (\A i \in Fitting(b) : Stored(b, i)) \/ mode # "running"

(* A span that can be serialised is sent even if a neighbour cannot be       *)
(* ("continue to process spans that can be serialized").                     *)
SerializableSpansSent ==
    \A b \in Batches : config.encoding = "jaeger" /\ fate[b] = "permanent" =>
        \A i \in Items(b) :
            Item(b, i).class = "serializable" /\ ~Oversize(b, i) => Stored(b, i)

(* An exporter that does not partition sends its messages without a key      *)
(* ("partition_traces_by_id (default = false)").                             *)
KeyedOnlyIfConfigured ==
    \A b \in Batches : \A i \in Items(b) : \A at \in stored[b][i] :
        ~config.partition /\ config.encoding # "jaeger" => at.key = NoKey

=============================================================================
