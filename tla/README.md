# Hypertrace collector: models, checks and proofs

TLA+ models of the Hypertrace collector, the TLC configurations that check them on
small instances, and theorems that TLAPS proves for every value of the constants.
Every definition is translated from the Go source; `PROJECT.json` maps each to its lines.

## 1. The system

The collector is an OpenTelemetry collector with Hypertrace's own components.
Data enters through receivers, passes processors and leaves through exporters; each
calls the next one's `ConsumeTraces` or `ConsumeMetrics` in its own goroutine.

| Component | State | Operations | Hard behaviour | What makes it correct |
|---|---|---|---|---|
| Jaeger receiver (`src/receiver/jaegerreceiver`) | servers of the UDP agent, HTTP and gRPC; a wait group | `Start`, `Shutdown`, `EmitBatch`, `HandleThriftHTTPBatch`, `PostSpans` | a Start that fails half way, requests in progress at Shutdown | every request is answered; Shutdown ends and leaves nobody behind unless its context ended |
| Tenant id processor (`src/processors/tenantidprocessor`) | none; metrics per tenant | `ProcessTraces`, `ProcessMetrics` | senders that write a tenant themselves | data goes on only with one tenant header, and carries that tenant everywhere |
| Rate limiter (`src/processors/ratelimiter`) | gRPC connection to a remote service | `ConsumeTraces`, `Shutdown` | concurrent calls, calls that fail or stay silent, a header of its own | no tenant is admitted beyond its quota; spans are lost only to the service's verdict; metrics say which |
| Span counter (`src/processors/spancounter`) | map of criteria, built once | `ProcessTraces` | context reused in a loop, duplicate entries | each match is counted once, under its label |
| Metric remover, resource attributes to attributes (`src/processors/metric*`) | none | `ProcessMetrics` | names that collide after translation; order of attributes | no label twice in what the exporter makes of a point |
| Kafka exporter (`src/exporter/kafkaexporter`) | the factory's marshalers; queue and retries (library), synchronous producer | creation by the factory, `start`, the pushers of the three signals, `Close`, marshalers | partial failures, retries by the helper and by the Kafka client, messages too large only in sum, shutdown with a full queue, marshalers that exporters share | "exported" means stored; messages have the keys and the topic asked for; nothing is duplicated but by a retry or a resend after a fault |
| Span curing (`jaeger_marshaler_curer.go`) | local to one `Marshal` | `Marshal`, `cureSpan`, `cureSpanLogs` | loops that cut in place with limits | nothing half-cured is sent, cuts are marked and as small as can be |
| Prometheus exporter (`src/exporter/prometheusexporter`) | `sync.Map` of the last value of each series | `ConsumeMetrics`, scrape (`Collect`), expiry | callers and scrapes at the same time, deltas out of order | sums are right for the interval shown; scrapes are complete; series expire |
| Collector binary, Helm chart (`src/cmd/collector`, `src/helm`) | none | wiring | | not modelled |

Shared state is only in three places: the registry of the Prometheus exporter, the
queue of the Kafka exporter, and the remote rate limit service. What is hard to test is
listed, line by line, as hazards in `PROJECT.json`, with the properties that cover it.

## 2. Modules

| Module | Models |
|---|---|
| `Accumulator` | `accumulator.go`: the registry, concurrent `Accumulate`, concurrent `Collect` |
| `CumulativeSeries` | abstract: what a reader of the endpoint is promised about sums |
| `SpanCuring` | `jaeger_marshaler_curer.go`: one call of `Marshal` |
| `KafkaMarshalers` | operators: what each marshaler makes of a batch, and `getTopic` |
| `KafkaExporter` | the factory, `start`, the three pushers, `Close`, under the exporter helper's queue and retries |
| `BatchDelivery` | abstract: at-least-once delivery of batches, with an honest outcome |
| `SpanCounter` | operators of the span counter: configuration, matching, recording |
| `TracePipeline` | the way of a batch of spans: Jaeger receiver, tenant id, rate limiter and its service, span counter; Start and Shutdown |
| `TenantIngress` | abstract: what the traces pipeline promises the tenants: quota, one end for each batch, own tenant |
| `MetricsPipeline` | the way of metrics: tenant id, remover, resource attributes, registry, `collector.Collect` with `target_info` |
| `HistogramBuckets` | the buckets of one delta histogram, from its points to the endpoint |
| `MC_*` | the instances for TLC |
| `SumTheorems` | lemmas: induction over sets of numbers and over finite sets, sums over finite sets |
| `*Proofs` | the theorems |

`TracePipeline` extends `SpanCounter`, and `KafkaExporter` extends `KafkaMarshalers`.
`Accumulator` instantiates `CumulativeSeries` as `Promise`, `KafkaExporter` instantiates
`BatchDelivery` as `Delivery`, `TracePipeline` instantiates `TenantIngress` as `Ingress`;
the refinements are properties of runs, and theorems.
`KafkaMarshalers` uses the sizes and classes of items (serializable, unserializable, empty) of
which `SpanCuring` shows how spans come by them. `MC_MetricsPipeline` extends
`MetricsPipeline` and `HistogramBuckets`. Operators whose comment begins with "Mutant"
are plausible errors; each shows that one property can fail.

### Accumulator

`registered` is `registeredMetrics`. Only the operations of the `sync.Map` are atomic:
`LoadPoint` does the Load and computes the new value (entries are immutable, so nothing
changes it later), `StorePoint` stores it, `DeletePoint` is a point without a recorded
value, after which the rest of its metric is abandoned, `SkipPoint` a point that is too
old. `BeginCollect`, `CollectSeries`, `FindExpired`, `ExpireSeries` and `EndCollect` are
the Range of one scrape; as the library documents, Range may or may not see a key stored
or deleted meanwhile (`PassOver`). A point is its interval, one number, its number type
and its bucket layout. `Total[s][t]` is what the source of series `s` has counted at
`t`: points are assumed `Honest`, that is they report a difference of `Total`.

### SpanCuring

Each try of the two loops is an action (`TruncateTags`, `HalveLogs`); a value is its
length, `Size` is any function of tags, markers and logs. A span may fail to marshal at
once or only once cured. `maxTruncationTries` is a constant (5 in the code).

### KafkaMarshalers and KafkaExporter

A batch has resources (a topic or none, a hash of the attributes) and items: spans,
metrics or log records, each with a size, a class, a trace and a resource. `Marshal` gives
the set of messages, a message being a set of items and a key. All encodings but Jaeger's and
the raw one share their code, and `otlp` stands for them. `keyed` is the flag in the
factory's marshalers, which all exporters of the factory share: `Create` builds the
exporter, `CreateSibling` others of the same factory, before or after it; nothing is
created once exporters run. `start` builds the producer or fails.

`PushPermanent`, `PushOk`, `PushFails` are the three results of a pusher. A message is as
large as its items together, and one larger than `MaxMessageBytes` (`producer.max_message_bytes`)
is refused at every try, be each of its items ever so small (`Refused`); the Jaeger encoding
has a message for each span and leaves out, or sends as it is, a span that is too large by
itself (`Oversize`). When the broker fails, `SendMessages` stores any subset of the others, and
a message may be stored although its error was returned. `newSaramaProducer` leaves the Kafka
client's `Producer.Retry.Max` and `Idempotent` at their defaults: a message whose
acknowledgement is lost is sent again within one `SendMessages`, so an attempt that meets a
fault may store a message `MaxResends` times more, whether it ends well or not.
`Offer`, `Take`, `Interrupt`, `Shutdown`, `Close` are exporterhelper as `factory.go` sets it
up (external); that `Close` comes after the queue is drained is its promise and no property
here, but that the queue drains is one (`StoppingDrains`). An answer of the broker is taken to
mean that the message is stored, as with the default `required_acks`; with `required_acks: 0`
nothing here holds. `BatchDelivery` allows an attempt to store an item more than once, up to
`MaxSends` times, and a batch to end well only when all it owes is stored.

### TracePipeline

Each request has a program counter over the processors; the rate limit service is an
actor of its own (`ShouldRateLimit`, `CallFails`, `NewWindow`). `Start` may fail at any
transport, after which the host shuts the receiver down. The processors stand in the
order that `ratelimiter/config.go:8` asks for. The tenant id processor reads the header
`TenantHeader`; the rate limiter reads `limitHeader`, any of `HeaderNames`, of which a request
may carry no value, one or several: with one it asks the service for that tenant (`Payer`), else
it passes the request on. `protocols` are the transports
the receiver is configured with: at least one, as `Config.Validate` asks (the two UDP
listeners are one transport).

`StopTransport` waits for the handlers of one transport after the other. `Interrupt` is the
context of `Shutdown` ending while HTTP handlers run: `http.Server.Shutdown` returns its
error, the handlers stay, and the host goes on to close what is behind the receiver. A call on
the closed connection fails and the spans go on unlimited, as after any failure. The service
that runs the collector gives `Shutdown` a context without a deadline, so `Interrupt` is
possible and never fair. `GracefulStop` has no context, the UDP processors are stopped without
one, and `agentServer` only answers questions about sampling: its interruption is left out,
for it has no request with spans.

`TenantIngress` is what a tenant sees of it. `Room`, what a window still admits, is the quota
less what the service has admitted in it; the calls that failed after the service counted
them, and the batches it refused, make it admit less than that, never more. `payer` is the
tenants a request is charged to, one or none, and `Bears` the tenants of a batch when it is
delivered: where the two headers differ they need not be the same.

### MetricsPipeline

Attribute maps are functions; keys are strings and `NormalizeLabel` is any function that
translates the known ones as Prometheus does. `CopyAttributes` is the whole processor,
removals included. `ExportPoint` puts a point into the registry under
`timeseriesSignature` (as a tuple: the string the code joins with `*` is not modelled,
and could only make more points share an entry), with the resource of its own request. A scrape takes what
is there (`BeginCollect`), chooses for each job and instance the resource Range came to
first, and converts the entries whose labels are all different. The registry of Prometheus
(`Gathered`, external) has been sent the target_info series (`TargetInfo`) first, and of the
others takes any that do not clash, in any order. Two series of a name clash when their
labels are equal (the scope is no label) or when the type or the description of the name
differs; and a name that is another's with `_count` or `_sum`, or for a histogram `_bucket`,
clashes with that histogram or summary (`IsPartOf`; `Suffixed` says which names are composed
so). A series named like target_info clashes with it in the same ways. The values of keys
that become one label of target_info are joined by the code; here they stay a function, which
is taken to differ from any one value. No key becomes the label `quantile`, and
`send_timestamps` is off, as by default: with timestamps fewer series clash.

`EveryTenantServed` is about what `Gathered` loses: never a tenant's labels to another
tenant's series with the same labels, but a name may be taken by another family.

### HistogramBuckets

`series` is the accumulated point of one series, `reports` the history of the points that
arrived; a point reports the values its sender has observed since its start. `Report` is
one turn of the loop of `accumulateHistogram` for a delta point with a value, and
`convertDoubleHistogram` what a scrape shows. A sender may leave out the only bucket of
a histogram without bounds, and then does so always (`KeepsForm`); a series that mixed
the two forms would make the exporter panic (`accumulateHistogramValues`). `BucketsSpec` is
the behaviour of the series alone, `BucketsNext` within that of `MC_MetricsPipeline`.

## 3. Runs

| Run | Shows |
|---|---|
| `accumulator_concurrent` | two callers and an expiring scrape: sums and histogram counts stay right |
| `accumulator_ordered` | one caller and one scrape: points advance, the sums implement `CumulativeSeries`, scrapes are complete, series expire |
| `accumulator_latest` | violation: two callers, and an older point replaces a newer one |
| `accumulator_fresh` | violation: a scrape deletes a series that was just updated |
| `span_curing` | all batches of one span with up to two attributes and up to 7 logs, and pairs of six kinds of span |
| `kafka_exporter` | exporters of each signal and kind of marshaler, with siblings, three batches, two consumers, faults, resends, retries and shutdown: it implements `BatchDelivery`, what fits arrives and the queue drains; keys and topics are those asked for |
| `kafka_serializable` | violation: one span that cannot be serialised keeps its batch out |
| `kafka_keys` | violation: an exporter that does not partition keys its messages because a sibling does |
| `trace_pipeline` | three requests, by gRPC, HTTP and UDP, with failures of the service and shutdown at any time, the rate limiter reading the tenant's header, another one, or one that comes twice: it implements `TenantIngress` |
| `trace_timeout` | violation: with a silent service a call of it never ends |
| `trace_labels` | violation: counts go to the wrong label |
| `metrics_pipeline` | four requests, two of one job and instance, with scrapes at any time: every tenant's series are shown, under its own tenant, unless their name is taken; and, apart from them, every history of a histogram: its buckets are those of the values observed |

Bounds, and why they are enough to see what matters:

* Accumulator: `MaxTime` 3 gives deltas that are aligned, overlapping, apart and
  repeated; the increments of `MCTotal` are all different, so two intervals never have
  the same value by accident. Two writers are symmetric. `MaxClock` 1 with
  `MetricExpiration` 0 lets every entry expire; in `accumulator_fresh` the clock goes to 3.
* Span curing: `maxTruncationTries` 2, a limit of 4 that halves to 2, message size 12:
  there are spans that fit, that need one try or two, that need one halving of their
  logs or two, and that cannot be cured. 4 logs are the fewest that are thinned.
* Kafka: a queue of 1, two consumers, two attempts, one fault, three batches: the queue
  overflows, an attempt fails and the next one succeeds, and faults end before attempts.
  `MaxResends` 1 lets one fault duplicate a message within an attempt. With a
  `MaxMessageBytes` of 3 there are items that are too large by themselves next to ones that fit,
  and items that fit but are too large together; one batch has two resources and two traces,
  one has an item that cannot be serialised. Of the siblings one keys the marshaler of an
  exporter that does not want it.
* Traces: a quota of 3 that one request meets and two exceed, two windows, two faults; three
  headers, one of them with several values in some requests.
* Metrics: points repeat the resource's keys under the same name and under the one of
  OpenCensus, claim another tenant, and collide after translation; two scopes have equal series, one gauge
  has the name of a summary's count, and one sum that of target_info. The request that is refused
  goes first, having nothing to do with the others.
* Histograms: three points, times up to 2, no bounds or two, up to two values in a point:
  a gap, an overlap and a change of bounds can follow upon an accumulation, or precede it.
  In `MCSpec` the labels and the buckets move one at a time: they share no variable.

Deadlock is checked except in the Kafka and trace runs, which end when all is done.

Fairness. `Accumulator!FairSpec`: time passes, a call under way returns, scrapes go on;
no request is owed. `SpanCuring!FairSpec`: `Marshal` is one goroutine that waits for
nobody. `KafkaExporter!FairSpec`: each consumer goes on and nothing else
is owed: that `Close` comes is left to the helper; the broker's faults are bounded by `MaxFaults`, below the number of attempts, and
that is an assumption of `FittingItemsArrive` (`QueuedEnds` needs no bound, since attempts are
counted). `TracePipeline!FairSpec`: goroutines go on, and a call of the service is answered
or fails; `SilentServiceSpec` drops the latter. `Shutdown` and new requests are never fair.

## 4. Findings

* `accumulator.go:157`: Load, comparison and Store are not atomic; with concurrent
  callers an older point replaces a newer one. (With one caller it is proved not to.)
* `accumulator.go:306`: Collect deletes by key what it found expired by value; an update
  in between is deleted, and a delta sum starts again.
* `spancounterprocessor.go:98`: `tag.Insert` keeps the first label and the context is
  reused, so all criteria of a batch are counted under the first one.
* `kafka_exporter.modified.go:46`: one span that cannot be serialised makes the error
  permanent, although the marshaler goes on "to process spans that can be serialized".
* `pdata_marshaler.go:60`: partitioning is a flag of a marshaler that the factory shares,
  so one exporter's configuration keys the messages of another, although the README says
  "partition_traces_by_id (default = false)".
* `ratelimiterprocessor.go:76`: the call has no deadline, although the configuration has
  a "Timeout in millis for grpc call": it bounds the dialling only.

## 5. Proofs

| Theorem | Says | Along |
|---|---|---|
| `AccumulatorProofs!TypeCorrect` | `TypeOK` | one lemma per action; includes that a writer about to store stands at a point (`Poised`) |
| `TruthfulAlways`, `SumsAreExact`, `HistogramsCountATail` | `TruthfulRegistry`, `ExactSums`, `HistogramCounts` | see below |
| `OneWriterKeepsLatest` | `TimestampsAdvance`, if there is one writer | what the writer loaded is still there, or gone, when it stores |
| `ImplementsCumulativeSeries` | `Spec` implements `CumulativeSeries`, if there is one writer | each action is `Show`, `Withdraw` or a stutter |
| `ScrapesAreComplete` | `ScrapeComplete` | keys present throughout are served or still to be visited |
| `SpanCuringProofs!CuringTypeCorrect`, `NothingHalfCured`, `OneFateForEachSpan` | `TypeOK`, `OversizeOnlyAsReceived`, `OneFateEach` | `messages` changes only in `Produce` |
| `MarkedForWhatWasCut` | `MarkedOnceIfCut` | `CureInv`, see below |
| `CuredNoMoreThanNeeded` | `GentlestCure` | `GentleInv`, see below |
| `KafkaExporterProofs!ExporterTypeCorrect` | `TypeOK` | `Placed`: a batch is where its fate says, in the queue or with one consumer |
| `OkAlwaysStored`, `CopiesOnlyByRetry`, `KeysAsConfigured`, `AgreedTopicUsed` | `OkIsStored`, `CopiesAreRetries`, `KeyedAsConfigured`, `AgreedTopic` | `KafkaMarshalersProofs`: the messages of a batch are disjoint, cover what it owes and have one key each; an attempt adds one copy, and `MaxResends` more only with a fault |
| `ImplementsBatchDelivery` | `Spec` implements `BatchDelivery` | a step concerns one batch at most, and that one has no outcome yet |
| `TracePipelineProofs!TenantsNotMixed`, `ShutdownWaits` | `OwnTenantOnly`, `ClosedIsIdle` | an invariant of each request by its own steps, and one of the order of shutdown |
| `PipelineTypeCorrect`, `QuotaKept`, `MetricsAgree` | `TypeOK`, `WithinQuota`, `SpansAccountedFor` | `QuotaInv` and `Accounts`, see below |
| `MatchesAllCounted` | `CountsAddUp` | one step of `CountSpans` adds, over all labels, the matches of its own request, though not always under their labels (see `trace_labels`) |
| `ImplementsTenantIngress` | `Spec` implements `TenantIngress` | the invariants above; each step is one of `TenantIngress` or a stutter |
| `MetricsPipelineProofs!MetricsTypeCorrect`, `TenantAlways`, `UnambiguousAlwaysConverts`, `TargetsAreUnique`, `EveryTenantIsServed` | `TypeOK`, `TenantOnEverySeries`, `UnambiguousConverts`, `OneTargetEach`, `EveryTenantServed` | `Traced`: what the attributes of a point are at each stage, as a function of what was sent; for `EveryTenantServed`, that the tenant can be read off the labels |
| `HistogramBucketsProofs!BucketsOfWhatWasObserved` | `BucketsShowObserved` | `BucketsInv`, see below |

`ExactSums` is not inductive: it says nothing of the value that a writer holds between
Load and Store, nor of the order of start and timestamp, nor of the number type.
`TruthfulRegistry` adds the three, for sums and histograms, and is. `NewValueTruthful` is
the arithmetic: a truthful entry and an honest point make a truthful entry. The
interleaving then does not matter, because a stale entry is truthful too.
`UnambiguousConverts` needs `Traced` in the same way: of a registered series it must be known
which sender's attributes it was made from.

`WithinQuota` says nothing of what the service counts. `QuotaInv` adds that the load of
the current window is no more than `used`, which is no more than the quota when somebody
is admitted, and that nobody has been admitted in a window to come: a new window then
starts with no load. `Accounts` is `SpansAccountedFor` tenant by tenant, as three sums over
sets of requests charged to it; each step moves one request between them.
`MarkedOnceIfCut` speaks of messages; `CureInv` says of the span under way which of its
keys have been cut so far, that these and no others are marked and that they are
`truncatedKeysSoFar`, and whether its logs have been cut.

`GentlestCure` says of a finished span that no smaller number of tries would have made it
fit. `GentleInv` says of the span under way that it is what the tries so far make of the span
as received, and that what they made of it before did not fit. It rests on two facts about
the cure itself: cutting a tag at a length and then at a smaller one is cutting it at the
smaller one at once, and thinning the logs by 2^h and then by 2 is thinning them by 2^(h+1).
`BucketsShowObserved` sums the counts up to each bound. `BucketsInv` says of the series and of
the history of points: the series is where its last accepted point left it, the points that
count have its bounds, and its counts tally, bucket by bucket, with what their sender
observed. When a point arrives, either all the points that counted go on counting or none
does, which is the reset of the code.

What a fold computes takes an induction. `SumTheorems` does it on sets: the set of numbers
for which a fact holds has a least number outside it, or none. From it follow the recursion
that `SumFunctionOnSet` of the community modules satisfies, and the lemmas on sums that
`KafkaMarshalersProofs`, `SpanCuringProofs`, `TracePipelineProofs` and
`HistogramBucketsProofs` use. The powers of two of the log halving are a function, defined by
recursion, and are shown to exist in the same way. No assumption stands for an induction.

Assumptions are the named ASSUMEs of the modules, which TLC evaluates on every run:
bounds are naturals, sources are honest (`MetricsAssumption`), keys translate to labels as
Prometheus does (`LabelAssumption`), requests have the form the receivers produce and are
finitely many, what they hold is finite (`PipelineAssumption`), and the configurations of the
span counter are finite sequences (`ConfigAssumption`).

Only model-checked: liveness (`ExpiredSeriesLeave`, `MarshalReturns`, `QueuedEnds`,
`StoppingDrains`, `FittingItemsArrive`, `RequestsAnswered`, `ShutdownEnds`), which is out of the prover's
reach. Every invariant and every other action property of the passing runs is a theorem.

## 6. Not modelled

* Authentication, SASL and compression of the Kafka exporter: translated configuration.
* Quantiles of summaries, exemplars, metric names and constant labels of the conversion.
* HTTP server, Start and Shutdown of the Prometheus exporter.
* Thrift and protobuf decoding: one outcome, malformed. Remote sampling: returns errors.
* Parsing of configurations, generated metadata, Helm chart, end-to-end tests.
* A sum whose source changes its number type: `Honest` excludes it, since the getters
  then return 0 and the sum silently restarts.
* A producer with `required_acks: 0`, which is answered before a message is stored.
* Series with timestamps (`send_timestamps`), and keys that become the label `quantile`.

## 7. Plan

Done: accumulator, span curing, Kafka exporter with its factory and marshalers, trace
pipeline, metrics pipeline with the gathering of Prometheus, histogram buckets; with the
theorems of section 5. What would come next:

1. Start and Shutdown of the Prometheus exporter: a listener bound by a start that fails
   later, and scrapes in progress at shutdown.
2. Composition of `Accumulator` and `MetricsPipeline`: one registry with values and labels.
3. Buckets under interleaved callers: `HistogramBuckets` within `Accumulator`.
