---------------------------- MODULE Accumulator ----------------------------
(* The registry of time series behind the Prometheus endpoint                *)
(* (src/exporter/prometheusexporter/accumulator.go, lastValueAccumulator).   *)
(*                                                                           *)
(* Several pipelines push metrics into it and several scrapes read it at the *)
(* same time.  The only synchronisation is the sync.Map: each Load, Store,   *)
(* Delete and each visit of a Range is atomic, what is between them is not.  *)
(*                                                                           *)
(* A data point is reduced to one number, the interval (start, ts] it covers *)
(* and the layout of its buckets; the name, scope, attributes, job and       *)
(* instance of a series to a member of Names.                                *)
EXTENDS Integers, Sequences

CONSTANTS
    Names,            \* what distinguishes the series of one type
    Writers,          \* callers of ConsumeMetrics
    Scrapers,         \* concurrent scrapes of the endpoint
    Metrics,          \* the metrics the pipelines may deliver
    Requests,         \* the resource-level sequences of metrics delivered
    MetricExpiration, \* config.MetricExpiration, in ticks of the clock
    MaxClock,         \* bound: the wall clock stops here
    MaxTime,          \* bound: the last timestamp of a data point
    Total,            \* Total[s][t]: what series s has really counted at t
    KindOf,           \* KindOf[s]: the number type the source of s uses
    Absent            \* no entry in the registry

Types == {"gauge", "sum", "histogram", "summary", "exponentialhistogram"}
Temporalities == {"unspecified", "delta", "cumulative"}
Kinds == {"int", "double"}
Times == 0 .. MaxTime
Bounds == {"coarse", "fine"}

(* The type is part of the key, so series of two types never share an entry. *)
Signatures == Types \X Names
timeseriesSignature(m, p) == <<m.type, p.name>>

Point == [name : Names, start : Times, ts : Times, val : Int, kind : Kinds,
          bounds : Bounds, noRecordedValue : BOOLEAN]

Metric == [type : Types, temporality : Temporalities, monotonic : BOOLEAN,
           points : Seq(Point)]

(* accumulatedValue: one data point and the time it was put there.           *)
Entry == [start : Times, ts : Times, val : Int, kind : Kinds,
          bounds : Bounds, updated : 0 .. MaxClock]

(* An additive point counts what its source counted between start and ts,    *)
(* and a source does not change the number type of a series.                 *)
Honest(m, p) ==
    LET s == timeseriesSignature(m, p)
    IN  /\ p.start <= p.ts
        /\ p.kind = KindOf[s]
        /\ m.type \in {"sum", "histogram"}
             => p.val = Total[s][p.ts] - Total[s][p.start]

ASSUME BoundsAssumption ==
    /\ MetricExpiration \in Nat
    /\ MaxClock \in Nat
    /\ MaxTime \in Nat

ASSUME TotalAssumption ==
    /\ Total \in [Signatures -> [Times -> Int]]
    /\ KindOf \in [Signatures -> Kinds]

ASSUME MetricsAssumption ==
    /\ Metrics \subseteq Metric
    /\ \A m \in Metrics : \A i \in 1 .. Len(m.points) : Honest(m, m.points[i])

ASSUME RequestsAssumption == Requests \subseteq Seq(Metrics) \ {<<>>}

ASSUME AbsentAssumption == Absent \notin Entry

VARIABLES
    clock,       \* the wall clock
    registered,  \* registeredMetrics: the sync.Map
    pc,          \* writer: "idle", "load" a point, "store" its new value
    batch,       \* writer: the metrics still to accumulate, current first
    index,       \* writer: loop variable i over the current metric's points
    now,         \* writer: the time taken once on entry to Accumulate
    pending,     \* writer: the value computed from the entry it loaded
    collecting,  \* scraper: inside Collect
    cutoff,      \* scraper: expirationTime
    todo,        \* scraper: the keys Range has not visited
    doomed,      \* scraper: the key found expired and not deleted yet
    served,      \* scraper: the keys collected so far
    intact       \* scraper: keys present since Range began, never deleted

writerVars == <<pc, batch, index, now, pending>>
scraperVars == <<collecting, cutoff, todo, doomed, served, intact>>
vars == <<clock, registered, writerVars, scraperVars>>

Present == {s \in Signatures : registered[s] # Absent}

-----------------------------------------------------------------------------
(* What the accumulate functions do with one point, given the entry loaded.  *)

(* addMetric's switch and the early returns of accumulateSum.                *)
Accepted(m) ==
    \/ m.type \in {"gauge", "histogram", "summary"}
    \/ m.type = "sum" /\ m.temporality = "cumulative"
    \/ m.type = "sum" /\ m.temporality = "delta" /\ m.monotonic

Datum(p, t) == [start |-> p.start, ts |-> p.ts, val |-> p.val, kind |-> p.kind,
                bounds |-> p.bounds, updated |-> t]

(* Mutant: the check of the timestamps is forgotten.                         *)
OutdatedNever(m, p, prev) == FALSE

(* The conditions under which a point is passed over (the continues).        *)
Outdated(m, p, prev) ==
    /\ prev # Absent
    /\ CASE m.type # "histogram" -> p.ts < prev.ts
         [] m.type = "histogram" /\ m.temporality = "cumulative" -> p.ts < prev.ts
         [] m.type = "histogram" /\ m.temporality = "delta" -> p.start < prev.ts
         [] OTHER -> TRUE

(* Mutant: a delta is added to whatever is there.                            *)
AlignedAnyDelta(m, p, prev) == m.temporality = "delta"

(* Mutant: a gap between the entry and the delta is not noticed.             *)
AlignedAcrossGap(m, p, prev) == m.temporality = "delta" /\ p.start >= prev.ts

Aligned(m, p, prev) == m.temporality = "delta" /\ p.start = prev.ts

(* Mutant: the previous number is read with the wrong getter.                *)
NumberOfOtherKind(prev, kind) == IF prev.kind # kind THEN prev.val ELSE 0

(* IntValue() of a double point, and DoubleValue() of an int point, is 0.    *)
NumberOf(prev, kind) == IF prev.kind = kind THEN prev.val ELSE 0

(* Mutant: the merged point keeps the start of the newer.                    *)
accumulateFromNewerStart(prev, p, t) ==
    [Datum(p, t) EXCEPT !.val = p.val + prev.val]

(* The counts add up when the bucket bounds agree; otherwise only the newer  *)
(* value is kept, under the start of the older.                              *)
accumulateHistogramValues(prev, p, t) ==
    LET newer == IF p.ts < prev.ts THEN Datum(prev, t) ELSE Datum(p, t)
    IN  IF p.bounds = prev.bounds
        THEN [newer EXCEPT !.start = prev.start, !.val = p.val + prev.val]
        ELSE [newer EXCEPT !.start = prev.start]

NewValue(m, p, prev, t) ==
    IF prev = Absent THEN Datum(p, t)
    ELSE IF m.type = "sum" /\ Aligned(m, p, prev)
    THEN [Datum(p, t) EXCEPT !.start = prev.start,
                             !.val = p.val + NumberOf(prev, p.kind)]
    ELSE IF m.type = "histogram" /\ Aligned(m, p, prev)
    THEN accumulateHistogramValues(prev, p, t)
    ELSE Datum(p, t)

-----------------------------------------------------------------------------
(* The writers: exporter.ConsumeMetrics -> Accumulate -> addMetric.          *)

CurrentMetric(w) == Head(batch[w])
CurrentPoint(w) == CurrentMetric(w).points[index[w]]
CurrentKey(w) == timeseriesSignature(CurrentMetric(w), CurrentPoint(w))

AtPoint(w) ==
    /\ pc[w] = "load"
    /\ Accepted(CurrentMetric(w))
    /\ index[w] <= Len(CurrentMetric(w).points)

(* Accumulate is entered for one resource: the clock is read once.           *)
Accumulate(w, rm) ==
    /\ pc[w] = "idle"
    /\ pc' = [pc EXCEPT ![w] = "load"]
    /\ batch' = [batch EXCEPT ![w] = rm]
    /\ index' = [index EXCEPT ![w] = 1]
    /\ now' = [now EXCEPT ![w] = clock]
    /\ UNCHANGED <<clock, registered, pending, scraperVars>>

(* Mutant: the loop over the metrics runs once too often.                    *)
LeaveMetricTooLate(w) ==
    /\ batch' = [batch EXCEPT ![w] = Tail(@)]
    /\ index' = [index EXCEPT ![w] = 1]
    /\ UNCHANGED <<clock, pc, now, pending>>

(* The loops over scopes and metrics go on, or Accumulate returns.           *)
LeaveMetric(w) ==
    /\ batch' = [batch EXCEPT ![w] = Tail(@)]
    /\ index' = [index EXCEPT ![w] = 1]
    /\ pc' = [pc EXCEPT ![w] = IF Tail(batch[w]) = <<>> THEN "idle" ELSE "load"]
    /\ UNCHANGED <<clock, now, pending>>

(* A metric that is not accepted, or whose points are all done.              *)
FinishMetric(w) ==
    /\ pc[w] = "load"
    /\ ~AtPoint(w)
    /\ LeaveMetric(w)
    /\ UNCHANGED <<registered, scraperVars>>

(* Delete of the sync.Map: an iteration under way may miss a key that was    *)
(* deleted, even when it is stored again later.                              *)
Delete(s) ==
    /\ registered' = [registered EXCEPT ![s] = Absent]
    /\ intact' = [c \in Scrapers |-> intact[c] \ {s}]

(* "No recorded value" deletes the series, and the function returns: the     *)
(* points of the metric after this one are not looked at.                    *)
DeletePoint(w) ==
    /\ AtPoint(w)
    /\ CurrentPoint(w).noRecordedValue
    /\ Delete(CurrentKey(w))
    /\ LeaveMetric(w)
    /\ UNCHANGED <<collecting, cutoff, todo, doomed, served>>

NextPoint(w) == index' = [index EXCEPT ![w] = @ + 1]

(* Load, and the point is too old for what is there.                         *)
SkipPoint(w) ==
    /\ AtPoint(w)
    /\ ~CurrentPoint(w).noRecordedValue
    /\ Outdated(CurrentMetric(w), CurrentPoint(w), registered[CurrentKey(w)])
    /\ NextPoint(w)
    /\ UNCHANGED <<clock, registered, pc, batch, now, pending, scraperVars>>

(* Load, and the new value is computed from what was loaded: entries are     *)
(* never written after they are stored, so the Load fixes it.                *)
LoadPoint(w) ==
    LET m == CurrentMetric(w)
        p == CurrentPoint(w)
        prev == registered[CurrentKey(w)]
    IN  /\ AtPoint(w)
        /\ ~p.noRecordedValue
        /\ ~Outdated(m, p, prev)
        /\ pending' = [pending EXCEPT ![w] = NewValue(m, p, prev, now[w])]
        /\ pc' = [pc EXCEPT ![w] = "store"]
        /\ UNCHANGED <<clock, registered, batch, index, now, scraperVars>>

StorePoint(w) ==
    /\ pc[w] = "store"
    /\ registered' = [registered EXCEPT ![CurrentKey(w)] = pending[w]]
    /\ pc' = [pc EXCEPT ![w] = "load"]
    /\ pending' = [pending EXCEPT ![w] = Absent]
    /\ NextPoint(w)
    /\ UNCHANGED <<clock, batch, now, scraperVars>>

-----------------------------------------------------------------------------
(* The scrapes: promhttp -> registry.Gather -> collector.Collect -> Collect. *)

BeginCollect(c) ==
    /\ ~collecting[c]
    /\ collecting' = [collecting EXCEPT ![c] = TRUE]
    /\ cutoff' = [cutoff EXCEPT ![c] = clock - MetricExpiration]
    /\ todo' = [todo EXCEPT ![c] = Present]
    /\ intact' = [intact EXCEPT ![c] = Present]
    /\ served' = [served EXCEPT ![c] = {}]
    /\ UNCHANGED <<clock, registered, doomed, writerVars>>

Expired(s, c) == cutoff[c] > registered[s].updated

(* Range takes its keys in any order.                                        *)
Visit(c, s) ==
    /\ doomed[c] = {}
    /\ s \in todo[c]
    /\ todo' = [todo EXCEPT ![c] = @ \ {s}]
    /\ UNCHANGED <<clock, registered, collecting, cutoff, intact, writerVars>>

PassOver(c, s) ==
    /\ Visit(c, s)
    /\ s \notin intact[c]
    /\ UNCHANGED <<doomed, served>>

CollectSeries(c, s) ==
    /\ Visit(c, s)
    /\ registered[s] # Absent
    /\ ~Expired(s, c)
    /\ served' = [served EXCEPT ![c] = @ \cup {s}]
    /\ UNCHANGED doomed

(* Mutant: the callback returns false for an expired entry: Range stops.     *)
FindExpiredStops(c, s) ==
    /\ doomed[c] = {}
    /\ s \in todo[c]
    /\ registered[s] # Absent
    /\ Expired(s, c)
    /\ todo' = [todo EXCEPT ![c] = {}]
    /\ doomed' = [doomed EXCEPT ![c] = {s}]
    /\ UNCHANGED <<clock, registered, collecting, cutoff, intact, served,
                   writerVars>>

FindExpired(c, s) ==
    /\ Visit(c, s)
    /\ registered[s] # Absent
    /\ Expired(s, c)
    /\ doomed' = [doomed EXCEPT ![c] = {s}]
    /\ UNCHANGED served

(* Mutant: the expired entry is left out of the scrape, but not deleted.     *)
ExpireSeriesHides(c) ==
    /\ doomed[c] # {}
    /\ doomed' = [doomed EXCEPT ![c] = {}]
    /\ UNCHANGED <<clock, registered, collecting, cutoff, todo, served, intact,
                   writerVars>>

(* The key is deleted whatever its entry is by now.                          *)
ExpireSeries(c) ==
    /\ \E s \in doomed[c] : Delete(s)
    /\ doomed' = [doomed EXCEPT ![c] = {}]
    /\ UNCHANGED <<clock, collecting, cutoff, todo, served, writerVars>>

(* Collect returns what it gathered, and its local variables are gone.       *)
EndCollect(c) ==
    /\ collecting[c]
    /\ todo[c] = {}
    /\ doomed[c] = {}
    /\ collecting' = [collecting EXCEPT ![c] = FALSE]
    /\ cutoff' = [cutoff EXCEPT ![c] = 0]
    /\ served' = [served EXCEPT ![c] = {}]
    /\ intact' = [intact EXCEPT ![c] = {}]
    /\ UNCHANGED <<clock, registered, todo, doomed, writerVars>>

-----------------------------------------------------------------------------
Tick ==
    /\ clock < MaxClock
    /\ clock' = clock + 1
    /\ UNCHANGED <<registered, writerVars, scraperVars>>

Init ==
    /\ clock = 0
    /\ registered = [s \in Signatures |-> Absent]
    /\ pc = [w \in Writers |-> "idle"]
    /\ batch = [w \in Writers |-> <<>>]
    /\ index = [w \in Writers |-> 1]
    /\ now = [w \in Writers |-> 0]
    /\ pending = [w \in Writers |-> Absent]
    /\ collecting = [c \in Scrapers |-> FALSE]
    /\ cutoff = [c \in Scrapers |-> 0]
    /\ todo = [c \in Scrapers |-> {}]
    /\ doomed = [c \in Scrapers |-> {}]
    /\ served = [c \in Scrapers |-> {}]
    /\ intact = [c \in Scrapers |-> {}]

Write(w) ==
    \/ FinishMetric(w)
    \/ DeletePoint(w)
    \/ SkipPoint(w)
    \/ LoadPoint(w)
    \/ StorePoint(w)

Scrape(c) ==
    \/ BeginCollect(c)
    \/ \E s \in Signatures :
          PassOver(c, s) \/ CollectSeries(c, s) \/ FindExpired(c, s)
    \/ ExpireSeries(c)
    \/ EndCollect(c)

Next ==
    \/ Tick
    \/ \E w \in Writers : \E rm \in Requests : Accumulate(w, rm)
    \/ \E w \in Writers : Write(w)
    \/ \E c \in Scrapers : Scrape(c)

Spec == Init /\ [][Next]_vars

(* Time passes, a call under way returns, and the endpoint keeps being       *)
(* scraped; nobody owes a writer another request.                            *)
Fairness ==
    /\ WF_vars(Tick)
    /\ \A w \in Writers : WF_vars(Write(w))
    /\ \A c \in Scrapers : WF_vars(Scrape(c))

FairSpec == Spec /\ Fairness

-----------------------------------------------------------------------------
(* Properties.                                                               *)

WritersTypeOK ==
    /\ pc \in [Writers -> {"idle", "load", "store"}]
    /\ batch \in [Writers -> Seq(Metrics)]
    /\ index \in [Writers -> Nat \ {0}]
    /\ now \in [Writers -> 0 .. MaxClock]
    /\ pending \in [Writers -> Entry \cup {Absent}]

ScrapersTypeOK ==
    /\ collecting \in [Scrapers -> BOOLEAN]
    /\ cutoff \in [Scrapers -> Int]
    /\ todo \in [Scrapers -> SUBSET Signatures]
    /\ doomed \in [Scrapers -> SUBSET Signatures]
    /\ served \in [Scrapers -> SUBSET Signatures]
    /\ intact \in [Scrapers -> SUBSET Signatures]

(* A writer between Load and Store stands at a point of an accepted metric   *)
(* and holds the entry to store.                                             *)
Poised(w) ==
    /\ pc[w] # "idle" => batch[w] # <<>>
    /\ pc[w] = "store" =>
          /\ pending[w] # Absent
          /\ Accepted(CurrentMetric(w))
          /\ index[w] <= Len(CurrentMetric(w).points)

(* Every variable holds a value of its kind, and a writer that is about to   *)
(* store has something to store and a key to store it under.                 *)
TypeOK ==
    /\ clock \in 0 .. MaxClock
    /\ registered \in [Signatures -> Entry \cup {Absent}]
    /\ WritersTypeOK
    /\ ScrapersTypeOK
    /\ \A w \in Writers : Poised(w)

(* A sum on the endpoint is what its source counted over exactly the         *)
(* interval shown with it, however deltas, cumulative points, resets, late   *)
(* and repeated points of several concurrent callers were interleaved        *)
(* (the delta-to-cumulative step of accumulateSum).                          *)
Exact(s, e) == e.val = Total[s][e.ts] - Total[s][e.start]

ExactSums ==
    \A s \in Signatures :
        s[1] = "sum" /\ registered[s] # Absent => Exact(s, registered[s])

(* A histogram's count is what its source counted over a tail of the         *)
(* interval shown: counts merged over a change of bucket bounds start again  *)
(* from the newer point, but nothing is counted twice and nothing outside    *)
(* the interval is counted (accumulateHistogramValues).                      *)
TailExact(s, e) ==
    \E f \in e.start .. e.ts : e.val = Total[s][e.ts] - Total[s][f]

HistogramCounts ==
    \A s \in Signatures :
        s[1] = "histogram" /\ registered[s] # Absent
            => TailExact(s, registered[s])

(* The inductive form of the two: what a writer is about to store is as      *)
(* truthful as what is stored, and the number type never changes.            *)
Truthful(s, e) ==
    /\ e.start <= e.ts
    /\ s[1] = "sum" => Exact(s, e) /\ e.kind = KindOf[s]
    /\ s[1] = "histogram" => TailExact(s, e)

TruthfulRegistry ==
    /\ \A s \in Signatures : registered[s] # Absent => Truthful(s, registered[s])
    /\ \A w \in Writers : pc[w] = "store" => Truthful(CurrentKey(w), pending[w])

(* A scrape that ends has served every series that stayed in the registry    *)
(* from its beginning to its end: writers, other scrapes and the expiry of   *)
(* other series in the same iteration do not make it miss one (Collect).     *)
ScrapeComplete ==
    \A c \in Scrapers :
        collecting[c] /\ todo[c] = {} /\ doomed[c] = {}
            => intact[c] \subseteq served[c]

(* An update never replaces a series' point by one with an earlier timestamp *)
(* ("only keep datapoint with latest timestamp").                            *)
TimestampsAdvance ==
    [][\A s \in Signatures :
          registered[s] # Absent /\ registered'[s] # Absent
              => registered'[s].ts >= registered[s].ts]_vars

(* A series leaves the registry only on a point without a recorded value, or *)
(* when its entry has not been updated for longer than MetricExpiration      *)
(* ("duration for which metric should be served after it was updated").      *)
RemovedByPoint(s) ==
    \E w \in Writers :
        /\ AtPoint(w)
        /\ CurrentPoint(w).noRecordedValue
        /\ CurrentKey(w) = s
        /\ batch'[w] # batch[w]

KeptWhileFresh ==
    [][\A s \in Signatures :
          registered[s] # Absent /\ registered'[s] = Absent
              => \/ RemovedByPoint(s)
                 \/ clock - registered[s].updated > MetricExpiration]_vars

(* A series that is not updated any more leaves the registry, as long as     *)
(* the clock can still pass its expiration (Collect is what removes it).     *)
ExpiredSeriesLeave ==
    \A s \in Signatures : \A t \in 0 .. MaxClock - MetricExpiration - 1 :
        (registered[s] # Absent /\ registered[s].updated = t)
            ~> (registered[s] = Absent \/ registered[s].updated # t)

(* The sums of the registry are a CumulativeSeries when one caller at a time *)
(* is in ConsumeMetrics.                                                     *)
SumSignatures == {"sum"} \X Names

ShownPoint(e) ==
    IF e = Absent THEN Absent ELSE [start |-> e.start, ts |-> e.ts, val |-> e.val]

Shown == [s \in SumSignatures |-> ShownPoint(registered[s])]

Promise == INSTANCE CumulativeSeries
               WITH Series <- SumSignatures, shown <- Shown

ShowsCumulativeSeries == Promise!Spec

=============================================================================
