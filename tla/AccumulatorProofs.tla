------------------------- MODULE AccumulatorProofs -------------------------
(* Theorems about the registry of time series, for any number of series,     *)
(* writers and scrapers, any metrics and any bounds.                         *)
EXTENDS Accumulator, TLAPS

USE BoundsAssumption

-----------------------------------------------------------------------------
(* Lemmas about the values computed from a point and an entry.               *)

(* An entry made from a point is an entry.                                   *)
LEMMA DatumType ==
    ASSUME NEW p \in Point, NEW t \in 0 .. MaxClock
    PROVE  Datum(p, t) \in Entry
BY DEF Datum, Point, Entry

(* Another start and another value make another entry.                       *)
LEMMA EntryExcept ==
    ASSUME NEW e \in Entry, NEW f \in Times, NEW v \in Int
    PROVE  /\ [e EXCEPT !.start = f] \in Entry
           /\ [e EXCEPT !.start = f, !.val = v] \in Entry
<1> DEFINE d == [e EXCEPT !.start = f]
<1>1. d \in Entry
  BY DEF Entry
<1>2. [d EXCEPT !.val = v] \in Entry
  BY <1>1 DEF Entry
<1> QED
  BY <1>1, <1>2

(* So is the value stored for a point, whatever was loaded.                  *)
LEMMA NewValueType ==
    ASSUME NEW m \in Metric, NEW p \in Point, NEW prev \in Entry \cup {Absent},
           NEW t \in 0 .. MaxClock
    PROVE  NewValue(m, p, prev, t) \in Entry
<1>1. Datum(p, t) \in Entry
  BY DatumType
<1>2. CASE prev = Absent
  BY <1>1, <1>2 DEF NewValue
<1>3. CASE prev # Absent
  <2>1. prev \in Entry
    BY <1>3
  <2>2. Datum(prev, t) \in Entry
    BY <2>1 DEF Datum, Entry
  <2>3. /\ p.val + NumberOf(prev, p.kind) \in Int
        /\ p.val + prev.val \in Int
        /\ prev.start \in Times
    BY <2>1 DEF NumberOf, Entry, Point
  <2>4. [Datum(p, t) EXCEPT !.start = prev.start,
                            !.val = p.val + NumberOf(prev, p.kind)] \in Entry
    BY <1>1, <2>3, EntryExcept
  <2>5. accumulateHistogramValues(prev, p, t) \in Entry
    BY <1>1, <2>2, <2>3, EntryExcept DEF accumulateHistogramValues
  <2> QED
    BY <1>1, <1>3, <2>4, <2>5 DEF NewValue
<1> QED
  BY <1>2, <1>3

(* A writer at a point is at an honest point of a deliverable metric.        *)
LEMMA CurrentPointType ==
    ASSUME TypeOK, NEW w \in Writers,
           batch[w] # <<>>, index[w] <= Len(CurrentMetric(w).points)
    PROVE  /\ CurrentMetric(w) \in Metrics
           /\ CurrentMetric(w) \in Metric
           /\ CurrentPoint(w) \in Point
           /\ Honest(CurrentMetric(w), CurrentPoint(w))
           /\ CurrentKey(w) \in Signatures
<1>1. /\ batch[w] \in Seq(Metrics)
      /\ index[w] \in Nat \ {0}
  BY DEF TypeOK, WritersTypeOK
<1>2. CurrentMetric(w) \in Metrics
  BY <1>1 DEF CurrentMetric
<1>3. CurrentMetric(w) \in Metric
  BY <1>2, MetricsAssumption
<1>4. index[w] \in 1 .. Len(CurrentMetric(w).points)
  BY <1>1, <1>3 DEF Metric
<1>5. CurrentPoint(w) \in Point
  BY <1>3, <1>4 DEF CurrentPoint, Metric
<1>6. Honest(CurrentMetric(w), CurrentPoint(w))
  BY <1>2, <1>4, MetricsAssumption DEF CurrentPoint
<1>7. CurrentKey(w) \in Signatures
  BY <1>3, <1>5 DEF CurrentKey, timeseriesSignature, Signatures, Metric, Point
<1> QED
  BY <1>2, <1>3, <1>5, <1>6, <1>7

-----------------------------------------------------------------------------
(* Type correctness.                                                         *)

LEMMA InitType == Init => TypeOK
BY DEF Init, TypeOK, WritersTypeOK, ScrapersTypeOK, Poised

(* A writer that leaves a metric keeps its variables in their types.         *)
LEMMA LeaveMetricType ==
    ASSUME TypeOK, NEW w \in Writers, pc[w] = "load", LeaveMetric(w)
    PROVE  WritersTypeOK' /\ clock' \in 0 .. MaxClock
                          /\ \A v \in Writers : Poised(v)'
<1>1. batch[w] \in Seq(Metrics) /\ batch[w] # <<>>
  BY DEF TypeOK, WritersTypeOK, Poised
<1>2. Tail(batch[w]) \in Seq(Metrics)
  BY <1>1
<1>3. WritersTypeOK'
  BY <1>2 DEF TypeOK, WritersTypeOK, LeaveMetric
<1>4. ASSUME NEW v \in Writers PROVE Poised(v)'
  <2>1. CASE v = w
    BY <2>1 DEF TypeOK, WritersTypeOK, LeaveMetric, Poised
  <2>2. CASE v # w
    BY <2>2 DEF TypeOK, WritersTypeOK, LeaveMetric, Poised, CurrentMetric
  <2> QED
    BY <2>1, <2>2
<1> QED
  BY <1>3, <1>4 DEF TypeOK, LeaveMetric

(* Deleting a key keeps the registry a registry.                             *)
LEMMA DeleteType ==
    ASSUME TypeOK, NEW s \in Signatures, Delete(s)
    PROVE  /\ registered' \in [Signatures -> Entry \cup {Absent}]
           /\ intact' \in [Scrapers -> SUBSET Signatures]
BY DEF TypeOK, ScrapersTypeOK, Delete

LEMMA AccumulateType ==
    ASSUME TypeOK, NEW w \in Writers, NEW rm \in Requests, Accumulate(w, rm)
    PROVE  TypeOK'
<1>1. rm \in Seq(Metrics) /\ rm # <<>>
  BY RequestsAssumption
<1>2. WritersTypeOK'
  BY <1>1 DEF TypeOK, WritersTypeOK, Accumulate
<1>3. ASSUME NEW v \in Writers PROVE Poised(v)'
  BY <1>1 DEF TypeOK, WritersTypeOK, Accumulate, Poised, CurrentMetric
<1>4. ScrapersTypeOK'
  BY DEF TypeOK, ScrapersTypeOK, Accumulate, scraperVars
<1> QED
  BY <1>2, <1>3, <1>4 DEF TypeOK, Accumulate

LEMMA WriteType ==
    ASSUME TypeOK, NEW w \in Writers, Write(w)
    PROVE  TypeOK'
<1>1. CASE FinishMetric(w)
  <2>1. ScrapersTypeOK'
    BY <1>1 DEF TypeOK, ScrapersTypeOK, FinishMetric, scraperVars
  <2> QED
    BY <1>1, <2>1, LeaveMetricType DEF TypeOK, FinishMetric
<1>2. CASE DeletePoint(w)
  <2>1. pc[w] = "load" /\ CurrentKey(w) \in Signatures
    BY <1>2, CurrentPointType DEF DeletePoint, AtPoint, TypeOK, Poised
  <2>2. ScrapersTypeOK'
    BY <1>2, <2>1, DeleteType DEF TypeOK, ScrapersTypeOK, DeletePoint
  <2> QED
    BY <1>2, <2>1, <2>2, LeaveMetricType, DeleteType DEF TypeOK, DeletePoint
<1>3. CASE SkipPoint(w)
  <2>1. WritersTypeOK'
    BY <1>3 DEF TypeOK, WritersTypeOK, SkipPoint, NextPoint
  <2>2. ASSUME NEW v \in Writers PROVE Poised(v)'
    BY <1>3 DEF TypeOK, WritersTypeOK, SkipPoint, AtPoint, NextPoint, Poised,
                CurrentMetric
  <2>3. ScrapersTypeOK'
    BY <1>3 DEF TypeOK, ScrapersTypeOK, SkipPoint, scraperVars
  <2> QED
    BY <1>3, <2>1, <2>2, <2>3 DEF TypeOK, SkipPoint
<1>4. CASE LoadPoint(w)
  <2> DEFINE new == NewValue(CurrentMetric(w), CurrentPoint(w),
                             registered[CurrentKey(w)], now[w])
  <2>1. /\ pc[w] = "load"
        /\ Accepted(CurrentMetric(w))
        /\ index[w] <= Len(CurrentMetric(w).points)
        /\ batch[w] # <<>>
    BY <1>4 DEF LoadPoint, AtPoint, TypeOK, Poised
  <2>2. new \in Entry
    BY <2>1, CurrentPointType, NewValueType DEF TypeOK, WritersTypeOK
  <2>3. new # Absent
    BY <2>2, AbsentAssumption
  <2>4. /\ pending' = [pending EXCEPT ![w] = new]
        /\ pc' = [pc EXCEPT ![w] = "store"]
        /\ UNCHANGED <<clock, registered, batch, index, now, scraperVars>>
    BY <1>4 DEF LoadPoint
  <2> HIDE DEF new
  <2>5. WritersTypeOK'
    BY <2>2, <2>4 DEF TypeOK, WritersTypeOK
  <2>6. ASSUME NEW v \in Writers PROVE Poised(v)'
    BY <2>1, <2>3, <2>4 DEF TypeOK, WritersTypeOK, Poised, CurrentMetric
  <2>7. ScrapersTypeOK'
    BY <2>4 DEF TypeOK, ScrapersTypeOK, scraperVars
  <2> QED
    BY <2>4, <2>5, <2>6, <2>7 DEF TypeOK
<1>5. CASE StorePoint(w)
  <2>1. CurrentKey(w) \in Signatures /\ pending[w] \in Entry \cup {Absent}
    BY <1>5, CurrentPointType DEF StorePoint, TypeOK, WritersTypeOK, Poised
  <2>2. registered' \in [Signatures -> Entry \cup {Absent}]
    BY <1>5, <2>1 DEF StorePoint, TypeOK
  <2>3. WritersTypeOK'
    BY <1>5 DEF TypeOK, WritersTypeOK, StorePoint, NextPoint
  <2>4. ASSUME NEW v \in Writers PROVE Poised(v)'
    BY <1>5 DEF TypeOK, WritersTypeOK, StorePoint, NextPoint, Poised, CurrentMetric
  <2>5. ScrapersTypeOK'
    BY <1>5 DEF TypeOK, ScrapersTypeOK, StorePoint, scraperVars
  <2> QED
    BY <1>5, <2>2, <2>3, <2>4, <2>5 DEF TypeOK, StorePoint
<1> QED
  BY <1>1, <1>2, <1>3, <1>4, <1>5 DEF Write

LEMMA ScrapeType ==
    ASSUME TypeOK, NEW c \in Scrapers, Scrape(c)
    PROVE  TypeOK'
<1> SUFFICES /\ registered' \in [Signatures -> Entry \cup {Absent}]
             /\ ScrapersTypeOK'
             /\ UNCHANGED <<clock, writerVars>>
  BY DEF TypeOK, WritersTypeOK, Poised, CurrentMetric, writerVars
<1>1. CASE BeginCollect(c)
  BY <1>1 DEF TypeOK, ScrapersTypeOK, BeginCollect, Present
<1>2. CASE \E s \in Signatures :
             PassOver(c, s) \/ CollectSeries(c, s) \/ FindExpired(c, s)
  BY <1>2 DEF TypeOK, ScrapersTypeOK, PassOver, CollectSeries, FindExpired, Visit
<1>3. CASE ExpireSeries(c)
  BY <1>3, DeleteType DEF TypeOK, ScrapersTypeOK, ExpireSeries
<1>4. CASE EndCollect(c)
  BY <1>4 DEF TypeOK, ScrapersTypeOK, EndCollect
<1> QED
  BY <1>1, <1>2, <1>3, <1>4 DEF Scrape

LEMMA NextType == TypeOK /\ [Next]_vars => TypeOK'
<1> SUFFICES ASSUME TypeOK, [Next]_vars PROVE TypeOK'
  OBVIOUS
<1>1. CASE Tick
  BY <1>1 DEF Tick, TypeOK, WritersTypeOK, ScrapersTypeOK, Poised, CurrentMetric,
              writerVars, scraperVars
<1>2. CASE UNCHANGED vars
  BY <1>2 DEF vars, TypeOK, WritersTypeOK, ScrapersTypeOK, Poised, CurrentMetric,
              writerVars, scraperVars
<1> QED
  BY <1>1, <1>2, AccumulateType, WriteType, ScrapeType DEF Next

(* In every reachable state the registry holds entries of the right kind and *)
(* a writer about to store has an entry for a series (the sync.Map of        *)
(* accumulator.go never gets a value of another shape).                      *)
THEOREM TypeCorrect == Spec => []TypeOK
<1>1. Init => TypeOK
  BY InitType
<1>2. TypeOK /\ [Next]_vars => TypeOK'
  BY NextType
<1> QED
  BY <1>1, <1>2, PTL DEF Spec

-----------------------------------------------------------------------------
(* What is exposed is what was counted.                                      *)

(* The value computed for an honest point from a truthful entry is truthful. *)
LEMMA NewValueTruthful ==
    ASSUME NEW m \in Metric, NEW p \in Point, Honest(m, p), Accepted(m),
           NEW prev \in Entry \cup {Absent}, NEW t \in 0 .. MaxClock,
           prev # Absent => Truthful(timeseriesSignature(m, p), prev),
           ~Outdated(m, p, prev)
    PROVE  Truthful(timeseriesSignature(m, p), NewValue(m, p, prev, t))
<1> DEFINE s == timeseriesSignature(m, p)
<1>1. /\ s \in Signatures
      /\ s[1] = m.type
  BY DEF timeseriesSignature, Signatures, Metric, Point
<1>2. /\ p.start \in Times
      /\ p.ts \in Times
      /\ p.val \in Int
      /\ p.start <= p.ts
      /\ p.kind = KindOf[s]
      /\ m.type \in {"sum", "histogram"} => p.val = Total[s][p.ts] - Total[s][p.start]
  BY DEF Honest, Point
<1>3. \A u \in Times : Total[s][u] \in Int
  BY <1>1, TotalAssumption
<1> HIDE DEF s
<1>4. Truthful(s, Datum(p, t))
  <2>1. m.type = "histogram" => TailExact(s, Datum(p, t))
    BY <1>2 DEF TailExact, Datum, Times
  <2> QED
    BY <1>1, <1>2, <2>1 DEF Truthful, Exact, Datum
<1>5. ASSUME prev # Absent, Aligned(m, p, prev), m.type = "sum"
      PROVE  Truthful(s, NewValue(m, p, prev, t))
  <2>1. /\ prev \in Entry
        /\ Exact(s, prev)
        /\ prev.kind = p.kind
        /\ prev.start <= prev.ts
        /\ prev.ts = p.start
    BY <1>1, <1>2, <1>5 DEF s, Truthful, Aligned
  <2> DEFINE e == [Datum(p, t) EXCEPT !.start = prev.start,
                                      !.val = p.val + prev.val]
  <2>2. NewValue(m, p, prev, t) = e
    BY <1>5, <2>1 DEF NewValue, NumberOf
  <2>3. /\ e.start = prev.start
        /\ e.ts = p.ts
        /\ e.val = p.val + prev.val
        /\ e.kind = p.kind
    BY DEF Datum
  <2>4. prev.start \in Times /\ prev.ts \in Times
    BY <2>1 DEF Entry
  <2>5. e.val = Total[s][p.ts] - Total[s][prev.start]
    BY <1>2, <1>3, <1>5, <2>1, <2>3, <2>4 DEF Exact
  <2>6. e.start <= e.ts
    BY <1>2, <2>1, <2>3, <2>4 DEF Times
  <2> HIDE DEF e
  <2> QED
    BY <1>1, <1>2, <1>5, <2>2, <2>3, <2>5, <2>6 DEF Truthful, Exact
<1>6. ASSUME prev # Absent, Aligned(m, p, prev), m.type = "histogram"
      PROVE  Truthful(s, NewValue(m, p, prev, t))
  <2>1. /\ prev \in Entry
        /\ TailExact(s, prev)
        /\ prev.start <= prev.ts
        /\ prev.ts = p.start
    BY <1>1, <1>6 DEF s, Truthful, Aligned
  <2>2. prev.start \in Times /\ prev.ts \in Times /\ prev.val \in Int
    BY <2>1 DEF Entry
  <2>3. PICK f \in prev.start .. prev.ts : prev.val = Total[s][prev.ts] - Total[s][f]
    BY <2>1 DEF TailExact
  <2> DEFINE e == NewValue(m, p, prev, t)
             merged == IF p.bounds = prev.bounds THEN p.val + prev.val ELSE p.val
  <2>4. e = accumulateHistogramValues(prev, p, t)
    BY <1>6 DEF NewValue
  <2>5. ~(p.ts < prev.ts)
    BY <1>2, <2>1, <2>2 DEF Times
  <2>6. e = IF p.bounds = prev.bounds
            THEN [Datum(p, t) EXCEPT !.start = prev.start, !.val = p.val + prev.val]
            ELSE [Datum(p, t) EXCEPT !.start = prev.start]
    BY <2>4, <2>5 DEF accumulateHistogramValues
  <2>7. /\ e.start = prev.start
        /\ e.ts = p.ts
        /\ e.val = merged
    BY <2>6 DEF Datum
  <2> HIDE DEF e
  <2>8. p.start \in e.start .. e.ts /\ f \in e.start .. e.ts /\ f \in Times
    BY <1>2, <2>1, <2>2, <2>3, <2>7 DEF Times
  <2>9. TailExact(s, e)
    <3>1. CASE p.bounds = prev.bounds
      <4>1. e.val = p.val + prev.val
        BY <2>7, <3>1
      <4>2. p.val = Total[s][e.ts] - Total[s][prev.ts]
        BY <1>2, <1>6, <2>1, <2>7
      <4>3. /\ Total[s][e.ts] \in Int
            /\ Total[s][prev.ts] \in Int
            /\ Total[s][f] \in Int
        BY <1>2, <1>3, <2>2, <2>7, <2>8
      <4>4. e.val = Total[s][e.ts] - Total[s][f]
        BY <2>3, <4>1, <4>2, <4>3
      <4> QED
        BY <2>8, <4>4 DEF TailExact
    <3>2. CASE p.bounds # prev.bounds
      <4>1. e.val = Total[s][e.ts] - Total[s][p.start]
        BY <1>2, <1>6, <2>7, <3>2
      <4> QED
        BY <2>8, <4>1 DEF TailExact
    <3> QED
      BY <3>1, <3>2
  <2>10. e.start <= e.ts
    BY <1>2, <2>1, <2>2, <2>7 DEF Times
  <2> QED
    BY <1>1, <1>6, <2>9, <2>10 DEF Truthful, e
<1>7. ~(prev # Absent /\ Aligned(m, p, prev) /\ m.type \in {"sum", "histogram"})
        => NewValue(m, p, prev, t) = Datum(p, t)
  BY DEF NewValue
<1> QED
  BY <1>4, <1>5, <1>6, <1>7 DEF s

LEMMA InitTruthful == Init => TruthfulRegistry
BY DEF Init, TruthfulRegistry

LEMMA NextTruthful ==
    TypeOK /\ TruthfulRegistry /\ [Next]_vars => TruthfulRegistry'
<1> SUFFICES ASSUME TypeOK, TruthfulRegistry, [Next]_vars
             PROVE  TruthfulRegistry'
  OBVIOUS
<1> USE DEF TruthfulRegistry, CurrentKey, CurrentPoint, CurrentMetric
<1>1. CASE Tick \/ UNCHANGED vars
  BY <1>1 DEF Tick, vars, writerVars
<1>2. ASSUME NEW w \in Writers, NEW rm \in Requests, Accumulate(w, rm)
      PROVE  TruthfulRegistry'
  BY <1>2 DEF Accumulate, TypeOK, WritersTypeOK
<1>3. ASSUME NEW w \in Writers, FinishMetric(w)
      PROVE  TruthfulRegistry'
  BY <1>3 DEF FinishMetric, LeaveMetric, TypeOK, WritersTypeOK
<1>4. ASSUME NEW w \in Writers, DeletePoint(w)
      PROVE  TruthfulRegistry'
  BY <1>4 DEF DeletePoint, Delete, LeaveMetric, AtPoint, TypeOK, WritersTypeOK
<1>5. ASSUME NEW w \in Writers, SkipPoint(w)
      PROVE  TruthfulRegistry'
  BY <1>5 DEF SkipPoint, NextPoint, AtPoint, TypeOK, WritersTypeOK
<1>6. ASSUME NEW w \in Writers, LoadPoint(w)
      PROVE  TruthfulRegistry'
  <2> DEFINE m == CurrentMetric(w)
             p == CurrentPoint(w)
             prev == registered[CurrentKey(w)]
             new == NewValue(m, p, prev, now[w])
  <2>1. /\ Accepted(m)
        /\ index[w] <= Len(m.points)
        /\ batch[w] # <<>>
        /\ ~Outdated(m, p, prev)
        /\ pending' = [pending EXCEPT ![w] = new]
        /\ pc' = [pc EXCEPT ![w] = "store"]
        /\ UNCHANGED <<registered, batch, index>>
    BY <1>6 DEF LoadPoint, AtPoint, TypeOK, Poised
  <2>2. /\ m \in Metric
        /\ p \in Point
        /\ Honest(m, p)
        /\ CurrentKey(w) \in Signatures
    BY <2>1, CurrentPointType
  <2>3. prev \in Entry \cup {Absent} /\ now[w] \in 0 .. MaxClock
    BY <2>2 DEF TypeOK, WritersTypeOK
  <2>4. Truthful(CurrentKey(w), new)
    BY <2>1, <2>2, <2>3, NewValueTruthful
  <2> HIDE DEF new
  <2> QED
    BY <2>1, <2>4 DEF TypeOK, WritersTypeOK
<1>7. ASSUME NEW w \in Writers, StorePoint(w)
      PROVE  TruthfulRegistry'
  BY <1>7 DEF StorePoint, NextPoint, TypeOK, WritersTypeOK
<1>8. ASSUME NEW c \in Scrapers, Scrape(c)
      PROVE  TruthfulRegistry'
  <2>1. UNCHANGED writerVars
    BY <1>8 DEF Scrape, BeginCollect, PassOver, CollectSeries, FindExpired, Visit,
                ExpireSeries, EndCollect
  <2>2. \A s \in Signatures : registered'[s] \in {registered[s], Absent}
    BY <1>8 DEF Scrape, BeginCollect, PassOver, CollectSeries, FindExpired, Visit,
                ExpireSeries, EndCollect, Delete, TypeOK
  <2> QED
    BY <2>1, <2>2 DEF writerVars
<1> QED
  BY <1>1, <1>2, <1>3, <1>4, <1>5, <1>6, <1>7, <1>8 DEF Next, Write

(* Every entry, and every value about to be stored, is truthful: deltas,     *)
(* resets and late points add up whatever the callers' interleaving.         *)
THEOREM TruthfulAlways == Spec => []TruthfulRegistry
<1>1. Init => TypeOK /\ TruthfulRegistry
  BY InitType, InitTruthful
<1>2. TypeOK /\ TruthfulRegistry /\ [Next]_vars => (TypeOK /\ TruthfulRegistry)'
  BY NextType, NextTruthful
<1> QED
  BY <1>1, <1>2, PTL DEF Spec

(* accumulateSum: a sum shows what was counted over its interval.            *)
THEOREM SumsAreExact == Spec => []ExactSums
<1>1. TruthfulRegistry => ExactSums
  BY DEF TruthfulRegistry, Truthful, ExactSums
<1> QED
  BY <1>1, TruthfulAlways, PTL

(* accumulateHistogram: a count is that of a tail of the interval shown.     *)
THEOREM HistogramsCountATail == Spec => []HistogramCounts
<1>1. TruthfulRegistry => HistogramCounts
  BY DEF TruthfulRegistry, Truthful, HistogramCounts
<1> QED
  BY <1>1, TruthfulAlways, PTL

-----------------------------------------------------------------------------
(* With one caller at a time the registry keeps the latest point.            *)

OneWriter == \A v, w \in Writers : v = w

(* What the only writer is about to store is not older than what is there.   *)
Ahead ==
    \A w \in Writers :
        pc[w] = "store" /\ registered[CurrentKey(w)] # Absent
            => registered[CurrentKey(w)].ts <= pending[w].ts

(* A point that is not passed over is not older than the entry loaded.       *)
LEMMA NewValueAhead ==
    ASSUME NEW m \in Metric, NEW p \in Point, Honest(m, p), Accepted(m),
           NEW prev \in Entry, prev # Absent, NEW t \in 0 .. MaxClock,
           ~Outdated(m, p, prev)
    PROVE  prev.ts <= NewValue(m, p, prev, t).ts
<1>1. /\ p.ts \in Times
      /\ p.start \in Times
      /\ p.start <= p.ts
      /\ prev.ts \in Times
  BY DEF Honest, Point, Entry
<1>2. prev.ts <= p.ts
  BY <1>1 DEF Outdated, Metric, Temporalities, Times
<1>3. accumulateHistogramValues(prev, p, t).ts = p.ts
  BY <1>1, <1>2 DEF accumulateHistogramValues, Datum, Times
<1>4. NewValue(m, p, prev, t).ts = p.ts
  BY <1>3 DEF NewValue, Datum
<1> QED
  BY <1>2, <1>4

LEMMA InitAhead == Init => Ahead
BY DEF Init, Ahead

LEMMA NextAhead ==
    ASSUME OneWriter, TypeOK, Ahead, [Next]_vars
    PROVE  Ahead'
<1> USE DEF Ahead, CurrentKey, CurrentPoint, CurrentMetric
<1>1. CASE Tick \/ UNCHANGED vars
  BY <1>1 DEF Tick, vars, writerVars
<1>2. ASSUME NEW w \in Writers, \/ \E rm \in Requests : Accumulate(w, rm)
                                \/ FinishMetric(w)
                                \/ DeletePoint(w)
                                \/ SkipPoint(w)
                                \/ StorePoint(w)
      PROVE  Ahead'
  <2>1. pc'[w] # "store"
    BY <1>2 DEF Accumulate, FinishMetric, DeletePoint, LeaveMetric, SkipPoint,
                StorePoint, AtPoint, TypeOK, WritersTypeOK
  <2> QED
    BY <2>1 DEF OneWriter
<1>3. ASSUME NEW w \in Writers, LoadPoint(w)
      PROVE  Ahead'
  <2> DEFINE m == CurrentMetric(w)
             p == CurrentPoint(w)
             prev == registered[CurrentKey(w)]
             new == NewValue(m, p, prev, now[w])
  <2>1. /\ Accepted(m)
        /\ index[w] <= Len(m.points)
        /\ batch[w] # <<>>
        /\ ~Outdated(m, p, prev)
        /\ pending' = [pending EXCEPT ![w] = new]
        /\ UNCHANGED <<registered, batch, index>>
    BY <1>3 DEF LoadPoint, AtPoint, TypeOK, Poised
  <2>2. /\ m \in Metric
        /\ p \in Point
        /\ Honest(m, p)
        /\ CurrentKey(w) \in Signatures
    BY <2>1, CurrentPointType
  <2>3. prev \in Entry \cup {Absent} /\ now[w] \in 0 .. MaxClock
    BY <2>2 DEF TypeOK, WritersTypeOK
  <2>4. prev # Absent => prev.ts <= new.ts
    BY <2>1, <2>2, <2>3, NewValueAhead
  <2> HIDE DEF new
  <2> QED
    BY <2>1, <2>4 DEF TypeOK, WritersTypeOK, OneWriter
<1>4. ASSUME NEW c \in Scrapers, Scrape(c)
      PROVE  Ahead'
  <2>1. UNCHANGED writerVars
    BY <1>4 DEF Scrape, BeginCollect, PassOver, CollectSeries, FindExpired, Visit,
                ExpireSeries, EndCollect
  <2>2. \A s \in Signatures : registered'[s] \in {registered[s], Absent}
    BY <1>4 DEF Scrape, BeginCollect, PassOver, CollectSeries, FindExpired, Visit,
                ExpireSeries, EndCollect, Delete, TypeOK
  <2>3. \A w \in Writers : pc[w] = "store" => CurrentKey(w) \in Signatures
    BY CurrentPointType DEF TypeOK, Poised
  <2> QED
    BY <2>1, <2>2, <2>3 DEF writerVars
<1> QED
  BY <1>1, <1>2, <1>3, <1>4 DEF Next, Write

(* What one step does to the registry: nothing, a store by a writer that was *)
(* poised to, or the removal of one series.                                  *)
LEMMA RegistryStep ==
    ASSUME TypeOK, [Next]_vars
    PROVE  \/ UNCHANGED registered
           \/ \E w \in Writers :
                 /\ pc[w] = "store"
                 /\ CurrentKey(w) \in Signatures
                 /\ pending[w] \in Entry
                 /\ registered' = [registered EXCEPT ![CurrentKey(w)] = pending[w]]
           \/ \E s \in Signatures : registered' = [registered EXCEPT ![s] = Absent]
<1>1. ASSUME NEW w \in Writers, DeletePoint(w)
      PROVE  \E s \in Signatures : registered' = [registered EXCEPT ![s] = Absent]
  BY <1>1, CurrentPointType DEF DeletePoint, Delete, AtPoint, TypeOK, Poised
<1>2. ASSUME NEW w \in Writers, StorePoint(w)
      PROVE  /\ pc[w] = "store"
             /\ CurrentKey(w) \in Signatures
             /\ pending[w] \in Entry
             /\ registered' = [registered EXCEPT ![CurrentKey(w)] = pending[w]]
  BY <1>2, CurrentPointType DEF StorePoint, TypeOK, WritersTypeOK, Poised
<1>3. ASSUME NEW c \in Scrapers, ExpireSeries(c)
      PROVE  \E s \in Signatures : registered' = [registered EXCEPT ![s] = Absent]
  BY <1>3 DEF ExpireSeries, Delete, TypeOK, ScrapersTypeOK
<1> QED
  BY <1>1, <1>2, <1>3
     DEF Next, Write, Scrape, Tick, vars, Accumulate, FinishMetric, SkipPoint,
         LoadPoint, BeginCollect, PassOver, CollectSeries, FindExpired, Visit,
         EndCollect

(* "only keep datapoint with latest timestamp": true of one caller.          *)
THEOREM OneWriterKeepsLatest ==
    ASSUME OneWriter
    PROVE  Spec => TimestampsAdvance
<1>1. Init => TypeOK /\ Ahead
  BY InitType, InitAhead
<1>2. TypeOK /\ Ahead /\ [Next]_vars => (TypeOK /\ Ahead)'
  BY NextType, NextAhead
<1>3. TypeOK /\ Ahead /\ [Next]_vars
        => [\A s \in Signatures :
               registered[s] # Absent /\ registered'[s] # Absent
                   => registered'[s].ts >= registered[s].ts]_vars
  <2> SUFFICES ASSUME TypeOK, Ahead, [Next]_vars, NEW s \in Signatures,
                      registered[s] # Absent, registered'[s] # Absent
               PROVE  registered'[s].ts >= registered[s].ts
    OBVIOUS
  <2>1. registered \in [Signatures -> Entry \cup {Absent}]
    BY DEF TypeOK
  <2>2. registered[s].ts \in Int
    BY <2>1 DEF Entry, Times
  <2>3. CASE registered'[s] = registered[s]
    BY <2>2, <2>3
  <2>4. ASSUME NEW w \in Writers, pc[w] = "store", CurrentKey(w) = s,
               pending[w] \in Entry, registered'[s] = pending[w]
        PROVE  registered'[s].ts >= registered[s].ts
    <3>1. registered[s].ts <= pending[w].ts
      BY <2>4 DEF Ahead
    <3>2. pending[w].ts \in Int
      BY <2>4 DEF Entry, Times
    <3> QED
      BY <2>2, <2>4, <3>1, <3>2
  <2> QED
    BY <2>1, <2>3, <2>4, RegistryStep
<1> QED
  BY <1>1, <1>2, <1>3, PTL DEF Spec, TimestampsAdvance

-----------------------------------------------------------------------------
(* The sums implement the promise of CumulativeSeries.                       *)

LEMMA InitShows == Init => Promise!Init
<1> SUFFICES ASSUME Init PROVE Shown = [s \in SumSignatures |-> Absent]
  BY DEF Promise!Init
<1>1. \A s \in SumSignatures : s \in Signatures
  BY DEF SumSignatures, Signatures, Types
<1> QED
  BY <1>1 DEF Init, Shown, ShownPoint

(* The store of a truthful entry that is not older shows a point.            *)
LEMMA StoreShows ==
    ASSUME TypeOK, NEW s \in SumSignatures, NEW e \in Entry, Truthful(s, e),
           registered[s] # Absent => registered[s].ts <= e.ts,
           registered' = [registered EXCEPT ![s] = e]
    PROVE  Promise!Show(s)
<1>1. s \in Signatures /\ s[1] = "sum"
  BY DEF SumSignatures, Signatures, Types
<1>2. registered[s] \in Entry \cup {Absent}
  BY <1>1 DEF TypeOK
<1> DEFINE point == [start |-> e.start, ts |-> e.ts, val |-> e.val]
<1>3. e.ts \in 0 .. MaxTime /\ e.start \in 0 .. e.ts
  BY DEF Truthful, Entry, Times
<1>4. e.val = Total[s][e.ts] - Total[s][e.start]
  BY <1>1 DEF Truthful, Exact
<1>5. point \in Promise!PointsAt(s, e.ts)
  BY <1>3, <1>4 DEF Promise!PointsAt
<1>6. Shown[s] # Absent => Shown[s].ts <= e.ts
  BY <1>2 DEF Shown, ShownPoint
<1>7. Shown' = [Shown EXCEPT ![s] = point]
  <2>1. e # Absent
    BY AbsentAssumption
  <2>2. \A r \in SumSignatures : r \in Signatures
    BY DEF SumSignatures, Signatures, Types
  <2>3. \A r \in SumSignatures :
           registered'[r] = IF r = s THEN e ELSE registered[r]
    BY <2>2 DEF TypeOK
  <2> QED
    BY <2>1, <2>3 DEF Shown, ShownPoint
<1> HIDE DEF point
<1> QED
  BY <1>3, <1>5, <1>6, <1>7 DEF Promise!Show, Promise!Times

LEMMA StepShows ==
    ASSUME TypeOK, TruthfulRegistry, Ahead, [Next]_vars
    PROVE  [Promise!Next]_Shown
<1>1. \A s \in SumSignatures : s \in Signatures
  BY DEF SumSignatures, Signatures, Types
<1>2. CASE UNCHANGED registered
  BY <1>2 DEF Shown
<1>3. ASSUME NEW w \in Writers, pc[w] = "store", CurrentKey(w) \in Signatures,
             pending[w] \in Entry,
             registered' = [registered EXCEPT ![CurrentKey(w)] = pending[w]]
      PROVE  [Promise!Next]_Shown
  <2>1. CASE CurrentKey(w) \in SumSignatures
    <3>1. /\ Truthful(CurrentKey(w), pending[w])
          /\ registered[CurrentKey(w)] # Absent
                => registered[CurrentKey(w)].ts <= pending[w].ts
      BY <1>3 DEF TruthfulRegistry, Ahead
    <3>2. Promise!Show(CurrentKey(w))
      BY <1>3, <2>1, <3>1, StoreShows
    <3> QED
      BY <2>1, <3>2 DEF Promise!Next
  <2>2. CASE CurrentKey(w) \notin SumSignatures
    BY <1>1, <1>3, <2>2 DEF Shown, TypeOK
  <2> QED
    BY <2>1, <2>2
<1>4. ASSUME NEW s \in Signatures, registered' = [registered EXCEPT ![s] = Absent]
      PROVE  [Promise!Next]_Shown
  <2>1. CASE s \in SumSignatures
    <3>1. \A r \in SumSignatures :
             registered'[r] = IF r = s THEN Absent ELSE registered[r]
      BY <1>1, <1>4 DEF TypeOK
    <3>2. Shown' = [Shown EXCEPT ![s] = Absent]
      BY <3>1 DEF Shown, ShownPoint
    <3> QED
      BY <2>1, <3>2 DEF Promise!Next, Promise!Withdraw
  <2>2. CASE s \notin SumSignatures
    BY <1>1, <1>4, <2>2 DEF Shown, TypeOK
  <2> QED
    BY <2>1, <2>2
<1> QED
  BY <1>2, <1>3, <1>4, RegistryStep

(* The registry of one caller at a time implements CumulativeSeries.         *)
THEOREM ImplementsCumulativeSeries ==
    ASSUME OneWriter
    PROVE  Spec => ShowsCumulativeSeries
<1>1. Init => TypeOK /\ TruthfulRegistry /\ Ahead /\ Promise!Init
  BY InitType, InitTruthful, InitAhead, InitShows
<1>2. TypeOK /\ TruthfulRegistry /\ Ahead /\ [Next]_vars
        => (TypeOK /\ TruthfulRegistry /\ Ahead)'
  BY NextType, NextTruthful, NextAhead
<1>3. TypeOK /\ TruthfulRegistry /\ Ahead /\ [Next]_vars => [Promise!Next]_Shown
  BY StepShows
<1> QED
  BY <1>1, <1>2, <1>3, PTL DEF Spec, ShowsCumulativeSeries, Promise!Spec

-----------------------------------------------------------------------------
(* A scrape misses no series that stays.                                     *)

(* What stayed since Range began has been collected, is still to be visited, *)
(* or is the one series about to be deleted.                                 *)
Covered ==
    \A c \in Scrapers :
        /\ intact[c] \subseteq served[c] \cup todo[c] \cup doomed[c]
        /\ \E s \in Signatures : doomed[c] \subseteq {s}

LEMMA InitCovered == Init /\ Names # {} => Covered
<1>1. ASSUME NEW n \in Names PROVE <<"sum", n>> \in Signatures
  BY DEF Signatures, Types
<1> QED
  BY <1>1 DEF Init, Covered

LEMMA NextCovered ==
    ASSUME TypeOK, Covered, [Next]_vars
    PROVE  Covered'
<1> USE DEF Covered
<1>1. CASE UNCHANGED scraperVars
  BY <1>1 DEF scraperVars
<1>2. ASSUME NEW w \in Writers, DeletePoint(w)
      PROVE  Covered'
  BY <1>2 DEF DeletePoint, Delete
<1>3. ASSUME NEW c \in Scrapers, BeginCollect(c)
      PROVE  Covered'
  BY <1>3 DEF BeginCollect, TypeOK, ScrapersTypeOK
<1>4. ASSUME NEW c \in Scrapers, NEW s \in Signatures,
             PassOver(c, s) \/ CollectSeries(c, s) \/ FindExpired(c, s)
      PROVE  Covered'
  BY <1>4 DEF PassOver, CollectSeries, FindExpired, Visit, TypeOK, ScrapersTypeOK
<1>5. ASSUME NEW c \in Scrapers, ExpireSeries(c)
      PROVE  Covered'
  BY <1>5 DEF ExpireSeries, Delete, TypeOK, ScrapersTypeOK
<1>6. ASSUME NEW c \in Scrapers, EndCollect(c)
      PROVE  Covered'
  BY <1>6 DEF EndCollect, TypeOK, ScrapersTypeOK
<1> QED
  BY <1>1, <1>2, <1>3, <1>4, <1>5, <1>6
     DEF Next, Write, Scrape, Tick, vars, Accumulate, FinishMetric, SkipPoint,
         LoadPoint, StorePoint

(* Collect returns every series that stayed in the registry, whatever other  *)
(* scrapes and writers do meanwhile.                                         *)
THEOREM ScrapesAreComplete ==
    ASSUME Names # {}
    PROVE  Spec => []ScrapeComplete
<1>1. Init => TypeOK /\ Covered
  BY InitType, InitCovered
<1>2. TypeOK /\ Covered /\ [Next]_vars => (TypeOK /\ Covered)'
  BY NextType, NextCovered
<1>3. Covered => ScrapeComplete
  BY DEF Covered, ScrapeComplete
<1> QED
  BY <1>1, <1>2, <1>3, PTL DEF Spec

=============================================================================
