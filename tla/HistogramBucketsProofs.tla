----------------------- MODULE HistogramBucketsProofs -----------------------
(* The theorem about the buckets of a histogram, for any bounds and values,  *)
(* and any number of reports.                                                *)
EXTENDS HistogramBuckets, SumTheorems

SeriesRecord ==
    [known : BOOLEAN, panicked : BOOLEAN, ts : Nat, bounds : Seq(Int),
     counts : Seq(Nat), count : Nat]

(* Counts, one for each bucket of bs, of the observations S.                 *)
Within(S, bs, i) == {o \in S : InBucket(o[2], bs, i)}

Tallies(counts, bs, S) ==
    /\ Len(counts) = Len(bs) + 1 \/ (bs = <<>> /\ counts = <<>>)
    /\ \A i \in DOMAIN counts : counts[i] = Cardinality(Within(S, bs, i))

(* The series is where its last accepted point left it, the points that      *)
(* count have its bounds, and its counts are those of their observations.    *)
BucketsInv ==
    /\ reports \in Seq(Reports)
    /\ series \in SeriesRecord
    /\ ~series.panicked
    /\ Accepted \in SUBSET DOMAIN reports /\ Accepts(reports, Accepted)
    /\ IF series.known
       THEN /\ series.bounds \in BoundLists
            /\ \E a \in Accepted :
                  /\ reports[a].ts = series.ts
                  /\ reports[a].bounds = series.bounds
                  /\ Len(reports[a].counts) = Len(series.counts)
            /\ \A a \in Accepted : reports[a].ts <= series.ts
       ELSE reports = <<>> /\ series.bounds = <<>>
    /\ \A k \in Counted : reports[k].bounds = series.bounds
    /\ IsFiniteSet(Observed)
    /\ \A o \in Observed : o[2] \in Int
    /\ series.count = Cardinality(Observed)
    /\ Tallies(series.counts, series.bounds, Observed)

-----------------------------------------------------------------------------
(* What a sender reports.                                                    *)

(* One report, observed: the values with the number of the report.           *)
Observations(k, seen) == {k} \X seen

LEMMA ObservationsSize ==
    ASSUME NEW k, NEW seen, IsFiniteSet(seen)
    PROVE  /\ IsFiniteSet(Observations(k, seen))
           /\ Cardinality(Observations(k, seen)) = Cardinality(seen)
<1>1. IsFiniteSet({k}) /\ Cardinality({k}) = 1
  BY FS_Singleton
<1>2. Cardinality(seen) \in Nat
  BY FS_CardinalityType
<1>3. /\ IsFiniteSet({k} \X seen)
      /\ Cardinality({k} \X seen) = Cardinality({k}) * Cardinality(seen)
  BY <1>1, FS_Product
<1> QED
  BY <1>1, <1>2, <1>3 DEF Observations

LEMMA ReportFacts ==
    ASSUME NEW r \in Reports
    PROVE  /\ r.start \in Nat /\ r.ts \in Nat /\ r.start <= r.ts
           /\ r.bounds \in BoundLists /\ r.bounds \in Seq(Int)
           /\ r.seen \subseteq Int /\ IsFiniteSet(r.seen)
           /\ r.count = Cardinality(r.seen)
           /\ r.counts = Bucketed(r.bounds, r.seen) \/ (r.bounds = <<>> /\ r.counts = <<>>)
<1>1. PICK to \in 0 .. MaxTime, bs \in BoundLists,
           seen \in {vs \in SUBSET Observable : IsFiniteSet(vs)} :
         r \in {[start |-> from, ts |-> to, bounds |-> bs, seen |-> seen,
                 counts |-> counts, count |-> Cardinality(seen)] :
                   from \in 0 .. to,
                   counts \in {Bucketed(bs, seen)} \cup (IF bs = <<>> THEN {<<>>} ELSE {})}
  BY DEF Reports
<1>2. PICK from \in 0 .. to,
           counts \in {Bucketed(bs, seen)} \cup (IF bs = <<>> THEN {<<>>} ELSE {}) :
         r = [start |-> from, ts |-> to, bounds |-> bs, seen |-> seen,
              counts |-> counts, count |-> Cardinality(seen)]
  BY <1>1
<1>3. to \in Nat /\ from \in Nat /\ from <= to
  BY BucketsAssumption
<1>4. bs \in Seq(Int) /\ seen \subseteq Int /\ IsFiniteSet(seen)
  BY BucketsAssumption DEF IsBoundList
<1>5. counts = Bucketed(bs, seen) \/ (bs = <<>> /\ counts = <<>>)
  OBVIOUS
<1> HIDE DEF Bucketed
<1> QED
  BY <1>2, <1>3, <1>4, <1>5

(* The counts of a report tally with its observations.                       *)
LEMMA ReportTallies ==
    ASSUME NEW r \in Reports, NEW k
    PROVE  /\ r.counts \in Seq(Nat)
           /\ Tallies(r.counts, r.bounds, Observations(k, r.seen))
<1> DEFINE bs == r.bounds
           S == Observations(k, r.seen)
           In(i) == {v \in r.seen : InBucket(v, bs, i)}
<1>1. /\ bs \in Seq(Int) /\ IsFiniteSet(r.seen)
      /\ r.counts = Bucketed(bs, r.seen) \/ (bs = <<>> /\ r.counts = <<>>)
  BY ReportFacts
<1>2. CASE bs = <<>> /\ r.counts = <<>>
  BY <1>2 DEF Tallies
<1>3. CASE r.counts = Bucketed(bs, r.seen)
  <2>1. ASSUME NEW i
        PROVE  /\ Cardinality(In(i)) \in Nat
               /\ Cardinality(Within(S, bs, i)) = Cardinality(In(i))
    <3>1. IsFiniteSet(In(i))
      BY <1>1, FS_Subset
    <3>2. Within(S, bs, i) = Observations(k, In(i))
      BY DEF Within, Observations
    <3> QED
      BY <3>1, <3>2, ObservationsSize, FS_CardinalityType
  <2>2. r.counts = [i \in 1 .. Len(bs) + 1 |-> Cardinality(In(i))]
    BY <1>3 DEF Bucketed
  <2>3. Len(bs) + 1 \in Nat
    BY <1>1
  <2> HIDE DEF In, S
  <2>4. r.counts \in Seq(Nat) /\ Len(r.counts) = Len(bs) + 1
    BY <2>1, <2>2, <2>3
  <2>5. \A i \in DOMAIN r.counts : r.counts[i] = Cardinality(Within(S, bs, i))
    BY <2>1, <2>2
  <2> QED
    BY <2>4, <2>5 DEF Tallies, S
<1> QED
  BY <1>1, <1>2, <1>3

-----------------------------------------------------------------------------
(* Adding the counts of two points, by index.                                *)
LEMMA TalliesAdd ==
    ASSUME NEW bs \in Seq(Int),
           NEW S, IsFiniteSet(S), NEW T, IsFiniteSet(T), S \cap T = {},
           NEW c \in Seq(Nat), Tallies(c, bs, S),
           NEW d \in Seq(Nat), Tallies(d, bs, T), Len(c) = Len(d)
    PROVE  LET sum == [i \in DOMAIN d |-> d[i] + c[i]]
           IN  sum \in Seq(Nat) /\ Len(sum) = Len(d) /\ Tallies(sum, bs, S \cup T)
<1> DEFINE sum == [i \in DOMAIN d |-> d[i] + c[i]]
<1>1. /\ DOMAIN d = 1 .. Len(d) /\ Len(d) \in Nat /\ DOMAIN c = DOMAIN d
      /\ \A i \in 1 .. Len(d) : c[i] \in Nat /\ d[i] \in Nat
  OBVIOUS
<1>2. sum \in Seq(Nat) /\ Len(sum) = Len(d) /\ DOMAIN sum = DOMAIN d
  BY <1>1
<1>3. ASSUME NEW i \in DOMAIN d
      PROVE  sum[i] = Cardinality(Within(S \cup T, bs, i))
  <2> DEFINE A == Within(S, bs, i)
             B == Within(T, bs, i)
  <2>1. c[i] = Cardinality(A) /\ d[i] = Cardinality(B)
    BY <1>1 DEF Tallies
  <2>2. A \in SUBSET S /\ B \in SUBSET T /\ Within(S \cup T, bs, i) = A \cup B
    BY DEF Within
  <2>3. IsFiniteSet(A) /\ IsFiniteSet(B) /\ A \cap B = {}
    BY <2>2, FS_Subset
  <2> HIDE DEF A, B
  <2>4. Cardinality(A \cup B) = Cardinality(A) + Cardinality(B) - Cardinality(A \cap B)
    BY <2>3, FS_Union
  <2>5. Cardinality(A) \in Nat /\ Cardinality(B) \in Nat /\ Cardinality(A \cap B) = 0
    BY <2>3, FS_CardinalityType, FS_EmptySet
  <2>6. Cardinality(A \cup B) = Cardinality(B) + Cardinality(A)
    BY <2>4, <2>5
  <2>7. sum[i] = d[i] + c[i]
    OBVIOUS
  <2> HIDE DEF sum
  <2> QED
    BY <2>1, <2>2, <2>6, <2>7
<1> HIDE DEF sum
<1>4. Len(sum) = Len(bs) + 1 \/ (bs = <<>> /\ sum = <<>>)
  <2>1. CASE Len(c) = Len(bs) + 1
    BY <1>2, <2>1
  <2>2. CASE bs = <<>> /\ c = <<>>
    <3>1. Len(sum) = 0
      BY <1>2, <2>2
    <3> QED
      BY <1>2, <2>2, <3>1
  <2> QED
    BY <2>1, <2>2 DEF Tallies
<1>5. Tallies(sum, bs, S \cup T)
  BY <1>2, <1>3, <1>4 DEF Tallies
<1> QED
  BY <1>2, <1>5 DEF sum

(* An observation is in one bucket at most; those of the buckets up to a     *)
(* bound are the ones that are not above it.                                 *)
LEMMA OneBucket ==
    ASSUME NEW bs, IsBoundList(bs), NEW v \in Int,
           NEW i \in DOMAIN bs, InBucket(v, bs, i),
           NEW j \in DOMAIN bs, InBucket(v, bs, j)
    PROVE  i = j
<1>1. bs \in Seq(Int) /\ DOMAIN bs = 1 .. Len(bs) /\ Len(bs) \in Nat
  BY DEF IsBoundList
<1>2. ASSUME NEW k \in DOMAIN bs, InBucket(v, bs, k),
             NEW l \in DOMAIN bs, InBucket(v, bs, l), k < l
      PROVE  FALSE
  <2>1. k \in 1 .. Len(bs) /\ l \in 1 .. Len(bs) /\ l - 1 \in 1 .. Len(bs)
    BY <1>1, <1>2
  <2>2. bs[k] \in Int /\ bs[l - 1] \in Int
    BY <1>1, <2>1
  <2>3. v <= bs[k] /\ bs[l - 1] < v
    BY <1>1, <1>2, <2>1 DEF InBucket
  <2>4. bs[k] <= bs[l - 1]
    <3>1. CASE k = l - 1
      BY <2>2, <3>1
    <3>2. CASE k # l - 1
      <4>1. k < l - 1
        BY <1>2, <2>1, <3>2
      <4>2. bs[k] < bs[l - 1]
        BY <1>1, <2>1, <4>1 DEF IsBoundList
      <4> QED
        BY <2>2, <4>2
    <3> QED
      BY <3>1, <3>2
  <2> QED
    BY <2>2, <2>3, <2>4
<1>3. i \in Int /\ j \in Int
  BY <1>1
<1> QED
  BY <1>2, <1>3

LEMMA SomeBucket ==
    ASSUME NEW bs, IsBoundList(bs), NEW v \in Int, NEW m \in DOMAIN bs, v <= bs[m]
    PROVE  \E i \in DOMAIN bs : i <= m /\ InBucket(v, bs, i)
<1>1. bs \in Seq(Int) /\ DOMAIN bs = 1 .. Len(bs) /\ Len(bs) \in Nat
  BY DEF IsBoundList
<1> DEFINE T == {i \in DOMAIN bs : v <= bs[i]}
<1>2. T \subseteq Nat /\ T # {}
  BY <1>1
<1>3. PICK i \in T : \A j \in T : i <= j
  BY <1>2, Smallest
<1>4. ASSUME i > 1 PROVE bs[i - 1] < v
  <2>1. i - 1 \in DOMAIN bs /\ ~ (i <= i - 1)
    BY <1>1, <1>4
  <2>2. i - 1 \notin T
    BY <1>3, <2>1
  <2> QED
    BY <1>1, <2>1, <2>2
<1>5. InBucket(v, bs, i) /\ i <= m
  BY <1>3, <1>4 DEF InBucket
<1> QED
  BY <1>5

(* The cumulative counts that are shown.                                     *)
LEMMA ShownTallies ==
    ASSUME NEW bs, IsBoundList(bs),
           NEW S, IsFiniteSet(S), \A o \in S : o[2] \in Int,
           NEW c, Tallies(c, bs, S), NEW b \in Range(bs)
    PROVE  SumFunctionOnSet(c, {i \in DOMAIN bs : bs[i] <= b})
               = Cardinality({o \in S : o[2] <= b})
<1> DEFINE I == {i \in DOMAIN bs : bs[i] <= b}
           E == [i \in I |-> Within(S, bs, i)]
<1>1. bs \in Seq(Int) /\ DOMAIN bs = 1 .. Len(bs) /\ Len(bs) \in Nat
  BY DEF IsBoundList
<1>2. PICK m \in DOMAIN bs : bs[m] = b
  BY DEF Range
<1>3. IsFiniteSet(I)
  <2>1. IsFiniteSet(1 .. Len(bs))
    BY <1>1, FS_Interval
  <2>2. I \in SUBSET (1 .. Len(bs))
    BY <1>1
  <2> QED
    BY <2>1, <2>2, FS_Subset
<1>4. \A i \in I : c[i] = Cardinality(E[i]) /\ IsFiniteSet(E[i])
  <2> TAKE i \in I
  <2>1. Within(S, bs, i) \in SUBSET S
    BY DEF Within
  <2>2. i \in DOMAIN c
    <3>1. bs # <<>>
      BY <1>1
    <3>2. Len(c) = Len(bs) + 1
      BY <3>1 DEF Tallies
    <3> QED
      BY <1>1, <3>2
  <2> QED
    BY <2>1, <2>2, FS_Subset DEF Tallies
<1>5. \A i, j \in I : i # j => E[i] \cap E[j] = {}
  <2> SUFFICES ASSUME NEW i \in I, NEW j \in I, NEW o \in E[i], o \in E[j]
               PROVE  i = j
    OBVIOUS
  <2> QED
    BY OneBucket DEF Within
<1>6. Together(E, I) = {o \in S : o[2] <= b}
  <2>1. ASSUME NEW o \in Together(E, I) PROVE o \in S /\ o[2] <= b
    <3>1. PICK i \in I : o \in Within(S, bs, i)
      BY <2>1 DEF Together
    <3>2. o \in S /\ o[2] \in Int /\ bs[i] \in Int /\ b \in Int
      BY <1>1, <1>2, <3>1 DEF Within
    <3>3. o[2] <= bs[i] /\ bs[i] <= b
      BY <1>1, <3>1 DEF Within, InBucket
    <3> QED
      BY <3>2, <3>3
  <2>2. ASSUME NEW o \in S, o[2] <= b PROVE o \in Together(E, I)
    <3>1. PICK i \in DOMAIN bs : i <= m /\ InBucket(o[2], bs, i)
      BY <1>2, <2>2, SomeBucket
    <3>2. bs[i] <= b
      <4>1. bs[i] \in Int /\ bs[m] \in Int /\ (i = m \/ i < m)
        BY <1>1, <3>1
      <4> QED
        BY <1>2, <4>1 DEF IsBoundList
    <3>3. i \in I /\ o \in E[i]
      BY <3>1, <3>2 DEF Within
    <3> HIDE DEF I, E
    <3> QED
      BY <3>3 DEF Together
  <2> HIDE DEF I, E
  <2> QED
    BY <2>1, <2>2
<1> HIDE DEF I, E
<1>7. SumFunctionOnSet(c, I) = Cardinality(Together(E, I))
  BY <1>3, <1>4, <1>5, SumOfSizes
<1> QED
  BY <1>6, <1>7 DEF I

-----------------------------------------------------------------------------
(* The points that are accepted, and those that count.                       *)

(* There is one set of them only.                                            *)
LEMMA AcceptsOnce ==
    ASSUME NEW rs, DOMAIN rs \subseteq Nat,
           NEW A \in SUBSET DOMAIN rs, Accepts(rs, A),
           NEW B \in SUBSET DOMAIN rs, Accepts(rs, B)
    PROVE  A = B
<1> DEFINE D == {k \in DOMAIN rs : ~(k \in A <=> k \in B)}
<1> SUFFICES ASSUME D # {} PROVE FALSE
  OBVIOUS
<1>1. PICK x \in D : \A y \in D : x <= y
  <2>1. D \subseteq Nat
    OBVIOUS
  <2> QED
    BY <2>1, Smallest
<1>2. \A j \in DOMAIN rs : j < x => (j \in A <=> j \in B)
  <2> TAKE j \in DOMAIN rs
  <2>1. j \in Nat /\ x \in Nat
    OBVIOUS
  <2>2. j < x => ~ (x <= j)
    BY <2>1
  <2> QED
    BY <1>1, <2>2
<1>3. (\A j \in A : j < x => rs[x].start >= rs[j].ts)
         <=> \A j \in B : j < x => rs[x].start >= rs[j].ts
  BY <1>2
<1>4. x \in A <=> x \in B
  BY <1>3 DEF Accepts
<1> QED
  BY <1>4

AcceptedOf(rs) == CHOOSE A \in SUBSET DOMAIN rs : Accepts(rs, A)

LEMMA AcceptedIs ==
    ASSUME NEW rs, DOMAIN rs \subseteq Nat,
           NEW A \in SUBSET DOMAIN rs, Accepts(rs, A)
    PROVE  AcceptedOf(rs) = A
<1> DEFINE B == AcceptedOf(rs)
<1>1. B \in SUBSET DOMAIN rs /\ Accepts(rs, B)
  BY DEF AcceptedOf
<1> HIDE DEF B
<1>2. B = A
  BY <1>1, AcceptsOnce
<1> QED
  BY <1>2 DEF B

(* A report is accepted if no accepted one ends after its start.             *)
Takes(r) == \A j \in Accepted : r.start >= reports[j].ts

Newest == Len(reports) + 1

LEMMA ReportAppends ==
    ASSUME BucketsInv, NEW r \in Reports, Report(r)
    PROVE  /\ reports' \in Seq(Reports)
           /\ DOMAIN reports' = DOMAIN reports \cup {Newest}
           /\ DOMAIN reports \subseteq Nat /\ Newest \in Nat
           /\ reports'[Newest] = r
           /\ \A k \in DOMAIN reports : k < Newest /\ reports'[k] = reports[k]
<1>1. reports \in Seq(Reports) /\ reports' = Append(reports, r)
  BY DEF BucketsInv, Report
<1> QED
  BY <1>1 DEF Newest

LEMMA ReportAccepted ==
    ASSUME BucketsInv, NEW r \in Reports, Report(r)
    PROVE  /\ Accepted' = IF Takes(r) THEN Accepted \cup {Newest} ELSE Accepted
           /\ Accepted' \in SUBSET DOMAIN reports'
           /\ Accepts(reports', Accepted')
<1> DEFINE A == IF Takes(r) THEN Accepted \cup {Newest} ELSE Accepted
<1>1. /\ Accepted \in SUBSET DOMAIN reports /\ Accepts(reports, Accepted)
      /\ DOMAIN reports' = DOMAIN reports \cup {Newest}
      /\ DOMAIN reports \subseteq Nat /\ Newest \in Nat
      /\ reports'[Newest] = r
      /\ \A k \in DOMAIN reports : k < Newest /\ reports'[k] = reports[k]
  BY ReportAppends DEF BucketsInv
<1>2. A \in SUBSET DOMAIN reports' /\ DOMAIN reports' \subseteq Nat
  BY <1>1
<1>3. ASSUME NEW k \in DOMAIN reports
      PROVE  k \in A <=> \A j \in A : j < k => reports'[k].start >= reports'[j].ts
  <2>1. k # Newest /\ ~(Newest < k)
    BY <1>1
  <2>2. k \in A <=> k \in Accepted
    BY <2>1
  <2>3. \A j : j \in A /\ j < k <=> j \in Accepted /\ j < k
    BY <2>1
  <2>4. \A j \in Accepted : reports'[j] = reports[j]
    BY <1>1
  <2> HIDE DEF A
  <2> QED
    BY <1>1, <2>2, <2>3, <2>4 DEF Accepts
<1>4. Newest \in A <=> \A j \in A : j < Newest => reports'[Newest].start >= reports'[j].ts
  <2>1. Newest \notin DOMAIN reports /\ ~(Newest < Newest)
    BY <1>1
  <2>2. Newest \in A <=> Takes(r)
    BY <1>1, <2>1
  <2>3. \A j : j \in A /\ j < Newest <=> j \in Accepted
    BY <1>1, <2>1
  <2>4. \A j \in Accepted : reports'[j] = reports[j]
    BY <1>1
  <2> HIDE DEF A
  <2> QED
    BY <1>1, <2>2, <2>3, <2>4 DEF Takes
<1> HIDE DEF A
<1>5. Accepts(reports', A)
  BY <1>1, <1>3, <1>4 DEF Accepts
<1>6. AcceptedOf(reports') = A
  BY <1>2, <1>5, AcceptedIs
<1>7. Accepted' = A
  BY <1>6 DEF Accepted, AcceptedOf
<1> QED
  BY <1>2, <1>5, <1>7 DEF A

(* Whether an earlier point continues another one does not change.           *)
LEMMA ContinuesSame ==
    ASSUME BucketsInv, NEW r \in Reports, Report(r),
           NEW k \in Accepted, NEW j \in Accepted
    PROVE  Continues(k, j)' <=> Continues(k, j)
<1>1. /\ Accepted \in SUBSET DOMAIN reports
      /\ DOMAIN reports \subseteq Nat /\ Newest \in Nat
      /\ \A i \in DOMAIN reports : i < Newest /\ reports'[i] = reports[i]
  BY ReportAppends DEF BucketsInv
<1>2. Accepted' = Accepted \/ Accepted' = Accepted \cup {Newest}
  BY ReportAccepted
<1>3. ~(Newest < j)
  BY <1>1
<1>4. \A i : i \in Accepted' /\ i < j <=> i \in Accepted /\ i < j
  BY <1>2, <1>3
<1>5. /\ reports'[j] = reports[j] /\ reports'[k] = reports[k]
      /\ \A i \in Accepted : reports'[i] = reports[i]
  BY <1>1
<1> QED
  BY <1>4, <1>5 DEF Continues

(* Of the earlier points those count on that the new one continues.          *)
LEMMA ReportCounted ==
    ASSUME BucketsInv, NEW r \in Reports, Report(r), NEW n, n = Newest
    PROVE  Counted' = IF Takes(r)
                      THEN {k \in Counted : Continues(k, n)'} \cup {n}
                      ELSE Counted
<1>1. /\ Accepted \in SUBSET DOMAIN reports
      /\ DOMAIN reports \subseteq Nat /\ n \in Nat
      /\ \A i \in DOMAIN reports : i < n
  BY ReportAppends DEF BucketsInv
<1>2. \A k, j \in Accepted : Continues(k, j)' <=> Continues(k, j)
  BY ContinuesSame
<1>3. CASE ~Takes(r)
  <2>1. Accepted' = Accepted
    BY <1>3, ReportAccepted
  <2> QED
    BY <1>2, <1>3, <2>1 DEF Counted
<1>4. CASE Takes(r)
  <2>1. Accepted' = Accepted \cup {n}
    BY <1>4, ReportAccepted
  <2>2. ASSUME NEW k \in Accepted
        PROVE  k \in Counted' <=> k \in Counted /\ Continues(k, n)'
    <3>1. n > k
      BY <1>1
    <3> QED
      BY <1>2, <2>1, <3>1 DEF Counted
  <2>3. n \in Counted'
    <3>1. \A j \in Accepted' : ~(j > n)
      BY <1>1, <2>1
    <3> QED
      BY <2>1, <3>1 DEF Counted
  <2>4. Counted' \subseteq Accepted \cup {n} /\ Counted \subseteq Accepted
    BY <2>1 DEF Counted
  <2> QED
    BY <1>4, <2>2, <2>3, <2>4
<1> QED
  BY <1>3, <1>4

(* A report adds its observations to those of the points that count on.      *)
LEMMA ReportObserved ==
    ASSUME BucketsInv, NEW r \in Reports, Report(r), NEW n, n = Newest, Takes(r)
    PROVE  Observed' = (UNION {Observations(k, reports[k].seen) :
                                   k \in {j \in Counted : Continues(j, n)'}})
                           \cup Observations(n, r.seen)
<1>1. /\ Counted' = {k \in Counted : Continues(k, n)'} \cup {n}
      /\ Counted \subseteq DOMAIN reports
  BY ReportCounted DEF Counted, BucketsInv
<1>2. reports'[n] = r /\ \A k \in Counted : reports'[k] = reports[k]
  BY <1>1, ReportAppends
<1>3. Observed' = UNION {Observations(k, reports'[k].seen) : k \in Counted'}
  BY DEF Observed, Observations
<1> QED
  BY <1>1, <1>2, <1>3

-----------------------------------------------------------------------------
(* What a report does to the series.                                         *)

(* The point that arrives starts where the series ends, with its bounds.     *)
Joins(r) == series.known /\ r.start = series.ts /\ series.bounds = r.bounds

LEMMA TakesMeans ==
    ASSUME BucketsInv, NEW r \in Reports
    PROVE  /\ Takes(r) <=> ~series.known \/ r.start >= series.ts
           /\ \A a \in Accepted :
                 /\ a \in DOMAIN reports /\ reports[a].ts \in Nat
                 /\ series.known /\ reports[a].ts <= series.ts
<1>1. \A a \in Accepted : a \in DOMAIN reports /\ reports[a].ts \in Nat
  <2>1. \A a \in DOMAIN reports : reports[a] \in Reports
    BY DEF BucketsInv
  <2>2. Accepted \subseteq DOMAIN reports
    BY DEF BucketsInv
  <2> QED
    BY <2>1, <2>2, ReportFacts
<1>2. r.start \in Nat /\ series.ts \in Nat
  BY ReportFacts DEF BucketsInv, SeriesRecord
<1>3. CASE series.known
  <2>1. /\ \E a \in Accepted : reports[a].ts = series.ts
        /\ \A a \in Accepted : reports[a].ts <= series.ts
    BY <1>3 DEF BucketsInv
  <2> QED
    BY <1>1, <1>2, <1>3, <2>1 DEF Takes
<1>4. CASE ~series.known
  <2>1. Accepted = {}
    <3>1. reports = <<>> /\ Accepted \subseteq DOMAIN reports
      BY <1>4 DEF BucketsInv
    <3>2. DOMAIN reports = {}
      BY <3>1
    <3> QED
      BY <3>1, <3>2
  <2> QED
    BY <1>4, <2>1 DEF Takes
<1> QED
  BY <1>3, <1>4

(* All the points that counted go on to count, or none.                      *)
LEMMA AllOrNone ==
    ASSUME BucketsInv, NEW r \in Reports, Report(r), NEW n, n = Newest, Takes(r)
    PROVE  /\ Accepted' = Accepted \cup {n}
           /\ Counted' = IF Joins(r) THEN Counted \cup {n} ELSE {n}
           /\ Observed' = (IF Joins(r) THEN Observed ELSE {}) \cup Observations(n, r.seen)
           /\ \A k \in Counted : k \in DOMAIN reports
<1>1. /\ Accepted' = Accepted \cup {n}
      /\ Accepted \subseteq DOMAIN reports
      /\ Counted \subseteq Accepted
  BY ReportAccepted DEF BucketsInv, Counted
<1>2. /\ reports'[n] = r
      /\ \A k \in DOMAIN reports : k < n /\ reports'[k] = reports[k]
  BY ReportAppends
<1>3. ASSUME NEW k \in Counted
      PROVE  Continues(k, n)' <=>
                 r.bounds = series.bounds /\ \E i \in Accepted : reports[i].ts = r.start
  <2>1. reports'[k].bounds = series.bounds
    <3>1. reports[k].bounds = series.bounds
      BY DEF BucketsInv
    <3> QED
      BY <1>1, <1>2, <3>1
  <2>2. (\E i \in Accepted' : i < n /\ reports'[i].ts = r.start)
            <=> \E i \in Accepted : reports[i].ts = r.start
    <3>1. n \in Nat
      BY ReportAppends
    <3>2. ~(n < n)
      BY <3>1
    <3> QED
      BY <1>1, <1>2, <3>2
  <2> QED
    BY <1>2, <2>1, <2>2 DEF Continues
<1>4. CASE Joins(r)
  <2>1. \E i \in Accepted : reports[i].ts = r.start
    BY <1>4 DEF Joins, BucketsInv
  <2>2. {k \in Counted : Continues(k, n)'} = Counted
    BY <1>3, <1>4, <2>1 DEF Joins
  <2>3. Counted' = Counted \cup {n}
    BY <2>2, ReportCounted
  <2>4. Observed' = Observed \cup Observations(n, r.seen)
    <3>1. Observed = UNION {Observations(k, reports[k].seen) : k \in Counted}
      BY DEF Observed, Observations
    <3> QED
      BY <2>2, <3>1, ReportObserved
  <2> QED
    BY <1>1, <1>4, <2>3, <2>4
<1>5. CASE ~Joins(r)
  <2>1. ASSUME r.bounds = series.bounds, NEW i \in Accepted, reports[i].ts = r.start
        PROVE  FALSE
    <3>1. series.known /\ r.start <= series.ts /\ r.start >= series.ts
      BY <2>1, TakesMeans
    <3>2. r.start \in Nat /\ series.ts \in Nat
      BY ReportFacts DEF BucketsInv, SeriesRecord
    <3>3. r.start = series.ts
      BY <3>1, <3>2
    <3> QED
      BY <1>5, <2>1, <3>1, <3>3 DEF Joins
  <2>2. {k \in Counted : Continues(k, n)'} = {}
    BY <1>3, <2>1
  <2>3. Counted' = {n}
    BY <2>2, ReportCounted
  <2>4. Observed' = Observations(n, r.seen)
    BY <2>2, ReportObserved
  <2> QED
    BY <1>1, <1>5, <2>3, <2>4
<1> QED
  BY <1>4, <1>5

(* A report that reaches back changes nothing.                               *)
LEMMA DroppedInv ==
    ASSUME BucketsInv, NEW r \in Reports, Report(r), ~Takes(r)
    PROVE  BucketsInv'
<1>1. /\ reports' \in Seq(Reports)
      /\ \A k \in DOMAIN reports : reports'[k] = reports[k]
      /\ reports' # <<>>
  <2>1. DOMAIN reports' # {}
    BY ReportAppends
  <2> QED
    BY <2>1, ReportAppends
<1>2. /\ Accepted' = Accepted /\ Counted' = Counted
      /\ Accepted' \in SUBSET DOMAIN reports' /\ Accepts(reports', Accepted')
      /\ Counted \subseteq Accepted /\ Accepted \subseteq DOMAIN reports
  BY ReportAccepted, ReportCounted DEF Counted, BucketsInv
<1>3. series.known /\ series' = series
  <2>1. series.known /\ ~(r.start >= series.ts)
    BY TakesMeans
  <2>2. r.start \in Nat /\ series.ts \in Nat
    BY ReportFacts DEF BucketsInv, SeriesRecord
  <2>3. ~(r.start > series.ts) /\ r.start # series.ts
    BY <2>1, <2>2
  <2> QED
    BY <2>1, <2>3 DEF Report, accumulateHistogram
<1>4. Observed' = Observed
  BY <1>1, <1>2 DEF Observed
<1>5. /\ \E a \in Accepted' : /\ reports'[a].ts = series'.ts
                              /\ reports'[a].bounds = series'.bounds
                              /\ Len(reports'[a].counts) = Len(series'.counts)
      /\ \A a \in Accepted' : reports'[a].ts <= series'.ts
      /\ \A k \in Counted' : reports'[k].bounds = series'.bounds
  BY <1>1, <1>2, <1>3 DEF BucketsInv
<1> QED
  BY <1>1, <1>2, <1>3, <1>4, <1>5 DEF BucketsInv

(* One that is accepted adds its counts or replaces the others.              *)
LEMMA TakenSeries ==
    ASSUME BucketsInv, NEW r \in Reports, Report(r), Takes(r)
    PROVE  /\ Joins(r) => Len(series.counts) = Len(r.counts)
           /\ series' = IF Joins(r)
                        THEN [Stored(r) EXCEPT
                                 !.counts = [i \in DOMAIN r.counts |->
                                                r.counts[i] + series.counts[i]],
                                 !.count = r.count + series.count]
                        ELSE Stored(r)
<1>1. series \in SeriesRecord /\ r.counts \in Seq(Nat)
  BY ReportTallies DEF BucketsInv
<1>2. Stored(r).counts = r.counts /\ Stored(r).count = r.count
  BY <1>1 DEF Stored, SeriesRecord
<1>3. /\ ~series.known \/ r.start >= series.ts
      /\ r.start \in Nat /\ series.ts \in Nat
  BY <1>1, TakesMeans, ReportFacts DEF SeriesRecord
<1>4. CASE Joins(r)
  <2>1. Len(series.counts) = Len(r.counts)
    <3>1. PICK a \in Accepted : /\ reports[a].bounds = series.bounds
                                /\ Len(reports[a].counts) = Len(series.counts)
      BY <1>4 DEF BucketsInv, Joins
    <3>2. a \in DOMAIN reports
      BY DEF BucketsInv
    <3> QED
      BY <1>4, <3>1, <3>2 DEF Report, KeepsForm, Joins
  <2>2. ~(Len(series.counts) < Len(r.counts))
    BY <1>1, <2>1
  <2>3. ~(r.start > series.ts) /\ series.known /\ r.start = series.ts
    BY <1>3, <1>4 DEF Joins
  <2>4. series' = accumulateHistogramValues(r)
    BY <2>3 DEF Report, accumulateHistogram
  <2>5. series' = [Stored(r) EXCEPT
                      !.counts = [i \in DOMAIN r.counts |-> r.counts[i] + series.counts[i]],
                      !.count = r.count + series.count]
    BY <1>2, <1>4, <2>2, <2>4 DEF accumulateHistogramValues, Joins
  <2> QED
    BY <1>4, <2>1, <2>5
<1>5. CASE ~Joins(r)
  <2>1. CASE ~series.known \/ r.start > series.ts
    BY <1>5, <2>1 DEF Report, accumulateHistogram
  <2>2. CASE ~(~series.known \/ r.start > series.ts)
    <3>1. r.start = series.ts /\ series.bounds # r.bounds
      BY <1>3, <1>5, <2>2 DEF Joins
    <3> QED
      BY <1>5, <2>2, <3>1 DEF Report, accumulateHistogram, accumulateHistogramValues
  <2> QED
    BY <2>1, <2>2
<1> QED
  BY <1>4, <1>5

LEMMA TakenInv ==
    ASSUME BucketsInv, NEW r \in Reports, Report(r), Takes(r)
    PROVE  BucketsInv'
<1> DEFINE n == Newest
           new == Observations(n, r.seen)
           old == IF Joins(r) THEN Observed ELSE {}
<1>1. /\ reports' \in Seq(Reports)
      /\ reports'[n] = r
      /\ \A k \in DOMAIN reports : k < n /\ reports'[k] = reports[k]
      /\ n \in Nat
  BY ReportAppends
<1>2. /\ Accepted' = Accepted \cup {n}
      /\ Counted' = IF Joins(r) THEN Counted \cup {n} ELSE {n}
      /\ Observed' = old \cup new
      /\ \A k \in Counted : k \in DOMAIN reports
      /\ Accepted' \in SUBSET DOMAIN reports' /\ Accepts(reports', Accepted')
  BY AllOrNone, ReportAccepted
<1>3. /\ r.ts \in Nat /\ r.start \in Nat /\ r.start <= r.ts
      /\ r.bounds \in BoundLists /\ r.bounds \in Seq(Int)
      /\ IsFiniteSet(r.seen) /\ r.seen \subseteq Int
      /\ r.count = Cardinality(r.seen)
      /\ r.counts \in Seq(Nat) /\ Tallies(r.counts, r.bounds, new)
  BY ReportFacts, ReportTallies
<1>4. /\ IsFiniteSet(new) /\ Cardinality(new) = r.count /\ r.count \in Nat
      /\ \A o \in new : o[2] \in Int
  <2>1. IsFiniteSet(new) /\ Cardinality(new) = r.count
    BY <1>3, ObservationsSize
  <2>2. \A o \in new : o[2] \in Int
    BY <1>3 DEF Observations
  <2> QED
    BY <2>1, <2>2, FS_CardinalityType
<1>5. old \cap new = {}
  <2>1. \A o \in Observed : o[1] \in DOMAIN reports
    BY <1>2 DEF Observed
  <2>2. \A o \in new : o[1] = n
    BY DEF Observations
  <2>3. n \notin DOMAIN reports
    BY <1>1
  <2> HIDE DEF n, new
  <2> QED
    BY <2>1, <2>2, <2>3
<1>6. /\ series \in SeriesRecord
      /\ series.count = Cardinality(Observed)
      /\ IsFiniteSet(Observed)
      /\ Tallies(series.counts, series.bounds, Observed)
      /\ \A o \in Observed : o[2] \in Int
  BY DEF BucketsInv
<1> HIDE DEF new, n
<1>7. /\ series'.known /\ ~series'.panicked /\ series'.ts = r.ts /\ series'.bounds = r.bounds
      /\ series' \in SeriesRecord
      /\ Len(series'.counts) = Len(r.counts)
      /\ series'.count = Cardinality(Observed')
      /\ Tallies(series'.counts, series'.bounds, Observed')
      /\ IsFiniteSet(Observed')
  <2>1. ~series.panicked
    BY DEF BucketsInv
  <2>2. CASE Joins(r)
    <3> DEFINE sum == [i \in DOMAIN r.counts |-> r.counts[i] + series.counts[i]]
    <3>1. series' = [Stored(r) EXCEPT !.counts = sum, !.count = r.count + series.count]
      BY <2>2, TakenSeries
    <3>2. /\ Len(series.counts) = Len(r.counts) /\ series.bounds = r.bounds
          /\ series.counts \in Seq(Nat) /\ series.count \in Nat
      BY <1>6, <2>2, TakenSeries DEF Joins, SeriesRecord
    <3>3. Observed \cap new = {} /\ Observed' = Observed \cup new
      BY <1>2, <1>5, <2>2
    <3>4. /\ sum \in Seq(Nat) /\ Len(sum) = Len(r.counts)
          /\ Tallies(sum, r.bounds, Observed \cup new)
      BY <1>3, <1>4, <1>6, <3>2, <3>3, TalliesAdd
    <3>5. /\ IsFiniteSet(Observed \cup new)
          /\ Cardinality(Observed \cup new) = r.count + series.count
      <4>1. /\ IsFiniteSet(Observed \cup new)
            /\ Cardinality(Observed \cup new) =
                  Cardinality(Observed) + Cardinality(new) - Cardinality(Observed \cap new)
        BY <1>4, <1>6, FS_Union
      <4>2. Cardinality(Observed \cap new) = 0
        BY <3>3, FS_EmptySet
      <4> QED
        BY <1>4, <1>6, <3>2, <4>1, <4>2
    <3> HIDE DEF sum
    <3>6. /\ series' = [known |-> TRUE, panicked |-> FALSE, ts |-> r.ts, bounds |-> r.bounds,
                        counts |-> sum, count |-> r.count + series.count]
      BY <1>6, <2>1, <3>1 DEF Stored, SeriesRecord
    <3> QED
      BY <1>3, <1>4, <3>2, <3>3, <3>4, <3>5, <3>6 DEF SeriesRecord
  <2>3. CASE ~Joins(r)
    <3>1. series' = Stored(r)
      BY <2>3, TakenSeries
    <3>2. series' = [known |-> TRUE, panicked |-> FALSE, ts |-> r.ts, bounds |-> r.bounds,
                     counts |-> r.counts, count |-> r.count]
      BY <1>6, <2>1, <3>1 DEF Stored, SeriesRecord
    <3>3. Observed' = new
      BY <1>2, <2>3
    <3> QED
      BY <1>3, <1>4, <3>2, <3>3 DEF SeriesRecord
  <2> QED
    BY <2>2, <2>3
<1>8. \A o \in Observed' : o[2] \in Int
  BY <1>2, <1>4, <1>6
<1>9. \A k \in Counted' : reports'[k].bounds = series'.bounds
  <2>1. ASSUME Joins(r), NEW k \in Counted PROVE reports'[k].bounds = r.bounds
    BY <1>1, <1>2, <2>1 DEF BucketsInv, Joins
  <2> QED
    BY <1>1, <1>2, <1>7, <2>1
<1>10. /\ \E a \in Accepted' : /\ reports'[a].ts = series'.ts
                               /\ reports'[a].bounds = series'.bounds
                               /\ Len(reports'[a].counts) = Len(series'.counts)
       /\ \A a \in Accepted' : reports'[a].ts <= series'.ts
  <2>1. ASSUME NEW a \in Accepted PROVE reports'[a].ts <= r.ts
    <3>1. a \in DOMAIN reports /\ reports[a].ts \in Nat
      BY TakesMeans
    <3>2. r.start >= reports[a].ts
      BY DEF Takes
    <3> QED
      BY <1>1, <1>3, <3>1, <3>2
  <2> QED
    BY <1>1, <1>2, <1>3, <1>7, <2>1
<1> QED
  BY <1>1, <1>2, <1>3, <1>7, <1>8, <1>9, <1>10 DEF BucketsInv

LEMMA BucketsInvNext == BucketsInv /\ [BucketsNext]_bucketVars => BucketsInv'
<1> SUFFICES ASSUME BucketsInv, [BucketsNext]_bucketVars PROVE BucketsInv'
  OBVIOUS
<1>1. ASSUME NEW r \in Reports, Report(r) PROVE BucketsInv'
  BY <1>1, DroppedInv, TakenInv
<1>2. CASE UNCHANGED bucketVars
  <2>1. reports' = reports /\ series' = series
    BY <1>2 DEF bucketVars
  <2>2. Accepted' = Accepted
    BY <2>1 DEF Accepted
  <2>3. Counted' = Counted
    BY <2>1, <2>2 DEF Counted, Continues
  <2>4. Observed' = Observed
    BY <2>1, <2>3 DEF Observed
  <2> QED
    BY <2>1, <2>2, <2>3, <2>4 DEF BucketsInv
<1> QED
  BY <1>1, <1>2 DEF BucketsNext, ShowBuckets

LEMMA BucketsInvInit == BucketsInit => BucketsInv
<1> SUFFICES ASSUME BucketsInit PROVE BucketsInv
  OBVIOUS
<1>1. /\ reports = <<>> /\ DOMAIN reports = {}
      /\ series = [known |-> FALSE, panicked |-> FALSE, ts |-> 0, bounds |-> <<>>,
                   counts |-> <<>>, count |-> 0]
  BY DEF BucketsInit
<1>2. Accepted = {} /\ Accepts(reports, {})
  <2>1. Accepts(reports, {})
    BY <1>1 DEF Accepts
  <2>2. AcceptedOf(reports) = {}
    BY <1>1, <2>1, AcceptedIs
  <2> QED
    BY <2>1, <2>2 DEF Accepted, AcceptedOf
<1>3. Counted = {} /\ Observed = {}
  BY <1>2 DEF Counted, Observed
<1>4. series \in SeriesRecord
  BY <1>1 DEF SeriesRecord
<1>5. Tallies(series.counts, series.bounds, Observed)
  BY <1>1 DEF Tallies
<1> QED
  BY <1>1, <1>2, <1>3, <1>4, <1>5, FS_EmptySet DEF BucketsInv

LEMMA BucketsInvShows == BucketsInv => BucketsShowObserved
<1> SUFFICES ASSUME BucketsInv PROVE BucketsShowObserved
  OBVIOUS
<1>1. DOMAIN convertDoubleHistogram = Range(series.bounds)
  BY DEF convertDoubleHistogram
<1>2. IsBoundList(series.bounds)
  <2>1. CASE series.known
    BY <2>1, BucketsAssumption DEF BucketsInv
  <2>2. CASE ~series.known
    <3>1. series.bounds = <<>>
      BY <2>2 DEF BucketsInv
    <3> QED
      BY <3>1 DEF IsBoundList
  <2> QED
    BY <2>1, <2>2
<1>3. ASSUME NEW b \in Range(series.bounds)
      PROVE  convertDoubleHistogram[b] = Cardinality({o \in Observed : o[2] <= b})
  <2>1. convertDoubleHistogram[b] =
            SumFunctionOnSet(series.counts,
                {i \in DOMAIN series.bounds : series.bounds[i] <= b})
    BY DEF convertDoubleHistogram
  <2>2. /\ IsFiniteSet(Observed) /\ \A o \in Observed : o[2] \in Int
        /\ Tallies(series.counts, series.bounds, Observed)
    BY DEF BucketsInv
  <2> QED
    BY <1>2, <2>1, <2>2, ShownTallies
<1> QED
  BY <1>1, <1>3 DEF BucketsShowObserved, BucketsInv

(* Whatever points arrive, with whatever bounds and values, nothing panics   *)
(* and the buckets shown are those of the values in the points that count.   *)
THEOREM BucketsOfWhatWasObserved == BucketsSpec => []BucketsShowObserved
BY BucketsInvInit, BucketsInvNext, BucketsInvShows, PTL DEF BucketsSpec

=============================================================================
