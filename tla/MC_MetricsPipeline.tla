------------------------ MODULE MC_MetricsPipeline ------------------------
(* Three requests for TLC.  Two have the same job and instance and differ in *)
(* another attribute; their points repeat what the resource says, under the  *)
(* same keys and under those of OpenCensus, and claim another tenant.  The   *)
(* third has no job, two keys for its instance, and points that collide, one *)
(* with target_info; its summary has a part that is a name of the first's.   *)
EXTENDS MetricsPipeline, HistogramBuckets, TLC

CONSTANTS r1, r2, r3, r4, t1, t2, v, w, zone, m, n, partOfN, info,
          h, s, s2

MCKeys == SpecialKeys \cup {zone, "a.b", "a_b", "tenant"}

MCNormalizeLabel ==
    [k \in MCKeys |->
        CASE k = Name -> OpenCensusName
          [] k = InstanceID -> OpenCensusID
          [] k = Namespace -> "service_namespace"
          [] k = "a.b" -> "a_b"
          [] OTHER -> k]

None == [k \in {} |-> v]

In(scope, type, attrs) ==
    [type |-> type, scope |-> scope, help |-> h, attrs |-> attrs, sent |-> attrs,
     name |-> CASE type = "sum" -> m [] type = "gauge" -> partOfN [] OTHER -> n]

Of(type, attrs) == In(s, type, attrs)

(* A point of a metric that is named like target_info.                       *)
InfoPoint == [Of("sum", None) EXCEPT !.name = info]

(* The name of a summary's count.                                            *)
MCSuffixed == {<<partOfN, "_count", n>>}

Batch(headers, attrs, first, ps) ==
    [headers |-> headers, points |-> ps,
     resource |-> [attrs |-> attrs, openCensusFirst |-> first]]

Service == Name :> v @@ InstanceID :> w

(* Bounds for histograms: none, and two.                                     *)
MCBoundLists == {<<>>, <<1, 2>>}

MCRequests == {r1, r2, r3, r4}

MCRequest ==
    r1 :> Batch(<<t1>>, Service @@ zone :> v @@ "job" :> v @@ OpenCensusName :> w, FALSE,
            {Of("gauge", "job" :> w @@ "instance" :> v @@ OpenCensusID :> v),
             Of("sum", OpenCensusName :> v @@ "tenant" :> t2 @@ InstanceID :> v),
             In(s2, "sum", "tenant" :> t1)})
    @@ r2 :> Batch(<<t2>>, Service @@ zone :> w @@ "tenant" :> t1, FALSE,
            {In(s2, "sum", zone :> v), Of("empty", None)})
    @@ r3 :> Batch(<<t2>>, InstanceID :> Blank @@ OpenCensusID :> v @@ "job" :> v
                           @@ "a.b" :> v, TRUE,
            {Of("summary", "a_b" :> v), InfoPoint})
    @@ r4 :> Batch(<<t1, t2>>, Service, FALSE, {Of("exponentialhistogram", None)})

(* The labels and the buckets of a series do not touch each other: TLC takes *)
(* steps of the one while the other has not begun.  The request with two     *)
(* tenants goes first: it has nothing to do with the others.                 *)
MCInit == Init /\ BucketsInit

MCNext ==
    \/ BucketsInit /\ Next /\ pc'[r4] # "tenant" /\ UNCHANGED bucketVars
    \/ Init /\ ~removeNoneMetricType /\ BucketsNext /\ UNCHANGED vars

MCSpec == MCInit /\ [][MCNext]_<<vars, bucketVars>>
=============================================================================
