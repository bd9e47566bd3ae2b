----------------------- MODULE MetricsPipelineProofs -----------------------
(* Theorems about the metrics pipeline, for any requests, attributes, names  *)
(* and number of points.                                                     *)
EXTENDS MetricsPipeline, FiniteSetTheorems, TLAPS

-----------------------------------------------------------------------------
(* What the processors do to attributes.                                     *)

LEMMA PutStrAttributes ==
    ASSUME NEW attrs, IsAttributes(attrs), NEW k \in Keys, NEW v \in Values
    PROVE  /\ IsAttributes(PutStr(attrs, k, v))
           /\ Has(PutStr(attrs, k, v), k)
           /\ PutStr(attrs, k, v)[k] = v
BY DEF IsAttributes, PutStr, Has

LEMMA WithResourceAttributes ==
    ASSUME NEW rs, IsResource(rs), NEW attrs, IsAttributes(attrs)
    PROVE  IsAttributes(WithResource(rs, attrs))
<1>1. Copied(rs, attrs) \subseteq DOMAIN rs.attrs
  BY DEF Copied
<1>2. /\ IsAttributes(rs.attrs)
      /\ \A k \in DOMAIN rs.attrs : rs.attrs[k] \in Values
      /\ \A k \in DOMAIN attrs : attrs[k] \in Values
  BY DEF IsResource, IsAttributes
<1> QED
  BY <1>1, <1>2 DEF IsAttributes, WithResource

(* The tenant of a point is neither copied over nor removed.                 *)
LEMMA WithResourceTenant ==
    ASSUME NEW rs, NEW attrs, Has(attrs, TenantKey)
    PROVE  /\ Has(WithResource(rs, attrs), TenantKey)
           /\ WithResource(rs, attrs)[TenantKey] = attrs[TenantKey]
<1>1. TenantKey \notin SpecialKeys
  BY KeysAssumption
<1>2. TenantKey \notin Removed(rs)
  BY <1>1 DEF Removed, AddedByExporter, SpecialKeys
<1>3. TenantKey \notin Copied(rs, attrs)
  BY <1>1 DEF Copied, SpecialKeys
<1> QED
  BY <1>2, <1>3 DEF WithResource, Has

LEMMA TenantIsValue ==
    ASSUME NEW r \in Requests, HasOneTenant(r)
    PROVE  Tenant(r) \in Tenants /\ Tenant(r) \in Values
BY RequestAssumption, KeysAssumption DEF HasOneTenant, Tenant

(* A point keeps everything but its attributes.                              *)
LEMMA PointWith ==
    ASSUME NEW p, IsPoint(p), NEW attrs, IsAttributes(attrs)
    PROVE  /\ IsPoint([p EXCEPT !.attrs = attrs])
           /\ [p EXCEPT !.attrs = attrs].attrs = attrs
           /\ [p EXCEPT !.attrs = attrs].type = p.type
           /\ [p EXCEPT !.attrs = attrs].sent = p.sent
BY DEF IsPoint

-----------------------------------------------------------------------------
(* Types.                                                                    *)

RequestType(r) == IsResource(resource[r]) /\ \A p \in points[r] : IsPoint(p)

LEMMA EntryFromType ==
    ASSUME NEW r \in Requests, RequestType(r), NEW p \in points[r]
    PROVE  IsEntry(EntryFrom(r, p))
BY DEF RequestType, IsEntry, EntryFrom

LEMMA AddTenantIdType ==
    ASSUME TypeOK, NEW r \in Requests, AddTenantId(r)
    PROVE  TypeOK'
<1>1. RequestType(r)
  BY DEF TypeOK, RequestType
<1>2. Tenant(r) \in Values /\ TenantKey \in Keys
  BY TenantIsValue, KeysAssumption DEF AddTenantId
<1>3. resource' = [resource EXCEPT ![r] =
                     [resource[r] EXCEPT !.attrs =
                        PutStr(resource[r].attrs, TenantKey, Tenant(r))]]
  BY DEF AddTenantId, TypeOK
<1>4. IsResource(resource'[r])
  <2>1. IsAttributes(PutStr(resource[r].attrs, TenantKey, Tenant(r)))
    BY <1>1, <1>2, PutStrAttributes DEF RequestType, IsResource
  <2> QED
    BY <1>1, <1>3, <2>1 DEF RequestType, IsResource, TypeOK
<1>5. ASSUME NEW p \in points'[r] PROVE IsPoint(p)
  <2>1. points'[r] = addTenantIdToPoints(r, Tenant(r))
    BY DEF AddTenantId, TypeOK
  <2>2. PICK q \in points[r] : p = [q EXCEPT !.attrs =
            IF q.type = "empty" THEN q.attrs
            ELSE PutStr(q.attrs, TenantKey, Tenant(r))]
    BY <2>1 DEF addTenantIdToPoints
  <2>3. IsPoint(q) /\ IsAttributes(q.attrs)
    BY <1>1 DEF RequestType, IsPoint
  <2>4. IsAttributes(PutStr(q.attrs, TenantKey, Tenant(r)))
    BY <1>2, <2>3, PutStrAttributes
  <2> QED
    BY <2>2, <2>3, <2>4, PointWith
<1>6. /\ pc' \in [Requests -> Stages]
      /\ DOMAIN resource' = Requests /\ DOMAIN points' = Requests
      /\ \A q \in Requests \ {r} :
            resource'[q] = resource[q] /\ points'[q] = points[q]
  BY <1>3 DEF AddTenantId, TypeOK, Goes, Stages
<1> QED
  BY <1>4, <1>5, <1>6 DEF TypeOK, AddTenantId, scrapeVars

LEMMA CopyAttributesType ==
    ASSUME TypeOK, NEW r \in Requests, CopyAttributes(r)
    PROVE  TypeOK'
<1>1. RequestType(r)
  BY DEF TypeOK, RequestType
<1>2. ASSUME NEW p \in points'[r] PROVE IsPoint(p)
  <2>1. PICK q \in points[r] : p = [q EXCEPT !.attrs =
            IF q.type = "empty" THEN q.attrs
            ELSE WithResource(resource[r], q.attrs)]
    BY DEF CopyAttributes, TypeOK
  <2>2. IsPoint(q) /\ IsAttributes(q.attrs)
    BY <1>1 DEF RequestType, IsPoint
  <2>3. IsAttributes(WithResource(resource[r], q.attrs))
    BY <1>1, <2>2, WithResourceAttributes DEF RequestType
  <2> QED
    BY <2>1, <2>2, <2>3, PointWith
<1>3. /\ pc' \in [Requests -> Stages]
      /\ DOMAIN points' = Requests
      /\ \A q \in Requests \ {r} : points'[q] = points[q]
  BY DEF CopyAttributes, TypeOK, Goes, Stages
<1> QED
  BY <1>2, <1>3 DEF TypeOK, CopyAttributes, scrapeVars

LEMMA ExportPointType ==
    ASSUME TypeOK, NEW r \in Requests, ExportPoint(r)
    PROVE  TypeOK'
<1>1. PICK p \in points[r] :
         /\ points' = [points EXCEPT ![r] = @ \ {p}]
         /\ registered' \subseteq registered \cup {EntryFrom(r, p)}
  BY DEF ExportPoint
<1>2. IsEntry(EntryFrom(r, p))
  BY EntryFromType DEF TypeOK, RequestType
<1>3. /\ DOMAIN points' = Requests
      /\ \A q \in Requests : points'[q] \subseteq points[q]
  BY <1>1 DEF TypeOK
<1> QED
  BY <1>1, <1>2, <1>3 DEF TypeOK, ExportPoint, scrapeVars

LEMMA ScrapeType ==
    ASSUME TypeOK, Scrape
    PROVE  TypeOK'
<1> USE DEF TypeOK, requestVars
<1>1. CASE BeginCollect
  BY <1>1 DEF BeginCollect
<1>2. CASE createTargetInfoMetrics
  <2>1. targets' \subseteq Resources
    BY <1>2 DEF createTargetInfoMetrics
  <2>2. \A rs \in Resources : IsResource(rs)
    BY DEF Resources, IsEntry
  <2> QED
    BY <1>2, <2>1, <2>2 DEF createTargetInfoMetrics
<1>3. CASE ServeSeries
  BY <1>3 DEF ServeSeries, Gathered
<1> QED
  BY <1>1, <1>2, <1>3 DEF Scrape

LEMMA TypeNext == TypeOK /\ [Next]_vars => TypeOK'
<1> SUFFICES ASSUME TypeOK, [Next]_vars PROVE TypeOK'
  OBVIOUS
<1>1. ASSUME NEW r \in Requests, RefuseTenant(r) \/ ExportDone(r) PROVE TypeOK'
  BY <1>1 DEF TypeOK, RefuseTenant, ExportDone, Goes, Stages, scrapeVars
<1>2. ASSUME NEW r \in Requests, RemoveMetrics(r) PROVE TypeOK'
  <2>1. /\ DOMAIN points' = Requests
        /\ \A q \in Requests : points'[q] \subseteq points[q]
    BY <1>2 DEF TypeOK, RemoveMetrics
  <2>2. pc' \in [Requests -> Stages]
    BY <1>2 DEF TypeOK, RemoveMetrics, Goes, Stages
  <2> QED
    BY <1>2, <2>1, <2>2 DEF TypeOK, RemoveMetrics, scrapeVars
<1>3. CASE UNCHANGED vars
  BY <1>3 DEF TypeOK, vars, requestVars, scrapeVars
<1> QED
  BY <1>1, <1>2, <1>3, AddTenantIdType, CopyAttributesType, ExportPointType,
     ScrapeType DEF Next, Process

(* Every variable has its type, for any requests and any attributes.         *)
THEOREM MetricsTypeCorrect == Spec => []TypeOK
<1>1. Init => TypeOK
  BY RequestAssumption DEF Init, TypeOK, Stages
<1> QED
  BY <1>1, TypeNext, PTL DEF Spec

-----------------------------------------------------------------------------
(* Where the attributes of a point come from.                                *)

Tenanted(r) ==
    [Request[r].resource EXCEPT
        !.attrs = PutStr(Request[r].resource.attrs, TenantKey, Tenant(r))]

WithTenant(r, p) == PutStr(p.sent, TenantKey, Tenant(r))

Labelled(r, p) == WithResource(Tenanted(r), WithTenant(r, p))

(* Before, between and after the two processors that change attributes.      *)
TracedRequest(r) ==
    /\ pc[r] = "tenant" =>
          /\ resource[r] = Request[r].resource
          /\ \A p \in points[r] : p.attrs = p.sent
    /\ pc[r] \in {"remove", "copy", "export"} =>
          HasOneTenant(r) /\ resource[r] = Tenanted(r)
    /\ pc[r] \in {"remove", "copy"} =>
          \A p \in points[r] : p.type # "empty" => p.attrs = WithTenant(r, p)
    /\ pc[r] = "export" =>
          \A p \in points[r] : p.type # "empty" => p.attrs = Labelled(r, p)

TracedEntry(e) ==
    /\ HasOneTenant(e.from)
    /\ e.resource = Tenanted(e.from)
    /\ e.point.attrs = Labelled(e.from, e.point)

Traced ==
    /\ \A r \in Requests : TracedRequest(r)
    /\ \A e \in registered : TracedEntry(e)

(* A request is changed by its own steps only.                               *)
LEMMA TracedElsewhere ==
    ASSUME TypeOK, Traced, NEW r \in Requests, Process(r),
           NEW q \in Requests, q # r
    PROVE  TracedRequest(q)'
<1>1. /\ pc'[q] = pc[q]
      /\ resource'[q] = resource[q]
      /\ points'[q] = points[q]
  BY DEF TypeOK, Process, AddTenantId, RefuseTenant, RemoveMetrics, CopyAttributes,
         ExportPoint, ExportDone, Goes
<1> QED
  BY <1>1 DEF Traced, TracedRequest

LEMMA TracedAddTenantId ==
    ASSUME TypeOK, Traced, NEW r \in Requests, AddTenantId(r)
    PROVE  TracedRequest(r)'
<1>1. pc'[r] = "remove" /\ HasOneTenant(r)
  BY DEF AddTenantId, Goes, TypeOK
<1>2. resource'[r] = Tenanted(r)
  BY DEF AddTenantId, Traced, TracedRequest, TypeOK, Tenanted
<1>3. ASSUME NEW p \in points'[r], p.type # "empty" PROVE p.attrs = WithTenant(r, p)
  <2>1. points'[r] = addTenantIdToPoints(r, Tenant(r))
    BY DEF AddTenantId, TypeOK
  <2>2. PICK q \in points[r] : p = [q EXCEPT !.attrs =
            IF q.type = "empty" THEN q.attrs
            ELSE PutStr(q.attrs, TenantKey, Tenant(r))]
    BY <2>1 DEF addTenantIdToPoints
  <2>3. IsPoint(q) /\ q.attrs = q.sent
    BY DEF AddTenantId, TypeOK, Traced, TracedRequest
  <2> QED
    BY <1>3, <2>2, <2>3 DEF IsPoint, WithTenant
<1> QED
  BY <1>1, <1>2, <1>3 DEF TracedRequest

LEMMA TracedCopyAttributes ==
    ASSUME TypeOK, Traced, NEW r \in Requests, CopyAttributes(r)
    PROVE  TracedRequest(r)'
<1>1. pc[r] = "copy" /\ pc'[r] = "export" /\ resource'[r] = resource[r]
  BY DEF CopyAttributes, Goes, TypeOK
<1>2. HasOneTenant(r) /\ resource[r] = Tenanted(r)
  BY <1>1 DEF Traced, TracedRequest
<1>3. ASSUME NEW p \in points'[r], p.type # "empty" PROVE p.attrs = Labelled(r, p)
  <2>1. PICK q \in points[r] : p = [q EXCEPT !.attrs =
            IF q.type = "empty" THEN q.attrs
            ELSE WithResource(resource[r], q.attrs)]
    BY DEF CopyAttributes, TypeOK
  <2>2. IsPoint(q)
    BY DEF TypeOK
  <2>3. q.type = p.type /\ q.sent = p.sent
    BY <2>1, <2>2 DEF IsPoint
  <2>4. q.attrs = WithTenant(r, q)
    BY <1>1, <1>3, <2>3 DEF Traced, TracedRequest
  <2> QED
    BY <1>2, <1>3, <2>1, <2>2, <2>3, <2>4 DEF IsPoint, Labelled, WithTenant
<1> QED
  BY <1>1, <1>2, <1>3 DEF TracedRequest

LEMMA TracedExportPoint ==
    ASSUME TypeOK, Traced, NEW r \in Requests, ExportPoint(r)
    PROVE  TracedRequest(r)' /\ \A e \in registered' : TracedEntry(e)
<1>1. PICK p \in points[r] :
         /\ points' = [points EXCEPT ![r] = @ \ {p}]
         /\ \/ /\ p.type \in Accumulated
               /\ registered' \subseteq registered \cup {EntryFrom(r, p)}
            \/ registered' = registered
  BY DEF ExportPoint
<1>2. pc[r] = "export" /\ pc' = pc /\ resource' = resource
  BY DEF ExportPoint
<1>3. points'[r] \subseteq points[r]
  BY <1>1 DEF TypeOK
<1>4. TracedRequest(r)'
  BY <1>2, <1>3 DEF Traced, TracedRequest
<1>5. p.type \in Accumulated => TracedEntry(EntryFrom(r, p))
  BY <1>2 DEF Traced, TracedRequest, TracedEntry, EntryFrom, Accumulated
<1> QED
  BY <1>1, <1>4, <1>5 DEF Traced

LEMMA TracedNext == TypeOK /\ Traced /\ [Next]_vars => Traced'
<1> SUFFICES ASSUME TypeOK, Traced, [Next]_vars PROVE Traced'
  OBVIOUS
<1>1. ASSUME NEW r \in Requests, Process(r) PROVE Traced'
  <2>1. CASE ExportPoint(r)
    <3>1. TracedRequest(r)' /\ \A e \in registered' : TracedEntry(e)
      BY <2>1, TracedExportPoint
    <3> QED
      BY <1>1, <3>1, TracedElsewhere DEF Traced, TracedEntry
  <2>2. CASE ~ExportPoint(r)
    <3>1. registered' = registered
      BY <1>1, <2>2 DEF Process, AddTenantId, RefuseTenant, RemoveMetrics,
                        CopyAttributes, ExportDone
    <3>2. RefuseTenant(r) \/ ExportDone(r) => TracedRequest(r)'
      BY DEF RefuseTenant, ExportDone, Goes, TypeOK, TracedRequest
    <3>3. RemoveMetrics(r) => TracedRequest(r)'
      <4> SUFFICES ASSUME RemoveMetrics(r) PROVE TracedRequest(r)'
        OBVIOUS
      <4>1. /\ pc[r] = "remove" /\ pc'[r] = "copy"
            /\ resource'[r] = resource[r]
            /\ points'[r] \subseteq points[r]
        BY DEF RemoveMetrics, Goes, TypeOK
      <4> QED
        BY <4>1 DEF Traced, TracedRequest
    <3>4. TracedRequest(r)'
      BY <1>1, <2>2, <3>2, <3>3, TracedAddTenantId, TracedCopyAttributes DEF Process
    <3> QED
      BY <1>1, <3>1, <3>4, TracedElsewhere DEF Traced, TracedEntry
  <2> QED
    BY <2>1, <2>2
<1>2. CASE Scrape
  <2>1. registered' \subseteq registered /\ UNCHANGED requestVars
    BY <1>2 DEF Scrape, BeginCollect, createTargetInfoMetrics, ServeSeries
  <2> QED
    BY <2>1 DEF Traced, TracedRequest, TracedEntry, requestVars
<1>3. CASE UNCHANGED vars
  BY <1>3 DEF Traced, TracedRequest, TracedEntry, vars, requestVars
<1> QED
  BY <1>1, <1>2, <1>3 DEF Next

LEMMA TracedAlways == Spec => [](TypeOK /\ Traced)
<1>1. Init => TypeOK
  BY RequestAssumption DEF Init, TypeOK, Stages
<1>2. Init => Traced
  BY RequestAssumption DEF Init, Traced, TracedRequest
<1> QED
  BY <1>1, <1>2, TypeNext, TracedNext, PTL DEF Spec

(* Every series carries the tenant of its request.                           *)
THEOREM TenantAlways == Spec => []TenantOnEverySeries
<1>1. TypeOK /\ Traced => TenantOnEverySeries
  <2> SUFFICES ASSUME TypeOK, Traced, NEW e \in registered
               PROVE  /\ HasOneTenant(e.from)
                      /\ Has(e.point.attrs, TenantKey)
                      /\ e.point.attrs[TenantKey] = Tenant(e.from)
    BY DEF TenantOnEverySeries
  <2>1. /\ HasOneTenant(e.from) /\ e.from \in Requests
        /\ IsAttributes(e.point.sent)
        /\ e.point.attrs = Labelled(e.from, e.point)
    BY DEF Traced, TracedEntry, TypeOK, IsEntry, IsPoint
  <2>2. /\ Has(WithTenant(e.from, e.point), TenantKey)
        /\ WithTenant(e.from, e.point)[TenantKey] = Tenant(e.from)
    BY <2>1, TenantIsValue, KeysAssumption, PutStrAttributes DEF WithTenant
  <2> QED
    BY <2>1, <2>2, WithResourceTenant DEF Labelled
<1> QED
  BY <1>1, TracedAlways, PTL

-----------------------------------------------------------------------------
(* No label twice.                                                           *)

(* A key of a labelled point was the point's or was copied, and was not      *)
(* removed; the tenant's apart, it came from the sender.                     *)
LEMMA LabelledKeys ==
    ASSUME NEW r \in Requests, NEW p,
           NEW k \in DOMAIN Labelled(r, p), k # TenantKey
    PROVE  /\ k \notin Removed(Request[r].resource)
           /\ \/ k \in DOMAIN p.sent
              \/ /\ k \in DOMAIN Request[r].resource.attrs
                 /\ k \in Copied(Tenanted(r), WithTenant(r, p))
<1>1. TenantKey \notin SpecialKeys /\ IsResource(Request[r].resource)
  BY KeysAssumption, RequestAssumption
<1>2. DOMAIN Tenanted(r).attrs = DOMAIN Request[r].resource.attrs \cup {TenantKey}
  BY <1>1 DEF Tenanted, PutStr, IsResource
<1>3. DOMAIN WithTenant(r, p) = DOMAIN p.sent \cup {TenantKey}
  BY DEF WithTenant, PutStr
<1>4. Removed(Tenanted(r)) = Removed(Request[r].resource)
  BY <1>1, <1>2 DEF Removed, AddedByExporter, Has, SpecialKeys
<1>5. /\ k \in DOMAIN WithTenant(r, p) \cup Copied(Tenanted(r), WithTenant(r, p))
      /\ k \notin Removed(Tenanted(r))
  BY DEF Labelled, WithResource
<1>6. Copied(Tenanted(r), WithTenant(r, p)) \subseteq DOMAIN Tenanted(r).attrs
  BY DEF Copied
<1> QED
  BY <1>2, <1>3, <1>4, <1>5, <1>6

LEMMA LabelledKeysAreKeys ==
    ASSUME NEW r \in Requests, HasOneTenant(r), NEW p, IsPoint(p)
    PROVE  DOMAIN Labelled(r, p) \subseteq Keys
<1>1. Tenant(r) \in Values /\ TenantKey \in Keys
  BY TenantIsValue, KeysAssumption
<1>2. IsResource(Request[r].resource)
  BY RequestAssumption
<1>3. IsAttributes(PutStr(Request[r].resource.attrs, TenantKey, Tenant(r)))
  BY <1>1, <1>2, PutStrAttributes DEF IsResource
<1>4. IsResource(Tenanted(r))
  BY <1>2, <1>3 DEF Tenanted, IsResource
<1>5. IsAttributes(WithTenant(r, p))
  BY <1>1, PutStrAttributes DEF WithTenant, IsPoint
<1>6. IsAttributes(Labelled(r, p))
  BY <1>4, <1>5, WithResourceAttributes DEF Labelled
<1> QED
  BY <1>6 DEF IsAttributes

(* A copied key and one the sender put into the point do not meet.           *)
LEMMA CopiedMeetsOwn ==
    ASSUME NEW r \in Requests, NEW p,
           Unambiguous(Request[r].resource, p.sent),
           NEW k \in Copied(Tenanted(r), WithTenant(r, p)),
           NEW l \in DOMAIN p.sent,
           k \in DOMAIN Request[r].resource.attrs,
           k \notin Removed(Request[r].resource),
           l \notin Removed(Request[r].resource),
           NormalizeLabel[k] = NormalizeLabel[l]
    PROVE  k = l
<1>1. CASE k # InstanceID
  BY <1>1 DEF Unambiguous, Distinct
<1>2. CASE l # OpenCensusID
  BY <1>2 DEF Unambiguous, Distinct
<1>3. ~(k = InstanceID /\ l = OpenCensusID)
  BY DEF Copied, HasOpenCensusID, Has, WithTenant, PutStr
<1> QED
  BY <1>1, <1>2, <1>3

LEMMA DistinctLabels ==
    ASSUME NEW r \in Requests, HasOneTenant(r), NEW p, IsPoint(p),
           Unambiguous(Request[r].resource, p.sent),
           NEW k \in DOMAIN Labelled(r, p), NEW l \in DOMAIN Labelled(r, p),
           NormalizeLabel[k] = NormalizeLabel[l]
    PROVE  k = l
<1>1. k \in Keys /\ l \in Keys
  BY LabelledKeysAreKeys
<1>2. CASE k = TenantKey \/ l = TenantKey
  BY <1>1, <1>2, LabelAssumption
<1>3. CASE k # TenantKey /\ l # TenantKey
  <2>1. /\ k \notin Removed(Request[r].resource)
        /\ l \notin Removed(Request[r].resource)
        /\ \/ k \in DOMAIN p.sent
           \/ /\ k \in DOMAIN Request[r].resource.attrs
              /\ k \in Copied(Tenanted(r), WithTenant(r, p))
        /\ \/ l \in DOMAIN p.sent
           \/ /\ l \in DOMAIN Request[r].resource.attrs
              /\ l \in Copied(Tenanted(r), WithTenant(r, p))
    BY <1>3, LabelledKeys
  <2>2. CASE k \in DOMAIN p.sent /\ l \in DOMAIN p.sent
    BY <2>1, <2>2 DEF Unambiguous, Distinct
  <2>3. CASE /\ k \in DOMAIN Request[r].resource.attrs
             /\ l \in DOMAIN Request[r].resource.attrs
    BY <2>1, <2>3 DEF Unambiguous, Distinct
  <2> QED
    BY <2>1, <2>2, <2>3, CopiedMeetsOwn
<1> QED
  BY <1>2, <1>3

(* What the exporter adds has been removed from the point.                   *)
LEMMA AddedLabelsAreNew ==
    ASSUME NEW r \in Requests, HasOneTenant(r), NEW p, IsPoint(p),
           NEW k \in DOMAIN Labelled(r, p)
    PROVE  /\ extractJob(Tenanted(r)) # NoJob => NormalizeLabel[k] # "job"
           /\ extractInstance(Tenanted(r)) # NoInstance
                => NormalizeLabel[k] # "instance"
<1>1. k \notin Removed(Tenanted(r))
  BY DEF Labelled, WithResource
<1>2. k \in Keys
  BY LabelledKeysAreKeys
<1>3. ASSUME NormalizeLabel[k] = "job" PROVE extractJob(Tenanted(r)) = NoJob
  <2>1. k = "job"
    BY <1>2, <1>3, LabelAssumption
  <2> QED
    BY <1>1, <2>1 DEF Removed, AddedByExporter, extractJob
<1>4. ASSUME NormalizeLabel[k] = "instance"
      PROVE  extractInstance(Tenanted(r)) = NoInstance
  <2>1. k = "instance"
    BY <1>2, <1>4, LabelAssumption
  <2> QED
    BY <1>1, <2>1 DEF Removed, AddedByExporter, extractInstance
<1> QED
  BY <1>3, <1>4

(* No series of an unambiguous point has a label twice.                      *)
THEOREM UnambiguousAlwaysConverts == Spec => []UnambiguousConverts
<1>1. TypeOK /\ Traced => UnambiguousConverts
  <2> SUFFICES ASSUME TypeOK, Traced, NEW e \in registered,
                      Unambiguous(Request[e.from].resource, e.point.sent),
                      LabelTwice(e)
               PROVE  FALSE
    BY DEF UnambiguousConverts
  <2>1. /\ HasOneTenant(e.from) /\ e.from \in Requests
        /\ IsPoint(e.point)
        /\ e.resource = Tenanted(e.from)
        /\ e.point.attrs = Labelled(e.from, e.point)
    BY DEF Traced, TracedEntry, TypeOK, IsEntry
  <2>2. \A k, l \in DOMAIN e.point.attrs :
           NormalizeLabel[k] = NormalizeLabel[l] => k = l
    BY <2>1, DistinctLabels
  <2>3. \A k \in DOMAIN e.point.attrs :
           /\ extractJob(e.resource) # NoJob => NormalizeLabel[k] # "job"
           /\ extractInstance(e.resource) # NoInstance
                 => NormalizeLabel[k] # "instance"
    BY <2>1, AddedLabelsAreNew
  <2> QED
    BY <2>2, <2>3 DEF LabelTwice
<1> QED
  BY <1>1, TracedAlways, PTL

-----------------------------------------------------------------------------
(* One target_info for each job and instance.                                *)

TargetsOf(e) ==
    {rs \in targets : resourceSignature(rs) = resourceSignature(e.resource)}

TargetsMatch ==
    phase \in {"series", "served"} =>
        \A e \in collected :
            HasSignature(e.resource) => \E rs \in targets : TargetsOf(e) = {rs}

LEMMA TargetsMatchNext == TargetsMatch /\ [Next]_vars => TargetsMatch'
<1> SUFFICES ASSUME TargetsMatch, [Next]_vars PROVE TargetsMatch'
  OBVIOUS
<1>1. CASE createTargetInfoMetrics
  <2>1. PICK first \in [{resourceSignature(rs) : rs \in Resources} -> Resources] :
           /\ \A s \in DOMAIN first : resourceSignature(first[s]) = s
           /\ targets' = {first[s] : s \in DOMAIN first}
    BY <1>1 DEF createTargetInfoMetrics
  <2>2. collected' = collected
    BY <1>1 DEF createTargetInfoMetrics
  <2>3. ASSUME NEW e \in collected, HasSignature(e.resource)
        PROVE  \E rs \in targets' : TargetsOf(e)' = {rs}
    <3> DEFINE s == resourceSignature(e.resource)
    <3>1. e.resource \in Resources
      BY <2>3 DEF Resources
    <3>2. s \in DOMAIN first
      BY <2>1, <3>1
    <3>3. first[s] \in targets'
      BY <2>1, <3>2
    <3>4. \A rs \in targets' : resourceSignature(rs) = s <=> rs = first[s]
      BY <2>1, <3>2
    <3>5. TargetsOf(e)' = {first[s]}
      BY <3>3, <3>4 DEF TargetsOf
    <3> QED
      BY <3>3, <3>5
  <2> QED
    BY <2>2, <2>3 DEF TargetsMatch
<1>2. CASE BeginCollect
  BY <1>2 DEF BeginCollect, TargetsMatch
<1>3. CASE ServeSeries
  BY <1>3 DEF ServeSeries, TargetsMatch, TargetsOf
<1>4. CASE UNCHANGED scrapeVars
  BY <1>4 DEF TargetsMatch, TargetsOf, scrapeVars
<1> QED
  BY <1>1, <1>2, <1>3, <1>4 DEF Next, Scrape, Process, AddTenantId, RefuseTenant,
     RemoveMetrics, CopyAttributes, ExportPoint, ExportDone, vars, scrapeVars

(* A finished scrape has one target_info for each job and instance it serves.*)
THEOREM TargetsAreUnique == Spec => []OneTargetEach
<1>1. Init => TypeOK /\ TargetsMatch
  BY RequestAssumption DEF Init, TypeOK, Stages, TargetsMatch
<1>2. TypeOK /\ TargetsMatch => OneTargetEach
  <2> SUFFICES ASSUME TypeOK, TargetsMatch, phase = "served",
                      NEW e \in served, HasSignature(e.resource)
               PROVE  Cardinality(TargetsOf(e)) = 1
    BY DEF OneTargetEach, TargetsOf
  <2>1. PICK rs \in targets : TargetsOf(e) = {rs}
    BY DEF TypeOK, TargetsMatch
  <2> QED
    BY <2>1, FS_Singleton
<1> QED
  BY <1>1, <1>2, TypeNext, TargetsMatchNext, PTL DEF Spec

-----------------------------------------------------------------------------
(* What the scrape shows of each tenant.                                     *)

TenantEntry(e) ==
    /\ HasOneTenant(e.from) /\ e.from \in Requests
    /\ Has(e.point.attrs, TenantKey)
    /\ e.point.attrs[TenantKey] = Tenant(e.from)
    /\ DOMAIN e.point.attrs \subseteq Keys

Shown ==
    /\ \A e \in collected : TenantEntry(e)
    /\ phase = "served" => served \in Gathered(collected, targets)

LEMMA RegisteredTenants ==
    ASSUME TypeOK, TenantOnEverySeries, NEW e \in registered
    PROVE  TenantEntry(e)
BY DEF TypeOK, TenantOnEverySeries, TenantEntry, IsEntry, IsPoint, IsAttributes

LEMMA ShownNext ==
    TypeOK /\ TenantOnEverySeries /\ Shown /\ [Next]_vars => Shown'
<1> SUFFICES ASSUME TypeOK, TenantOnEverySeries, Shown, [Next]_vars PROVE Shown'
  OBVIOUS
<1>1. CASE BeginCollect
  <2>1. collected' \subseteq registered /\ phase' = "targets"
    BY <1>1 DEF BeginCollect
  <2> QED
    BY <2>1, RegisteredTenants DEF Shown
<1>2. CASE createTargetInfoMetrics
  BY <1>2 DEF createTargetInfoMetrics, Shown
<1>3. CASE ServeSeries
  BY <1>3 DEF ServeSeries, Shown
<1>4. CASE UNCHANGED scrapeVars
  BY <1>4 DEF Shown, scrapeVars
<1> QED
  BY <1>1, <1>2, <1>3, <1>4 DEF Next, Scrape, Process, AddTenantId, RefuseTenant,
     RemoveMetrics, CopyAttributes, ExportPoint, ExportDone, vars, scrapeVars

(* The tenant can be read off the labels: no other key becomes its label.    *)
LEMMA LabelsTellTenant ==
    ASSUME NEW e, TenantEntry(e), NEW f, TenantEntry(f), Labels(e) = Labels(f)
    PROVE  Tenant(e.from) = Tenant(f.from)
<1>1. TenantKey \in Keys /\ TenantKey \notin {"job", "instance"}
  BY KeysAssumption DEF SpecialKeys
<1>2. NormalizeLabel[TenantKey] \notin {"job", "instance"}
  BY <1>1, LabelAssumption
<1>3. <<NormalizeLabel[TenantKey], Tenant(e.from)>> \in Labels(f)
  BY DEF TenantEntry, Has, Labels, JobAndInstance
<1>4. PICK k \in DOMAIN f.point.attrs :
        /\ NormalizeLabel[k] = NormalizeLabel[TenantKey]
        /\ f.point.attrs[k] = Tenant(e.from)
  BY <1>2, <1>3 DEF Labels, JobAndInstance
<1>5. k = TenantKey
  BY <1>4, LabelAssumption DEF TenantEntry
<1> QED
  BY <1>4, <1>5 DEF TenantEntry

(* No tenant's series is lost but to one of its own or to a name that is     *)
(* taken: by another type, description or part, or by target_info.           *)
THEOREM EveryTenantIsServed == Spec => []EveryTenantServed
<1>1. Init => Shown
  BY DEF Init, Shown
<1>2. Shown => EveryTenantServed
  <2> SUFFICES ASSUME Shown, phase = "served",
                      NEW e \in collected, ~LabelTwice(e), ~NameTaken(e)
               PROVE  ShownForItsTenant(e)
    BY DEF EveryTenantServed
  <2>1. \A rs \in targets : ~Clash(Series(e), TargetInfo(rs))
    BY DEF NameTaken
  <2>2. /\ served \subseteq collected
        /\ e \in served \/ \E f \in served : Clash(Series(e), Series(f))
    BY <2>1 DEF Shown, Gathered
  <2>3. CASE e \in served
    BY <2>3 DEF ShownForItsTenant
  <2>4. CASE \E f \in served : Clash(Series(e), Series(f))
    <3>1. PICK f \in served : Clash(Series(e), Series(f))
      BY <2>4
    <3>2. ~FamiliesClash(Series(e), Series(f))
      BY DEF NameTaken
    <3>3. f.point.name = e.point.name /\ Labels(f) = Labels(e)
      BY <3>1, <3>2 DEF Clash, Series
    <3>4. Tenant(f.from) = Tenant(e.from)
      BY <2>2, <3>3, LabelsTellTenant DEF Shown
    <3> QED
      BY <3>3, <3>4 DEF ShownForItsTenant
  <2> QED
    BY <2>2, <2>3, <2>4
<1> QED
  BY <1>1, <1>2, MetricsTypeCorrect, TenantAlways, ShownNext, PTL DEF Spec
=============================================================================
