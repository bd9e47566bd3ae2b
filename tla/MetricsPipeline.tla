-------------------------- MODULE MetricsPipeline --------------------------
(* The way of metrics to the Prometheus endpoint:                            *)
(*   the tenant id processor (src/processors/tenantidprocessor),             *)
(*   the metric remover (src/processors/metricremover),                      *)
(*   the copying of resource attributes to data points                       *)
(*   (src/processors/metricresourceattrstoattrs),                            *)
(*   and the Prometheus exporter's collector, which turns what it has        *)
(*   accumulated into labelled series and target_info                        *)
(*   (src/exporter/prometheusexporter/collector.go and utils.go).            *)
(*                                                                           *)
(* This module is about names and labels.  The values of the points, and     *)
(* when an entry of the registry is replaced or expires, are the business of *)
(* Accumulator: here a point may be too old, and any entry may have expired. *)
(* A metric of several points counts as several metrics of one point, and    *)
(* their order is the sender's.                                              *)
EXTENDS FiniteSets, Naturals, Sequences

CONSTANTS
    Requests,
    Request,        \* of each request: the values of its tenant header, its
                    \* resource and its points
    Keys,           \* attribute keys
    Values,         \* attribute values
    Blank,          \* the empty string
    Tenants,
    TenantKey,      \* the tenant id processor's attribute key
    Names, Scopes,  \* of metrics
    Helps,          \* descriptions of metrics
    NormalizeLabel, \* the label a key becomes
    Suffixed,       \* <<name, suffix, stem>> of names that end in a suffix
                    \* that Prometheus adds to other names
    TargetInfoName, TargetHelp,  \* of target_info
    NoJob, NoInstance

Name == "service.name"
Namespace == "service.namespace"
InstanceID == "service.instance.id"
OpenCensusName == "service_name"
OpenCensusID == "service_instance_id"
SpecialKeys == {Name, Namespace, InstanceID, OpenCensusName, OpenCensusID,
                "job", "instance"}

Types == {"gauge", "sum", "histogram", "exponentialhistogram", "summary"}

IsAttributes(attrs) ==
    /\ DOMAIN attrs \subseteq Keys
    /\ attrs \in [DOMAIN attrs -> Values]

(* Of the order of a resource's attributes it matters only which of the two  *)
(* keys for the instance comes first.                                        *)
IsResource(rs) ==
    /\ rs = [attrs |-> rs.attrs, openCensusFirst |-> rs.openCensusFirst]
    /\ IsAttributes(rs.attrs)
    /\ rs.openCensusFirst \in BOOLEAN

(* A point, with the attributes it has by now and those it was sent with.  A *)
(* metric without a type has no points: its attributes are not used.  Sums   *)
(* are monotonic, so that the type is the one that Prometheus sees.          *)
IsPoint(p) ==
    /\ p = [type |-> p.type, scope |-> p.scope, name |-> p.name,
            help |-> p.help, attrs |-> p.attrs, sent |-> p.sent]
    /\ p.type \in Types \cup {"empty"}
    /\ p.scope \in Scopes
    /\ p.name \in Names
    /\ p.help \in Helps
    /\ IsAttributes(p.attrs)
    /\ IsAttributes(p.sent)

ASSUME KeysAssumption ==
    /\ SpecialKeys \subseteq Keys
    /\ TenantKey \in Keys \ SpecialKeys
    /\ Blank \in Values
    /\ Tenants \subseteq Values

(* NormalizeLabel only replaces what a label must not have, and no key is    *)
(* the label of a quantile (a summary that has one is refused).              *)
ASSUME LabelAssumption ==
    /\ NormalizeLabel[Name] = OpenCensusName
    /\ NormalizeLabel[InstanceID] = OpenCensusID
    /\ \A k \in Keys :
          /\ k \in {"job", "instance", OpenCensusName, OpenCensusID}
                => NormalizeLabel[k] = k
          /\ NormalizeLabel[k] # "quantile"
          /\ NormalizeLabel[k] = "job" => k = "job"
          /\ NormalizeLabel[k] = "instance" => k = "instance"
          /\ NormalizeLabel[k] = NormalizeLabel[TenantKey] => k = TenantKey

ASSUME RequestAssumption ==
    \A r \in Requests :
        /\ Request[r].headers \in Seq(Tenants)
        /\ IsResource(Request[r].resource)
        /\ \A p \in Request[r].points : IsPoint(p) /\ p.sent = p.attrs

VARIABLES
    removeNoneMetricType, \* configuration of the metric remover
    pc,         \* request: "tenant", "remove", "copy", "export", "done", "refused"
    resource,   \* request: the resource, as it is by now
    points,     \* request: the points, as they are by now
    registered, \* the registry of the accumulator: a set of entries
    phase,      \* the scrape: "idle", "targets", "series", "served"
    collected,  \* the scrape: the entries the accumulator returned
    targets,    \* the scrape: the resources served as target_info
    served      \* the scrape: the entries whose series the endpoint shows

requestVars == <<pc, resource, points>>
scrapeVars == <<phase, collected, targets, served>>
vars == <<removeNoneMetricType, requestVars, registered, scrapeVars>>

Has(attrs, k) == k \in DOMAIN attrs

PutStr(attrs, k, v) ==
    [l \in DOMAIN attrs \cup {k} |-> IF l = k THEN v ELSE attrs[l]]

Goes(r, where) == pc' = [pc EXCEPT ![r] = where]

-----------------------------------------------------------------------------
(* The tenant id processor: ProcessMetrics.                                  *)

HasOneTenant(r) == Len(Request[r].headers) = 1
Tenant(r) == Request[r].headers[1]

(* Mutant: a tenant that the sender wrote into a point is kept.              *)
addTenantIdIfMissing(r, t) ==
    {[p EXCEPT !.attrs = IF Has(@, TenantKey) THEN @ ELSE PutStr(@, TenantKey, t)] :
        p \in points[r]}

addTenantIdToPoints(r, t) ==
    {[p EXCEPT !.attrs = IF p.type = "empty" THEN @ ELSE PutStr(@, TenantKey, t)] :
        p \in points[r]}

AddTenantId(r) ==
    /\ pc[r] = "tenant"
    /\ HasOneTenant(r)
    /\ resource' = [resource EXCEPT ![r].attrs = PutStr(@, TenantKey, Tenant(r))]
    /\ points' = [points EXCEPT ![r] = addTenantIdToPoints(r, Tenant(r))]
    /\ Goes(r, "remove")
    /\ UNCHANGED <<removeNoneMetricType, registered, scrapeVars>>

RefuseTenant(r) ==
    /\ pc[r] = "tenant"
    /\ ~HasOneTenant(r)
    /\ Goes(r, "refused")
    /\ UNCHANGED <<removeNoneMetricType, resource, points, registered, scrapeVars>>

(* The metric remover: ProcessMetrics.                                       *)
RemoveMetrics(r) ==
    /\ pc[r] = "remove"
    /\ points' = IF removeNoneMetricType
                 THEN [points EXCEPT ![r] = {p \in @ : p.type # "empty"}]
                 ELSE points
    /\ Goes(r, "copy")
    /\ UNCHANGED <<removeNoneMetricType, resource, registered, scrapeVars>>

-----------------------------------------------------------------------------
(* The resource attributes processor: ProcessMetrics.                        *)

(* What the exporter will add from the resource itself.                      *)
AddedByExporter(rs) ==
    {k \in {"job"} : Has(rs.attrs, Name)}
        \cup {k \in {"instance"} : Has(rs.attrs, InstanceID)}

(* The key of OpenCensus is there when the other one's turn comes.           *)
HasOpenCensusID(rs, attrs) ==
    \/ Has(attrs, OpenCensusID)
    \/ Has(rs.attrs, OpenCensusID) /\ rs.openCensusFirst

(* Mutant: the key of OpenCensus is not looked for.                          *)
CopiedRegardless(rs, attrs) ==
    DOMAIN rs.attrs \ (AddedByExporter(rs) \cup DOMAIN attrs)

(* The keys copied to a point: those it does not have, except that the       *)
(* instance is only looked for under the key of OpenCensus.                  *)
Copied(rs, attrs) ==
    {k \in DOMAIN rs.attrs \ AddedByExporter(rs) :
        IF k = InstanceID THEN ~HasOpenCensusID(rs, attrs) ELSE ~Has(attrs, k)}

(* The keys that are then removed from it.                                   *)
Removed(rs) ==
    AddedByExporter(rs) \cup {k \in {OpenCensusName} : Has(rs.attrs, Name)}

WithResource(rs, attrs) ==
    [k \in (DOMAIN attrs \cup Copied(rs, attrs)) \ Removed(rs) |->
        IF k \in Copied(rs, attrs) THEN rs.attrs[k] ELSE attrs[k]]

CopyAttributes(r) ==
    /\ pc[r] = "copy"
    /\ points' = [points EXCEPT ![r] =
          {[p EXCEPT !.attrs = IF p.type = "empty" THEN @
                               ELSE WithResource(resource[r], @)] : p \in @}]
    /\ Goes(r, "export")
    /\ UNCHANGED <<removeNoneMetricType, resource, registered, scrapeVars>>

-----------------------------------------------------------------------------
(* The exporter: ConsumeMetrics puts the points into the registry.           *)

extractJob(rs) ==
    IF ~Has(rs.attrs, Name) THEN NoJob
    ELSE IF Has(rs.attrs, Namespace)
    THEN <<rs.attrs[Namespace], rs.attrs[Name]>>
    ELSE rs.attrs[Name]

extractInstance(rs) ==
    IF Has(rs.attrs, InstanceID) THEN rs.attrs[InstanceID] ELSE NoInstance

timeseriesSignature(e) ==
    <<e.point.type, e.point.scope, e.point.name, e.point.attrs,
      extractJob(e.resource), extractInstance(e.resource)>>

Accumulated == {"gauge", "sum", "histogram", "summary"}

(* An entry keeps the resource of the request its point came with.           *)
EntryFrom(r, p) == [from |-> r, point |-> p, resource |-> resource[r]]

SameSeries(e) ==
    {f \in registered : timeseriesSignature(f) = timeseriesSignature(e)}

(* The next point: it is stored, or is of no type that is accumulated, or is *)
(* older than the entry that is there.                                       *)
ExportPoint(r) ==
    /\ pc[r] = "export"
    /\ \E p \in points[r] :
          LET e == EntryFrom(r, p)
          IN  /\ points' = [points EXCEPT ![r] = @ \ {p}]
              /\ \/ /\ p.type \in Accumulated
                    /\ registered' = (registered \ SameSeries(e)) \cup {e}
                 \/ /\ p.type \notin Accumulated \/ SameSeries(e) # {}
                    /\ UNCHANGED registered
    /\ UNCHANGED <<removeNoneMetricType, pc, resource, scrapeVars>>

ExportDone(r) ==
    /\ pc[r] = "export"
    /\ points[r] = {}
    /\ Goes(r, "done")
    /\ UNCHANGED <<removeNoneMetricType, resource, points, registered, scrapeVars>>

-----------------------------------------------------------------------------
(* A scrape: collector.Collect.                                              *)

(* The accumulator returns what it has and deletes what has expired.         *)
BeginCollect ==
    /\ phase \in {"idle", "served"}
    /\ \E fresh \in SUBSET registered :
          registered' = fresh /\ collected' = fresh
    /\ phase' = "targets"
    /\ targets' = {}
    /\ served' = {}
    /\ UNCHANGED <<removeNoneMetricType, requestVars>>

(* Neither the job nor the instance is the empty string.                     *)
HasSignature(rs) ==
    /\ extractJob(rs) \notin {NoJob, Blank}
    /\ extractInstance(rs) \notin {NoInstance, Blank}

resourceSignature(rs) == <<extractJob(rs), extractInstance(rs)>>

Resources == {rs \in {e.resource : e \in collected} : HasSignature(rs)}

(* Mutant: resources are compared as a whole.                                *)
createTargetInfoOfEach ==
    /\ phase = "targets"
    /\ targets' = Resources
    /\ phase' = "series"
    /\ UNCHANGED <<removeNoneMetricType, requestVars, registered, collected, served>>

(* Of the resources with one signature, target_info shows the first.         *)
createTargetInfoMetrics ==
    /\ phase = "targets"
    /\ \E first \in [{resourceSignature(rs) : rs \in Resources} -> Resources] :
          /\ \A s \in DOMAIN first : resourceSignature(first[s]) = s
          /\ targets' = {first[s] : s \in DOMAIN first}
    /\ phase' = "series"
    /\ UNCHANGED <<removeNoneMetricType, requestVars, registered, collected, served>>

(* getMetricMetadata lists the labels of the attributes, the job and the     *)
(* instance; a series with a label twice is refused by the Prometheus client.*)
LabelTwice(e) ==
    LET attrs == e.point.attrs
        names == {NormalizeLabel[k] : k \in DOMAIN attrs}
    IN  \/ \E k, l \in DOMAIN attrs :
              k # l /\ NormalizeLabel[k] = NormalizeLabel[l]
        \/ extractJob(e.resource) # NoJob /\ "job" \in names
        \/ extractInstance(e.resource) # NoInstance /\ "instance" \in names

(* What the exporter adds of the resource.                                   *)
JobAndInstance(rs) ==
    {<<"job", j>> : j \in {extractJob(rs)} \ {NoJob}}
        \cup {<<"instance", i>> : i \in {extractInstance(rs)} \ {NoInstance}}

(* The labels that identify a series: the scope is not among them.           *)
Labels(e) ==
    {<<NormalizeLabel[k], e.point.attrs[k]>> : k \in DOMAIN e.point.attrs}
        \cup JobAndInstance(e.resource)

Series(e) ==
    [name |-> e.point.name, type |-> e.point.type, help |-> e.point.help,
     labels |-> Labels(e)]

(* The values of the keys of one label are joined to one text, which is no   *)
(* other value: here, the values themselves.                                 *)
Joined(attrs, keys) ==
    IF Cardinality(keys) = 1 THEN attrs[CHOOSE k \in keys : TRUE]
    ELSE [k \in keys |-> attrs[k]]

(* The other attributes of a resource, and its job and instance in the place *)
(* of what has their labels.                                                 *)
TargetLabels(rs) ==
    LET keys == DOMAIN rs.attrs \ {Name, Namespace, InstanceID}
        KeysOf(l) == {k \in keys : NormalizeLabel[k] = l}
    IN  {<<l, Joined(rs.attrs, KeysOf(l))>> :
            l \in {NormalizeLabel[k] : k \in keys} \ {"job", "instance"}}
        \cup JobAndInstance(rs)

TargetInfo(rs) ==
    [name |-> TargetInfoName, type |-> "gauge", help |-> TargetHelp,
     labels |-> TargetLabels(rs)]

(* The suffixes of the names under which a type's parts are shown.           *)
Parts(type) ==
    CASE type = "histogram" -> {"_count", "_sum", "_bucket"}
      [] type = "summary" -> {"_count", "_sum"}
      [] OTHER -> {}

IsPartOf(x, y) == \E suffix \in Parts(y.type) : <<x.name, suffix, y.name>> \in Suffixed

(* The type and the description belong to the name, and the name of a part   *)
(* of a histogram or a summary is no other metric's.                         *)
FamiliesClash(x, y) ==
    \/ x.name = y.name /\ (x.type # y.type \/ x.help # y.help)
    \/ IsPartOf(x, y) \/ IsPartOf(y, x)

(* What the registry of Prometheus does not take into one answer.            *)
Clash(x, y) ==
    \/ FamiliesClash(x, y)
    \/ x.name = y.name /\ x.labels = y.labels

(* An entry that cannot be converted is logged and left out.  The registry   *)
(* of Prometheus has target_info when it takes the series in the order they  *)
(* are sent to it, that of an iteration over a map, and drops the one that   *)
(* clashes with what it has; the handler shows the others (ContinueOnError). *)
(* No series has a timestamp (send_timestamps is off).                       *)
Gathered(entries, infos) ==
    LET sent == {e \in entries :
                    /\ ~LabelTwice(e)
                    /\ \A rs \in infos : ~Clash(Series(e), TargetInfo(rs))}
        clashes == {ef \in sent \X sent : Clash(Series(ef[1]), Series(ef[2]))}
    IN  {S \in SUBSET sent :
            /\ \A e, f \in S : <<e, f>> \in clashes => e = f
            /\ \A e \in sent \ S : \E f \in S : <<e, f>> \in clashes}

(* Mutant: the registry is read again when the series are converted.         *)
ServeSeriesAfresh ==
    /\ phase = "series"
    /\ served' \in Gathered(registered, targets)
    /\ phase' = "served"
    /\ UNCHANGED <<removeNoneMetricType, requestVars, registered, collected, targets>>

ServeSeries ==
    /\ phase = "series"
    /\ served' \in Gathered(collected, targets)
    /\ phase' = "served"
    /\ UNCHANGED <<removeNoneMetricType, requestVars, registered, collected, targets>>

-----------------------------------------------------------------------------
Init ==
    /\ removeNoneMetricType \in BOOLEAN
    /\ pc = [r \in Requests |-> "tenant"]
    /\ resource = [r \in Requests |-> Request[r].resource]
    /\ points = [r \in Requests |-> Request[r].points]
    /\ registered = {}
    /\ phase = "idle"
    /\ collected = {}
    /\ targets = {}
    /\ served = {}

Process(r) ==
    \/ AddTenantId(r)
    \/ RefuseTenant(r)
    \/ RemoveMetrics(r)
    \/ CopyAttributes(r)
    \/ ExportPoint(r)
    \/ ExportDone(r)

Scrape == BeginCollect \/ createTargetInfoMetrics \/ ServeSeries

Next ==
    \/ \E r \in Requests : Process(r)
    \/ Scrape

Spec == Init /\ [][Next]_vars

-----------------------------------------------------------------------------
(* Properties.                                                               *)

Stages == {"tenant", "remove", "copy", "export", "done", "refused"}

IsEntry(e) ==
    /\ e = [from |-> e.from, point |-> e.point, resource |-> e.resource]
    /\ e.from \in Requests
    /\ IsPoint(e.point)
    /\ IsResource(e.resource)

TypeOK ==
    /\ removeNoneMetricType \in BOOLEAN
    /\ pc \in [Requests -> Stages]
    /\ DOMAIN resource = Requests /\ DOMAIN points = Requests
    /\ \A r \in Requests :
          IsResource(resource[r]) /\ \A p \in points[r] : IsPoint(p)
    /\ \A e \in registered \cup collected : IsEntry(e)
    /\ phase \in {"idle", "targets", "series", "served"}
    /\ \A rs \in targets : IsResource(rs)
    /\ served \subseteq collected

(* Every series in the registry carries the tenant of its own request's      *)
(* header, whatever the sender wrote into the point or its resource, and     *)
(* although the resource's attributes are copied to the point after that; a  *)
(* request without one header leaves nothing (ProcessMetrics of tenantid).   *)
TenantOnEverySeries ==
    \A e \in registered :
        /\ HasOneTenant(e.from)
        /\ Has(e.point.attrs, TenantKey)
        /\ e.point.attrs[TenantKey] = Tenant(e.from)

(* The sender's attributes become different labels, apart from those that    *)
(* the processors and the exporter see to: the job and the instance, and the *)
(* names that OpenCensus uses for the service and, in the point, for its     *)
(* instance.                                                                 *)
Distinct(S, T) ==
    \A k \in S, l \in T : NormalizeLabel[k] = NormalizeLabel[l] => k = l

Unambiguous(rs, attrs) ==
    LET ofResource == DOMAIN rs.attrs \ Removed(rs)
        ofPoint == DOMAIN attrs \ Removed(rs)
    IN  /\ Distinct(ofResource, ofResource)
        /\ Distinct(ofPoint, ofPoint)
        /\ Distinct(ofResource \ {InstanceID}, ofPoint)
        /\ Distinct(ofResource, ofPoint \ {OpenCensusID})

(* No label of such a point occurs twice, so the scrape does not lose it     *)
(* ("the prometheus exporter, while scraping, adds them again and this might *)
(* cause a `duplicate label names` error to be thrown back").                *)
UnambiguousConverts ==
    \A e \in registered :
        Unambiguous(Request[e.from].resource, e.point.sent) => ~LabelTwice(e)

(* A finished scrape has exactly one target_info for every series whose      *)
(* resource has a job and an instance, though requests with one job and      *)
(* instance differ in their other attributes, and though the registry        *)
(* changes while the scrape is under way: a join on job and instance is many *)
(* to one (createTargetInfoMetrics).                                         *)
OneTargetEach ==
    phase = "served" =>
        \A e \in served :
            HasSignature(e.resource) =>
                Cardinality({rs \in targets :
                    resourceSignature(rs) = resourceSignature(e.resource)}) = 1

(* No tenant loses a series to another one's labels, though senders choose   *)
(* the attributes and claim other tenants, and though the endpoint cannot    *)
(* show two series with one name and the same labels: of whatever it         *)
(* collected and could convert, a scrape shows the name and labels with a    *)
(* value of that tenant's, or it shows something that leaves that name no    *)
(* room, of another type or description, as a part of a histogram or a       *)
(* summary, or as target_info (getMetricMetadata, Collect, ProcessMetrics of *)
(* tenantid and of metricresourceattrstoattrs, and Gather of the registry).  *)
ShownForItsTenant(e) ==
    \E f \in served :
        /\ f.point.name = e.point.name
        /\ Labels(f) = Labels(e)
        /\ Tenant(f.from) = Tenant(e.from)

NameTaken(e) ==
    \/ \E f \in served : FamiliesClash(Series(e), Series(f))
    \/ \E rs \in targets : Clash(Series(e), TargetInfo(rs))

EveryTenantServed ==
    phase = "served" =>
        \A e \in collected :
            LabelTwice(e) \/ ShownForItsTenant(e) \/ NameTaken(e)
=============================================================================
