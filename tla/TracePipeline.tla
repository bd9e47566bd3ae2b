---------------------------- MODULE TracePipeline ----------------------------
(* The way of a batch of spans through the collector, up to the exporter:    *)
(*   the Jaeger receiver (src/receiver/jaegerreceiver), by gRPC, HTTP or UDP,*)
(*   the tenant id processor (src/processors/tenantidprocessor),             *)
(*   the rate limiter (src/processors/ratelimiter) and its remote service,   *)
(*   the span counter (src/processors/spancounter, module SpanCounter),      *)
(* in the order that the rate limiter's Config asks for; and how the         *)
(* receiver starts and shuts down around the requests in progress.           *)
EXTENDS SpanCounter

CONSTANTS
    Requests,
    Request,      \* of each request: its transport, the values of its headers,
                  \* and the resources of its batch
    Tenants,
    HeaderNames,  \* of the headers that hold a tenant, for one processor or another
    TenantHeader, \* configuration: the one that the tenant id processor reads
    Quota,        \* spans the service admits for a tenant in a window
    MaxWindow,    \* bound: windows of the service
    MaxFaults     \* bound: calls of the service that fail

(* The order in which they are started, and shut down.                       *)
Transports == <<"agent", "http", "grpc">>

ASSUME PipelineAssumption ==
    /\ Quota \in Nat /\ MaxWindow \in Nat /\ MaxFaults \in Nat
    /\ IsFiniteSet(Requests)
    /\ TenantHeader \in HeaderNames
    /\ \A r \in Requests :
          /\ Request[r].transport \in ToSet(Transports)
          /\ Request[r].headers \in [HeaderNames -> Seq(Tenants)]
          /\ Request[r].transport = "agent" =>
                \A h \in HeaderNames : Request[r].headers[h] = <<>>
          /\ IsSequence(Request[r].resources)
          /\ \A rs \in ToSet(Request[r].resources) :
                rs.tenant \in Tenants \cup {Unset} /\ IsSequence(rs.spans)

VARIABLES
    stage,     \* "starting", "running", "stopping", "stopped", "closed"
    turn,      \* index of the transport that is started or shut down
    serving,   \* the transports that accept requests
    interrupted,\* Shutdown returns the error that its context has ended
    protocols, \* configuration: the transports of the receiver
    limitHeader,\* configuration: the header that the rate limiter reads
    pc,        \* request: where it is
    tenantOf,  \* request: the tenant attribute of each of its resources
    answer,    \* request: what its call of the service returned
    window,    \* request: the window in which the service answered
    outcome,   \* request: what became of it
    used,      \* the service: spans it was asked for, by tenant, in its window
    now,       \* the service: its window
    faults,    \* failed calls so far
    received,  \* tenant_id_span_count, by tenant
    calls,     \* tenant_id_rate_limit_service_calls_count, by payer
    overLimit, \* tenant_id_dropped_span_count, by payer
    counted    \* criteria_span_count, by label

receiverVars == <<stage, turn, serving, interrupted>>
configVars == <<protocols, limitHeader>>
serviceVars == <<used, now, faults>>
metricVars == <<received, calls, overLimit, counted>>
requestVars == <<pc, tenantOf, answer, window, outcome>>
vars == <<receiverVars, configVars, requestVars, serviceVars, metricVars>>

Resources(r) == Request[r].resources
SpanCount ==
    [r \in Requests |->
        SumFunction([i \in DOMAIN Resources(r) |-> Len(Resources(r)[i].spans)])]
Headers(r, h) == Request[r].headers[h]

(* For the tenant id processor.                                              *)
HasOneTenant(r) == Len(Headers(r, TenantHeader)) = 1
Tenant(r) == Headers(r, TenantHeader)[1]

(* For the rate limiter: whom the request is charged to, if to anyone.       *)
IsLimited(r) == Len(Headers(r, limitHeader)) = 1
Payer(r) == Headers(r, limitHeader)[1]

(* The hits of each resource, were it of tenant t; and as it is now.         *)
HitsAs ==
    [r \in Requests |-> [i \in DOMAIN Resources(r) |-> [t \in Tenants \cup {Unset} |->
        ResourceHits(t, Resources(r)[i])]]]

Hits(r) == [i \in DOMAIN Resources(r) |-> HitsAs[r][i][tenantOf[r][i]]]

InFlight(r) == pc[r] \in {"tenant", "limit", "asked", "count", "next"}

Goes(r, where) == pc' = [pc EXCEPT ![r] = where]

(* The sender is told that all is well unless its batch is malformed, has no *)
(* tenant or is refused.                                                     *)
Outcomes == {"malformed", "noTenant", "overLimit", "delivered", "refused"}

Answers(r, what) ==
    /\ Goes(r, "answered")
    /\ outcome' = [outcome EXCEPT ![r] = what]

-----------------------------------------------------------------------------
(* The receiver: PostSpans, HandleThriftHTTPBatch, EmitBatch.                *)

(* A request that can be decoded goes to the next consumer; another one is   *)
(* answered with the error.                                                  *)
Accept(r) ==
    /\ pc[r] = "new"
    /\ Request[r].transport \in serving
    /\ \/ Goes(r, "tenant") /\ UNCHANGED outcome
       \/ Answers(r, "malformed")
    /\ UNCHANGED <<receiverVars, configVars, tenantOf, answer, window,
                   serviceVars, metricVars>>

-----------------------------------------------------------------------------
(* The tenant id processor: ProcessTraces.                                   *)

(* Mutant: what the sender says of its tenant is kept.                       *)
AddTenantIdIfMissing(r) ==
    /\ pc[r] = "tenant"
    /\ IF HasOneTenant(r)
       THEN /\ tenantOf' = [tenantOf EXCEPT ![r] = [i \in DOMAIN @ |->
                                IF @[i] = Unset THEN Tenant(r) ELSE @[i]]]
            /\ received' = [received EXCEPT ![Tenant(r)] = @ + SpanCount[r]]
            /\ Goes(r, "limit")
            /\ UNCHANGED outcome
       ELSE /\ Answers(r, "noTenant")
            /\ UNCHANGED <<tenantOf, received>>
    /\ UNCHANGED <<receiverVars, configVars, answer, window, serviceVars,
                   calls, overLimit, counted>>

AddTenantId(r) ==
    /\ pc[r] = "tenant"
    /\ IF HasOneTenant(r)
       THEN /\ tenantOf' = [tenantOf EXCEPT ![r] = [i \in DOMAIN @ |-> Tenant(r)]]
            /\ received' = [received EXCEPT ![Tenant(r)] = @ + SpanCount[r]]
            /\ Goes(r, "limit")
            /\ UNCHANGED outcome
       ELSE /\ Answers(r, "noTenant")
            /\ UNCHANGED <<tenantOf, received>>
    /\ UNCHANGED <<receiverVars, configVars, answer, window, serviceVars,
                   calls, overLimit, counted>>

-----------------------------------------------------------------------------
(* The rate limiter: ConsumeTraces.                                          *)

(* Without one value of its header, rate limiting is not applicable.         *)
AskRateLimit(r) ==
    /\ pc[r] = "limit"
    /\ IF IsLimited(r)
       THEN Goes(r, "asked") /\ calls' = [calls EXCEPT ![Payer(r)] = @ + 1]
       ELSE Goes(r, "count") /\ UNCHANGED calls
    /\ UNCHANGED <<receiverVars, configVars, tenantOf, answer, window, outcome,
                   serviceVars, received, overLimit, counted>>

(* Mutant: the hits of a request are its number of resources.                *)
HitsAddendOfResources(r) == Len(Resources(r))

HitsAddend(r) == SpanCount[r]

(* The service counts the hits, and compares what it has then.               *)
ShouldRateLimit(r) ==
    /\ pc[r] = "asked"
    /\ answer[r] = "none"
    /\ stage # "closed"
    /\ used' = [used EXCEPT ![Payer(r)] = @ + HitsAddend(r)]
    /\ answer' = [answer EXCEPT
           ![r] = IF used'[Payer(r)] > Quota THEN "overLimit" ELSE "ok"]
    /\ window' = [window EXCEPT ![r] = now]
    /\ UNCHANGED <<receiverVars, configVars, pc, tenantOf, outcome, now, faults,
                   metricVars>>

(* The call returns an error, or the answer has not exactly one status,      *)
(* whether or not the service has counted the hits; it does when the         *)
(* connection has been closed.                                               *)
CallFails(r) ==
    /\ pc[r] = "asked"
    /\ answer[r] = "none"
    /\ \/ stage = "closed" /\ UNCHANGED faults
       \/ stage # "closed" /\ faults < MaxFaults /\ faults' = faults + 1
    /\ \E hits \in {0, HitsAddend(r)} :
          used' = [used EXCEPT ![Payer(r)] = @ + hits]
    /\ answer' = [answer EXCEPT ![r] = "failed"]
    /\ UNCHANGED <<receiverVars, configVars, pc, tenantOf, window, outcome, now,
                   metricVars>>

NewWindow ==
    /\ now < MaxWindow
    /\ now' = now + 1
    /\ used' = [t \in Tenants |-> 0]
    /\ UNCHANGED <<receiverVars, configVars, requestVars, faults, metricVars>>

(* Mutant: a failed call drops the spans as if the limit were exceeded, and  *)
(* does not count them.                                                      *)
DecideFailsClosed(r) ==
    /\ pc[r] = "asked"
    /\ answer[r] # "none"
    /\ IF answer[r] # "ok"
       THEN /\ Answers(r, "overLimit")
            /\ overLimit' = IF answer[r] = "failed" THEN overLimit
                            ELSE [overLimit EXCEPT ![Payer(r)] = @ + SpanCount[r]]
       ELSE Goes(r, "count") /\ UNCHANGED <<outcome, overLimit>>
    /\ UNCHANGED <<receiverVars, configVars, tenantOf, answer, window,
                   serviceVars, received, calls, counted>>

(* Mutant: the return after the drop is missing.                             *)
DecideFallsThrough(r) ==
    /\ pc[r] = "asked"
    /\ answer[r] # "none"
    /\ overLimit' = IF answer[r] # "overLimit" THEN overLimit
                    ELSE [overLimit EXCEPT ![Payer(r)] = @ + SpanCount[r]]
    /\ Goes(r, "count")
    /\ UNCHANGED <<receiverVars, configVars, tenantOf, answer, window, outcome,
                   serviceVars, received, calls, counted>>

(* Mutant: a failed call is neither forwarded nor dropped.                   *)
DecideNotFailed(r) ==
    /\ pc[r] = "asked"
    /\ answer[r] \in {"ok", "overLimit"}
    /\ IF answer[r] = "overLimit"
       THEN /\ overLimit' = [overLimit EXCEPT ![Payer(r)] = @ + SpanCount[r]]
            /\ Answers(r, "overLimit")
       ELSE Goes(r, "count") /\ UNCHANGED <<outcome, overLimit>>
    /\ UNCHANGED <<receiverVars, configVars, tenantOf, answer, window,
                   serviceVars, received, calls, counted>>

(* Over the limit the spans are dropped, and counted, and the sender is told *)
(* that all is well; what could not be decided is forwarded.                 *)
Decide(r) ==
    /\ pc[r] = "asked"
    /\ answer[r] # "none"
    /\ IF answer[r] = "overLimit"
       THEN /\ overLimit' = [overLimit EXCEPT ![Payer(r)] = @ + SpanCount[r]]
            /\ Answers(r, "overLimit")
       ELSE Goes(r, "count") /\ UNCHANGED <<outcome, overLimit>>
    /\ UNCHANGED <<receiverVars, configVars, tenantOf, answer, window,
                   serviceVars, received, calls, counted>>

-----------------------------------------------------------------------------
(* The span counter, and the next consumer: a batch processor or an exporter,*)
(* which takes the batch or returns an error.                                *)

CountSpans(r) ==
    /\ pc[r] = "count"
    /\ counted' = Record(counted, Hits(r))
    /\ Goes(r, "next")
    /\ UNCHANGED <<receiverVars, configVars, tenantOf, answer, window, outcome,
                   serviceVars, received, calls, overLimit>>

NextConsumer(r) ==
    /\ pc[r] = "next"
    /\ \E what \in {"delivered", "refused"} : Answers(r, what)
    /\ UNCHANGED <<receiverVars, configVars, tenantOf, answer, window,
                   serviceVars, metricVars>>

-----------------------------------------------------------------------------
(* Start and Shutdown of the receiver, and of the collector around it.       *)

BeginShutdown ==
    /\ stage' = "stopping"
    /\ turn' = 1
    /\ serving' = serving \ {Transports[1]}
    /\ UNCHANGED interrupted

(* Mutant: a transport is counted before its error is looked at.             *)
StartOneTooMany ==
    /\ stage = "starting"
    /\ \/ /\ serving' = serving \cup ({Transports[turn]} \cap protocols)
          /\ turn' = turn + 1
          /\ IF turn < Len(Transports) THEN UNCHANGED stage ELSE stage' = "running"
          /\ UNCHANGED interrupted
       \/ BeginShutdown
    /\ UNCHANGED <<configVars, requestVars, serviceVars, metricVars>>

(* startAgent and startCollector: each transport that is configured binds its*)
(* address, or Start returns the error and the collector shuts down what it  *)
(* has.                                                                      *)
Start ==
    /\ stage = "starting"
    /\ \/ /\ serving' = serving \cup ({Transports[turn]} \cap protocols)
          /\ IF turn < Len(Transports)
             THEN turn' = turn + 1 /\ UNCHANGED stage
             ELSE stage' = "running" /\ UNCHANGED turn
          /\ UNCHANGED interrupted
       \/ /\ Transports[turn] \in protocols
          /\ BeginShutdown
    /\ UNCHANGED <<configVars, requestVars, serviceVars, metricVars>>

Shutdown ==
    /\ stage = "running"
    /\ BeginShutdown
    /\ UNCHANGED <<configVars, requestVars, serviceVars, metricVars>>

HandlersDone ==
    \A r \in Requests : Request[r].transport = Transports[turn] => ~InFlight(r)

NextTransport ==
    IF turn < Len(Transports)
    THEN /\ turn' = turn + 1
         /\ serving' = serving \ {Transports[turn + 1]}
         /\ UNCHANGED stage
    ELSE stage' = "stopped" /\ UNCHANGED <<turn, serving>>

(* Mutant: Stop instead of GracefulStop.                                     *)
StopTransportAtOnce ==
    /\ stage = "stopping"
    /\ Transports[turn] = "grpc" \/ HandlersDone
    /\ NextTransport
    /\ UNCHANGED <<interrupted, configVars, requestVars, serviceVars, metricVars>>

(* Mutant: the goroutine of a transport that was never started is waited for.*)
StopTransportStarted ==
    /\ stage = "stopping"
    /\ HandlersDone
    /\ turn < Len(Transports) => Transports[turn + 1] \in serving
    /\ NextTransport
    /\ UNCHANGED <<interrupted, configVars, requestVars, serviceVars, metricVars>>

(* One after the other, the transports take no more requests, and those in   *)
(* progress are waited for.                                                  *)
StopTransport ==
    /\ stage = "stopping"
    /\ HandlersDone
    /\ NextTransport
    /\ UNCHANGED <<interrupted, configVars, requestVars, serviceVars, metricVars>>

(* When the context of Shutdown ends, the HTTP server returns its error, and *)
(* its handlers go on; the others have no context to look at.                *)
Interrupt ==
    /\ stage = "stopping"
    /\ Transports[turn] = "http"
    /\ ~HandlersDone
    /\ interrupted' = TRUE
    /\ NextTransport
    /\ UNCHANGED <<configVars, requestVars, serviceVars, metricVars>>

(* The rate limiter is shut down after the receiver, and closes the          *)
(* connection to its service.                                                *)
CloseConnection ==
    /\ stage = "stopped"
    /\ stage' = "closed"
    /\ UNCHANGED <<turn, serving, interrupted, configVars, requestVars, serviceVars, metricVars>>

-----------------------------------------------------------------------------
(* What Validate accepts, and createTracesReceiver passes on.                *)
Configurations == SUBSET ToSet(Transports) \ {{}}

Init ==
    /\ stage = "starting"
    /\ turn = 1
    /\ serving = {}
    /\ interrupted = FALSE
    /\ protocols \in Configurations
    /\ limitHeader \in HeaderNames
    /\ pc = [r \in Requests |-> "new"]
    /\ tenantOf = [r \in Requests |->
                      [i \in DOMAIN Resources(r) |-> Resources(r)[i].tenant]]
    /\ answer = [r \in Requests |-> "none"]
    /\ window = [r \in Requests |-> 0]
    /\ outcome = [r \in Requests |-> "none"]
    /\ used = [t \in Tenants |-> 0]
    /\ now = 0
    /\ faults = 0
    /\ received = [t \in Tenants |-> 0]
    /\ calls = [t \in Tenants |-> 0]
    /\ overLimit = [t \in Tenants |-> 0]
    /\ counted = [l \in CriteriaLabels |-> 0]

(* What the goroutine of a request does.                                     *)
Process(r) ==
    AddTenantId(r) \/ AskRateLimit(r) \/ Decide(r) \/ CountSpans(r) \/ NextConsumer(r)

Service(r) == ShouldRateLimit(r) \/ CallFails(r)

Lifecycle == Start \/ StopTransport \/ CloseConnection

Next ==
    \/ \E r \in Requests : Accept(r) \/ Process(r) \/ Service(r)
    \/ NewWindow
    \/ Lifecycle
    \/ Shutdown
    \/ Interrupt

Spec == Init /\ [][Next]_vars

(* The collector goes on with what it has begun; nobody has to send a        *)
(* request, or to shut it down, and the context of Shutdown need not end.    *)
CollectorFairness ==
    /\ \A r \in Requests : WF_vars(Process(r))
    /\ WF_vars(Lifecycle)

(* The service may be silent.                                                *)
SilentServiceSpec == Spec /\ CollectorFairness

(* The service answers, or the call of it fails.                             *)
FairSpec ==
    /\ Spec
    /\ CollectorFairness
    /\ \A r \in Requests : WF_vars(Service(r))

-----------------------------------------------------------------------------
(* Properties.                                                               *)

TypeOK ==
    /\ stage \in {"starting", "running", "stopping", "stopped", "closed"}
    /\ turn \in DOMAIN Transports
    /\ serving \subseteq ToSet(Transports)
    /\ protocols \in Configurations
    /\ interrupted \in BOOLEAN
    /\ limitHeader \in HeaderNames
    /\ pc \in [Requests -> {"new", "tenant", "limit", "asked", "count", "next",
                            "answered"}]
    /\ DOMAIN tenantOf = Requests
    /\ \A r \in Requests :
          tenantOf[r] \in [DOMAIN Resources(r) -> Tenants \cup {Unset}]
    /\ answer \in [Requests -> {"none", "ok", "overLimit", "failed"}]
    /\ window \in [Requests -> 0 .. MaxWindow]
    /\ outcome \in [Requests -> Outcomes \cup {"none"}]
    /\ used \in [Tenants -> Nat]
    /\ now \in 0 .. MaxWindow
    /\ faults \in 0 .. MaxFaults
    /\ received \in [Tenants -> Nat]
    /\ calls \in [Tenants -> Nat]
    /\ overLimit \in [Tenants -> Nat]
    /\ counted \in [CriteriaLabels -> Nat]

(* The resources that are counted and delivered all carry the tenant of the  *)
(* request's one header, whatever tenant the sender wrote into them; a       *)
(* request without one header gets no further (ProcessTraces).               *)
OwnTenantOnly ==
    \A r \in Requests :
        pc[r] \in {"count", "next"} \/ outcome[r] = "delivered" =>
            /\ HasOneTenant(r)
            /\ \A i \in DOMAIN Resources(r) : tenantOf[r][i] = Tenant(r)

RequestsOf(t) == {r \in Requests : HasOneTenant(r) /\ Tenant(r) = t}
ChargedTo(t) == {r \in Requests : IsLimited(r) /\ Payer(r) = t}

(* The metrics of a tenant agree with what became of its spans: those        *)
(* received got past the tenant id processor, and those dropped by the rate  *)
(* limiter are not delivered as well; the calls of the service made for a    *)
(* tenant are those that were answered or are waited for, and what is counted*)
(* as dropped is what was charged to it (also when the two processors read   *)
(* different headers).                                                       *)
SpansAccountedFor ==
    \A t \in Tenants :
        LET Spans(S) == SumFunctionOnSet(SpanCount, S)
            dropped == {r \in Requests : outcome[r] = "overLimit"}
            kept == {r \in Requests :
                        \/ pc[r] \in {"limit", "asked", "count", "next"}
                        \/ outcome[r] \in {"delivered", "refused"}}
            asked == {r \in Requests : pc[r] = "asked" \/ answer[r] # "none"}
        IN  /\ overLimit[t] = Spans(ChargedTo(t) \cap dropped)
            /\ received[t] = Spans(RequestsOf(t) \cap dropped) + Spans(RequestsOf(t) \cap kept)
            /\ calls[t] = Cardinality(ChargedTo(t) \cap asked)

(* In one window the service admits no more spans charged to a tenant than   *)
(* its quota, however many requests ask at the same time (HitsAddend is the  *)
(* number of spans).                                                         *)
WithinQuota ==
    \A t \in Tenants, w \in 0 .. MaxWindow :
        SumFunctionOnSet(SpanCount,
                {r \in ChargedTo(t) : answer[r] = "ok" /\ window[r] = w}) <= Quota

Passed == {r \in Requests : pc[r] = "next" \/ outcome[r] \in {"delivered", "refused"}}

Met ==
    [l \in CriteriaLabels |->
        [r \in {q \in Requests : HasOneTenant(q)} |->
            Cardinality(Meeting(Tenant(r), Resources(r), l))]]

(* What is recorded is, over all labels, as much as there are matches of     *)
(* spans with the criteria of their own tenant, in the batches that the rate *)
(* limiter let through (the loops of the span counter).                      *)
CountsAddUp ==
    SumFunction(counted) =
        SumFunction([l \in CriteriaLabels |-> SumFunctionOnSet(Met[l], Passed)])

(* What is recorded under a label are the matches of the criterion it labels *)
(* ("unique labels ... so that the span count metrics are uniquely           *)
(* identified and we can match it to the matching span config").             *)
LabelsIdentify ==
    \A l \in CriteriaLabels : counted[l] = SumFunctionOnSet(Met[l], Passed)

(* When the connection to the rate limit service is closed no request can    *)
(* come in any more, and no batch is on its way, unless Shutdown has returned*)
(* an error: then it is one that came by HTTP (Shutdown, also after a Start  *)
(* that failed half way).                                                    *)
ClosedIsIdle ==
    stage \in {"stopped", "closed"} =>
        /\ serving = {}
        /\ \A r \in Requests :
              InFlight(r) => interrupted /\ Request[r].transport = "http"

(* The pipeline keeps what TenantIngress promises: the room that a tenant has*)
(* left is its quota less what the service has admitted for it in its window,*)
(* a request is charged to the tenant of the rate limiter's header, and what *)
(* is delivered bears the tenants that its resources then have.              *)
Owner == [r \in Requests |-> IF HasOneTenant(r) THEN {Tenant(r)} ELSE {}]

Payers == [r \in Requests |-> IF IsLimited(r) THEN {Payer(r)} ELSE {}]

Room ==
    [t \in Tenants |->
        Quota - SumFunctionOnSet(SpanCount,
                    {r \in ChargedTo(t) : answer[r] = "ok" /\ window[r] = now})]

Bears ==
    [r \in Requests |-> IF outcome[r] = "delivered" THEN ToSet(tenantOf[r]) ELSE {}]

Ingress == INSTANCE TenantIngress
               WITH Spans <- SpanCount, payer <- Payers, bears <- Bears, room <- Room

(* Requests under way at the same time, failing calls, new windows, the other*)
(* header and a shutdown that is interrupted take nothing from what          *)
(* TenantIngress promises: a failed call, say, drops nothing.                *)
TenantsServed == Ingress!Spec

(* Every request that was accepted is answered, unless the collector goes    *)
(* before its handler has ended.                                             *)
RequestsAnswered == \A r \in Requests : InFlight(r) ~> pc[r] = "answered" \/ interrupted

(* A shutdown ends, whatever was started and whoever is still being served.  *)
ShutdownEnds == stage = "stopping" ~> stage = "closed"

(* A call of the service ends even if the service is silent ("Timeout in     *)
(* millis for grpc call").                                                   *)
RateLimitCallEnds == \A r \in Requests : pc[r] = "asked" ~> pc[r] # "asked"

=============================================================================
