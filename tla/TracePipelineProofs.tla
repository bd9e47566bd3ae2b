------------------------ MODULE TracePipelineProofs ------------------------
(* Theorems about the traces pipeline, for any requests, tenants, quota and  *)
(* criteria.                                                                 *)
EXTENDS TracePipeline, SumTheorems

(* What the theorems need of the types.                                      *)
Stages == {"new", "tenant", "limit", "asked", "count", "next", "answered"}

Shape ==
    /\ pc \in [Requests -> Stages]
    /\ outcome \in [Requests -> Outcomes \cup {"none"}]
    /\ answer \in [Requests -> {"none", "ok", "overLimit", "failed"}]
    /\ DOMAIN tenantOf = Requests
    /\ \A r \in Requests : DOMAIN tenantOf[r] = DOMAIN Resources(r)

LEMMA ShapeInit == Init => Shape
BY DEF Init, Shape, Stages

(* The steps that belong to no request leave requests alone.                 *)
OwnStep(r) == Accept(r) \/ Process(r) \/ Service(r)

LEMMA OtherSteps ==
    ASSUME NewWindow \/ Lifecycle \/ Shutdown \/ Interrupt \/ UNCHANGED vars
    PROVE  UNCHANGED <<pc, tenantOf, answer, outcome, window, configVars, metricVars>>
BY DEF NewWindow, Lifecycle, Start, StopTransport, CloseConnection, Shutdown, Interrupt,
       vars, requestVars

(* The configuration stays, and with it whom a request is charged to.        *)
LEMMA HeaderSame == [Next]_vars => UNCHANGED limitHeader
<1> USE DEF configVars
<1>1. ASSUME NEW r \in Requests, OwnStep(r) PROVE UNCHANGED limitHeader
  BY <1>1 DEF OwnStep, Process, Service, Accept, AddTenantId, AskRateLimit, Decide,
     CountSpans, NextConsumer, ShouldRateLimit, CallFails
<1> QED
  BY <1>1, OtherSteps DEF Next, OwnStep

LEMMA ChargingSame ==
    ASSUME UNCHANGED limitHeader, NEW r
    PROVE  /\ IsLimited(r)' <=> IsLimited(r)
           /\ Payer(r)' = Payer(r)
BY DEF IsLimited, Payer

LEMMA ShapeNext == Shape /\ [Next]_vars => Shape'
<1> SUFFICES ASSUME Shape, [Next]_vars PROVE Shape'
  OBVIOUS
<1> USE DEF Shape, Stages, Goes, Answers, Outcomes
<1>1. ASSUME NEW r \in Requests, Accept(r) PROVE Shape'
  BY <1>1 DEF Accept
<1>2. ASSUME NEW r \in Requests, AddTenantId(r) PROVE Shape'
  BY <1>2 DEF AddTenantId
<1>3. ASSUME NEW r \in Requests, AskRateLimit(r) PROVE Shape'
  BY <1>3 DEF AskRateLimit
<1>4. ASSUME NEW r \in Requests, Decide(r) PROVE Shape'
  BY <1>4 DEF Decide
<1>5. ASSUME NEW r \in Requests, CountSpans(r) PROVE Shape'
  BY <1>5 DEF CountSpans
<1>6. ASSUME NEW r \in Requests, NextConsumer(r) PROVE Shape'
  BY <1>6 DEF NextConsumer
<1>7. ASSUME NEW r \in Requests, ShouldRateLimit(r) PROVE Shape'
  BY <1>7 DEF ShouldRateLimit
<1>8. ASSUME NEW r \in Requests, CallFails(r) PROVE Shape'
  BY <1>8 DEF CallFails
<1>9. CASE NewWindow \/ Lifecycle \/ Shutdown \/ Interrupt \/ UNCHANGED vars
  BY <1>9, OtherSteps DEF configVars
<1> QED
  BY <1>1, <1>2, <1>3, <1>4, <1>5, <1>6, <1>7, <1>8, <1>9 DEF Next, Process, Service

-----------------------------------------------------------------------------
(* A request is one goroutine's: the others leave it alone.                  *)

LeavesAlone(r) ==
    /\ pc'[r] = pc[r]
    /\ tenantOf'[r] = tenantOf[r]
    /\ answer'[r] = answer[r]
    /\ outcome'[r] = outcome[r]
    /\ UNCHANGED limitHeader

LEMMA Frame ==
    ASSUME Shape, NEW r \in Requests, OwnStep(r), NEW q \in Requests, q # r
    PROVE  LeavesAlone(q)
<1> USE DEF Shape, Goes, Answers, LeavesAlone, configVars
<1>1. CASE Accept(r)
  BY <1>1 DEF Accept
<1>2. CASE AddTenantId(r)
  BY <1>2 DEF AddTenantId
<1>3. CASE AskRateLimit(r)
  BY <1>3 DEF AskRateLimit
<1>4. CASE Decide(r)
  BY <1>4 DEF Decide
<1>5. CASE CountSpans(r)
  BY <1>5 DEF CountSpans
<1>6. CASE NextConsumer(r)
  BY <1>6 DEF NextConsumer
<1>7. CASE ShouldRateLimit(r)
  BY <1>7 DEF ShouldRateLimit
<1>8. CASE CallFails(r)
  BY <1>8 DEF CallFails
<1> QED
  BY <1>1, <1>2, <1>3, <1>4, <1>5, <1>6, <1>7, <1>8 DEF OwnStep, Process, Service

LEMMA OthersFrame ==
    ASSUME NewWindow \/ Lifecycle \/ Shutdown \/ Interrupt \/ UNCHANGED vars, NEW q \in Requests
    PROVE  LeavesAlone(q)
BY OtherSteps DEF LeavesAlone, configVars

-----------------------------------------------------------------------------
(* What is true of each request.                                             *)

OwnTenant(r) ==
    /\ HasOneTenant(r)
    /\ \A i \in DOMAIN Resources(r) : tenantOf[r][i] = Tenant(r)

(* Past the tenant id processor every resource carries the header's tenant;  *)
(* only for one that it is charged to is the service asked, and then it does *)
(* not get past it unasked, or when it said no; and a request that has ended *)
(* was answered.                                                             *)
RequestInv(r) ==
    /\ pc[r] \in {"limit", "asked", "count", "next"} => OwnTenant(r)
    /\ outcome[r] \in {"delivered", "refused"} => OwnTenant(r)
    /\ outcome[r] # "none" => pc[r] = "answered"
    /\ pc[r] = "asked" => IsLimited(r)
    /\ pc[r] \in {"new", "tenant", "limit"} => answer[r] = "none"
    /\ pc[r] \in {"count", "next"} =>
          answer[r] # "overLimit" /\ (IsLimited(r) => answer[r] # "none")

LEMMA RequestInvStep ==
    ASSUME Shape, NEW r \in Requests, RequestInv(r), OwnStep(r)
    PROVE  RequestInv(r)'
<1>0. IsLimited(r)' <=> IsLimited(r)
  BY HeaderSame, ChargingSame DEF Next, OwnStep
<1> USE <1>0 DEF Shape, RequestInv, configVars
<1>1. CASE tenantOf' = tenantOf
  <2>1. OwnTenant(r)' <=> OwnTenant(r)
    BY <1>1 DEF OwnTenant
  <2>2. CASE Accept(r)
    BY <2>1, <2>2 DEF Accept, Goes, Answers
  <2>3. CASE AddTenantId(r)
    <3>1. CASE HasOneTenant(r)
      <4>1. \A i \in DOMAIN Resources(r) : tenantOf'[r][i] = Tenant(r)
        <5>1. tenantOf' = [tenantOf EXCEPT ![r] = [i \in DOMAIN @ |-> Tenant(r)]]
          BY <2>3, <3>1 DEF AddTenantId
        <5> QED
          BY <5>1
      <4>2. OwnTenant(r)'
        BY <3>1, <4>1 DEF OwnTenant
      <4> QED
        BY <2>3, <3>1, <4>2 DEF AddTenantId, Goes
    <3>2. CASE ~HasOneTenant(r)
      BY <2>1, <2>3, <3>2 DEF AddTenantId, Goes, Answers
    <3> QED
      BY <3>1, <3>2
  <2>4. CASE AskRateLimit(r)
    BY <2>1, <2>4 DEF AskRateLimit, Goes, OwnTenant
  <2>5. CASE Decide(r)
    BY <2>1, <2>5 DEF Decide, Goes, Answers
  <2>6. CASE CountSpans(r)
    BY <2>1, <2>6 DEF CountSpans, Goes
  <2>7. CASE NextConsumer(r)
    BY <2>1, <2>7 DEF NextConsumer, Goes, Answers
  <2>8. CASE Service(r)
    <3>1. UNCHANGED <<pc, outcome>> /\ pc[r] = "asked"
      BY <2>8 DEF Service, ShouldRateLimit, CallFails
    <3> QED
      BY <2>1, <3>1
  <2> QED
    BY <2>2, <2>3, <2>4, <2>5, <2>6, <2>7, <2>8 DEF OwnStep, Process
<1>2. CASE tenantOf' # tenantOf
  <2>1. AddTenantId(r) /\ HasOneTenant(r)
    BY <1>2 DEF OwnStep, Process, Service, Accept, AddTenantId, AskRateLimit, Decide,
                CountSpans, NextConsumer, ShouldRateLimit, CallFails
  <2>2. \A i \in DOMAIN Resources(r) : tenantOf'[r][i] = Tenant(r)
    <3>1. tenantOf' = [tenantOf EXCEPT ![r] = [i \in DOMAIN @ |-> Tenant(r)]]
      BY <2>1 DEF AddTenantId
    <3> QED
      BY <3>1
  <2>3. OwnTenant(r)'
    BY <2>1, <2>2 DEF OwnTenant
  <2> QED
    BY <2>1, <2>3 DEF AddTenantId, Goes
<1> QED
  BY <1>1, <1>2

RequestsInv == \A r \in Requests : RequestInv(r)

LEMMA RequestsInvNext == Shape /\ RequestsInv /\ [Next]_vars => RequestsInv'
<1> SUFFICES ASSUME Shape, RequestsInv, [Next]_vars, NEW q \in Requests
             PROVE  RequestInv(q)'
  BY DEF RequestsInv
<1>1. RequestInv(q)
  BY DEF RequestsInv
<1>2. CASE LeavesAlone(q)
  <2>1. OwnTenant(q) => OwnTenant(q)'
    BY <1>2 DEF LeavesAlone, OwnTenant
  <2>2. /\ pc'[q] = pc[q]
        /\ answer'[q] = answer[q]
        /\ outcome'[q] = outcome[q]
        /\ IsLimited(q)' <=> IsLimited(q)
    BY <1>2, ChargingSame DEF LeavesAlone
  <2> QED
    BY <1>1, <2>1, <2>2 DEF RequestInv
<1>3. CASE OwnStep(q)
  BY <1>1, <1>3, RequestInvStep
<1> QED
  BY <1>2, <1>3, Frame, OthersFrame DEF Next, OwnStep

LEMMA RequestsInvAlways == Spec => []RequestsInv
<1>1. Init => Shape /\ RequestsInv
  BY ShapeInit DEF Init, RequestsInv, RequestInv
<1>2. Shape /\ RequestsInv /\ [Next]_vars => (Shape /\ RequestsInv)'
  BY ShapeNext, RequestsInvNext
<1> QED
  BY <1>1, <1>2, PTL DEF Spec

(* Whatever tenant the sender wrote into its resources, what is counted and  *)
(* delivered carries the tenant of the header.                               *)
THEOREM TenantsNotMixed == Spec => []OwnTenantOnly
<1>1. RequestsInv => OwnTenantOnly
  BY DEF RequestsInv, RequestInv, OwnTenant, OwnTenantOnly
<1> QED
  BY <1>1, RequestsInvAlways, PTL

-----------------------------------------------------------------------------
(* A shutdown waits for everybody.                                           *)

(* Nothing comes by a transport, nor is on its way from there, unless it is  *)
(* HTTP and Shutdown was interrupted.                                        *)
Quiet(i) ==
    /\ Transports[i] \notin serving
    /\ \A r \in Requests :
          Request[r].transport = Transports[i] /\ InFlight(r) =>
              interrupted /\ Transports[i] = "http"

(* The transports before the one whose turn it is are quiet, and that one    *)
(* takes no more requests.                                                   *)
Retreat ==
    /\ turn \in 1 .. 3
    /\ serving \subseteq ToSet(Transports)
    /\ stage = "stopping" =>
          /\ \A i \in 1 .. turn - 1 : Quiet(i)
          /\ Transports[turn] \notin serving
    /\ stage \in {"stopped", "closed"} => \A i \in 1 .. 3 : Quiet(i)

LEMMA TransportsFacts ==
    /\ Len(Transports) = 3
    /\ ToSet(Transports) = {Transports[i] : i \in 1 .. 3}
    /\ \A i, j \in 1 .. 3 : Transports[i] = Transports[j] => i = j
BY DEF Transports, ToSet

LEMMA RetreatIdle == Retreat => ClosedIsIdle
BY TransportsFacts, PipelineAssumption DEF Retreat, Quiet, ClosedIsIdle

(* A request that is accepted comes by a transport that is served; one in    *)
(* progress does not begin again.                                            *)
LEMMA RequestStep ==
    ASSUME Shape, NEW r \in Requests, OwnStep(r)
    PROVE  /\ UNCHANGED receiverVars
           /\ \A q \in Requests : InFlight(q)' =>
                 InFlight(q) \/ Request[q].transport \in serving
<1> USE DEF Shape, Goes, Answers, InFlight
<1>1. CASE Accept(r)
  BY <1>1 DEF Accept
<1>2. CASE AddTenantId(r)
  BY <1>2 DEF AddTenantId
<1>3. CASE AskRateLimit(r)
  BY <1>3 DEF AskRateLimit
<1>4. CASE Decide(r)
  BY <1>4 DEF Decide
<1>5. CASE CountSpans(r) \/ NextConsumer(r)
  BY <1>5 DEF CountSpans, NextConsumer
<1>6. CASE Service(r)
  BY <1>6 DEF Service, ShouldRateLimit, CallFails
<1> QED
  BY <1>1, <1>2, <1>3, <1>4, <1>5, <1>6 DEF OwnStep, Process

LEMMA RetreatNext == Shape /\ Retreat /\ [Next]_vars => Retreat'
<1> SUFFICES ASSUME Shape, Retreat, [Next]_vars PROVE Retreat'
  OBVIOUS
<1> USE DEF Retreat
<1>1. ASSUME NEW r \in Requests, OwnStep(r) PROVE Retreat'
  <2>1. UNCHANGED <<stage, turn, serving, interrupted>>
    BY <1>1, RequestStep DEF receiverVars
  <2>2. \A i \in 1 .. 3 : Quiet(i) => Quiet(i)'
    BY <1>1, <2>1, RequestStep DEF Quiet
  <2> QED
    BY <2>1, <2>2
<1>2. ASSUME UNCHANGED pc, interrupted => interrupted', NEW i \in 1 .. 3, Quiet(i),
             serving' \subseteq serving
      PROVE  Quiet(i)'
  BY <1>2 DEF Quiet, InFlight
<1>3. ASSUME BeginShutdown PROVE Retreat'
  BY <1>3 DEF BeginShutdown
<1>4. CASE Start
  <2>1. turn \in 1 .. 3 /\ Transports[turn] \in ToSet(Transports)
    BY TransportsFacts
  <2> QED
    BY <1>3, <1>4, <2>1, TransportsFacts DEF Start
<1>5. CASE Shutdown
  BY <1>3, <1>5 DEF Shutdown
<1>6. CASE StopTransport \/ Interrupt
  <2>1. /\ UNCHANGED pc
        /\ stage = "stopping"
        /\ serving' \subseteq serving
        /\ interrupted => interrupted'
        /\ NextTransport
    BY <1>6 DEF StopTransport, Interrupt, NextTransport, requestVars
  <2>2. ASSUME NEW i \in 1 .. 3, i = turn PROVE Quiet(i)'
    <3>1. Transports[i] \notin serving'
      BY <2>1, <2>2
    <3>2. CASE StopTransport
      <4>1. \A r \in Requests : Request[r].transport = Transports[i] => ~InFlight(r)'
        BY <2>1, <2>2, <3>2 DEF StopTransport, HandlersDone, InFlight
      <4> QED
        BY <3>1, <4>1 DEF Quiet
    <3>3. CASE Interrupt
      BY <2>2, <3>1, <3>3 DEF Interrupt, Quiet
    <3> QED
      BY <1>6, <3>2, <3>3
  <2>3. \A i \in 1 .. turn : Quiet(i)'
    <3>1. \A i \in 1 .. turn : i \in 1 .. 3 /\ (i = turn \/ Quiet(i))
      BY <2>1
    <3> QED
      BY <1>2, <2>1, <2>2, <3>1
  <2>4. CASE turn < 3
    <3>1. /\ turn' = turn + 1
          /\ serving' = serving \ {Transports[turn + 1]}
          /\ stage' = "stopping"
      BY <2>1, <2>4, TransportsFacts DEF NextTransport
    <3> QED
      BY <2>3, <2>4, <3>1
  <2>5. CASE turn = 3
    <3>1. turn' = turn /\ serving' = serving /\ stage' = "stopped"
      BY <2>1, <2>5, TransportsFacts DEF NextTransport
    <3> QED
      BY <2>3, <2>5, <3>1
  <2> QED
    BY <2>4, <2>5
<1>7. CASE CloseConnection
  BY <1>2, <1>7 DEF CloseConnection, requestVars
<1>8. CASE NewWindow \/ UNCHANGED vars
  <2>1. UNCHANGED <<stage, turn, serving, interrupted, pc>>
    BY <1>8 DEF NewWindow, vars, receiverVars, requestVars
  <2> QED
    BY <1>2, <2>1
<1> QED
  BY <1>1, <1>4, <1>5, <1>6, <1>7, <1>8 DEF Next, Lifecycle, OwnStep

(* When the rate limiter closes its connection nobody can come in any more,  *)
(* and unless Shutdown returned an error nobody is being served: after a     *)
(* clean start as after one that failed.                                     *)
THEOREM ShutdownWaits == Spec => []ClosedIsIdle
<1>1. Init => Shape /\ Retreat
  BY ShapeInit DEF Init, Retreat
<1>2. Shape /\ Retreat /\ [Next]_vars => (Shape /\ Retreat)'
  BY ShapeNext, RetreatNext
<1> QED
  BY <1>1, <1>2, RetreatIdle, PTL DEF Spec

-----------------------------------------------------------------------------
(* Types.                                                                    *)

LEMMA TenantType ==
    ASSUME NEW r \in Requests, HasOneTenant(r)
    PROVE  Tenant(r) \in Tenants
BY PipelineAssumption DEF HasOneTenant, Tenant, Headers

LEMMA PayerType ==
    ASSUME limitHeader \in HeaderNames, NEW r \in Requests, IsLimited(r)
    PROVE  Payer(r) \in Tenants
BY PipelineAssumption DEF IsLimited, Payer, Headers

LEMMA Bounds == Quota \in Nat /\ MaxWindow \in Nat /\ MaxFaults \in Nat
BY PipelineAssumption

TenantsType(r) == tenantOf[r] \in [DOMAIN Resources(r) -> Tenants \cup {Unset}]

LEMMA SequenceFacts ==
    ASSUME NEW s, IsSequence(s)
    PROVE  /\ Len(s) \in Nat
           /\ DOMAIN s = 1 .. Len(s)
           /\ DOMAIN s \subseteq Nat
           /\ IsFiniteSet(DOMAIN s)
           /\ \A i \in DOMAIN s : s[i] \in ToSet(s)
<1>1. Len(s) \in Nat /\ DOMAIN s = 1 .. Len(s)
  BY DEF IsSequence
<1>2. IsFiniteSet(1 .. Len(s))
  BY <1>1, FS_Interval
<1> QED
  BY <1>1, <1>2 DEF ToSet

LEMMA ResourcesType ==
    ASSUME NEW r \in Requests
    PROVE  /\ IsSequence(Resources(r))
           /\ \A i \in DOMAIN Resources(r) :
                 /\ Resources(r)[i].tenant \in Tenants \cup {Unset}
                 /\ IsSequence(Resources(r)[i].spans)
<1>1. IsSequence(Resources(r))
  BY PipelineAssumption DEF Resources
<1>2. \A i \in DOMAIN Resources(r) : Resources(r)[i] \in ToSet(Request[r].resources)
  BY <1>1, SequenceFacts DEF Resources
<1> QED
  BY <1>1, <1>2, PipelineAssumption

LEMMA SpanCountType == SpanCount \in [Requests -> Nat]
<1> SUFFICES ASSUME NEW r \in Requests PROVE SpanCount[r] \in Nat
  BY DEF SpanCount
<1> DEFINE lengths == [i \in DOMAIN Resources(r) |-> Len(Resources(r)[i].spans)]
<1>1. IsFiniteSet(DOMAIN Resources(r))
  BY ResourcesType, SequenceFacts
<1>2. \A i \in DOMAIN Resources(r) : lengths[i] \in Nat
  BY ResourcesType, SequenceFacts
<1>3. SumFunctionOnSet(lengths, DOMAIN Resources(r)) \in Nat
  <2> HIDE DEF lengths
  <2> QED
    BY <1>1, <1>2, SumType
<1>4. SpanCount[r] = SumFunctionOnSet(lengths, DOMAIN Resources(r))
  BY Zenon DEF SpanCount, SumFunction
<1> QED
  BY <1>3, <1>4

LEMMA SumFacts ==
    /\ IsFiniteSet(Requests)
    /\ SpanCount \in [Requests -> Nat]
    /\ SumFunctionOnSet(SpanCount, {}) = 0
    /\ \A S \in SUBSET Requests :
          /\ SumFunctionOnSet(SpanCount, S) \in Nat
          /\ \A r \in Requests \ S :
                SumFunctionOnSet(SpanCount, S \cup {r})
                    = SumFunctionOnSet(SpanCount, S) + SpanCount[r]
<1>1. IsFiniteSet(Requests) /\ \A r \in Requests : SpanCount[r] \in Nat
  BY SpanCountType, PipelineAssumption
<1>2. ASSUME NEW S \in SUBSET Requests
      PROVE  IsFiniteSet(S) /\ \A r \in S : SpanCount[r] \in Nat
  BY <1>1, FS_Subset
<1>3. ASSUME NEW S \in SUBSET Requests PROVE SumFunctionOnSet(SpanCount, S) \in Nat
  BY <1>2, SumType
<1>4. ASSUME NEW S \in SUBSET Requests, NEW r \in Requests \ S
      PROVE  SumFunctionOnSet(SpanCount, S \cup {r})
                 = SumFunctionOnSet(SpanCount, S) + SpanCount[r]
  BY <1>1, <1>2, SumAdd
<1> QED
  BY <1>1, <1>3, <1>4, SpanCountType, SumEmpty

LEMMA TypeInit == Init => TypeOK
<1> SUFFICES ASSUME Init PROVE TypeOK
  OBVIOUS
<1>1. \A r \in Requests : TenantsType(r)
  BY ResourcesType DEF Init, TenantsType
<1>2. turn \in DOMAIN Transports
  BY DEF Init, Transports
<1>3. interrupted \in BOOLEAN
  BY Zenon DEF Init
<1> QED
  BY <1>1, <1>2, <1>3, Bounds DEF Init, TypeOK, TenantsType

LEMMA RaisedType ==
    ASSUME NEW S, NEW f \in [S -> Nat], NEW t, NEW n \in Nat
    PROVE  [f EXCEPT ![t] = @ + n] \in [S -> Nat]
<1>1. CASE t \in S
  BY <1>1
<1>2. CASE t \notin S
  BY <1>2
<1> QED
  BY <1>1, <1>2

-----------------------------------------------------------------------------
(* The span counter.                                                         *)

(* Of entries the last one can be found.                                     *)
LEMMA LastEntry ==
    ASSUME NEW s, IsSequence(s), NEW T, T \subseteq DOMAIN s, T # {}
    PROVE  Max(T) \in T
<1> DEFINE n == Len(s)
           U == {n - i : i \in T}
<1>1. n \in Nat /\ T \subseteq 1 .. n
  BY SequenceFacts
<1>2. U \subseteq Nat /\ U # {}
  BY <1>1
<1>3. PICK u \in U : \A v \in U : u <= v
  BY <1>2, Smallest
<1>4. PICK i \in T : u = n - i
  BY <1>3
<1>5. ASSUME NEW j \in T PROVE i >= j
  <2>1. n - i <= n - j
    BY <1>3, <1>4
  <2> QED
    BY <1>1, <2>1
<1> QED
  BY <1>5 DEF Max

LEMMA ServicesType ==
    ASSUME NEW t
    PROVE  \/ Services(t) = <<>>
           \/ \E tc \in ToSet(TenantConfigs) : Services(t) = tc.services
<1> DEFINE entries == {i \in DOMAIN TenantConfigs : TenantConfigs[i].tenant = t}
<1>1. CASE entries # {}
  <2>1. Max(entries) \in DOMAIN TenantConfigs
    <3>1. IsSequence(TenantConfigs) /\ entries \subseteq DOMAIN TenantConfigs
      BY ConfigAssumption
    <3> HIDE DEF entries
    <3> QED
      BY <1>1, <3>1, LastEntry
  <2>2. TenantConfigs[Max(entries)] \in ToSet(TenantConfigs)
    BY <2>1, ConfigAssumption, SequenceFacts
  <2>3. Services(t) \in {<<>>, TenantConfigs[Max(entries)].services}
    BY DEF Services
  <2> QED
    BY <2>2, <2>3
<1>2. CASE entries = {}
  BY <1>2 DEF Services
<1> QED
  BY <1>1, <1>2

LEMMA SpanConfigsType ==
    ASSUME NEW t, NEW service
    PROVE  /\ IsFiniteSet(DOMAIN SpanConfigs(t, service))
           /\ DOMAIN SpanConfigs(t, service) \subseteq Nat
           /\ \A c \in DOMAIN SpanConfigs(t, service) :
                 SpanConfigs(t, service)[c].label \in CriteriaLabels
<1> DEFINE services == Services(t)
           configs == SpanConfigs(t, service)
           entries == {i \in DOMAIN services : services[i].service = service}
<1>1. CASE configs = <<>>
  <2>1. DOMAIN configs = {}
    BY <1>1
  <2> QED
    BY <2>1, FS_EmptySet
<1>2. CASE configs # <<>>
  <2>1. entries # {} /\ configs = services[Max(entries)].spans
    BY <1>2 DEF SpanConfigs
  <2>2. services # <<>>
    BY <2>1
  <2>3. PICK tc \in ToSet(TenantConfigs) : services = tc.services
    BY <2>2, ServicesType
  <2>4. IsSequence(services) /\ \A sc \in ToSet(services) : IsSequence(sc.spans)
    BY <2>3, ConfigAssumption
  <2>5. Max(entries) \in DOMAIN services
    <3>1. entries \subseteq DOMAIN services
      OBVIOUS
    <3> HIDE DEF entries, services
    <3> QED
      BY <2>1, <2>4, <3>1, LastEntry
  <2> DEFINE sc == services[Max(entries)]
  <2>6. sc \in ToSet(services)
    <3> HIDE DEF entries, services
    <3> QED
      BY <2>4, <2>5, SequenceFacts
  <2>7. IsSequence(configs)
    BY <2>1, <2>4, <2>6
  <2>8. ASSUME NEW c \in DOMAIN configs PROVE configs[c].label \in CriteriaLabels
    <3>1. configs[c].label \in {sc.spans[d].label : d \in DOMAIN sc.spans}
      BY <2>1
    <3> HIDE DEF sc, services, configs
    <3> QED
      BY <2>3, <2>6, <3>1 DEF CriteriaLabels
  <2>9. IsFiniteSet(DOMAIN configs) /\ DOMAIN configs \subseteq Nat
    BY <2>7, SequenceFacts
  <2> QED
    BY <2>8, <2>9
<1> QED
  BY <1>1, <1>2

LEMMA FiniteToSet ==
    ASSUME NEW s, IsSequence(s)
    PROVE  IsFiniteSet(ToSet(s))
<1> DEFINE E == [i \in DOMAIN s |-> {s[i]}]
<1>1. IsFiniteSet(DOMAIN s) /\ \A i \in DOMAIN s : IsFiniteSet(E[i])
  BY SequenceFacts, FS_Singleton
<1>2. IsFiniteSet(Together(E, DOMAIN s))
  <2> HIDE DEF E
  <2> QED
    BY <1>1, FiniteUnion
<1>3. ToSet(s) = Together(E, DOMAIN s)
  BY DEF ToSet, Together
<1> QED
  BY <1>2, <1>3

LEMMA LabelsFinite == IsFiniteSet(CriteriaLabels)
<1> DEFINE labels(sc) == {sc.spans[c].label : c \in DOMAIN sc.spans}
           L(tc) == UNION {labels(sc) : sc \in ToSet(tc.services)}
           L1 == [tc \in ToSet(TenantConfigs) |-> L(tc)]
<1>1. ASSUME NEW tc \in ToSet(TenantConfigs) PROVE IsFiniteSet(L(tc))
  <2> DEFINE S == ToSet(tc.services)
             L2 == [sc \in S |-> labels(sc)]
  <2>1. IsFiniteSet(S)
    BY ConfigAssumption, FiniteToSet
  <2>2. ASSUME NEW sc \in S PROVE IsFiniteSet(labels(sc))
    <3> DEFINE C == DOMAIN sc.spans
               L3 == [c \in C |-> {sc.spans[c].label}]
    <3>1. IsFiniteSet(C)
      BY ConfigAssumption, SequenceFacts
    <3>2. \A c \in C : IsFiniteSet(L3[c])
      BY FS_Singleton
    <3>3. IsFiniteSet(Together(L3, C))
      <4> HIDE DEF L3, C
      <4> QED
        BY <3>1, <3>2, FiniteUnion
    <3>4. labels(sc) = Together(L3, C)
      BY DEF Together
    <3> QED
      BY <3>3, <3>4
  <2>3. \A sc \in S : IsFiniteSet(L2[sc])
    BY <2>2
  <2>4. IsFiniteSet(Together(L2, S))
    <3> HIDE DEF L2, S
    <3> QED
      BY <2>1, <2>3, FiniteUnion
  <2>5. L(tc) = Together(L2, S)
    <3> HIDE DEF labels
    <3> QED
      BY DEF Together
  <2> QED
    BY <2>4, <2>5
<1>2. IsFiniteSet(ToSet(TenantConfigs)) /\ \A tc \in ToSet(TenantConfigs) : IsFiniteSet(L1[tc])
  <2> HIDE DEF L
  <2> QED
    BY <1>1, ConfigAssumption, FiniteToSet
<1>3. IsFiniteSet(Together(L1, ToSet(TenantConfigs)))
  <2> HIDE DEF L1
  <2> QED
    BY <1>2, FiniteUnion
<1>4. Together(L1, ToSet(TenantConfigs)) = UNION {L(tc) : tc \in ToSet(TenantConfigs)}
  <2> HIDE DEF L
  <2> QED
    BY DEF Together
<1>5. CriteriaLabels = UNION {L(tc) : tc \in ToSet(TenantConfigs)}
  BY DEF CriteriaLabels
<1> QED
  BY <1>3, <1>4, <1>5

(* The spans of resource rs that meet criterion c of tenant t.               *)
Matching(t, rs, c) ==
    {k \in DOMAIN rs.spans : Matches(rs.spans[k], SpanConfigs(t, rs.service)[c])}

LEMMA MatchingType ==
    ASSUME NEW t, NEW rs, IsSequence(rs.spans), NEW c
    PROVE  IsFiniteSet(Matching(t, rs, c)) /\ Cardinality(Matching(t, rs, c)) \in Nat
<1>1. IsFiniteSet(DOMAIN rs.spans) /\ Matching(t, rs, c) \subseteq DOMAIN rs.spans
  BY SequenceFacts DEF Matching
<1> QED
  BY <1>1, FS_Subset, FS_CardinalityType

LEMMA ResourceHitsAre ==
    ASSUME NEW t, NEW rs
    PROVE  /\ DOMAIN ResourceHits(t, rs) = DOMAIN SpanConfigs(t, rs.service)
           /\ \A c \in DOMAIN SpanConfigs(t, rs.service) :
                 /\ ResourceHits(t, rs)[c].label = SpanConfigs(t, rs.service)[c].label
                 /\ ResourceHits(t, rs)[c].count = Cardinality(Matching(t, rs, c))
BY DEF ResourceHits, MatchCount, Matching

(* What is measured is a finite number of spans under labels.                *)
Measurable(hits) ==
    /\ IsFiniteSet(Measured(hits))
    /\ \A m \in Measured(hits) :
          /\ m[1] \in Nat /\ m[2] \in Nat
          /\ hits[m[1]][m[2]].label \in CriteriaLabels
          /\ hits[m[1]][m[2]].count \in Nat

LEMMA MeasuredAre ==
    ASSUME NEW hits, NEW m
    PROVE  m \in Measured(hits) <=>
               \E i \in DOMAIN hits : \E c \in DOMAIN hits[i] :
                   m = <<i, c>> /\ hits[i][c].count > 0
BY DEF Measured

LEMMA HitsMeasurable ==
    ASSUME NEW traces, IsSequence(traces), \A i \in DOMAIN traces : IsSequence(traces[i].spans),
           NEW ts, NEW hits, DOMAIN hits = DOMAIN traces,
           \A i \in DOMAIN traces : hits[i] = ResourceHits(ts[i], traces[i])
    PROVE  Measurable(hits)
<1>1. ASSUME NEW i \in DOMAIN hits
      PROVE  /\ i \in Nat /\ DOMAIN hits[i] \subseteq Nat /\ IsFiniteSet(DOMAIN hits[i])
             /\ \A c \in DOMAIN hits[i] :
                   hits[i][c].label \in CriteriaLabels /\ hits[i][c].count \in Nat
  <2> DEFINE t == ts[i]
             rs == traces[i]
  <2>1. i \in Nat /\ IsSequence(rs.spans) /\ hits[i] = ResourceHits(t, rs)
    BY <1>1, SequenceFacts
  <2> HIDE DEF t, rs
  <2> QED
    BY <2>1, ResourceHitsAre, SpanConfigsType, MatchingType
<1> DEFINE E == [i \in DOMAIN hits |-> {i} \X DOMAIN hits[i]]
<1>2. IsFiniteSet(DOMAIN hits) /\ \A i \in DOMAIN hits : IsFiniteSet(E[i])
  <2>1. IsFiniteSet(DOMAIN hits)
    BY SequenceFacts
  <2>2. ASSUME NEW i \in DOMAIN hits PROVE IsFiniteSet({i} \X DOMAIN hits[i])
    <3>1. IsFiniteSet({i}) /\ IsFiniteSet(DOMAIN hits[i])
      BY <1>1, FS_Singleton
    <3> QED
      BY <3>1, FS_Product
  <2> QED
    BY <2>1, <2>2
<1>3. IsFiniteSet(Together(E, DOMAIN hits))
  <2> HIDE DEF E
  <2> QED
    BY <1>2, FiniteUnion
<1>4. Measured(hits) \subseteq Together(E, DOMAIN hits)
  BY DEF Measured, Together
<1>5. IsFiniteSet(Measured(hits))
  BY <1>3, <1>4, FS_Subset
<1>6. ASSUME NEW m \in Measured(hits)
      PROVE  /\ m[1] \in Nat /\ m[2] \in Nat
             /\ hits[m[1]][m[2]].label \in CriteriaLabels
             /\ hits[m[1]][m[2]].count \in Nat
  <2>1. PICK i \in DOMAIN hits : \E c \in DOMAIN hits[i] : m = <<i, c>>
    BY MeasuredAre
  <2>2. PICK c \in DOMAIN hits[i] : m = <<i, c>>
    BY <2>1
  <2>3. m[1] = i /\ m[2] = c
    BY <2>2
  <2> QED
    BY <1>1, <2>3
<1> QED
  BY <1>5, <1>6 DEF Measurable

LEMMA FirstMeasured ==
    ASSUME NEW hits, Measurable(hits), Measured(hits) # {}
    PROVE  \E m \in Measured(hits) : \A n \in Measured(hits) : Before(m, n)
<1> DEFINE S == Measured(hits)
           I == {m[1] : m \in S}
<1>1. \A m \in S : m[1] \in Nat /\ m[2] \in Nat
  BY DEF Measurable
<1>2. I \subseteq Nat /\ I # {}
  BY <1>1
<1>3. PICK i \in I : \A j \in I : i <= j
  BY <1>2, Smallest
<1> DEFINE C == {m[2] : m \in {n \in S : n[1] = i}}
<1>4. C \subseteq Nat /\ C # {}
  BY <1>1, <1>3
<1>5. PICK c \in C : \A d \in C : c <= d
  BY <1>4, Smallest
<1>6. PICK m \in S : m[1] = i /\ m[2] = c
  BY <1>5
<1>7. ASSUME NEW n \in S PROVE Before(m, n)
  <2>1. i <= n[1] /\ (n[1] = i => c <= n[2])
    BY <1>3, <1>5
  <2> HIDE DEF S
  <2> QED
    BY <1>1, <1>6, <2>1 DEF Before
<1> QED
  BY <1>6, <1>7

(* The number of matches in hits.                                            *)
Total(hits) == SumFunction([m \in Measured(hits) |-> hits[m[1]][m[2]].count])

LEMMA TotalType ==
    ASSUME NEW hits, Measurable(hits)
    PROVE  Total(hits) \in Nat
<1> DEFINE f == [m \in Measured(hits) |-> hits[m[1]][m[2]].count]
<1>1. IsFiniteSet(Measured(hits)) /\ \A m \in Measured(hits) : f[m] \in Nat
  BY DEF Measurable
<1>2. Total(hits) = SumFunctionOnSet(f, Measured(hits))
  BY Zenon DEF Total, SumFunction
<1> HIDE DEF f
<1> QED
  BY <1>1, <1>2, SumType

(* Recording adds the matches to one label, and so to the sum of all.        *)
LEMMA RecordAdds ==
    ASSUME NEW c \in [CriteriaLabels -> Nat], NEW hits, Measurable(hits)
    PROVE  /\ Record(c, hits) \in [CriteriaLabels -> Nat]
           /\ SumFunction(Record(c, hits)) = SumFunction(c) + Total(hits)
<1> DEFINE S == Measured(hits)
           first == CHOOSE m \in S : \A n \in S : Before(m, n)
           label == hits[first[1]][first[2]].label
           n == Total(hits)
           new == [c EXCEPT ![label] = @ + n]
<1>1. IsFiniteSet(CriteriaLabels) /\ n \in Nat
  BY LabelsFinite, TotalType
<1>2. CASE S = {}
  <2>1. Record(c, hits) = c
    BY <1>2 DEF Record
  <2>2. n = 0
    <3> DEFINE f == [m \in S |-> hits[m[1]][m[2]].count]
    <3>1. n = SumFunctionOnSet(f, S)
      BY Zenon DEF Total, SumFunction
    <3> HIDE DEF f, n
    <3> QED
      BY <1>2, <3>1, SumEmpty
  <2>3. SumFunction(c) = SumFunctionOnSet(c, CriteriaLabels)
    BY DEF SumFunction
  <2>4. SumFunctionOnSet(c, CriteriaLabels) \in Nat
    BY <1>1, SumType
  <2> QED
    BY <2>1, <2>2, <2>3, <2>4
<1>3. CASE S # {}
  <2>1. first \in S
    BY <1>3, FirstMeasured
  <2>2. label \in CriteriaLabels
    <3> HIDE DEF first
    <3> QED
      BY <2>1 DEF Measurable
  <2>3. Record(c, hits) = new
    BY <1>3, Zenon DEF Record, Total
  <2> HIDE DEF label, n
  <2>4. new \in [CriteriaLabels -> Nat]
    BY <1>1, <2>2
  <2>5. /\ \A l \in CriteriaLabels : c[l] \in Nat
        /\ new[label] = c[label] + n
        /\ \A l \in CriteriaLabels \ {label} : new[l] = c[l]
    BY <2>2
  <2>6. SumFunction(new) = SumFunctionOnSet(new, CriteriaLabels)
    BY Zenon DEF SumFunction
  <2>7. SumFunction(c) = SumFunctionOnSet(c, CriteriaLabels)
    BY DEF SumFunction
  <2> HIDE DEF new
  <2>8. SumFunctionOnSet(new, CriteriaLabels) = SumFunctionOnSet(c, CriteriaLabels) + n
    BY <1>1, <2>2, <2>5, SumGrows
  <2> QED
    BY <2>3, <2>4, <2>6, <2>7, <2>8 DEF n
<1> QED
  BY <1>2, <1>3

LEMMA CountSpansType ==
    ASSUME TypeOK, NEW r \in Requests, CountSpans(r)
    PROVE  /\ Measurable(Hits(r))
           /\ counted' \in [CriteriaLabels -> Nat]
<1> DEFINE ts == tenantOf[r]
           traces == Resources(r)
<1>1. ts \in [DOMAIN traces -> Tenants \cup {Unset}]
  BY DEF TypeOK
<1>2. DOMAIN Hits(r) = DOMAIN traces
  BY DEF Hits
<1>3. \A i \in DOMAIN traces : Hits(r)[i] = ResourceHits(ts[i], traces[i])
  BY <1>1 DEF Hits, HitsAs
<1>4. IsSequence(traces) /\ \A i \in DOMAIN traces : IsSequence(traces[i].spans)
  BY ResourcesType
<1>5. Measurable(Hits(r))
  <2> HIDE DEF ts, traces
  <2> QED
    BY <1>2, <1>3, <1>4, HitsMeasurable
<1>6. counted' = Record(counted, Hits(r))
  BY DEF CountSpans
<1>7. counted \in [CriteriaLabels -> Nat]
  BY DEF TypeOK
<1> QED
  BY <1>5, <1>6, <1>7, RecordAdds

(* What a request's own step does to the numbers.                            *)
Numbers ==
    /\ received \in [Tenants -> Nat]
    /\ calls \in [Tenants -> Nat]
    /\ overLimit \in [Tenants -> Nat]
    /\ used \in [Tenants -> Nat]

LEMMA NumbersType ==
    ASSUME Numbers, NEW r \in Requests, OwnStep(r)
    PROVE  Numbers'
<1> USE DEF Numbers
<1> DEFINE raised(f, g) == f = g \/ \E t : \E n \in Nat : g = [f EXCEPT ![t] = @ + n]
<1>1. SpanCount[r] \in Nat /\ HitsAddend(r) \in Nat /\ 0 \in Nat
  BY SumFacts DEF HitsAddend
<1>2. /\ raised(received, received')
      /\ raised(calls, calls')
      /\ raised(overLimit, overLimit')
      /\ raised(used, used')
  <2> USE DEF serviceVars, metricVars
  <2> HIDE DEF Numbers, HitsAddend
  <2>1. CASE AddTenantId(r)
    BY <1>1, <2>1 DEF AddTenantId
  <2>2. CASE AskRateLimit(r)
    BY <1>1, <2>2 DEF AskRateLimit
  <2>3. CASE Decide(r)
    BY <1>1, <2>3 DEF Decide
  <2>4. CASE ShouldRateLimit(r)
    BY <1>1, <2>4 DEF ShouldRateLimit
  <2>5. CASE CallFails(r)
    BY <1>1, <2>5 DEF CallFails
  <2>6. CASE Accept(r) \/ CountSpans(r) \/ NextConsumer(r)
    BY <2>6 DEF Accept, CountSpans, NextConsumer
  <2> QED
    BY <2>1, <2>2, <2>3, <2>4, <2>5, <2>6 DEF OwnStep, Process, Service
<1>3. ASSUME NEW f \in [Tenants -> Nat], NEW g, raised(f, g) PROVE g \in [Tenants -> Nat]
  BY <1>3, RaisedType
<1> HIDE DEF raised
<1> QED
  BY <1>2, <1>3

LEMMA TenantsTypeStep ==
    ASSUME TypeOK, NEW r \in Requests, OwnStep(r)
    PROVE  DOMAIN tenantOf' = Requests /\ \A q \in Requests : TenantsType(q)'
<1> USE DEF TypeOK, TenantsType
<1>1. CASE UNCHANGED tenantOf
  BY <1>1
<1>2. CASE AddTenantId(r) /\ HasOneTenant(r)
  <2>1. tenantOf' = [tenantOf EXCEPT ![r] = [i \in DOMAIN @ |-> Tenant(r)]]
    BY <1>2 DEF AddTenantId
  <2> QED
    BY <1>2, <2>1, TenantType
<1> QED
  BY <1>1, <1>2 DEF OwnStep, Process, Service, Accept, AddTenantId, AskRateLimit,
     Decide, CountSpans, NextConsumer, ShouldRateLimit, CallFails

LEMMA RequestStepType ==
    ASSUME TypeOK, NEW r \in Requests, OwnStep(r)
    PROVE  TypeOK'
<1>1. Shape /\ Numbers
  BY DEF TypeOK, Shape, Stages, Numbers
<1>2. Shape'
  BY <1>1, ShapeNext DEF Next, OwnStep
<1>3. Numbers'
  BY <1>1, NumbersType
<1>4. UNCHANGED <<receiverVars, configVars, now>>
  BY DEF OwnStep, Process, Service, Accept, AddTenantId, AskRateLimit, Decide,
     CountSpans, NextConsumer, ShouldRateLimit, CallFails, serviceVars
<1>5. window' \in [Requests -> 0 .. MaxWindow]
  <2>1. window' = window \/ window' = [window EXCEPT ![r] = now]
    BY DEF OwnStep, Process, Service, Accept, AddTenantId, AskRateLimit, Decide,
       CountSpans, NextConsumer, ShouldRateLimit, CallFails
  <2> QED
    BY <2>1 DEF TypeOK
<1>6. faults' \in 0 .. MaxFaults
  <2>1. faults' = faults \/ (faults < MaxFaults /\ faults' = faults + 1)
    BY DEF OwnStep, Process, Service, Accept, AddTenantId, AskRateLimit, Decide,
       CountSpans, NextConsumer, ShouldRateLimit, CallFails, serviceVars
  <2>2. faults \in 0 .. MaxFaults
    BY DEF TypeOK
  <2> QED
    BY <2>1, <2>2, Bounds
<1>7. counted' \in [CriteriaLabels -> Nat]
  <2>1. UNCHANGED counted \/ CountSpans(r)
    BY DEF OwnStep, Process, Service, Accept, AddTenantId, AskRateLimit, Decide,
       NextConsumer, ShouldRateLimit, CallFails, metricVars
  <2> QED
    BY <2>1, CountSpansType DEF TypeOK
<1>8. DOMAIN tenantOf' = Requests /\ \A q \in Requests : TenantsType(q)'
  BY TenantsTypeStep
<1> QED
  BY <1>2, <1>3, <1>4, <1>5, <1>6, <1>7, <1>8
     DEF TypeOK, Shape, Stages, Numbers, TenantsType, receiverVars, configVars

LEMMA LifecycleType ==
    ASSUME TypeOK, Lifecycle \/ Shutdown \/ Interrupt
    PROVE  TypeOK'
<1>1. /\ UNCHANGED <<configVars, requestVars, serviceVars, metricVars>>
  BY DEF Lifecycle, Start, StopTransport, CloseConnection, Shutdown, Interrupt
<1>2. DOMAIN Transports = 1 .. 3 /\ \A i \in 1 .. 3 : Transports[i] \in ToSet(Transports)
  BY TransportsFacts DEF Transports
<1>3. /\ stage' \in {"starting", "running", "stopping", "stopped", "closed"}
      /\ turn' \in DOMAIN Transports
      /\ serving' \subseteq ToSet(Transports)
      /\ interrupted' \in BOOLEAN
  <2>1. /\ stage \in {"starting", "running", "stopping", "stopped", "closed"}
        /\ turn \in 1 .. 3
        /\ serving \subseteq ToSet(Transports)
        /\ interrupted \in BOOLEAN
    BY <1>2 DEF TypeOK
  <2> USE DEF BeginShutdown
  <2>2. CASE Start
    BY <1>2, <2>1, <2>2, TransportsFacts DEF Start
  <2>3. CASE StopTransport \/ Interrupt
    <3>1. NextTransport /\ interrupted' \in BOOLEAN /\ stage = "stopping"
      BY <2>1, <2>3, Zenon DEF StopTransport, Interrupt
    <3> QED
      BY <1>2, <2>1, <3>1, TransportsFacts DEF NextTransport
  <2>4. CASE CloseConnection \/ Shutdown
    BY <1>2, <2>1, <2>4 DEF CloseConnection, Shutdown
  <2> QED
    BY <2>2, <2>3, <2>4 DEF Lifecycle
<1> QED
  BY <1>1, <1>3 DEF TypeOK, configVars, requestVars, serviceVars, metricVars

LEMMA TypeNext == TypeOK /\ [Next]_vars => TypeOK'
<1> SUFFICES ASSUME TypeOK, [Next]_vars PROVE TypeOK'
  OBVIOUS
<1>1. CASE NewWindow
  <2>1. now' \in 0 .. MaxWindow /\ used' \in [Tenants -> Nat]
    <3>1. now \in 0 .. MaxWindow
      BY DEF TypeOK
    <3> QED
      BY <1>1, <3>1, Bounds DEF NewWindow
  <2> QED
    BY <1>1, <2>1 DEF TypeOK, NewWindow, receiverVars, configVars, requestVars,
       metricVars
<1>2. CASE UNCHANGED vars
  BY <1>2 DEF TypeOK, vars, receiverVars, configVars, requestVars, serviceVars,
     metricVars
<1> QED
  BY <1>1, <1>2, RequestStepType, LifecycleType DEF Next, OwnStep

(* The state is what its declarations say.                                   *)
THEOREM PipelineTypeCorrect == Spec => []TypeOK
BY TypeInit, TypeNext, PTL DEF Spec

-----------------------------------------------------------------------------
(* The quota.                                                                *)

(* The spans of the requests of tenant t that were admitted in window w, when*)
(* ans and win are the answers and their windows.                            *)
Charged(h, t) == {r \in Requests : Len(Headers(r, h)) = 1 /\ Headers(r, h)[1] = t}
Admitted(h, ans, win, t, w) == {r \in Charged(h, t) : ans[r] = "ok" /\ win[r] = w}
Load(h, ans, win, t, w) == SumFunctionOnSet(SpanCount, Admitted(h, ans, win, t, w))

LEMMA ChargedIs ==
    /\ \A t : ChargedTo(t) = Charged(limitHeader, t)
    /\ \A t, r : r \in Charged(limitHeader, t) <=>
                   r \in Requests /\ IsLimited(r) /\ t = Payer(r)
BY DEF ChargedTo, Charged, IsLimited, Payer

LEMMA LoadNat == ASSUME NEW h, NEW ans, NEW win, NEW t, NEW w PROVE Load(h, ans, win, t, w) \in Nat
BY SumFacts DEF Load, Admitted, Charged

LEMMA LoadSame ==
    ASSUME NEW h, NEW ans, NEW win, NEW ans2, NEW win2, NEW t, NEW w,
           \A q \in Charged(h, t) :
               ans2[q] = "ok" /\ win2[q] = w <=> ans[q] = "ok" /\ win[q] = w
    PROVE  Load(h, ans2, win2, t, w) = Load(h, ans, win, t, w)
<1>1. Admitted(h, ans2, win2, t, w) = Admitted(h, ans, win, t, w)
  BY DEF Admitted
<1> QED
  BY <1>1 DEF Load

(* The service has counted what it admitted in its window, within the quota  *)
(* in each window; and nobody was admitted in a window that is still to come.*)
QuotaInv ==
    /\ \A t \in Tenants : Load(limitHeader, answer, window, t, now) <= used[t]
    /\ \A t \in Tenants, w \in 0 .. MaxWindow : Load(limitHeader, answer, window, t, w) <= Quota
    /\ \A r \in Requests : window[r] <= now

LEMMA QuotaInvSafe == QuotaInv => WithinQuota
<1> SUFFICES ASSUME QuotaInv, NEW t \in Tenants, NEW w \in 0 .. MaxWindow
             PROVE  SumFunctionOnSet(SpanCount,
                        Admitted(limitHeader, answer, window, t, w)) <= Quota
  BY ChargedIs DEF WithinQuota, Admitted
<1> QED
  BY DEF QuotaInv, Load

(* In a window in which nobody was admitted.                                 *)
LEMMA NoLoad ==
    ASSUME NEW h, NEW ans, NEW win, NEW t, NEW w,
           \A q \in Requests : ~(ans[q] = "ok" /\ win[q] = w)
    PROVE  Load(h, ans, win, t, w) = 0
<1>1. Admitted(h, ans, win, t, w) = {}
  BY DEF Admitted, Charged
<1> QED
  BY <1>1, SumFacts DEF Load

LEMMA QuotaInit == Init => QuotaInv
<1> SUFFICES ASSUME Init PROVE QuotaInv
  OBVIOUS
<1>1. \A r \in Requests : answer[r] = "none" /\ window[r] = 0
  BY DEF Init
<1>2. \A t, w : Load(limitHeader, answer, window, t, w) = 0
  BY <1>1, NoLoad
<1>3. now = 0 /\ \A t \in Tenants : used[t] = 0
  BY DEF Init
<1> QED
  BY <1>1, <1>2, <1>3, Bounds DEF QuotaInv

LEMMA QuotaAnswer ==
    ASSUME TypeOK, RequestsInv, QuotaInv, NEW r \in Requests, ShouldRateLimit(r)
    PROVE  QuotaInv'
<1> DEFINE u == Payer(r)
           ok == used'[u] <= Quota
<1>0. UNCHANGED limitHeader
  BY DEF ShouldRateLimit, configVars
<1>1. IsLimited(r) /\ u \in Tenants
  BY PayerType DEF ShouldRateLimit, RequestsInv, RequestInv, TypeOK
<1>2. /\ SpanCount[r] \in Nat
      /\ used \in [Tenants -> Nat]
      /\ now \in 0 .. MaxWindow
      /\ answer \in [Requests -> {"none", "ok", "overLimit", "failed"}]
      /\ window \in [Requests -> 0 .. MaxWindow]
  BY SumFacts DEF TypeOK
<1>3. /\ used'[u] = used[u] + SpanCount[r]
      /\ \A t \in Tenants : t # u => used'[t] = used[t]
  BY <1>1, <1>2 DEF ShouldRateLimit, HitsAddend
<1>4. /\ \A q \in Requests \ {r} : answer'[q] = answer[q] /\ window'[q] = window[q]
      /\ answer[r] = "none"
      /\ window'[r] = now
      /\ now' = now
  BY <1>2 DEF ShouldRateLimit
<1>5. /\ SpanCount[r] \in Nat
      /\ used[u] \in Nat
      /\ used'[u] = used[u] + SpanCount[r]
  BY <1>1, <1>2, <1>3
<1>6. answer'[r] = IF used'[u] > Quota THEN "overLimit" ELSE "ok"
  BY <1>2 DEF ShouldRateLimit
<1>7. Charged(limitHeader, u) \subseteq Requests /\ r \in Charged(limitHeader, u)
  BY <1>1, ChargedIs
<1>8. \A t : r \in Charged(limitHeader, t) => t = u
  BY ChargedIs
<1>9. now \in Int /\ u \in Tenants
  <2>1. now \in 0 .. MaxWindow
    BY <1>2
  <2> QED
    BY <1>1, <2>1
<1> HIDE DEF u
<1>10. used'[u] \in Nat /\ used[u] <= used'[u]
  BY <1>5
<1>11. answer'[r] = "ok" <=> ok
  <2>1. used'[u] > Quota <=> ~ok
    BY <1>10, Bounds
  <2> HIDE DEF ok
  <2> QED
    BY <1>6, <2>1
<1>12. /\ \A t \in Tenants : Load(limitHeader, answer, window, t, now) <= used[t]
       /\ \A t \in Tenants, w \in 0 .. MaxWindow : Load(limitHeader, answer, window, t, w) <= Quota
       /\ \A q \in Requests : window[q] <= now
  BY DEF QuotaInv
<1>13. ASSUME ok
       PROVE  Load(limitHeader, answer', window', u, now)
                  = Load(limitHeader, answer, window, u, now) + SpanCount[r]
  <2>1. answer[r] # "ok" /\ answer'[r] = "ok" /\ window'[r] = now
    BY <1>4, <1>11, <1>13
  <2>2. \A q \in Charged(limitHeader, u) \ {r} : answer'[q] = answer[q] /\ window'[q] = window[q]
    BY <1>4, <1>7
  <2> DEFINE S == Admitted(limitHeader, answer, window, u, now)
  <2>3. Admitted(limitHeader, answer', window', u, now) = S \cup {r}
    BY <1>7, <2>1, <2>2 DEF Admitted
  <2>4. S \in SUBSET Requests /\ r \in Requests \ S
    BY <1>7, <2>1 DEF Admitted
  <2> HIDE DEF ok, S
  <2> QED
    BY <2>3, <2>4, SumFacts DEF Load, S
<1>14. ASSUME NEW t \in Tenants, NEW w, t # u \/ w # now \/ ~ok
       PROVE  Load(limitHeader, answer', window', t, w) = Load(limitHeader, answer, window, t, w)
  <2>1. \A q \in Charged(limitHeader, t) : q \in Requests /\ (q = r => t = u)
    BY <1>8 DEF Charged
  <2>2. \A q \in Charged(limitHeader, t) :
            answer'[q] = "ok" /\ window'[q] = w <=> answer[q] = "ok" /\ window[q] = w
    BY <1>4, <1>11, <1>14, <2>1
  <2> QED
    BY <2>2, LoadSame
<1>15. ASSUME NEW t \in Tenants PROVE Load(limitHeader, answer', window', t, now) <= used'[t]
  <2>1. Load(limitHeader, answer, window, t, now) \in Nat
            /\ Load(limitHeader, answer, window, t, now) <= used[t]
    BY <1>12, LoadNat
  <2>2. CASE t = u /\ ok
    <3>1. Load(limitHeader, answer', window', u, now)
              = Load(limitHeader, answer, window, u, now) + SpanCount[r]
      BY <1>13, <2>2
    <3> QED
      BY <1>5, <2>1, <2>2, <3>1
  <2>3. CASE t = u /\ ~ok
    <3>1. Load(limitHeader, answer', window', u, now) = Load(limitHeader, answer, window, u, now)
      BY <1>9, <1>14, <2>3
    <3> QED
      BY <1>5, <1>10, <2>1, <2>3, <3>1
  <2>4. CASE t # u
    <3>1. Load(limitHeader, answer', window', t, now) = Load(limitHeader, answer, window, t, now)
      BY <1>14, <2>4
    <3> QED
      BY <1>3, <2>1, <2>4, <3>1
  <2> QED
    BY <2>2, <2>3, <2>4
<1>16. ASSUME NEW t \in Tenants, NEW w \in 0 .. MaxWindow
       PROVE  Load(limitHeader, answer', window', t, w) <= Quota
  <2>1. CASE t = u /\ w = now /\ ok
    <3>1. Load(limitHeader, answer', window', u, now) <= used'[u]
      BY <1>9, <1>15
    <3>2. Load(limitHeader, answer', window', u, now) \in Nat
      BY LoadNat
    <3> QED
      BY <1>10, <2>1, <3>1, <3>2, Bounds
  <2>2. CASE t # u \/ w # now \/ ~ok
    BY <1>12, <1>14, <2>2
  <2> QED
    BY <2>1, <2>2
<1>17. \A q \in Requests : window'[q] <= now'
  <2>1. now <= now
    BY <1>9
  <2> QED
    BY <1>4, <1>12, <2>1
<1> QED
  BY <1>0, <1>4, <1>15, <1>16, <1>17 DEF QuotaInv

(* An answer that admits nothing, or no answer at all.                       *)
LEMMA QuotaNoAnswer ==
    ASSUME TypeOK, QuotaInv, UNCHANGED <<window, now, limitHeader>>,
           \A q \in Requests : answer'[q] = "ok" <=> answer[q] = "ok",
           \A t \in Tenants : used'[t] \in Nat /\ used[t] <= used'[t]
    PROVE  QuotaInv'
<1>1. ASSUME NEW t, NEW w
      PROVE  Load(limitHeader, answer', window', t, w) = Load(limitHeader, answer, window, t, w)
  <2>1. \A q \in Charged(limitHeader, t) :
            answer'[q] = "ok" /\ window'[q] = w <=> answer[q] = "ok" /\ window[q] = w
    BY DEF Charged
  <2> QED
    BY <2>1, LoadSame
<1>2. ASSUME NEW t \in Tenants PROVE Load(limitHeader, answer', window', t, now') <= used'[t]
  <2>1. used[t] \in Nat /\ Load(limitHeader, answer, window, t, now) \in Nat
    BY LoadNat DEF TypeOK
  <2>2. Load(limitHeader, answer, window, t, now) <= used[t]
    BY DEF QuotaInv
  <2>3. Load(limitHeader, answer', window', t, now') = Load(limitHeader, answer, window, t, now)
    BY <1>1
  <2> QED
    BY <2>1, <2>2, <2>3
<1> QED
  BY <1>1, <1>2 DEF QuotaInv

LEMMA QuotaNewWindow ==
    ASSUME TypeOK, QuotaInv, NewWindow
    PROVE  QuotaInv'
<1>1. /\ now \in 0 .. MaxWindow
      /\ window \in [Requests -> 0 .. MaxWindow]
      /\ now' = now + 1
      /\ \A t \in Tenants : used'[t] = 0
      /\ UNCHANGED <<answer, window>>
      /\ \A q \in Requests : window[q] <= now
  BY DEF TypeOK, NewWindow, requestVars, QuotaInv
<1>2. \A q \in Requests : window[q] \in Nat /\ window[q] < now'
  BY <1>1, Bounds
<1>3. \A q \in Requests : window'[q] <= now' /\ ~(answer'[q] = "ok" /\ window'[q] = now')
  BY <1>1, <1>2, Bounds
<1>4. \A t \in Tenants : Load(limitHeader, answer', window', t, now') = 0
  BY <1>3, NoLoad
<1>5. \A t \in Tenants, w \in 0 .. MaxWindow : Load(limitHeader, answer', window', t, w) <= Quota
  BY <1>1 DEF QuotaInv
<1>6. UNCHANGED limitHeader
  BY DEF NewWindow, configVars
<1> QED
  BY <1>1, <1>6, <1>3, <1>4, <1>5 DEF QuotaInv

LEMMA QuotaNext == TypeOK /\ RequestsInv /\ QuotaInv /\ [Next]_vars => QuotaInv'
<1> SUFFICES ASSUME TypeOK, RequestsInv, QuotaInv, [Next]_vars PROVE QuotaInv'
  OBVIOUS
<1>1. \A t \in Tenants : used[t] \in Nat /\ used[t] <= used[t]
  <2>1. used \in [Tenants -> Nat]
    BY DEF TypeOK
  <2>2. \A t \in Tenants : used[t] \in Nat
    BY <2>1
  <2>3. \A n \in Nat : n <= n
    OBVIOUS
  <2> QED
    BY <2>2, <2>3
<1>2. CASE UNCHANGED <<answer, window, now, used>>
  BY <1>1, <1>2, HeaderSame, QuotaNoAnswer
<1>3. ASSUME NEW r \in Requests, CallFails(r) PROVE QuotaInv'
  <2>1. \A t \in Tenants : used'[t] \in Nat /\ used[t] <= used'[t]
    <3>1. SpanCount[r] \in Nat /\ used \in [Tenants -> Nat]
      BY SumFacts DEF TypeOK
    <3>2. PICK hits \in {0, SpanCount[r]} : used' = [used EXCEPT ![Payer(r)] = @ + hits]
      BY <1>3 DEF CallFails, HitsAddend
    <3> QED
      BY <3>1, <3>2
  <2>2. \A q \in Requests : answer'[q] = "ok" <=> answer[q] = "ok"
    BY <1>3 DEF CallFails, TypeOK
  <2> QED
    BY <1>3, <2>1, <2>2, HeaderSame, QuotaNoAnswer DEF CallFails
<1>4. ASSUME NEW r \in Requests,
             Accept(r) \/ Process(r)
      PROVE  UNCHANGED <<answer, window, now, used>>
  BY <1>4 DEF Accept, Process, AddTenantId, AskRateLimit, Decide, CountSpans,
     NextConsumer, serviceVars
<1>5. CASE Lifecycle \/ Shutdown \/ Interrupt \/ UNCHANGED vars
  BY <1>2, <1>5 DEF Lifecycle, Start, StopTransport, CloseConnection, Shutdown, Interrupt,
     vars, requestVars, serviceVars
<1> QED
  BY <1>2, <1>3, <1>4, <1>5, QuotaAnswer, QuotaNewWindow DEF Next, Service

(* However many requests that are charged to a tenant are on their way at the*)
(* same time, in a window no more of their spans are admitted than its quota.*)
THEOREM QuotaKept == Spec => []WithinQuota
<1>1. Init => Shape /\ TypeOK /\ RequestsInv /\ QuotaInv
  BY ShapeInit, TypeInit, QuotaInit DEF Init, RequestsInv, RequestInv
<1>2. Shape /\ TypeOK /\ RequestsInv /\ QuotaInv /\ [Next]_vars
          => (Shape /\ TypeOK /\ RequestsInv /\ QuotaInv)'
  BY ShapeNext, TypeNext, RequestsInvNext, QuotaNext
<1> QED
  BY <1>1, <1>2, QuotaInvSafe, PTL DEF Spec

-----------------------------------------------------------------------------
(* The accounts of a tenant.                                                 *)

(* What became of a request, when the state of it is where, what and ans.    *)
Drops(what, r) == what[r] = "overLimit"
Keeps(where, what, r) ==
    where[r] \in {"limit", "asked", "count", "next"} \/ what[r] \in {"delivered", "refused"}
Asks(where, ans, r) == where[r] = "asked" \/ ans[r] # "none"

DroppedFor(h, what, t) == {r \in Charged(h, t) : Drops(what, r)}
DroppedOf(what, t) == {r \in RequestsOf(t) : Drops(what, r)}
KeptOf(where, what, t) == {r \in RequestsOf(t) : Keeps(where, what, r)}
AskedFor(h, where, ans, t) == {r \in Charged(h, t) : Asks(where, ans, r)}

(* The three accounts of a tenant.                                           *)
OverLimits(t) ==
    overLimit[t] = SumFunctionOnSet(SpanCount, DroppedFor(limitHeader, outcome, t))

Receipts(t) ==
    received[t] = SumFunctionOnSet(SpanCount, DroppedOf(outcome, t))
                    + SumFunctionOnSet(SpanCount, KeptOf(pc, outcome, t))

Calls(t) == calls[t] = Cardinality(AskedFor(limitHeader, pc, answer, t))

Accounts(t) == OverLimits(t) /\ Receipts(t) /\ Calls(t)

LEMMA AccountsSafe == (\A t \in Tenants : Accounts(t)) => SpansAccountedFor
<1> SUFFICES ASSUME NEW t \in Tenants, Accounts(t)
             PROVE  SpansAccountedFor!(t)
  BY DEF SpansAccountedFor
<1>1. RequestsOf(t) \subseteq Requests /\ Charged(limitHeader, t) \subseteq Requests
  BY DEF RequestsOf, Charged
<1>2. /\ RequestsOf(t) \cap {r \in Requests : outcome[r] = "overLimit"}
             = DroppedOf(outcome, t)
      /\ ChargedTo(t) \cap {r \in Requests : outcome[r] = "overLimit"}
             = DroppedFor(limitHeader, outcome, t)
  BY <1>1, ChargedIs DEF DroppedOf, DroppedFor, Drops
<1>3. RequestsOf(t) \cap {r \in Requests :
                \/ pc[r] \in {"limit", "asked", "count", "next"}
                \/ outcome[r] \in {"delivered", "refused"}}
          = KeptOf(pc, outcome, t)
  BY <1>1 DEF KeptOf, Keeps
<1>4. ChargedTo(t) \cap {r \in Requests : pc[r] = "asked" \/ answer[r] # "none"}
          = AskedFor(limitHeader, pc, answer, t)
  BY <1>1, ChargedIs DEF AskedFor, Asks
<1> QED
  BY <1>2, <1>3, <1>4 DEF Accounts, OverLimits, Receipts, Calls

LEMMA AccountsInit == Init => \A t \in Tenants : Accounts(t)
<1> SUFFICES ASSUME Init, NEW t \in Tenants PROVE Accounts(t)
  OBVIOUS
<1>1. /\ DroppedFor(limitHeader, outcome, t) = {}
      /\ DroppedOf(outcome, t) = {}
      /\ KeptOf(pc, outcome, t) = {}
      /\ AskedFor(limitHeader, pc, answer, t) = {}
  BY DEF Init, DroppedFor, DroppedOf, KeptOf, AskedFor, Drops, Keeps, Asks, RequestsOf,
         Charged
<1>2. SumFunctionOnSet(SpanCount, {}) = 0 /\ Cardinality({}) = 0
  BY SumFacts, FS_EmptySet
<1>3. overLimit[t] = 0 /\ received[t] = 0 /\ calls[t] = 0
  BY DEF Init
<1> QED
  BY <1>1, <1>2, <1>3 DEF Accounts, OverLimits, Receipts, Calls

(* What leaves the requests of an account and its metric alone.              *)
LEMMA OverLimitsSame ==
    ASSUME UNCHANGED limitHeader, NEW t \in Tenants, OverLimits(t),
           \A q \in Charged(limitHeader, t) : Drops(outcome', q) <=> Drops(outcome, q),
           overLimit'[t] = overLimit[t]
    PROVE  OverLimits(t)'
<1>1. DroppedFor(limitHeader, outcome', t) = DroppedFor(limitHeader, outcome, t)
  BY DEF DroppedFor
<1> QED
  BY <1>1 DEF OverLimits

LEMMA ReceiptsSame ==
    ASSUME NEW t \in Tenants, Receipts(t),
           \A q \in RequestsOf(t) :
              /\ Drops(outcome', q) <=> Drops(outcome, q)
              /\ Keeps(pc', outcome', q) <=> Keeps(pc, outcome, q),
           received'[t] = received[t]
    PROVE  Receipts(t)'
<1>1. /\ DroppedOf(outcome', t) = DroppedOf(outcome, t)
      /\ KeptOf(pc', outcome', t) = KeptOf(pc, outcome, t)
  BY DEF DroppedOf, KeptOf
<1> QED
  BY <1>1 DEF Receipts

LEMMA CallsSame ==
    ASSUME UNCHANGED limitHeader, NEW t \in Tenants, Calls(t),
           \A q \in Charged(limitHeader, t) : Asks(pc', answer', q) <=> Asks(pc, answer, q),
           calls'[t] = calls[t]
    PROVE  Calls(t)'
<1>1. AskedFor(limitHeader, pc', answer', t) = AskedFor(limitHeader, pc, answer, t)
  BY DEF AskedFor
<1> QED
  BY <1>1 DEF Calls

LEMMA SpansAdd ==
    ASSUME NEW S, S \subseteq Requests, NEW r \in Requests, r \notin S
    PROVE  /\ SumFunctionOnSet(SpanCount, S \cup {r})
                  = SumFunctionOnSet(SpanCount, S) + SpanCount[r]
           /\ SumFunctionOnSet(SpanCount, S) \in Nat
           /\ SpanCount[r] \in Nat
BY SumFacts

LEMMA RequestFacts ==
    ASSUME RequestsInv, NEW r \in Requests
    PROVE  /\ pc[r] # "answered" => outcome[r] = "none"
           /\ pc[r] \in {"new", "tenant", "limit"} => answer[r] = "none"
           /\ pc[r] \in {"limit", "asked", "count", "next"} => OwnTenant(r)
           /\ pc[r] = "asked" => IsLimited(r)
BY DEF RequestsInv, RequestInv

(* A request is received.                                                    *)
LEMMA ReceiptsReceived ==
    ASSUME Shape, TypeOK, RequestsInv, NEW r \in Requests, NEW t \in Tenants, Receipts(t),
           AddTenantId(r), HasOneTenant(r), t = Tenant(r)
    PROVE  Receipts(t)'
<1>1. /\ pc \in [Requests -> Stages]
      /\ pc[r] = "tenant" /\ outcome[r] = "none"
      /\ r \in RequestsOf(t) /\ RequestsOf(t) \subseteq Requests
  BY RequestFacts DEF Shape, Stages, AddTenantId, RequestsOf
<1>2. UNCHANGED outcome
  BY DEF AddTenantId
<1>3. pc' = [pc EXCEPT ![r] = "limit"]
  BY DEF AddTenantId, Goes
<1>4. /\ KeptOf(pc', outcome', t) = KeptOf(pc, outcome, t) \cup {r}
      /\ r \notin KeptOf(pc, outcome, t)
      /\ KeptOf(pc, outcome, t) \subseteq Requests
  BY <1>1, <1>2, <1>3 DEF KeptOf, Keeps
<1>5. DroppedOf(outcome', t) = DroppedOf(outcome, t)
  BY <1>2
<1>6. received'[t] = received[t] + SpanCount[r]
  <2>1. received \in [Tenants -> Nat]
    BY DEF TypeOK
  <2> QED
    BY <2>1 DEF AddTenantId
<1>7. SumFunctionOnSet(SpanCount, DroppedOf(outcome, t)) \in Nat
  BY <1>1, SumFacts DEF DroppedOf
<1>8. /\ SumFunctionOnSet(SpanCount, KeptOf(pc', outcome', t))
              = SumFunctionOnSet(SpanCount, KeptOf(pc, outcome, t)) + SpanCount[r]
      /\ SumFunctionOnSet(SpanCount, KeptOf(pc, outcome, t)) \in Nat
      /\ SpanCount[r] \in Nat
  BY <1>4, SpansAdd
<1>9. received'[t] = SumFunctionOnSet(SpanCount, DroppedOf(outcome', t))
                       + SumFunctionOnSet(SpanCount, KeptOf(pc', outcome', t))
  BY <1>5, <1>6, <1>7, <1>8 DEF Receipts
<1> QED
  BY <1>9 DEF Receipts

(* The service is asked.                                                     *)
LEMMA CallsAsked ==
    ASSUME Shape, TypeOK, RequestsInv, NEW r \in Requests, NEW t \in Tenants, Calls(t),
           AskRateLimit(r), IsLimited(r), t = Payer(r)
    PROVE  Calls(t)'
<1>1. /\ pc \in [Requests -> Stages]
      /\ pc[r] = "limit" /\ answer[r] = "none"
      /\ r \in Charged(limitHeader, t)
      /\ Charged(limitHeader, t) \subseteq Requests
  BY RequestFacts, ChargedIs DEF Shape, Stages, AskRateLimit
<1>2. UNCHANGED <<answer, limitHeader>>
  BY DEF AskRateLimit, configVars
<1>3. pc' = [pc EXCEPT ![r] = "asked"]
  BY DEF AskRateLimit, Goes
<1> DEFINE S == AskedFor(limitHeader, pc, answer, t)
<1>4. /\ AskedFor(limitHeader, pc', answer', t) = S \cup {r}
      /\ r \notin S /\ S \subseteq Requests
  BY <1>1, <1>2, <1>3 DEF AskedFor, Asks
<1>5. calls'[t] = calls[t] + 1
  <2>1. calls \in [Tenants -> Nat]
    BY DEF TypeOK
  <2> QED
    BY <2>1 DEF AskRateLimit
<1>6. IsFiniteSet(S)
  BY <1>4, SumFacts, FS_Subset
<1>7. Cardinality(AskedFor(limitHeader, pc', answer', t)) = Cardinality(S) + 1
  BY <1>4, <1>6, FS_AddElement
<1> QED
  BY <1>2, <1>5, <1>7 DEF Calls

(* A request is dropped: what that does to it,                               *)
LEMMA DropFacts ==
    ASSUME Shape, RequestsInv, NEW r \in Requests, Decide(r), answer[r] = "overLimit"
    PROVE  /\ pc[r] = "asked" /\ outcome[r] = "none" /\ IsLimited(r)
           /\ pc'[r] = "answered" /\ outcome'[r] = "overLimit"
           /\ \A q \in Requests \ {r} : pc'[q] = pc[q] /\ outcome'[q] = outcome[q]
           /\ UNCHANGED <<answer, received, calls, limitHeader>>
<1>1. pc[r] = "asked" /\ outcome[r] = "none" /\ IsLimited(r)
  BY RequestFacts DEF Decide
<1>2. /\ pc' = [pc EXCEPT ![r] = "answered"]
      /\ outcome' = [outcome EXCEPT ![r] = "overLimit"]
      /\ UNCHANGED <<answer, received, calls, limitHeader>>
  BY DEF Decide, Answers, Goes, configVars
<1> QED
  BY <1>1, <1>2 DEF Shape

(* to the account of whom it is charged to,                                  *)
LEMMA OverLimitsDropped ==
    ASSUME Shape, TypeOK, RequestsInv, NEW r \in Requests, NEW t \in Tenants, OverLimits(t),
           Decide(r), answer[r] = "overLimit", t = Payer(r)
    PROVE  OverLimits(t)'
<1> DEFINE S == DroppedFor(limitHeader, outcome, t)
<1>1. r \in Charged(limitHeader, t) /\ Charged(limitHeader, t) \subseteq Requests
  BY DropFacts, ChargedIs
<1>2. /\ DroppedFor(limitHeader, outcome', t) = S \cup {r}
      /\ r \notin S /\ S \subseteq Requests
  BY <1>1, DropFacts DEF DroppedFor, Drops
<1>3. overLimit'[t] = overLimit[t] + SpanCount[r]
  <2>1. overLimit \in [Tenants -> Nat]
    BY DEF TypeOK
  <2> QED
    BY <2>1 DEF Decide
<1>4. SumFunctionOnSet(SpanCount, DroppedFor(limitHeader, outcome', t))
          = SumFunctionOnSet(SpanCount, S) + SpanCount[r]
  BY <1>2, SpansAdd
<1>5. UNCHANGED limitHeader
  BY DropFacts
<1> QED
  BY <1>3, <1>4, <1>5 DEF OverLimits

(* and to that of its tenant.                                                *)
LEMMA ReceiptsDropped ==
    ASSUME Shape, RequestsInv, NEW r \in Requests, NEW t \in Tenants, Receipts(t),
           Decide(r), answer[r] = "overLimit", HasOneTenant(r), t = Tenant(r)
    PROVE  Receipts(t)'
<1>1. r \in RequestsOf(t) /\ RequestsOf(t) \subseteq Requests
  BY DEF RequestsOf
<1>2. /\ KeptOf(pc, outcome, t) = KeptOf(pc', outcome', t) \cup {r}
      /\ r \notin KeptOf(pc', outcome', t)
      /\ KeptOf(pc', outcome', t) \subseteq Requests
  BY <1>1, DropFacts DEF KeptOf, Keeps
<1>3. /\ DroppedOf(outcome', t) = DroppedOf(outcome, t) \cup {r}
      /\ r \notin DroppedOf(outcome, t)
      /\ DroppedOf(outcome, t) \subseteq Requests
  BY <1>1, DropFacts DEF DroppedOf, Drops
<1>4. /\ SumFunctionOnSet(SpanCount, KeptOf(pc, outcome, t))
              = SumFunctionOnSet(SpanCount, KeptOf(pc', outcome', t)) + SpanCount[r]
      /\ SumFunctionOnSet(SpanCount, KeptOf(pc', outcome', t)) \in Nat
      /\ SpanCount[r] \in Nat
  BY <1>2, SpansAdd
<1>5. /\ SumFunctionOnSet(SpanCount, DroppedOf(outcome', t))
              = SumFunctionOnSet(SpanCount, DroppedOf(outcome, t)) + SpanCount[r]
      /\ SumFunctionOnSet(SpanCount, DroppedOf(outcome, t)) \in Nat
  BY <1>3, SpansAdd
<1>6. received'[t] = SumFunctionOnSet(SpanCount, DroppedOf(outcome', t))
                       + SumFunctionOnSet(SpanCount, KeptOf(pc', outcome', t))
  <2>1. received[t] = SumFunctionOnSet(SpanCount, DroppedOf(outcome, t))
                       + SumFunctionOnSet(SpanCount, KeptOf(pc, outcome, t))
    BY DEF Receipts
  <2>2. received'[t] = received[t]
    BY DropFacts
  <2>3. \A d, k, n \in Nat : d + (k + n) = (d + n) + k
    OBVIOUS
  <2> QED
    BY <1>4, <1>5, <2>1, <2>2, <2>3
<1> QED
  BY <1>6 DEF Receipts

(* The other steps of a request drop, keep and ask nothing.                  *)
LEMMA FateSame ==
    ASSUME Shape, RequestsInv, NEW r \in Requests, OwnStep(r)
    PROVE  /\ ~(Decide(r) /\ answer[r] = "overLimit") =>
                  /\ Drops(outcome', r) <=> Drops(outcome, r)
                  /\ ~(AddTenantId(r) /\ HasOneTenant(r)) =>
                         (Keeps(pc', outcome', r) <=> Keeps(pc, outcome, r))
           /\ ~(AskRateLimit(r) /\ IsLimited(r)) =>
                  (Asks(pc', answer', r) <=> Asks(pc, answer, r))
<1> USE DEF Shape, Goes, Answers, Drops, Keeps, Asks
<1>1. /\ pc[r] # "answered" => outcome[r] = "none"
      /\ pc[r] \in {"new", "tenant", "limit"} => answer[r] = "none"
  BY RequestFacts
<1>2. CASE Accept(r)
  BY <1>1, <1>2 DEF Accept
<1>3. CASE AddTenantId(r)
  BY <1>1, <1>3 DEF AddTenantId
<1>4. CASE AskRateLimit(r)
  BY <1>1, <1>4 DEF AskRateLimit
<1>5. CASE Decide(r)
  BY <1>1, <1>5 DEF Decide
<1>6. CASE CountSpans(r) \/ NextConsumer(r)
  BY <1>1, <1>6 DEF CountSpans, NextConsumer
<1>7. CASE Service(r)
  BY <1>1, <1>7 DEF Service, ShouldRateLimit, CallFails
<1> QED
  BY <1>2, <1>3, <1>4, <1>5, <1>6, <1>7 DEF OwnStep, Process

(* Only these steps touch the metrics, each that of one tenant.              *)
LEMMA MetricsTouched ==
    ASSUME TypeOK, NEW r \in Requests, OwnStep(r), NEW t \in Tenants
    PROVE  /\ ~(Decide(r) /\ answer[r] = "overLimit" /\ t = Payer(r))
                  => overLimit'[t] = overLimit[t]
           /\ ~(AddTenantId(r) /\ HasOneTenant(r) /\ t = Tenant(r)) => received'[t] = received[t]
           /\ ~(AskRateLimit(r) /\ IsLimited(r) /\ t = Payer(r)) => calls'[t] = calls[t]
<1>1. /\ received \in [Tenants -> Nat] /\ calls \in [Tenants -> Nat]
      /\ overLimit \in [Tenants -> Nat]
  BY DEF TypeOK
<1>2. CASE AddTenantId(r)
  BY <1>1, <1>2 DEF AddTenantId
<1>3. CASE AskRateLimit(r)
  BY <1>1, <1>3 DEF AskRateLimit
<1>4. CASE Decide(r)
  BY <1>1, <1>4 DEF Decide
<1>5. CASE Accept(r) \/ CountSpans(r) \/ NextConsumer(r) \/ Service(r)
  BY <1>5 DEF Accept, CountSpans, NextConsumer, Service, ShouldRateLimit, CallFails, metricVars
<1> QED
  BY <1>2, <1>3, <1>4, <1>5 DEF OwnStep, Process

LEMMA AccountsNext ==
    ASSUME Shape, TypeOK, RequestsInv, [Next]_vars, NEW t \in Tenants, Accounts(t)
    PROVE  Accounts(t)'
<1> USE DEF Accounts
<1>0. UNCHANGED limitHeader
  BY HeaderSame
<1>1. CASE NewWindow \/ Lifecycle \/ Shutdown \/ Interrupt \/ UNCHANGED vars
  <2>1. UNCHANGED <<pc, answer, outcome, received, calls, overLimit>>
    BY <1>1, OtherSteps DEF metricVars
  <2> QED
    BY <1>0, <2>1, OverLimitsSame, ReceiptsSame, CallsSame DEF Drops, Keeps, Asks
<1>2. ASSUME NEW r \in Requests, OwnStep(r) PROVE Accounts(t)'
  <2> USE <1>2
  <2>1. ASSUME NEW q \in Requests, q # r
        PROVE  /\ Drops(outcome', q) <=> Drops(outcome, q)
               /\ Keeps(pc', outcome', q) <=> Keeps(pc, outcome, q)
               /\ Asks(pc', answer', q) <=> Asks(pc, answer, q)
    <3>1. LeavesAlone(q)
      BY <2>1, Frame
    <3> QED
      BY <3>1 DEF LeavesAlone, Drops, Keeps, Asks
  <2>2. /\ \A q \in Charged(limitHeader, t) : q \in Requests /\ IsLimited(q) /\ t = Payer(q)
        /\ \A q \in RequestsOf(t) : q \in Requests /\ HasOneTenant(q) /\ t = Tenant(q)
    BY ChargedIs DEF RequestsOf
  <2>3. OverLimits(t)'
    <3>1. CASE Decide(r) /\ answer[r] = "overLimit" /\ t = Payer(r)
      BY <3>1, OverLimitsDropped
    <3>2. CASE ~(Decide(r) /\ answer[r] = "overLimit" /\ t = Payer(r))
      <4>1. overLimit'[t] = overLimit[t]
        BY <3>2, MetricsTouched
      <4>2. \A q \in Charged(limitHeader, t) : Drops(outcome', q) <=> Drops(outcome, q)
        BY <2>1, <2>2, <3>2, FateSame
      <4> QED
        BY <1>0, <4>1, <4>2, OverLimitsSame
    <3> QED
      BY <3>1, <3>2
  <2>4. Receipts(t)'
    <3>1. CASE Decide(r) /\ answer[r] = "overLimit" /\ HasOneTenant(r) /\ t = Tenant(r)
      BY <3>1, ReceiptsDropped
    <3>2. CASE AddTenantId(r) /\ HasOneTenant(r) /\ t = Tenant(r)
      BY <3>2, ReceiptsReceived
    <3>3. CASE /\ ~(Decide(r) /\ answer[r] = "overLimit" /\ HasOneTenant(r) /\ t = Tenant(r))
               /\ ~(AddTenantId(r) /\ HasOneTenant(r) /\ t = Tenant(r))
      <4>1. received'[t] = received[t]
        BY <3>3, MetricsTouched
      <4>2. \A q \in RequestsOf(t) :
                /\ Drops(outcome', q) <=> Drops(outcome, q)
                /\ Keeps(pc', outcome', q) <=> Keeps(pc, outcome, q)
        BY <2>1, <2>2, <3>3, FateSame
      <4> QED
        BY <4>1, <4>2, ReceiptsSame
    <3> QED
      BY <3>1, <3>2, <3>3
  <2>5. Calls(t)'
    <3>1. CASE AskRateLimit(r) /\ IsLimited(r) /\ t = Payer(r)
      BY <3>1, CallsAsked
    <3>2. CASE ~(AskRateLimit(r) /\ IsLimited(r) /\ t = Payer(r))
      <4>1. calls'[t] = calls[t]
        BY <3>2, MetricsTouched
      <4>2. \A q \in Charged(limitHeader, t) : Asks(pc', answer', q) <=> Asks(pc, answer, q)
        BY <2>1, <2>2, <3>2, FateSame
      <4> QED
        BY <1>0, <4>1, <4>2, CallsSame
    <3> QED
      BY <3>1, <3>2
  <2> QED
    BY <2>3, <2>4, <2>5
<1> QED
  BY <1>1, <1>2 DEF Next, OwnStep

(* The metrics of a tenant agree with what became of its spans, whichever of *)
(* its requests are on their way.                                            *)
THEOREM MetricsAgree == Spec => []SpansAccountedFor
<1> DEFINE Inv == Shape /\ TypeOK /\ RequestsInv /\ \A t \in Tenants : Accounts(t)
<1>1. Init => Inv
  BY ShapeInit, TypeInit, AccountsInit DEF Init, RequestsInv, RequestInv
<1>2. Inv /\ [Next]_vars => Inv'
  BY ShapeNext, TypeNext, RequestsInvNext, AccountsNext
<1>3. Inv => SpansAccountedFor
  BY AccountsSafe
<1> QED
  BY <1>1, <1>2, <1>3, PTL DEF Spec

-----------------------------------------------------------------------------
(* The counts of spans.                                                      *)

LEMMA MeetingAre ==
    ASSUME NEW t, NEW traces, NEW l, NEW x
    PROVE  x \in Meeting(t, traces, l) <=>
               \E i \in DOMAIN traces :
                  \E c \in DOMAIN SpanConfigs(t, traces[i].service) :
                     \E k \in Matching(t, traces[i], c) :
                        /\ x = <<i, c, k>>
                        /\ SpanConfigs(t, traces[i].service)[c].label = l
BY DEF Meeting, Matching

LEMMA MeetingFinite ==
    ASSUME NEW t, NEW traces, IsSequence(traces),
           \A i \in DOMAIN traces : IsSequence(traces[i].spans), NEW l
    PROVE  /\ IsFiniteSet(Meeting(t, traces, l))
           /\ Cardinality(Meeting(t, traces, l)) \in Nat
<1> DEFINE spans(i) == DOMAIN traces[i].spans
           configs(i) == DOMAIN SpanConfigs(t, traces[i].service)
           E == [i \in DOMAIN traces |-> {i} \X configs(i) \X spans(i)]
<1>1. ASSUME NEW i \in DOMAIN traces PROVE IsFiniteSet({i} \X configs(i) \X spans(i))
  <2> DEFINE C == configs(i)
             K == spans(i)
             P == {i} \X C
             f == [x \in P \X K |-> <<x[1][1], x[1][2], x[2]>>]
  <2>1. IsFiniteSet({i}) /\ IsFiniteSet(C) /\ IsFiniteSet(K)
    BY SpanConfigsType, SequenceFacts, FS_Singleton
  <2> HIDE DEF C, K
  <2>2. IsFiniteSet(P \X K)
    BY <2>1, FS_Product
  <2>3. f \in Surjection(P \X K, {i} \X C \X K)
    <3>1. ASSUME NEW y \in {i} \X C \X K PROVE \E x \in P \X K : f[x] = y
      <4>1. <<<<y[1], y[2]>>, y[3]>> \in P \X K
        OBVIOUS
      <4>2. f[<<<<y[1], y[2]>>, y[3]>>] = y
        BY <4>1
      <4> QED
        BY <4>1, <4>2
    <3> QED
      BY <3>1 DEF Surjection
  <2> QED
    BY <2>2, <2>3, FS_Surjection DEF C, K
<1>2. IsFiniteSet(DOMAIN traces) /\ \A i \in DOMAIN traces : IsFiniteSet(E[i])
  BY <1>1, SequenceFacts
<1>3. IsFiniteSet(Together(E, DOMAIN traces))
  <2> HIDE DEF E
  <2> QED
    BY <1>2, FiniteUnion
<1>4. Meeting(t, traces, l) \subseteq Together(E, DOMAIN traces)
  BY DEF Meeting, Together
<1> QED
  BY <1>3, <1>4, FS_Subset, FS_CardinalityType

Triples(i, c, K) == {<<i, c, k>> : k \in K}

LEMMA SizeOfTriples ==
    ASSUME NEW K, IsFiniteSet(K), NEW i, NEW c
    PROVE  /\ IsFiniteSet(Triples(i, c, K))
           /\ Cardinality(Triples(i, c, K)) = Cardinality(K)
<1> USE DEF Triples
<1> DEFINE T == Triples(i, c, K)
           f == [k \in K |-> <<i, c, k>>]
<1>1. f \in [K -> T] /\ \A k, j \in K : f[k] = f[j] => k = j
  <2>1. \A k \in K : f[k] = <<i, c, k>>
    OBVIOUS
  <2>2. \A k, j \in K : <<i, c, k>> = <<i, c, j>> => k = j
    OBVIOUS
  <2>3. f \in [K -> T]
    OBVIOUS
  <2> HIDE DEF f
  <2> QED
    BY <2>1, <2>2, <2>3
<1>2. \A x \in T : \E k \in K : f[k] = x
  OBVIOUS
<1>3. f \in Bijection(K, T)
  <2> HIDE DEF f, T
  <2> QED
    BY <1>1, <1>2 DEF Bijection, Injection, IsInjective, Surjection
<1>4. ExistsBijection(K, T)
  BY <1>3 DEF ExistsBijection
<1> QED
  BY <1>4, FS_Bijection

(* The matches of a batch with the criteria of its tenant, counted by        *)
(* criterion and resource or by label.                                       *)
LEMMA TotalIsMet ==
    ASSUME NEW t, NEW traces, IsSequence(traces),
           \A i \in DOMAIN traces : IsSequence(traces[i].spans),
           NEW hits, DOMAIN hits = DOMAIN traces, Measurable(hits),
           \A i \in DOMAIN traces : hits[i] = ResourceHits(t, traces[i])
    PROVE  Total(hits) =
               SumFunction([l \in CriteriaLabels |-> Cardinality(Meeting(t, traces, l))])
<1> DEFINE triples(m) == Triples(m[1], m[2], Matching(t, traces[m[1]], m[2]))
           S == Measured(hits)
           E == [m \in S |-> triples(m)]
           F == [m \in S |-> hits[m[1]][m[2]].count]
           L == CriteriaLabels
           G == [l \in L |-> Meeting(t, traces, l)]
           H == [l \in L |-> Cardinality(Meeting(t, traces, l))]
           configs(i) == SpanConfigs(t, traces[i].service)
<1>1. ASSUME NEW i \in DOMAIN traces
      PROVE  /\ DOMAIN hits[i] = DOMAIN configs(i)
             /\ \A c \in DOMAIN configs(i) :
                   /\ hits[i][c].count = Cardinality(Matching(t, traces[i], c))
                   /\ IsFiniteSet(Matching(t, traces[i], c))
                   /\ Cardinality(Matching(t, traces[i], c)) \in Nat
                   /\ configs(i)[c].label \in L
  BY ResourceHitsAre, MatchingType, SpanConfigsType
<1>2. ASSUME NEW m
      PROVE  m \in S <=> \E i \in DOMAIN traces : \E c \in DOMAIN configs(i) :
                             m = <<i, c>> /\ Matching(t, traces[i], c) # {}
  <2>1. ASSUME NEW i \in DOMAIN traces, NEW c \in DOMAIN configs(i)
        PROVE  hits[i][c].count > 0 <=> Matching(t, traces[i], c) # {}
    <3>1. Cardinality(Matching(t, traces[i], c)) = 0 <=> Matching(t, traces[i], c) = {}
      BY <1>1, FS_EmptySet
    <3> HIDE DEF configs
    <3> QED
      BY <1>1, <3>1
  <2> HIDE DEF configs
  <2> QED
    BY <1>1, <2>1, MeasuredAre
<1>3. ASSUME NEW m \in S
      PROVE  /\ IsFiniteSet(E[m])
             /\ F[m] = Cardinality(E[m])
             /\ m = <<m[1], m[2]>>
  <2>1. PICK i \in DOMAIN traces : \E c \in DOMAIN configs(i) : m = <<i, c>>
    BY <1>2
  <2>2. PICK c \in DOMAIN configs(i) : m = <<i, c>>
    BY <2>1
  <2>3. m[1] = i /\ m[2] = c
    BY <2>2
  <2> DEFINE K == Matching(t, traces[i], c)
           T == Triples(i, c, K)
  <2>4. E[m] = T
    BY <2>3
  <2>5. F[m] = Cardinality(K) /\ IsFiniteSet(K)
    BY <1>1, <2>3
  <2>6. IsFiniteSet(T) /\ Cardinality(T) = Cardinality(K)
    <3> HIDE DEF K
    <3> QED
      BY <2>5, SizeOfTriples
  <2>7. m = <<m[1], m[2]>>
    BY <2>2
  <2> HIDE DEF E, F, K, T
  <2> QED
    BY <2>4, <2>5, <2>6, <2>7
<1>4. \A m, n \in S : m # n => E[m] \cap E[n] = {}
  <2> SUFFICES ASSUME NEW m \in S, NEW n \in S, NEW x \in E[m], x \in E[n] PROVE m = n
    OBVIOUS
  <2>1. x[1] = m[1] /\ x[2] = m[2] /\ x[1] = n[1] /\ x[2] = n[2]
    BY DEF Triples
  <2> QED
    BY <1>3, <2>1
<1>5. IsFiniteSet(S)
  BY DEF Measurable
<1>6. SumFunctionOnSet(F, S) = Cardinality(Together(E, S))
  <2>1. \A m \in S : IsFiniteSet(E[m]) /\ F[m] = Cardinality(E[m])
    BY <1>3
  <2> HIDE DEF E, F, S
  <2> QED
    BY <1>4, <1>5, <2>1, SumOfSizes
<1>7. \A l \in L : IsFiniteSet(G[l]) /\ H[l] = Cardinality(G[l])
  BY MeetingFinite
<1>8. \A l, k \in L : l # k => G[l] \cap G[k] = {}
  <2> SUFFICES ASSUME NEW l \in L, NEW k \in L, NEW x \in G[l], x \in G[k] PROVE l = k
    OBVIOUS
  <2>1. x \in Meeting(t, traces, l) /\ x \in Meeting(t, traces, k)
    OBVIOUS
  <2>2. configs(x[1])[x[2]].label = l /\ configs(x[1])[x[2]].label = k
    BY <2>1, MeetingAre
  <2> QED
    BY <2>2
<1>9. SumFunctionOnSet(H, L) = Cardinality(Together(G, L))
  <2>1. IsFiniteSet(L)
    BY LabelsFinite
  <2> HIDE DEF G, H, L
  <2> QED
    BY <1>7, <1>8, <2>1, SumOfSizes
<1>10. Together(E, S) = Together(G, L)
  <2>1. ASSUME NEW m \in S, NEW x \in E[m] PROVE \E l \in L : x \in G[l]
    <3>1. PICK i \in DOMAIN traces : \E c \in DOMAIN configs(i) : m = <<i, c>>
      BY <1>2
    <3>2. PICK c \in DOMAIN configs(i) : m = <<i, c>>
      BY <3>1
    <3>3. PICK k \in Matching(t, traces[i], c) : x = <<i, c, k>>
      BY <3>2 DEF Triples
    <3>4. configs(i)[c].label \in L
      BY <1>1
    <3>5. x \in Meeting(t, traces, configs(i)[c].label)
      BY <3>3, MeetingAre
    <3> QED
      BY <3>4, <3>5
  <2>2. ASSUME NEW l \in L, NEW x \in G[l] PROVE \E m \in S : x \in E[m]
    <3>1. x \in Meeting(t, traces, l)
      OBVIOUS
    <3>2. PICK i \in DOMAIN traces :
              \E c \in DOMAIN configs(i) : \E k \in Matching(t, traces[i], c) : x = <<i, c, k>>
      BY <3>1, MeetingAre
    <3>3. PICK c \in DOMAIN configs(i) : \E k \in Matching(t, traces[i], c) : x = <<i, c, k>>
      BY <3>2
    <3>4. <<i, c>> \in S
      BY <1>2, <3>3
    <3>5. x \in E[<<i, c>>]
      BY <3>3, <3>4 DEF Triples
    <3> QED
      BY <3>4, <3>5
  <2> HIDE DEF E, S, G, L
  <2> QED
    BY <2>1, <2>2 DEF Together
<1>11. Total(hits) = SumFunctionOnSet(F, S) /\ SumFunction(H) = SumFunctionOnSet(H, L)
  BY Zenon DEF Total, SumFunction
<1> QED
  BY <1>6, <1>9, <1>10, <1>11

(* What the labels should add up to when the requests of P have passed.      *)
Expected(P) ==
    SumFunction([l \in CriteriaLabels |-> SumFunctionOnSet(Met[l], P)])

LEMMA MetType ==
    ASSUME NEW l \in CriteriaLabels, NEW r \in Requests, HasOneTenant(r)
    PROVE  /\ Met[l][r] = Cardinality(Meeting(Tenant(r), Resources(r), l))
           /\ Met[l][r] \in Nat
<1>1. Cardinality(Meeting(Tenant(r), Resources(r), l)) \in Nat
  BY ResourcesType, MeetingFinite
<1>2. Met[l][r] = Cardinality(Meeting(Tenant(r), Resources(r), l))
  BY DEF Met
<1> QED
  BY <1>1, <1>2

LEMMA ExpectedMore ==
    ASSUME NEW P, P \subseteq Requests, \A q \in P : HasOneTenant(q),
           NEW r \in Requests, HasOneTenant(r), r \notin P
    PROVE  Expected(P \cup {r}) = Expected(P)
               + SumFunction([l \in CriteriaLabels |->
                                 Cardinality(Meeting(Tenant(r), Resources(r), l))])
<1> DEFINE L == CriteriaLabels
           E == [l \in L |-> SumFunctionOnSet(Met[l], P)]
           F == [l \in L |-> Cardinality(Meeting(Tenant(r), Resources(r), l))]
           H == [l \in L |-> SumFunctionOnSet(Met[l], P \cup {r})]
<1>1. IsFiniteSet(P) /\ IsFiniteSet(L)
  BY PipelineAssumption, FS_Subset, LabelsFinite
<1>2. ASSUME NEW l \in L
      PROVE  E[l] \in Nat /\ F[l] \in Nat /\ H[l] = E[l] + F[l]
  <2>1. \A q \in P : Met[l][q] \in Nat
    BY MetType
  <2>2. Met[l][r] \in Nat /\ F[l] = Met[l][r]
    BY MetType
  <2>3. /\ SumFunctionOnSet(Met[l], P \cup {r}) = SumFunctionOnSet(Met[l], P) + Met[l][r]
        /\ SumFunctionOnSet(Met[l], P) \in Nat
    BY <1>1, <2>1, <2>2, SumAdd
  <2> HIDE DEF F
  <2> QED
    BY <2>2, <2>3
<1>3. SumFunctionOnSet(H, L) = SumFunctionOnSet(E, L) + SumFunctionOnSet(F, L)
  <2> HIDE DEF E, F, H, L
  <2> QED
    BY <1>1, <1>2, SumPlus
<1>4. /\ Expected(P \cup {r}) = SumFunctionOnSet(H, L)
      /\ Expected(P) = SumFunctionOnSet(E, L)
      /\ SumFunction(F) = SumFunctionOnSet(F, L)
  BY Zenon DEF Expected, SumFunction
<1> QED
  BY <1>3, <1>4

LEMMA CountsInit == Init => CountsAddUp
<1> SUFFICES ASSUME Init PROVE CountsAddUp
  OBVIOUS
<1>1. Passed = {}
  BY DEF Init, Passed
<1>2. counted = [l \in CriteriaLabels |-> 0]
  BY DEF Init
<1>3. counted = [l \in CriteriaLabels |-> SumFunctionOnSet(Met[l], Passed)]
  BY <1>1, <1>2, SumEmpty
<1> QED
  BY <1>3 DEF CountsAddUp

(* The step of the span counter.                                             *)
LEMMA CountSpansCounts ==
    ASSUME Shape, TypeOK, RequestsInv, CountsAddUp, NEW r \in Requests, CountSpans(r)
    PROVE  CountsAddUp'
<1> DEFINE t == Tenant(r)
           met == SumFunction([l \in CriteriaLabels |->
                                 Cardinality(Meeting(t, Resources(r), l))])
<1>1. /\ RequestInv(r) /\ pc[r] = "count" /\ outcome[r] = "none"
      /\ pc \in [Requests -> Stages]
      /\ pc' = [pc EXCEPT ![r] = "next"] /\ outcome' = outcome
      /\ counted' = Record(counted, Hits(r))
  BY DEF RequestsInv, RequestInv, CountSpans, Goes, Shape
<1>2. HasOneTenant(r) /\ \A i \in DOMAIN Resources(r) : tenantOf[r][i] = t
  BY <1>1 DEF RequestInv, OwnTenant
<1>3. Passed' = Passed \cup {r} /\ r \notin Passed /\ Passed \subseteq Requests
  BY <1>1 DEF Passed
<1>4. \A q \in Passed : HasOneTenant(q)
  BY DEF Passed, RequestsInv, RequestInv, OwnTenant
<1>5. Expected(Passed') = Expected(Passed) + met
  BY <1>2, <1>3, <1>4, ExpectedMore
<1>6. Measurable(Hits(r)) /\ counted \in [CriteriaLabels -> Nat]
  BY CountSpansType DEF TypeOK
<1>7. SumFunction(counted') = SumFunction(counted) + Total(Hits(r))
  BY <1>1, <1>6, RecordAdds
<1>8. Total(Hits(r)) = met
  <2>1. /\ IsSequence(Resources(r))
        /\ \A i \in DOMAIN Resources(r) :
              /\ IsSequence(Resources(r)[i].spans)
              /\ tenantOf[r][i] \in Tenants \cup {Unset}
    BY ResourcesType DEF TypeOK
  <2>2. DOMAIN Hits(r) = DOMAIN Resources(r)
    BY DEF Hits
  <2>3. \A i \in DOMAIN Resources(r) : Hits(r)[i] = ResourceHits(t, Resources(r)[i])
    BY <1>2, <2>1 DEF Hits, HitsAs
  <2> QED
    BY <1>6, <2>1, <2>2, <2>3, TotalIsMet
<1>9. SumFunction(counted) = Expected(Passed)
  BY DEF CountsAddUp, Expected
<1>10. SumFunction(counted') = Expected(Passed')
  BY <1>5, <1>7, <1>8, <1>9
<1> QED
  BY <1>10 DEF CountsAddUp, Expected

(* Who has passed stays so, and nobody else comes by.                        *)
LEMMA PassedSame ==
    ASSUME Shape, RequestsInv, NEW r \in Requests, OwnStep(r), ~CountSpans(r)
    PROVE  Passed' = Passed
<1> USE DEF Shape, Stages, Goes, Answers
<1>1. RequestInv(r)
  BY DEF RequestsInv
<1>2. pc[r] # "answered" => outcome[r] = "none"
  BY <1>1 DEF RequestInv
<1>3. CASE Accept(r)
  BY <1>2, <1>3 DEF Accept, Passed
<1>4. CASE AddTenantId(r)
  BY <1>2, <1>4 DEF AddTenantId, Passed
<1>5. CASE AskRateLimit(r)
  BY <1>2, <1>5 DEF AskRateLimit, Passed
<1>6. CASE Decide(r)
  BY <1>2, <1>6 DEF Decide, Passed
<1>7. CASE NextConsumer(r)
  BY <1>2, <1>7 DEF NextConsumer, Passed
<1>8. CASE Service(r)
  BY <1>8 DEF Service, ShouldRateLimit, CallFails, Passed
<1> QED
  BY <1>3, <1>4, <1>5, <1>6, <1>7, <1>8 DEF OwnStep, Process

LEMMA CountsNext ==
    Shape /\ TypeOK /\ RequestsInv /\ CountsAddUp /\ [Next]_vars => CountsAddUp'
<1> SUFFICES ASSUME Shape, TypeOK, RequestsInv, CountsAddUp, [Next]_vars
             PROVE  CountsAddUp'
  OBVIOUS
<1>1. CASE Passed' = Passed /\ counted' = counted
  BY <1>1 DEF CountsAddUp
<1>2. ASSUME NEW r \in Requests, OwnStep(r) PROVE CountsAddUp'
  <2>1. CASE CountSpans(r)
    BY <2>1, CountSpansCounts
  <2>2. CASE ~CountSpans(r)
    <3>1. counted' = counted
      BY <1>2, <2>2 DEF OwnStep, Process, Service, Accept, AddTenantId, AskRateLimit,
         Decide, NextConsumer, ShouldRateLimit, CallFails, metricVars
    <3> QED
      BY <1>1, <1>2, <2>2, <3>1, PassedSame
  <2> QED
    BY <2>1, <2>2
<1>3. CASE NewWindow \/ Lifecycle \/ Shutdown \/ Interrupt \/ UNCHANGED vars
  <2>1. UNCHANGED <<pc, outcome, counted>>
    BY <1>3, OtherSteps DEF metricVars
  <2> QED
    BY <1>1, <2>1 DEF Passed
<1> QED
  BY <1>2, <1>3 DEF Next, OwnStep

(* Over all labels, as many spans are counted as match criteria of their own *)
(* tenant in the batches that the rate limiter let through: however many     *)
(* batches are on their way, no match is lost and none counted twice.        *)
THEOREM MatchesAllCounted == Spec => []CountsAddUp
<1> DEFINE Inv == Shape /\ TypeOK /\ RequestsInv /\ CountsAddUp
<1>1. Init => Inv
  BY ShapeInit, TypeInit, CountsInit DEF Init, RequestsInv, RequestInv
<1>2. Inv /\ [Next]_vars => Inv'
  BY ShapeNext, TypeNext, RequestsInvNext, CountsNext
<1> QED
  BY <1>1, <1>2, PTL DEF Spec

-----------------------------------------------------------------------------
(* The pipeline implements TenantIngress.                                    *)

(* The pipeline's room, when its answers and windows are ans and win.        *)
RoomOf(h, ans, win, w) == [t \in Tenants |-> Quota - Load(h, ans, win, t, w)]

LEMMA RoomIs ==
    /\ Room = RoomOf(limitHeader, answer, window, now)
    /\ Room' = RoomOf(limitHeader', answer', window', now')
BY DEF Room, RoomOf, Load, Admitted, ChargedTo, Charged, IsLimited, Payer

(* What no request is admitted by leaves the room of the window as it was.   *)
LEMMA RoomSame ==
    ASSUME UNCHANGED <<window, now, limitHeader>>,
           \A q \in Requests : answer'[q] = "ok" <=> answer[q] = "ok"
    PROVE  Room' = Room
<1>1. \A t \in Tenants : Load(limitHeader, answer', window', t, now')
          = Load(limitHeader, answer, window, t, now)
  <2> TAKE t \in Tenants
  <2>1. \A q \in Charged(limitHeader, t) :
            answer'[q] = "ok" /\ window'[q] = now' <=> answer[q] = "ok" /\ window[q] = now
    BY DEF Charged
  <2> QED
    BY <2>1, LoadSame
<1>2. Room' = RoomOf(limitHeader, answer', window', now')
  BY RoomIs
<1> QED
  BY <1>1, <1>2, RoomIs DEF RoomOf

(* A new window has room for a quota of every tenant.                        *)
LEMMA RoomAnew ==
    ASSUME TypeOK, QuotaInv, NewWindow
    PROVE  Room' = [t \in Tenants |-> Quota]
<1>1. /\ now \in 0 .. MaxWindow
      /\ window \in [Requests -> 0 .. MaxWindow]
      /\ now' = now + 1
      /\ UNCHANGED <<answer, window>>
      /\ \A q \in Requests : window[q] <= now
  BY DEF TypeOK, NewWindow, requestVars, QuotaInv
<1>2. \A q \in Requests : ~(answer'[q] = "ok" /\ window'[q] = now')
  BY <1>1, Bounds
<1>3. \A t \in Tenants : Load(limitHeader, answer', window', t, now') = 0
  BY <1>2, NoLoad
<1>4. Room' = RoomOf(limitHeader, answer', window', now')
  BY RoomIs DEF NewWindow, configVars
<1> QED
  BY <1>3, <1>4, Bounds DEF RoomOf

(* A request that the service admits has room, and takes it.                 *)
LEMMA RoomTaken ==
    ASSUME TypeOK, RequestsInv, QuotaInv, NEW r \in Requests, ShouldRateLimit(r),
           answer'[r] = "ok"
    PROVE  /\ SpanCount[r] <= Room[Payer(r)]
           /\ Room' = [Room EXCEPT ![Payer(r)] = @ - SpanCount[r]]
<1> DEFINE u == Payer(r)
<1>0. UNCHANGED limitHeader
  BY DEF ShouldRateLimit, configVars
<1>1. IsLimited(r) /\ u \in Tenants
  BY PayerType DEF ShouldRateLimit, RequestsInv, RequestInv, TypeOK
<1>2. /\ answer[r] = "none" /\ window'[r] = now /\ now' = now
      /\ \A q \in Requests \ {r} : answer'[q] = answer[q] /\ window'[q] = window[q]
  BY DEF ShouldRateLimit, TypeOK
<1>3. r \in Charged(limitHeader, u) /\ \A t : r \in Charged(limitHeader, t) => t = u
  BY <1>1, ChargedIs
<1>4. \A t : Charged(limitHeader, t) \subseteq Requests
  BY DEF Charged
<1> HIDE DEF u
<1>5. Load(limitHeader, answer', window', u, now)
          = Load(limitHeader, answer, window, u, now) + SpanCount[r]
  <2>1. answer[r] # "ok" /\ answer'[r] = "ok" /\ window'[r] = now
    BY <1>2
  <2>2. \A q \in Charged(limitHeader, u) \ {r} : answer'[q] = answer[q] /\ window'[q] = window[q]
    BY <1>2, <1>4
  <2>3. r \in Charged(limitHeader, u)
    BY <1>3
  <2>4. Admitted(limitHeader, answer', window', u, now) = Admitted(limitHeader, answer, window, u, now) \cup {r}
    BY <2>1, <2>2, <2>3 DEF Admitted
  <2>5. /\ Admitted(limitHeader, answer, window, u, now) \in SUBSET Requests
        /\ r \in Requests \ Admitted(limitHeader, answer, window, u, now)
    BY <1>4, <2>1 DEF Admitted
  <2> QED
    BY <2>4, <2>5, SumFacts DEF Load
<1>6. ASSUME NEW t \in Tenants, t # u
      PROVE  Load(limitHeader, answer', window', t, now) = Load(limitHeader, answer, window, t, now)
  <2>1. \A q \in Charged(limitHeader, t) :
            answer'[q] = "ok" /\ window'[q] = now <=> answer[q] = "ok" /\ window[q] = now
    BY <1>2, <1>3, <1>4, <1>6
  <2> QED
    BY <2>1, LoadSame
<1>7. Load(limitHeader, answer', window', u, now) <= Quota
  <2>1. QuotaInv' /\ now \in 0 .. MaxWindow
    BY QuotaAnswer DEF TypeOK
  <2> QED
    BY <1>0, <1>1, <1>2, <2>1 DEF QuotaInv, u
<1>8. /\ SpanCount[r] \in Nat
      /\ \A t \in Tenants : Load(limitHeader, answer, window, t, now) \in Nat
  BY SumFacts, LoadNat
<1>9. /\ Room = RoomOf(limitHeader, answer, window, now)
      /\ Room' = RoomOf(limitHeader, answer', window', now)
  BY <1>0, <1>2, RoomIs
<1>10. u \in Tenants
  BY <1>1 DEF u
<1>11. SpanCount[r] <= Room[u]
  BY <1>5, <1>7, <1>8, <1>9, <1>10, Bounds DEF RoomOf
<1>12. Room' = [Room EXCEPT ![u] = @ - SpanCount[r]]
  <2>1. ASSUME NEW t \in Tenants
        PROVE  Room'[t] = IF t = u THEN Room[u] - SpanCount[r] ELSE Room[t]
    BY <1>5, <1>6, <1>8, <1>9, <1>10, Bounds DEF RoomOf
  <2> QED
    BY <1>9, <2>1 DEF RoomOf
<1> QED
  BY <1>11, <1>12 DEF u

(* What has been delivered bears the tenants that it then has.               *)
LEMMA BearsSame ==
    ASSUME Shape,
           \A q \in Requests :
               /\ outcome'[q] = "delivered" <=> outcome[q] = "delivered"
               /\ outcome[q] = "delivered" => tenantOf'[q] = tenantOf[q]
    PROVE  Bears' = Bears
BY DEF Bears, Shape

(* A batch that is delivered has no tenant but that of its request.          *)
LEMMA BearsDelivered ==
    ASSUME Shape, NEW r \in Requests, OwnTenant(r), UNCHANGED tenantOf,
           \A q \in Requests \ {r} : outcome'[q] = outcome[q], outcome'[r] = "delivered"
    PROVE  \E S \in SUBSET Owner[r] : Bears' = [Bears EXCEPT ![r] = S]
<1> DEFINE S == ToSet(tenantOf[r])
<1>1. S \in SUBSET Owner[r]
  <2>1. Owner[r] = {Tenant(r)}
    BY DEF Owner, OwnTenant
  <2> QED
    BY <2>1 DEF OwnTenant, ToSet, Shape
<1>2. Bears' = [Bears EXCEPT ![r] = S]
  BY DEF Bears
<1> QED
  BY <1>1, <1>2

(* The payers stay.                                                          *)
LEMMA PayersSame == ASSUME UNCHANGED limitHeader PROVE Payers' = Payers
BY ChargingSame DEF Payers

(* A step of the receiver or the tenant id processor: the batch is rejected, *)
(* or goes on, which nobody sees.                                            *)
LEMMA IngressEnters ==
    ASSUME Shape, RequestsInv, NEW r \in Requests, Accept(r) \/ AddTenantId(r)
    PROVE  Ingress!Reject(r) \/ UNCHANGED Ingress!vars
<1>1. /\ UNCHANGED <<limitHeader, answer, window, now, overLimit>>
      /\ pc[r] \in {"new", "tenant"}
  BY DEF Accept, AddTenantId, configVars, serviceVars, metricVars
<1>2. outcome[r] = "none" /\ answer[r] = "none"
  BY <1>1 DEF RequestsInv, RequestInv, Shape
<1>3. Room' = Room
  BY <1>1, RoomSame
<1>4. \A q \in Requests : outcome[q] = "delivered" => tenantOf'[q] = tenantOf[q]
  BY <1>2 DEF Accept, AddTenantId, Shape
<1>5. \/ outcome' = outcome
      \/ outcome' = [outcome EXCEPT ![r] = "malformed"]
      \/ HasOneTenant(r) = FALSE /\ outcome' = [outcome EXCEPT ![r] = "noTenant"]
  BY DEF Accept, AddTenantId, Answers, HasOneTenant
<1>6. Bears' = Bears
  BY <1>2, <1>4, <1>5, BearsSame DEF Shape
<1>7. ~HasOneTenant(r) => Owner[r] = {}
  BY DEF Owner
<1> QED
  BY <1>1, <1>2, <1>3, <1>5, <1>6, <1>7, PayersSame DEF Ingress!Reject, Ingress!Ends, Ingress!vars

(* A step of the rate limiter, or of the span counter.                       *)
LEMMA IngressLimits ==
    ASSUME Shape, RequestsInv, NEW r \in Requests,
           AskRateLimit(r) \/ Decide(r) \/ CountSpans(r)
    PROVE  Ingress!Drop(r) \/ UNCHANGED Ingress!vars
<1>1. /\ UNCHANGED <<limitHeader, answer, window, now, tenantOf>>
      /\ pc[r] \in {"limit", "asked", "count"}
  BY DEF AskRateLimit, Decide, CountSpans, configVars, serviceVars
<1>2. /\ outcome[r] = "none" /\ HasOneTenant(r)
      /\ pc[r] = "asked" => Payers[r] = {Payer(r)}
  BY <1>1, RequestFacts DEF OwnTenant, Payers
<1>3. Room' = Room
  BY <1>1, RoomSame
<1>4. \/ UNCHANGED <<outcome, overLimit>>
      \/ /\ answer[r] = "overLimit"
         /\ pc[r] = "asked"
         /\ outcome' = [outcome EXCEPT ![r] = "overLimit"]
         /\ overLimit' = [overLimit EXCEPT ![Payer(r)] = @ + SpanCount[r]]
  BY DEF AskRateLimit, Decide, CountSpans, Answers
<1>5. Bears' = Bears
  BY <1>1, <1>2, <1>4, BearsSame DEF Shape
<1> QED
  BY <1>1, <1>2, <1>3, <1>4, <1>5, PayersSame DEF Ingress!Drop, Ingress!Ends, Ingress!vars

(* A batch that has come through is passed on.                               *)
LEMMA IngressPassesOn ==
    ASSUME Shape, RequestsInv, NEW r \in Requests, NextConsumer(r)
    PROVE  Ingress!PassOn(r)
<1>1. /\ UNCHANGED <<limitHeader, answer, window, now, tenantOf, overLimit>>
      /\ pc[r] = "next"
  BY DEF NextConsumer, configVars, serviceVars, metricVars
<1>2. /\ outcome[r] = "none" /\ OwnTenant(r)
      /\ answer[r] # "overLimit" /\ (IsLimited(r) => answer[r] # "none")
  BY <1>1 DEF RequestsInv, RequestInv
<1>3. Owner[r] # {} /\ (Payers[r] # {} => answer[r] # "none") /\ Payers' = Payers
  BY <1>1, <1>2, PayersSame DEF OwnTenant, Owner, Payers
<1>4. Room' = Room
  BY <1>1, RoomSame
<1>5. CASE outcome' = [outcome EXCEPT ![r] = "refused"]
  <2>1. Bears' = Bears
    BY <1>1, <1>2, <1>5, BearsSame DEF Shape
  <2> QED
    BY <1>1, <1>2, <1>3, <1>4, <1>5, <2>1 DEF Ingress!PassOn, Ingress!Ends
<1>6. CASE outcome' = [outcome EXCEPT ![r] = "delivered"]
  <2>1. \E S \in SUBSET Owner[r] : Bears' = [Bears EXCEPT ![r] = S]
    BY <1>1, <1>2, <1>6, BearsDelivered DEF Shape
  <2> QED
    BY <1>1, <1>2, <1>3, <1>4, <1>6, <2>1 DEF Ingress!PassOn, Ingress!Ends
<1> QED
  BY <1>5, <1>6 DEF NextConsumer, Answers

(* The service decides, or the call of it fails.                             *)
LEMMA IngressDecides ==
    ASSUME Shape, TypeOK, RequestsInv, QuotaInv, NEW r \in Requests, Service(r)
    PROVE  Ingress!Admit(r) \/ Ingress!DoNotAdmit(r)
<1>1. /\ UNCHANGED <<limitHeader, outcome, now, tenantOf, overLimit>>
      /\ pc[r] = "asked" /\ answer[r] = "none"
  BY DEF Service, ShouldRateLimit, CallFails, configVars, metricVars
<1>2. /\ outcome[r] = "none" /\ Owner[r] # {}
      /\ Payers[r] = {Payer(r)} /\ Payers' = Payers
  BY <1>1, RequestFacts, PayersSame DEF OwnTenant, Owner, Payers
<1>3. Bears' = Bears
  BY <1>1, BearsSame
<1>4. CASE ShouldRateLimit(r) /\ answer'[r] = "ok"
  <2>1. /\ SpanCount[r] <= Room[Payer(r)]
        /\ Room' = [Room EXCEPT ![Payer(r)] = @ - SpanCount[r]]
    BY <1>4, RoomTaken
  <2>2. answer' = [answer EXCEPT ![r] = "ok"]
    BY <1>4 DEF ShouldRateLimit, Shape
  <2> QED
    BY <1>1, <1>2, <1>3, <2>1, <2>2 DEF Ingress!Admit, Ingress!Decided
<1>5. CASE ShouldRateLimit(r) /\ answer'[r] # "ok"
  <2>1. answer' = [answer EXCEPT ![r] = "overLimit"]
    BY <1>5 DEF ShouldRateLimit, Shape
  <2>2. Room' = Room
    <3>1. \A t \in Tenants : Load(limitHeader, answer', window', t, now)
              = Load(limitHeader, answer, window, t, now)
      <4> TAKE t \in Tenants
      <4>1. /\ \A q \in Requests \ {r} : answer'[q] = answer[q] /\ window'[q] = window[q]
            /\ Charged(limitHeader, t) \subseteq Requests
        BY <1>5 DEF ShouldRateLimit, TypeOK, Charged
      <4>2. Admitted(limitHeader, answer', window', t, now) = Admitted(limitHeader, answer, window, t, now)
        BY <1>1, <1>5, <4>1 DEF Admitted
      <4> QED
        BY <4>2 DEF Load
    <3>2. /\ Room = RoomOf(limitHeader, answer, window, now)
          /\ Room' = RoomOf(limitHeader, answer', window', now)
      BY <1>1, RoomIs
    <3> QED
      BY <3>1, <3>2 DEF RoomOf
  <2> QED
    BY <1>1, <1>2, <1>3, <2>1, <2>2 DEF Ingress!DoNotAdmit, Ingress!Decided
<1>6. CASE CallFails(r)
  <2>1. answer' = [answer EXCEPT ![r] = "failed"] /\ UNCHANGED window
    BY <1>6 DEF CallFails
  <2>2. Room' = Room
    BY <1>1, <2>1, RoomSame DEF Shape
  <2> QED
    BY <1>1, <1>2, <1>3, <2>1, <2>2 DEF Ingress!DoNotAdmit, Ingress!Decided
<1> QED
  BY <1>4, <1>5, <1>6 DEF Service

(* What belongs to no request.                                               *)
LEMMA IngressElse ==
    ASSUME Shape, TypeOK, QuotaInv, NewWindow \/ Lifecycle \/ Shutdown \/ Interrupt \/ UNCHANGED vars
    PROVE  Ingress!NewWindow \/ UNCHANGED Ingress!vars
<1>1. UNCHANGED <<limitHeader, answer, outcome, overLimit, tenantOf, window>>
  BY OtherSteps DEF configVars, metricVars
<1>2. Bears' = Bears
  BY <1>1, BearsSame
<1>3. CASE NewWindow
  <2>1. Room' = [t \in Tenants |-> Quota]
    BY <1>3, RoomAnew
  <2> QED
    BY <1>1, <1>2, <2>1, PayersSame DEF Ingress!NewWindow
<1>4. CASE Lifecycle \/ Shutdown \/ Interrupt \/ UNCHANGED vars
  <2>1. now' = now
    BY <1>4 DEF Lifecycle, Start, StopTransport, CloseConnection, Shutdown, Interrupt,
       vars, serviceVars
  <2>2. Room' = Room
    BY <1>1, <2>1, RoomSame
  <2> QED
    BY <1>1, <1>2, <2>2, PayersSame DEF Ingress!vars
<1> QED
  BY <1>3, <1>4

LEMMA IngressInit == Init => Ingress!Init
<1> SUFFICES ASSUME Init PROVE Ingress!Init
  OBVIOUS
<1>1. \A r \in Requests : answer[r] = "none" /\ outcome[r] = "none"
  BY DEF Init
<1>2. Bears = [r \in Requests |-> {}]
  BY <1>1 DEF Bears
<1>3. \A t \in Tenants : Load(limitHeader, answer, window, t, now) = 0
  BY <1>1, NoLoad
<1>4. Room = [t \in Tenants |-> Quota]
  BY <1>3, RoomIs, Bounds DEF RoomOf
<1>5. Payers \in [Requests -> {S \in SUBSET Tenants : \A t, u \in S : t = u}]
  <2>1. \A r \in Requests : IsLimited(r) => Payer(r) \in Tenants
    BY PayerType DEF Init
  <2> QED
    BY <2>1 DEF Payers
<1> QED
  BY <1>2, <1>4, <1>5 DEF Init, Ingress!Init

(* The pipeline keeps its promises to the tenants: it shares out the quota of*)
(* a window, asks before it passes a batch on, drops only what exceeds the   *)
(* quota and counts that for whom it is charged to, and attributes what it   *)
(* delivers to its tenant.                                                   *)
THEOREM ImplementsTenantIngress == Spec => TenantsServed
<1>1. Init => Shape /\ TypeOK /\ RequestsInv /\ QuotaInv
  BY ShapeInit, TypeInit, QuotaInit DEF Init, RequestsInv, RequestInv
<1>2. Shape /\ TypeOK /\ RequestsInv /\ QuotaInv /\ [Next]_vars
          => (Shape /\ TypeOK /\ RequestsInv /\ QuotaInv)'
  BY ShapeNext, TypeNext, RequestsInvNext, QuotaNext
<1>3. Shape /\ TypeOK /\ RequestsInv /\ QuotaInv /\ [Next]_vars
          => [Ingress!Next]_Ingress!vars
  <2> SUFFICES ASSUME Shape, TypeOK, RequestsInv, QuotaInv, [Next]_vars
               PROVE  Ingress!Next \/ UNCHANGED Ingress!vars
    OBVIOUS
  <2>1. ASSUME NEW r \in Requests, Accept(r) \/ Process(r) \/ Service(r)
        PROVE  Ingress!Next \/ UNCHANGED Ingress!vars
    BY <2>1, IngressEnters, IngressLimits, IngressPassesOn, IngressDecides
       DEF Process, Ingress!Next
  <2>2. CASE NewWindow \/ Lifecycle \/ Shutdown \/ Interrupt \/ UNCHANGED vars
    BY <2>2, IngressElse DEF Ingress!Next
  <2> QED
    BY <2>1, <2>2 DEF Next
<1> QED
  BY <1>1, <1>2, <1>3, IngressInit, PTL DEF Spec, TenantsServed, Ingress!Spec

=============================================================================
