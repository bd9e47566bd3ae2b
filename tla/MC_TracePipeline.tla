-------------------------- MODULE MC_TracePipeline --------------------------
(* Three requests for TLC: two of one tenant that together exceed its quota, *)
(* one of them with a resource that claims another tenant; and one by UDP,   *)
(* which has no headers.  The rate limiter reads the header of the tenant,   *)
(* another one by which both are charged to the other tenant, or one that    *)
(* one of them has twice and the other does not have.                        *)
EXTENDS TracePipeline

CONSTANTS r1, r2, r3, own, other, twice, t1, t2, s1, s2, a, b, k, v, w

Span(n, attrs) == [name |-> n, attrs |-> attrs]
None == [x \in {} |-> v]
Resource(t, s, spans) == [tenant |-> t, service |-> s, spans |-> spans]
Batch(t, h, rss) == [transport |-> t, headers |-> h, resources |-> rss]

Header(o, p, q) == own :> o @@ other :> p @@ twice :> q

MCRequests == {r1, r2, r3}

MCRequest ==
    r1 :> Batch("grpc", Header(<<t1>>, <<t2>>, <<t1, t2>>),
            <<Resource(t2, s1, <<Span(a, None), Span(b, k :> v)>>),
              Resource(Unset, s1, <<Span(a, k :> w)>>)>>)
    @@ r2 :> Batch("http", Header(<<t1>>, <<t2>>, <<>>),
            <<Resource(Unset, s1, <<Span(a, k :> v), Span(b, None)>>)>>)
    @@ r3 :> Batch("agent", Header(<<>>, <<>>, <<>>),
            <<Resource(t1, s1, <<Span(a, None)>>)>>)

Criterion(l, n, attrs) == [label |-> l, name |-> n, attrs |-> attrs]
ServiceEntry(s, cs) == [service |-> s, spans |-> cs]

(* An entry of the first tenant that a later one replaces, entries without a *)
(* name, and criteria by name, by attribute and by its value.                *)
MCTenantConfigs ==
    <<[tenant |-> t1, services |-> <<ServiceEntry(s1, <<Criterion("old", a, {})>>)>>],
      [tenant |-> Unset, services |-> <<ServiceEntry(s1, <<Criterion("none", a, {})>>)>>],
      [tenant |-> t2, services |-> <<ServiceEntry(s1, <<Criterion("other", a, {})>>)>>],
      [tenant |-> t1, services |->
          <<ServiceEntry(s1, <<Criterion("replaced", b, {})>>),
            ServiceEntry(Unset, <<Criterion("unnamed", b, {})>>),
            ServiceEntry(s2, <<Criterion("elsewhere", Unset, {})>>),
            ServiceEntry(s1, <<Criterion("name", a, {}),
                          Criterion("key", Unset, {[key |-> k, value |-> Unset]}),
                          Criterion("value", a, {[key |-> k, value |-> v]})>>)>>]>>
=============================================================================
