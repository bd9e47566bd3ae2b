---------------------------- MODULE SpanCounter ----------------------------
(* The processor that counts the spans which match a criterion of their      *)
(* tenant and service (src/processors/spancounter).  It keeps no state: one  *)
(* call reads its configuration and records measurements, each under the     *)
(* label that its context carries.                                           *)
EXTENDS Integers, Sequences, FiniteSets, SequencesExt

CONSTANTS
    TenantConfigs,   \* the configuration, in its order
    Unset            \* the empty string: no name, no value, no service

IsSequence(s) == s \in Seq(ToSet(s))

ASSUME ConfigAssumption ==
    /\ IsSequence(TenantConfigs)
    /\ \A tc \in ToSet(TenantConfigs) :
          /\ IsSequence(tc.services)
          /\ \A sc \in ToSet(tc.services) : IsSequence(sc.spans)

(* A resource of a batch has a tenant, a service and spans; a span has a     *)
(* name and attributes.  A criterion has a label, which                      *)
(* addUniqueLabelsToSpanConfigs gives it if it has none, a name and          *)
(* attributes that it asks for.                                              *)
Matches(span, sc) ==
    /\ sc.name \in {Unset, span.name}
    /\ \A a \in sc.attrs :
          /\ a.key \in DOMAIN span.attrs
          /\ a.value \in {Unset, span.attrs[a.key]}

-----------------------------------------------------------------------------
(* createTenantsMap: of two entries for one tenant, or for one service of a  *)
(* tenant, the later one replaces the earlier; entries without a name are    *)
(* skipped.                                                                  *)
Services(tenant) ==
    LET entries == {i \in DOMAIN TenantConfigs : TenantConfigs[i].tenant = tenant}
    IN  IF tenant # Unset /\ entries # {} THEN TenantConfigs[Max(entries)].services
        ELSE <<>>

SpanConfigs(tenant, service) ==
    LET entries == {i \in DOMAIN Services(tenant) : Services(tenant)[i].service = service}
    IN  IF service # Unset /\ entries # {} THEN Services(tenant)[Max(entries)].spans
        ELSE <<>>

CriteriaLabels ==
    UNION {UNION {{sc.spans[c].label : c \in DOMAIN sc.spans}
                  : sc \in ToSet(tc.services)} : tc \in ToSet(TenantConfigs)}

-----------------------------------------------------------------------------
(* ProcessTraces: for each resource, for each criterion of its tenant and    *)
(* service, the number of spans that match, if there are any.                *)
MatchCount(rs, sc) == Cardinality({k \in DOMAIN rs.spans : Matches(rs.spans[k], sc)})

(* Mutant: only the first criterion that a span meets counts it.             *)
ResourceHitsOnce(tenant, rs) ==
    LET configs == SpanConfigs(tenant, rs.service)
    IN  [c \in DOMAIN configs |->
            [label |-> configs[c].label,
             count |-> Cardinality({k \in DOMAIN rs.spans :
                 /\ Matches(rs.spans[k], configs[c])
                 /\ \A d \in 1 .. c - 1 : ~Matches(rs.spans[k], configs[d])})]]

ResourceHits(tenant, rs) ==
    LET configs == SpanConfigs(tenant, rs.service)
    IN  [c \in DOMAIN configs |->
            [label |-> configs[c].label, count |-> MatchCount(rs, configs[c])]]

(* The loops meet resource m[1] and its criterion m[2] in this order; what is*)
(* 0 is not recorded.                                                        *)
Measured(hits) ==
    UNION {{m \in {i} \X DOMAIN hits[i] : hits[i][m[2]].count > 0} : i \in DOMAIN hits}

Before(m, n) == m[1] < n[1] \/ (m[1] = n[1] /\ m[2] <= n[2])

(* tag.Insert leaves a tag that is there alone, and ctx is assigned in the   *)
(* loop: the context of every measurement has the label of the first one.    *)
Record(counted, hits) ==
    LET measured == Measured(hits)
        first == CHOOSE m \in measured : \A n \in measured : Before(m, n)
        label == hits[first[1]][first[2]].label
        total == SumFunction([m \in measured |-> hits[m[1]][m[2]].count])
    IN  IF measured = {} THEN counted ELSE [counted EXCEPT ![label] = @ + total]

-----------------------------------------------------------------------------
(* The reference: which spans of a batch, whose resources all belong to      *)
(* tenant, meet which criterion with the label l.                            *)
Meeting(tenant, traces, l) ==
    UNION {{m \in {i} \X (DOMAIN SpanConfigs(tenant, traces[i].service))
                     \X (DOMAIN traces[i].spans) :
                LET sc == SpanConfigs(tenant, traces[i].service)[m[2]]
                IN  sc.label = l /\ Matches(traces[i].spans[m[3]], sc)}
           : i \in DOMAIN traces}

=============================================================================
