---------------------------- MODULE TenantIngress ----------------------------
(* What the traces pipeline promises the tenants.  In a window of the rate   *)
(* limit no more spans of a tenant are admitted than its quota.  A batch has *)
(* one end; one that is charged to a tenant gets past the limit only when    *)
(* that was asked, and is dropped only if it was exceeded, which the metric  *)
(* of that tenant shows at the same moment.  What is delivered belongs to the*)
(* tenant of its request, and to nobody else.                                *)
EXTENDS Integers

CONSTANTS
    Requests,
    Tenants,
    Owner,    \* request: its tenant, as a set; empty if it does not name one
    Spans,    \* request: how many it brings
    Quota

VARIABLES
    payer,    \* request: whom it is charged to, as a set; empty if it is not limited
    answer,   \* request: what was decided: "none", "ok", "overLimit", "failed"
    outcome,  \* request: its end, or "none"
    overLimit,\* tenant: the spans dropped
    bears,    \* request: the tenants of what was delivered of it
    room      \* tenant: the spans that may still be admitted in this window

vars == <<payer, answer, outcome, overLimit, bears, room>>

Init ==
    /\ payer \in [Requests -> {S \in SUBSET Tenants : \A t, u \in S : t = u}]
    /\ answer = [r \in Requests |-> "none"]
    /\ outcome = [r \in Requests |-> "none"]
    /\ overLimit = [t \in Tenants |-> 0]
    /\ bears = [r \in Requests |-> {}]
    /\ room = [t \in Tenants |-> Quota]

Decided(r, what) ==
    /\ Owner[r] # {}
    /\ outcome[r] = "none"
    /\ answer[r] = "none"
    /\ answer' = [answer EXCEPT ![r] = what]
    /\ UNCHANGED <<payer, outcome, overLimit, bears>>

Admit(r) ==
    /\ Decided(r, "ok")
    /\ \E t \in payer[r] :
          /\ Spans[r] <= room[t]
          /\ room' = [room EXCEPT ![t] = @ - Spans[r]]

DoNotAdmit(r) ==
    /\ payer[r] # {}
    /\ \E what \in {"overLimit", "failed"} : Decided(r, what)
    /\ UNCHANGED room

Ends(r, what) ==
    /\ outcome[r] = "none"
    /\ outcome' = [outcome EXCEPT ![r] = what]
    /\ UNCHANGED <<payer, answer, room>>

Drop(r) ==
    \E t \in payer[r] :
        /\ answer[r] = "overLimit"
        /\ overLimit' = [overLimit EXCEPT ![t] = @ + Spans[r]]
        /\ UNCHANGED bears
        /\ Ends(r, "overLimit")

PassOn(r) ==
    /\ Owner[r] # {}
    /\ answer[r] # "overLimit"
    /\ payer[r] # {} => answer[r] # "none"
    /\ \/ Ends(r, "refused") /\ UNCHANGED bears
       \/ Ends(r, "delivered") /\ \E S \in SUBSET Owner[r] : bears' = [bears EXCEPT ![r] = S]
    /\ UNCHANGED overLimit

Reject(r) ==
    /\ answer[r] = "none"
    /\ \/ Ends(r, "malformed")
       \/ Owner[r] = {} /\ Ends(r, "noTenant")
    /\ UNCHANGED <<overLimit, bears>>

NewWindow ==
    /\ UNCHANGED <<payer, answer, outcome, overLimit, bears>>
    /\ room' = [t \in Tenants |-> Quota]

Next ==
    \/ \E r \in Requests : Admit(r) \/ DoNotAdmit(r) \/ Drop(r) \/ PassOn(r) \/ Reject(r)
    \/ NewWindow

Spec == Init /\ [][Next]_vars
=============================================================================
