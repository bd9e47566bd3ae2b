---------------------------- MODULE BatchDelivery ----------------------------
(* What an exporter promises the pipeline about its batches: an attempt      *)
(* delivers an item of a batch a bounded number of times, if at all; a batch *)
(* is reported as exported only when everything owed for it has been         *)
(* delivered; and nothing of it is delivered after its outcome is known.     *)
EXTENDS Naturals

CONSTANTS
    Batches,
    MaxSends   \* how often an attempt may deliver an item

VARIABLES
    owed,     \* batch: the items that must be delivered for it
    outcome,  \* batch: "pending", "ok" or "failed"
    copies    \* batch: for each of its items, how often it was delivered

Init ==
    /\ outcome = [b \in Batches |-> "pending"]
    /\ DOMAIN copies = Batches
    /\ \A b \in Batches : copies[b] = [i \in DOMAIN copies[b] |-> 0]

Attempt(b) ==
    /\ outcome[b] = "pending"
    /\ \A i \in DOMAIN copies[b] : copies'[b][i] \in copies[b][i] .. copies[b][i] + MaxSends
    /\ copies' = [copies EXCEPT ![b] = [i \in DOMAIN @ |-> copies'[b][i]]]  \* only of b
    /\ \E o \in {"pending", "ok", "failed"} :
          /\ outcome' = [outcome EXCEPT ![b] = o]
          /\ o = "ok" => \A i \in owed[b] : copies'[b][i] > 0
    /\ UNCHANGED owed

Next == \E b \in Batches : Attempt(b)

Spec == Init /\ [][Next]_<<owed, outcome, copies>>
=============================================================================
