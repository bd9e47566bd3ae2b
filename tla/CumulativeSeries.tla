-------------------------- MODULE CumulativeSeries --------------------------
(* What a reader of the Prometheus endpoint is promised about the sums: a    *)
(* series is absent or shows a point; the point's value is what its source   *)
(* counted over the point's interval; and while the series is present its    *)
(* point never gives way to an earlier one.                                  *)
EXTENDS Integers

CONSTANTS
    Series,
    MaxTime,
    Total,    \* Total[s][t]: what the source of s has counted at t
    Absent

Times == 0 .. MaxTime

VARIABLE shown

(* The value of the source over every interval that ends in t.               *)
PointsAt(s, t) ==
    {[start |-> f, ts |-> t, val |-> Total[s][t] - Total[s][f]] : f \in 0 .. t}

Init == shown = [s \in Series |-> Absent]

Show(s) ==
    \E t \in Times : \E point \in PointsAt(s, t) :
        /\ shown[s] # Absent => shown[s].ts <= t
        /\ shown' = [shown EXCEPT ![s] = point]

Withdraw(s) == shown' = [shown EXCEPT ![s] = Absent]

Next == \E s \in Series : Show(s) \/ Withdraw(s)

Spec == Init /\ [][Next]_shown
=============================================================================
