------------------------ MODULE KafkaExporterProofs ------------------------
(* Theorems about an exporter to Kafka, for any batches, configurations,     *)
(* number of consumers, queue size and bounds.                               *)
EXTENDS KafkaExporter, KafkaMarshalersProofs, FiniteSetTheorems

-----------------------------------------------------------------------------
(* One attempt with a batch.                                                 *)

LEMMA MessagesShapeHere ==
    ASSUME NEW b \in Batches, NEW m \in Messages(b)
    PROVE  /\ m.items \subseteq Items(b)
           /\ m.key \in Keys \cup {NoKey}
           /\ \A n \in Messages(b) : \A i \in m.items : i \in n.items => m = n
<1> DEFINE k == Marshaler(config) \in keyed
<1>1. k \in BOOLEAN /\ m \in Marshal(config, k, b)
  BY DEF Messages
<1> HIDE DEF k
<1>2. /\ m.items \subseteq Items(b)
      /\ m.key \in Keys \cup {NoKey}
      /\ \A n \in Marshal(config, k, b) : \A i \in m.items : i \in n.items => m = n
  BY <1>1, MessagesShape
<1> QED
  BY <1>2 DEF Messages, k

(* An item is in one message at most, and stored as often as that.           *)
LEMMA StoredAsSent ==
    ASSUME NEW b \in Batches, NEW S \in SUBSET Messages(b), NEW times \in [S -> Nat],
           NEW i \in Items(b), NEW with, with = {m \in S : i \in m.items}
    PROVE  \/ with = {} /\ SumFunctionOnSet(times, with) = 0
           \/ \E m \in with : with = {m} /\ SumFunctionOnSet(times, with) = times[m]
<1>1. CASE with = {}
  BY <1>1, SumEmpty
<1>2. CASE with # {}
  <2>1. PICK m \in with : TRUE
    BY <1>2
  <2>2. with = {m} /\ times[m] \in Nat
    BY <2>1, MessagesShapeHere
  <2>3. SumFunctionOnSet(times, {} \cup {m}) = SumFunctionOnSet(times, {}) + times[m]
    BY <2>2, SumAdd, FS_EmptySet
  <2>4. SumFunctionOnSet(times, {}) = 0 /\ {} \cup {m} = with
    BY <2>2, SumEmpty
  <2>5. SumFunctionOnSet(times, with) = times[m]
    <3>1. SumFunctionOnSet(times, with) = 0 + times[m]
      BY <2>3, <2>4
    <3>2. 0 + times[m] = times[m]
      BY <2>2
    <3> QED
      BY <3>1, <3>2, Zenon
  <2> QED
    BY <2>2, <2>5, Zenon
<1> QED
  BY <1>1, <1>2

(* What becomes of the answers is that each message is stored some times:    *)
(* all of them if the outcome is ok, and once unless there was a fault.      *)
LEMMA SendMessagesTimes ==
    ASSUME NEW b \in Batches, NEW ok \in BOOLEAN, SendMessages(b, ok), TypeOK
    PROVE  \E S \in SUBSET Messages(b) : \E times \in [S -> 0 .. 1 + MaxResends] :
              /\ Store(b, times)
              /\ ok => S = Messages(b) /\ \A m \in S : times[m] > 0
              /\ \/ faults' = faults + 1 /\ faults < MaxFaults
                 \/ faults' = faults /\ \A m \in S : times[m] = 1
<1> DEFINE S == Messages(b) \ Refused(b)
<1>1. S \in SUBSET Messages(b) /\ (ok => S = Messages(b))
  BY DEF SendMessages
<1>2. CASE faults' = faults /\ Store(b, [m \in Messages(b) \ Refused(b) |-> 1])
  <2>1. [m \in S |-> 1] \in [S -> 0 .. 1 + MaxResends]
    BY QueueAssumption
  <2> QED
    BY <1>1, <1>2, <2>1
<1>3. CASE /\ faults' = faults + 1 /\ faults < MaxFaults
           /\ \E times \in [Messages(b) \ Refused(b) -> 0 .. 1 + MaxResends] :
                 (ok => \A m \in Messages(b) : times[m] > 0) /\ Store(b, times)
  BY <1>1, <1>3
<1> QED
  BY <1>2, <1>3 DEF SendMessages

(* All is stored if the outcome is ok, an item more than once only after a   *)
(* fault, and under nothing but the topic of the batch and the key of its    *)
(* message.                                                                  *)
LEMMA SendMessagesStores ==
    ASSUME NEW b \in Batches, NEW ok \in BOOLEAN, SendMessages(b, ok),
           TypeOK, tries[b] < MaxTries
    PROVE  /\ tries' = [tries EXCEPT ![b] = @ + 1]
           /\ tries' \in [Batches -> 0 .. MaxTries]
           /\ faults' \in 0 .. MaxFaults /\ faults' \in {faults, faults + 1}
           /\ DOMAIN stored' = Batches /\ DOMAIN copies' = Batches
           /\ \A d \in Batches : d # b => stored'[d] = stored[d] /\ copies'[d] = copies[d]
           /\ stored'[b] = [i \in Items(b) |-> stored'[b][i]]
           /\ copies'[b] \in [Items(b) -> Nat]
           /\ \A i \in Items(b) :
                 /\ copies'[b][i] \in copies[b][i] .. copies[b][i] + (1 + MaxResends)
                 /\ copies'[b][i] <= copies[b][i] + 1 \/ faults' = faults + 1
                 /\ ok => \A m \in Messages(b) :
                             i \in m.items => copies'[b][i] > copies[b][i]
                 /\ \A at \in stored'[b][i] :
                       \/ at \in stored[b][i]
                       \/ \E m \in Messages(b) :
                             i \in m.items /\ at = [topic |-> getTopic(b), key |-> m.key]
<1>0. PICK S \in SUBSET Messages(b) : \E times \in [S -> 0 .. 1 + MaxResends] :
        /\ Store(b, times)
        /\ ok => S = Messages(b) /\ \A m \in S : times[m] > 0
        /\ \/ faults' = faults + 1 /\ faults < MaxFaults
           \/ faults' = faults /\ \A m \in S : times[m] = 1
  BY SendMessagesTimes
<1>1. PICK times \in [S -> 0 .. 1 + MaxResends] :
        /\ Store(b, times)
        /\ ok => S = Messages(b) /\ \A m \in S : times[m] > 0
        /\ \/ faults' = faults + 1 /\ faults < MaxFaults
           \/ faults' = faults /\ \A m \in S : times[m] = 1
  BY <1>0
<1> DEFINE with(i) == {m \in S : i \in m.items}
           sent(i) == {m \in with(i) : times[m] > 0}
           sum(i) == SumFunctionOnSet(times, with(i))
<1>2. /\ DOMAIN stored' = Batches /\ DOMAIN copies' = Batches
      /\ \A d \in Batches : d # b => stored'[d] = stored[d] /\ copies'[d] = copies[d]
      /\ stored'[b] = [i \in Items(b) |->
            stored[b][i] \cup {[topic |-> getTopic(b), key |-> m.key] : m \in sent(i)}]
      /\ copies'[b] = [i \in Items(b) |-> copies[b][i] + sum(i)]
  BY <1>1 DEF Store, TypeOK
<1>3. \A i \in Items(b) : sent(i) \subseteq Messages(b)
  OBVIOUS
<1>4. ASSUME NEW i \in Items(b)
      PROVE  /\ sum(i) \in 0 .. 1 + MaxResends
             /\ sum(i) <= 1 \/ faults' = faults + 1
             /\ ok => \A m \in Messages(b) : i \in m.items => sum(i) > 0
  <2>1. times \in [S -> Nat] /\ MaxResends \in Nat
    BY QueueAssumption
  <2>2. \/ with(i) = {} /\ sum(i) = 0
        \/ \E m \in with(i) : with(i) = {m} /\ sum(i) = times[m]
    <3>1. PICK w : w = with(i)
      OBVIOUS
    <3> HIDE DEF with
    <3>2. \/ w = {} /\ SumFunctionOnSet(times, w) = 0
          \/ \E m \in w : w = {m} /\ SumFunctionOnSet(times, w) = times[m]
      BY <2>1, <3>1, StoredAsSent DEF with
    <3> QED
      BY <3>1, <3>2
  <2> HIDE DEF sum
  <2> QED
    BY <1>1, <2>1, <2>2
<1>5. \A i \in Items(b) : copies[b][i] \in Nat
  BY DEF TypeOK
<1>6. tries' = [tries EXCEPT ![b] = @ + 1] /\ tries' \in [Batches -> 0 .. MaxTries]
  BY QueueAssumption DEF SendMessages, TypeOK
<1>7. faults' \in 0 .. MaxFaults /\ faults' \in {faults, faults + 1}
  BY <1>1, QueueAssumption DEF TypeOK
<1> HIDE DEF sent, sum
<1>8. stored'[b] = [i \in Items(b) |-> stored'[b][i]] /\ copies'[b] \in [Items(b) -> Nat]
  BY <1>2, <1>4, <1>5, QueueAssumption
<1>9. ASSUME NEW i \in Items(b)
      PROVE  /\ copies'[b][i] \in copies[b][i] .. copies[b][i] + (1 + MaxResends)
             /\ copies'[b][i] <= copies[b][i] + 1 \/ faults' = faults + 1
             /\ ok => \A m \in Messages(b) : i \in m.items => copies'[b][i] > copies[b][i]
  BY <1>2, <1>4, <1>5, QueueAssumption
<1>10. ASSUME NEW i \in Items(b), NEW at \in stored'[b][i], at \notin stored[b][i]
       PROVE  \E m \in Messages(b) :
                 i \in m.items /\ at = [topic |-> getTopic(b), key |-> m.key]
  <2>1. PICK m \in sent(i) : at = [topic |-> getTopic(b), key |-> m.key]
    BY <1>2, <1>10
  <2> QED
    BY <1>3, <2>1 DEF sent
<1> QED
  BY <1>2, <1>6, <1>7, <1>8, <1>9, <1>10

(* What is stored after an attempt is of the right type.                     *)
LEMMA SendMessagesTypes ==
    ASSUME NEW b \in Batches, NEW ok \in BOOLEAN, SendMessages(b, ok),
           TypeOK, tries[b] < MaxTries
    PROVE  \A d \in Batches :
              /\ stored'[d] \in [Items(d) -> SUBSET [topic : Topics, key : Keys \cup {NoKey}]]
              /\ copies'[d] \in [Items(d) -> Nat]
<1> DEFINE At == [topic : Topics, key : Keys \cup {NoKey}]
<1>1. \A d \in Batches : stored[d] \in [Items(d) -> SUBSET At] /\ copies[d] \in [Items(d) -> Nat]
  BY DEF TypeOK
<1>2. /\ \A d \in Batches : d # b => stored'[d] = stored[d] /\ copies'[d] = copies[d]
      /\ stored'[b] = [i \in Items(b) |-> stored'[b][i]] /\ copies'[b] \in [Items(b) -> Nat]
      /\ \A i \in Items(b) : \A at \in stored'[b][i] :
            \/ at \in stored[b][i]
            \/ \E m \in Messages(b) :
                  i \in m.items /\ at = [topic |-> getTopic(b), key |-> m.key]
  BY SendMessagesStores
<1>3. \A m \in Messages(b) : [topic |-> getTopic(b), key |-> m.key] \in At
  BY MessagesShapeHere, TopicOfBatch
<1>4. stored'[b] \in [Items(b) -> SUBSET At]
  <2>1. \A i \in Items(b) : stored'[b][i] \in SUBSET At
    BY <1>1, <1>2, <1>3
  <2> QED
    BY <2>1, <1>2
<1> QED
  BY <1>1, <1>2, <1>4

-----------------------------------------------------------------------------
(* The inductive invariant: the types, and where the batches are.            *)

(* A batch is in one place, the one that its fate names; nothing is anywhere *)
(* but while the exporter runs, and a batch that waits has had no attempt.   *)
Placed ==
    /\ \A b \in Batches :
          /\ fate[b] \in {"new", "queued"} => tries[b] = 0
          /\ fate[b] = "queued" => \E k \in 1 .. Len(queue) : queue[k] = b
          /\ fate[b] = "exporting" => \E c \in Consumers : holds[c] = b
    /\ \A k \in 1 .. Len(queue) : fate[queue[k]] = "queued"
    /\ \A k, l \in 1 .. Len(queue) : queue[k] = queue[l] => k = l
    /\ \A c \in Consumers :
          holds[c] # None => fate[holds[c]] = "exporting" /\ tries[holds[c]] < MaxTries
    /\ \A c, d \in Consumers : holds[c] = holds[d] /\ holds[c] # None => c = d
    /\ mode \notin {"running", "stopping"} =>
          queue = <<>> /\ \A c \in Consumers : holds[c] = None

Inv == TypeOK /\ Placed

(* The four ways an attempt can end, as far as the invariant sees them.      *)
LEMMA PushCases ==
    ASSUME Inv, NEW c \in Consumers, Push(c)
    PROVE  /\ holds[c] \in Batches
           /\ UNCHANGED <<config, keyed, mode, queue>>
           /\ \/ UNCHANGED <<tries, log>> /\ End(c, "permanent")
              \/ \E ok \in BOOLEAN :
                    /\ SendMessages(holds[c], ok)
                    /\ \/ End(c, "ok") /\ ok /\ ~MarshalError(holds[c])
                       \/ End(c, "interrupted")
                       \/ End(c, "exhausted")
                       \/ UNCHANGED <<holds, fate>> /\ tries[holds[c]] + 1 < MaxTries
<1>1. holds[c] \in Batches /\ UNCHANGED <<config, keyed, mode, queue>>
  BY DEF Push, Inv, TypeOK, factory
<1>2. CASE PushPermanent(c)
  BY <1>1, <1>2 DEF PushPermanent
<1>3. CASE PushOk(c)
  BY <1>1, <1>3 DEF PushOk
<1>4. CASE PushFails(c)
  <2>1. SendMessages(holds[c], FALSE)
    BY <1>4 DEF PushFails
  <2>2. tries[holds[c]] \in Nat /\ tries[holds[c]] < MaxTries
    BY <1>1, NoneAssumption DEF Inv, Placed, TypeOK
  <2>3. \/ End(c, "interrupted")
        \/ End(c, "exhausted")
        \/ UNCHANGED <<holds, fate>> /\ tries[holds[c]] + 1 < MaxTries
    BY <1>4, <2>2, QueueAssumption DEF PushFails
  <2> QED
    BY <1>1, <2>1, <2>3
<1> QED
  BY <1>2, <1>3, <1>4 DEF Push

LEMMA EndKeepsInv ==
    ASSUME Inv, NEW c \in Consumers, holds[c] \in Batches, NEW f \in Ended, End(c, f),
           UNCHANGED <<mode, queue>>,
           \A b \in Batches : b # holds[c] => tries'[b] = tries[b]
    PROVE  Placed' /\ fate' \in [Batches -> Fates] /\ holds' \in [Consumers -> Batches \cup {None}]
<1>1. /\ fate' = [fate EXCEPT ![holds[c]] = f]
      /\ holds' = [holds EXCEPT ![c] = None]
  BY DEF End
<1>2. fate' \in [Batches -> Fates] /\ holds' \in [Consumers -> Batches \cup {None}]
  BY <1>1 DEF Inv, TypeOK, Ended, Fates
<1>3. /\ f \notin {"new", "queued", "exporting"}
      /\ \A b \in Batches : b # holds[c] => fate'[b] = fate[b]
      /\ fate'[holds[c]] = f
      /\ holds'[c] = None
      /\ \A d \in Consumers : d # c => holds'[d] = holds[d]
  BY <1>1 DEF Inv, TypeOK, Ended
<1>4. \A k \in 1 .. Len(queue) : queue[k] \in Batches
  BY DEF Inv, TypeOK
<1>5. fate[holds[c]] = "exporting" /\ Placed
  BY NoneAssumption DEF Inv, Placed
<1>6. \A b \in Batches :
         /\ fate'[b] \in {"new", "queued"} => tries'[b] = 0
         /\ fate'[b] = "queued" => \E k \in 1 .. Len(queue') : queue'[k] = b
         /\ fate'[b] = "exporting" => \E d \in Consumers : holds'[d] = b
  BY <1>3, <1>5 DEF Placed
<1>7. /\ \A k \in 1 .. Len(queue') : fate'[queue'[k]] = "queued"
      /\ \A k, l \in 1 .. Len(queue') : queue'[k] = queue'[l] => k = l
  BY <1>3, <1>4, <1>5 DEF Placed
<1>8. /\ \A d \in Consumers : holds'[d] # None =>
            fate'[holds'[d]] = "exporting" /\ tries'[holds'[d]] < MaxTries
      /\ \A d, e \in Consumers : holds'[d] = holds'[e] /\ holds'[d] # None => d = e
  <2>1. ASSUME NEW d \in Consumers, holds'[d] # None
        PROVE  d # c /\ holds'[d] = holds[d] /\ holds[d] \in Batches /\ holds[d] # holds[c]
    BY <1>3, <1>5, <2>1 DEF Placed, Inv, TypeOK
  <2> QED
    BY <1>3, <1>5, <2>1 DEF Placed
<1>9. mode' \notin {"running", "stopping"} =>
         queue' = <<>> /\ \A d \in Consumers : holds'[d] = None
  BY <1>3, <1>5 DEF Placed
<1> QED
  BY <1>2, <1>6, <1>7, <1>8, <1>9 DEF Placed

LEMMA InvInit == Init => Inv
<1> SUFFICES ASSUME Init PROVE Inv
  OBVIOUS
<1>1. TypeOK
  BY QueueAssumption, ConfigAssumption DEF Init, TypeOK, Modes, Fates
<1> QED
  BY <1>1 DEF Init, Inv, Placed

LEMMA PushKeepsInv ==
    ASSUME Inv, NEW c \in Consumers, Push(c)
    PROVE  Inv'
<1>1. /\ holds[c] \in Batches
      /\ UNCHANGED <<config, keyed, mode, queue>>
      /\ \/ UNCHANGED <<tries, log>> /\ End(c, "permanent")
         \/ \E ok \in BOOLEAN :
               /\ SendMessages(holds[c], ok)
               /\ \/ End(c, "ok")
                  \/ End(c, "interrupted")
                  \/ End(c, "exhausted")
                  \/ UNCHANGED <<holds, fate>> /\ tries[holds[c]] + 1 < MaxTries
  BY PushCases
<1>2. tries[holds[c]] < MaxTries /\ TypeOK
  BY <1>1, NoneAssumption DEF Inv, Placed
<1>3. CASE UNCHANGED <<tries, log>> /\ End(c, "permanent")
  <2>1. Placed' /\ fate' \in [Batches -> Fates] /\ holds' \in [Consumers -> Batches \cup {None}]
    BY <1>1, <1>3, EndKeepsInv DEF Ended
  <2> QED
    BY <1>1, <1>3, <2>1 DEF Inv, TypeOK, log
<1>4. ASSUME NEW ok \in BOOLEAN, SendMessages(holds[c], ok)
      PROVE  /\ tries' = [tries EXCEPT ![holds[c]] = @ + 1]
             /\ tries' \in [Batches -> 0 .. MaxTries]
             /\ faults' \in 0 .. MaxFaults
             /\ DOMAIN stored' = Batches /\ DOMAIN copies' = Batches
             /\ \A b \in Batches :
                   /\ stored'[b] \in [Items(b) -> SUBSET [topic : Topics, key : Keys \cup {NoKey}]]
                   /\ copies'[b] \in [Items(b) -> Nat]
  BY <1>1, <1>2, <1>4, SendMessagesStores, SendMessagesTypes
<1>5. ASSUME NEW ok \in BOOLEAN, SendMessages(holds[c], ok),
             NEW f \in Ended, End(c, f)
      PROVE  Inv'
  <2>1. \A b \in Batches : b # holds[c] => tries'[b] = tries[b]
    BY <1>4, <1>5, <1>2 DEF TypeOK
  <2>2. Placed' /\ fate' \in [Batches -> Fates] /\ holds' \in [Consumers -> Batches \cup {None}]
    BY <1>1, <1>5, <2>1, EndKeepsInv
  <2> QED
    BY <1>1, <1>2, <1>4, <1>5, <2>2 DEF Inv, TypeOK
<1>6. ASSUME NEW ok \in BOOLEAN, SendMessages(holds[c], ok),
             UNCHANGED <<holds, fate>>, tries[holds[c]] + 1 < MaxTries
      PROVE  Inv'
  <2>1. /\ \A b \in Batches : b # holds[c] => tries'[b] = tries[b]
        /\ tries'[holds[c]] < MaxTries
    BY <1>1, <1>2, <1>4, <1>6 DEF TypeOK
  <2>2. fate[holds[c]] = "exporting"
    BY <1>1, NoneAssumption DEF Inv, Placed
  <2>3. \A d \in Consumers : holds[d] # None => holds[d] \in Batches
    BY DEF Inv, TypeOK
  <2>4. Placed'
    BY <1>1, <1>6, <2>1, <2>2, <2>3 DEF Inv, Placed
  <2> QED
    BY <1>1, <1>2, <1>4, <1>6, <2>4 DEF Inv, TypeOK
<1> QED
  BY <1>1, <1>3, <1>5, <1>6 DEF Ended

LEMMA TakeKeepsInv ==
    ASSUME Inv, NEW c \in Consumers, Take(c)
    PROVE  Inv'
<1> DEFINE b == queue[1]
<1>1. /\ queue \in Seq(Batches) /\ queue # <<>>
      /\ b \in Batches /\ Head(queue) = b
      /\ Len(queue) \in Nat /\ Len(queue) > 0
      /\ holds[c] = None /\ fate[b] = "queued" /\ tries[b] = 0
      /\ fate' = [fate EXCEPT ![b] = "exporting"]
      /\ holds' = [holds EXCEPT ![c] = b]
      /\ queue' = Tail(queue)
      /\ UNCHANGED <<config, keyed, mode, tries, stored, copies, faults>>
  BY DEF Take, Inv, TypeOK, Placed, factory, log
<1>2. /\ queue' \in Seq(Batches) /\ Len(queue') = Len(queue) - 1
      /\ \A k \in 1 .. Len(queue') : k + 1 \in 1 .. Len(queue) /\ queue'[k] = queue[k + 1]
  BY <1>1
<1> HIDE DEF b
<1>3. TypeOK'
  <2>1. /\ fate' \in [Batches -> Fates] /\ holds' \in [Consumers -> Batches \cup {None}]
        /\ Len(queue') <= QueueSize
    BY <1>1, <1>2, QueueAssumption DEF Inv, TypeOK, Fates
  <2> QED
    BY <1>1, <1>2, <2>1 DEF Inv, TypeOK
<1>4. \A d \in Batches : fate'[d] = IF d = b THEN "exporting" ELSE fate[d]
  BY <1>1 DEF Inv, TypeOK
<1>5. \A d \in Consumers : holds'[d] = IF d = c THEN b ELSE holds[d]
  BY <1>1 DEF Inv, TypeOK
<1>6. \A k \in 1 .. Len(queue') : queue'[k] # b /\ queue'[k] \in Batches
  BY <1>1, <1>2 DEF b, Inv, Placed
<1>7. \A d \in Batches :
         /\ fate'[d] \in {"new", "queued"} => tries'[d] = 0
         /\ fate'[d] = "queued" => \E k \in 1 .. Len(queue') : queue'[k] = d
         /\ fate'[d] = "exporting" => \E e \in Consumers : holds'[e] = d
  <2>1. ASSUME NEW d \in Batches, fate'[d] = "queued"
        PROVE  \E k \in 1 .. Len(queue') : queue'[k] = d
    <3>1. d # b /\ fate[d] = "queued"
      BY <1>4, <2>1
    <3>2. PICK k \in 1 .. Len(queue) : queue[k] = d
      BY <3>1 DEF Inv, Placed
    <3>3. k # 1
      BY <3>1, <3>2 DEF b
    <3>4. k - 1 \in 1 .. Len(queue') /\ (k - 1) + 1 = k
      BY <1>1, <1>2, <3>2, <3>3
    <3> QED
      BY <1>2, <3>2, <3>4
  <2>2. ASSUME NEW d \in Batches, fate'[d] = "exporting"
        PROVE  \E e \in Consumers : holds'[e] = d
    <3>1. CASE d = b
      BY <1>5, <3>1
    <3>2. CASE d # b
      <4>1. PICK e \in Consumers : holds[e] = d
        BY <1>4, <2>2, <3>2 DEF Inv, Placed
      <4> QED
        BY <1>1, <1>5, <4>1, NoneAssumption
    <3> QED
      BY <3>1, <3>2
  <2> QED
    BY <1>1, <1>4, <2>1, <2>2 DEF Inv, Placed
<1>8. /\ \A k \in 1 .. Len(queue') : fate'[queue'[k]] = "queued"
      /\ \A k, l \in 1 .. Len(queue') : queue'[k] = queue'[l] => k = l
  <2>1. \A k \in 1 .. Len(queue') : fate'[queue'[k]] = "queued"
    BY <1>2, <1>4, <1>6 DEF Inv, Placed
  <2>2. ASSUME NEW k \in 1 .. Len(queue'), NEW l \in 1 .. Len(queue'), queue'[k] = queue'[l]
        PROVE  k = l
    <3>1. k + 1 = l + 1
      BY <1>2, <2>2 DEF Inv, Placed
    <3> QED
      BY <1>1, <1>2, <3>1
  <2> QED
    BY <2>1, <2>2
<1>9. /\ \A d \in Consumers : holds'[d] # None =>
            fate'[holds'[d]] = "exporting" /\ tries'[holds'[d]] < MaxTries
      /\ \A d, e \in Consumers : holds'[d] = holds'[e] /\ holds'[d] # None => d = e
  <2>1. ASSUME NEW d \in Consumers, d # c, holds'[d] # None
        PROVE  /\ holds'[d] = holds[d] /\ holds[d] \in Batches /\ holds[d] # b
               /\ fate[holds[d]] = "exporting"
    BY <1>1, <1>5, <2>1 DEF Inv, TypeOK, Placed
  <2> QED
    BY <1>1, <1>4, <1>5, <2>1, QueueAssumption DEF Inv, Placed
<1>10. mode' \in {"running", "stopping"}
  BY <1>1 DEF Inv, Placed
<1> QED
  BY <1>3, <1>7, <1>8, <1>9, <1>10 DEF Inv, Placed

LEMMA OfferKeepsInv ==
    ASSUME Inv, NEW b \in Batches, Offer(b)
    PROVE  Inv'
<1>1. /\ mode \in {"running", "stopping"} /\ fate[b] = "new" /\ tries[b] = 0
      /\ UNCHANGED <<config, keyed, mode, holds, tries, stored, copies, faults>>
      /\ queue \in Seq(Batches)
      /\ \A c \in Consumers : holds[c] # b
  BY NoneAssumption DEF Offer, Inv, TypeOK, Placed, factory, log
<1>2. CASE queue' = queue /\ fate' = [fate EXCEPT ![b] = "rejected"]
  <2>1. TypeOK'
    BY <1>1, <1>2 DEF Inv, TypeOK, Fates
  <2>2. \A d \in Batches : fate'[d] = IF d = b THEN "rejected" ELSE fate[d]
    BY <1>2 DEF Inv, TypeOK
  <2>3. \A k \in 1 .. Len(queue) : queue[k] \in Batches /\ queue[k] # b
    BY <1>1 DEF Inv, Placed
  <2>4. \A c \in Consumers : holds[c] # None => holds[c] \in Batches
    BY DEF Inv, TypeOK
  <2> QED
    BY <1>1, <1>2, <2>1, <2>2, <2>3, <2>4 DEF Inv, Placed
<1>3. CASE /\ Len(queue) < QueueSize
           /\ queue' = Append(queue, b) /\ fate' = [fate EXCEPT ![b] = "queued"]
  <2> DEFINE n == Len(queue)
  <2>1. /\ n \in Nat /\ queue' \in Seq(Batches) /\ Len(queue') = n + 1
        /\ \A k \in 1 .. n : queue'[k] = queue[k]
        /\ queue'[n + 1] = b
    BY <1>1, <1>3
  <2>2. TypeOK'
    <3>1. Len(queue') <= QueueSize
      BY <1>3, <2>1, QueueAssumption
    <3> QED
      BY <1>1, <1>3, <2>1, <3>1 DEF Inv, TypeOK, Fates
  <2>3. \A d \in Batches : fate'[d] = IF d = b THEN "queued" ELSE fate[d]
    BY <1>3 DEF Inv, TypeOK
  <2>4. \A k \in 1 .. n : queue[k] \in Batches /\ queue[k] # b
    BY <1>1 DEF Inv, Placed
  <2>5. \A c \in Consumers : holds[c] # None => holds[c] \in Batches
    BY DEF Inv, TypeOK
  <2>6. ASSUME NEW d \in Batches, fate'[d] = "queued"
        PROVE  \E k \in 1 .. Len(queue') : queue'[k] = d
    <3>1. CASE d = b
      <4>1. n + 1 \in 1 .. Len(queue')
        BY <2>1
      <4> QED
        BY <2>1, <3>1, <4>1
    <3>2. CASE d # b
      <4>1. PICK k \in 1 .. n : queue[k] = d
        BY <2>3, <2>6, <3>2 DEF Inv, Placed
      <4>2. k \in 1 .. Len(queue')
        BY <2>1
      <4> QED
        BY <2>1, <4>1, <4>2
    <3> QED
      BY <3>1, <3>2
  <2>7. ASSUME NEW k \in 1 .. Len(queue')
        PROVE  k \in 1 .. n \/ k = n + 1
    BY <2>1
  <2>8. /\ \A k \in 1 .. Len(queue') : fate'[queue'[k]] = "queued"
        /\ \A k, l \in 1 .. Len(queue') : queue'[k] = queue'[l] => k = l
    BY <2>1, <2>3, <2>4, <2>7 DEF Inv, Placed
  <2> HIDE DEF n
  <2> QED
    BY <1>1, <2>2, <2>3, <2>5, <2>6, <2>8 DEF Inv, Placed
<1> QED
  BY <1>2, <1>3 DEF Offer

LEMMA InvNext == Inv /\ [Next]_vars => Inv'
<1> SUFFICES ASSUME Inv, [Next]_vars PROVE Inv'
  OBVIOUS
<1>1. ASSUME NEW c \in Consumers, Export(c) PROVE Inv'
  <2>1. CASE Push(c)
    BY <2>1, PushKeepsInv
  <2>2. CASE Take(c)
    BY <2>2, TakeKeepsInv
  <2>3. CASE Interrupt(c)
    <3>1. holds[c] \in Batches /\ UNCHANGED <<config, keyed, mode, queue, tries, stored, copies, faults>>
      BY <2>3 DEF Interrupt, Inv, TypeOK, factory, log
    <3>2. Placed' /\ fate' \in [Batches -> Fates] /\ holds' \in [Consumers -> Batches \cup {None}]
      BY <2>3, <3>1, EndKeepsInv DEF Interrupt, Ended
    <3> QED
      BY <3>1, <3>2 DEF Inv, TypeOK
  <2> QED
    BY <1>1, <2>1, <2>2, <2>3 DEF Export, tracesPusher, metricsDataPusher, logsDataPusher
<1>2. ASSUME NEW b \in Batches, Offer(b) PROVE Inv'
  BY <1>2, OfferKeepsInv
<1>3. ASSUME NEW cfg \in Configurations, newExporter(cfg) PROVE keyed' \subseteq Keyable
  BY <1>3 DEF newExporter, newTracesExporter, newMetricsExporter, newLogsExporter, KeyCalled,
              Inv, TypeOK
<1>4. CASE Create \/ \E cfg \in Siblings : CreateSibling(cfg)
  <2>1. keyed' \subseteq Keyable
    BY <1>3, <1>4, ConfigAssumption DEF Create, CreateSibling, Inv, TypeOK
  <2>2. /\ mode' \in {"building", "refused", "built"} /\ mode \in {"building", "built"}
        /\ UNCHANGED <<config, queue, holds, tries, fate, stored, copies, faults>>
    BY <1>4 DEF Create, CreateSibling, log
  <2> QED
    BY <2>1, <2>2 DEF Inv, TypeOK, Placed, Modes
<1>5. CASE start \/ Shutdown \/ Close \/ UNCHANGED vars
  <2>1. /\ mode' \in Modes
        /\ mode' \notin {"running", "stopping"} =>
              queue = <<>> /\ \A c \in Consumers : holds[c] = None
        /\ UNCHANGED <<config, keyed, queue, holds, tries, fate, stored, copies, faults>>
    BY <1>5 DEF start, newSaramaProducer, Shutdown, Close, vars, factory, log, Modes,
                Inv, TypeOK, Placed
  <2> QED
    BY <2>1 DEF Inv, TypeOK, Placed
<1> QED
  BY <1>1, <1>2, <1>4, <1>5 DEF Next

(* Every variable has its type: among others, no batch has more attempts     *)
(* than the retries allow, and what is stored has a topic and a key.         *)
THEOREM ExporterTypeCorrect == Spec => []TypeOK
<1>1. Inv => TypeOK
  BY DEF Inv
<1> QED
  BY <1>1, InvInit, InvNext, PTL DEF Spec

-----------------------------------------------------------------------------
(* What becomes of the copies of an item in one step.                        *)

(* Only an attempt with a batch changes what is stored of it, while it is    *)
(* being exported, and without a fault adds at most one copy of an item.     *)
LEMMA CopiesStep ==
    ASSUME Inv, [Next]_vars
    PROVE  /\ config' = config /\ faults' \in {faults, faults + 1}
           /\ \A b \in Batches :
                 \/ stored'[b] = stored[b] /\ copies'[b] = copies[b] /\ tries'[b] = tries[b]
                 \/ /\ fate[b] = "exporting" /\ mode \in {"running", "stopping"}
                    /\ tries'[b] = tries[b] + 1
                    /\ \A i \in Items(b) :
                          /\ copies'[b][i] \in copies[b][i] .. copies[b][i] + (1 + MaxResends)
                          /\ copies'[b][i] <= copies[b][i] + 1 \/ faults' = faults + 1
                          /\ \A at \in stored'[b][i] :
                                \/ at \in stored[b][i]
                                \/ \E m \in Messages(b) : i \in m.items
                                      /\ at = [topic |-> getTopic(b), key |-> m.key]
<1>1. ASSUME NEW c \in Consumers, Push(c), NEW b \in Batches
      PROVE  \/ stored'[b] = stored[b] /\ copies'[b] = copies[b] /\ tries'[b] = tries[b]
             \/ /\ fate[b] = "exporting" /\ mode \in {"running", "stopping"}
                /\ tries'[b] = tries[b] + 1
                /\ \A i \in Items(b) :
                      /\ copies'[b][i] \in copies[b][i] .. copies[b][i] + (1 + MaxResends)
                      /\ copies'[b][i] <= copies[b][i] + 1 \/ faults' = faults + 1
                      /\ \A at \in stored'[b][i] :
                            \/ at \in stored[b][i]
                            \/ \E m \in Messages(b) : i \in m.items
                                  /\ at = [topic |-> getTopic(b), key |-> m.key]
  <2>1. /\ holds[c] \in Batches
        /\ \/ UNCHANGED <<tries, log>>
           \/ \E ok \in BOOLEAN : SendMessages(holds[c], ok)
    BY <1>1, PushCases
  <2>2. /\ tries[holds[c]] < MaxTries /\ fate[holds[c]] = "exporting"
        /\ mode \in {"running", "stopping"} /\ TypeOK
    BY <2>1, NoneAssumption DEF Inv, Placed
  <2>3. CASE UNCHANGED <<tries, log>>
    BY <2>3 DEF log
  <2>4. ASSUME NEW ok \in BOOLEAN, SendMessages(holds[c], ok),
               b # holds[c]
        PROVE  stored'[b] = stored[b] /\ copies'[b] = copies[b] /\ tries'[b] = tries[b]
    <3>1. /\ tries' = [tries EXCEPT ![holds[c]] = @ + 1]
          /\ \A d \in Batches : d # holds[c] => stored'[d] = stored[d] /\ copies'[d] = copies[d]
      BY <2>1, <2>2, <2>4, SendMessagesStores
    <3> QED
      BY <2>2, <2>4, <3>1 DEF TypeOK
  <2>5. ASSUME NEW ok \in BOOLEAN, SendMessages(holds[c], ok)
        PROVE  /\ tries'[holds[c]] = tries[holds[c]] + 1
               /\ \A i \in Items(holds[c]) :
                     /\ copies'[holds[c]][i] \in copies[holds[c]][i] .. copies[holds[c]][i] + (1 + MaxResends)
                     /\ copies'[holds[c]][i] <= copies[holds[c]][i] + 1 \/ faults' = faults + 1
                     /\ \A at \in stored'[holds[c]][i] :
                           \/ at \in stored[holds[c]][i]
                           \/ \E m \in Messages(holds[c]) : i \in m.items
                                 /\ at = [topic |-> getTopic(holds[c]), key |-> m.key]
    <3>1. PICK d \in Batches : d = holds[c]
      BY <2>1
    <3>2. SendMessages(d, ok) /\ tries[d] < MaxTries
      BY <2>2, <2>5, <3>1
    <3>3. /\ tries' = [tries EXCEPT ![d] = @ + 1]
          /\ \A i \in Items(d) :
                /\ copies'[d][i] \in copies[d][i] .. copies[d][i] + (1 + MaxResends)
                /\ copies'[d][i] <= copies[d][i] + 1 \/ faults' = faults + 1
                /\ \A at \in stored'[d][i] :
                      \/ at \in stored[d][i]
                      \/ \E m \in Messages(d) : i \in m.items
                            /\ at = [topic |-> getTopic(d), key |-> m.key]
      BY <2>2, <3>2, SendMessagesStores
    <3>4. tries'[d] = tries[d] + 1
      BY <2>2, <3>3 DEF TypeOK
    <3> QED
      BY <3>1, <3>3, <3>4
  <2> QED
    BY <2>1, <2>2, <2>3, <2>4, <2>5
<1>2. ASSUME NEW c \in Consumers, Push(c)
      PROVE  config' = config /\ faults' \in {faults, faults + 1}
  BY <1>2, PushCases DEF SendMessages, log
<1>3. CASE UNCHANGED <<config, log, tries>>
  BY <1>3 DEF log
<1>4. \/ \E c \in Consumers : Push(c)
      \/ UNCHANGED <<config, log, tries>>
  BY DEF Next, Export, tracesPusher, metricsDataPusher, logsDataPusher, Take, Interrupt, Offer,
         Create, CreateSibling, start, Shutdown, Close, vars, factory
<1> QED
  BY <1>1, <1>2, <1>3, <1>4

(* Without a fault an attempt stores an item at most once, whatever the      *)
(* marshaler splits; with one, no more often than the producer may send it.  *)
THEOREM CopiesOnlyByRetry == Spec => []CopiesAreRetries
<1>1. Init => CopiesAreRetries
  BY QueueAssumption DEF Init, CopiesAreRetries
<1>2. Inv /\ CopiesAreRetries /\ [Next]_vars => CopiesAreRetries'
  <2> SUFFICES ASSUME Inv, CopiesAreRetries, [Next]_vars, NEW b \in Batches, NEW i \in Items(b)
               PROVE  copies'[b][i] <= tries'[b] + MaxResends * faults'
    BY DEF CopiesAreRetries
  <2>1. /\ tries[b] \in Nat /\ copies[b][i] \in Nat /\ MaxResends \in Nat /\ faults \in Nat
        /\ copies[b][i] <= tries[b] + MaxResends * faults
    BY QueueAssumption DEF Inv, TypeOK, CopiesAreRetries
  <2>2. MaxResends * (faults + 1) = MaxResends * faults + MaxResends
    BY <2>1
  <2>3. MaxResends * faults \in Nat
    BY <2>1
  <2>4. faults' \in {faults, faults + 1}
    BY CopiesStep
  <2>5. \/ copies'[b] = copies[b] /\ tries'[b] = tries[b]
        \/ /\ tries'[b] = tries[b] + 1
           /\ copies'[b][i] \in copies[b][i] .. copies[b][i] + (1 + MaxResends)
           /\ copies'[b][i] <= copies[b][i] + 1 \/ faults' = faults + 1
    BY CopiesStep
  <2>6. CASE faults' = faults
    BY <2>1, <2>3, <2>5, <2>6
  <2>7. CASE faults' = faults + 1
    <3>1. copies'[b][i] <= tries'[b] + (MaxResends * faults + MaxResends)
      BY <2>1, <2>3, <2>5
    <3> QED
      BY <2>2, <2>7, <3>1
  <2> QED
    BY <2>4, <2>6, <2>7
<1> QED
  BY <1>1, <1>2, InvInit, InvNext, PTL DEF Spec

-----------------------------------------------------------------------------
(* The topic and the key.                                                    *)

(* An exporter that exists has an encoding its signal knows, and if it       *)
(* partitions, its marshaler was told so; and marshalers do not forget.      *)
MarshalerReady ==
    mode \notin {"building", "refused"} => Recognized(config) /\ KeyCalled(config) \subseteq keyed

LEMMA MarshalerReadyNext == Inv /\ MarshalerReady /\ [Next]_vars => MarshalerReady'
<1> SUFFICES ASSUME Inv, MarshalerReady, [Next]_vars PROVE MarshalerReady'
  OBVIOUS
<1>1. config' = config
  BY CopiesStep
<1>2. ASSUME NEW cfg, newExporter(cfg) PROVE keyed \subseteq keyed'
  BY <1>2 DEF newExporter, newTracesExporter, newMetricsExporter, newLogsExporter
<1>3. CASE Create
  <2>1. KeyCalled(config) \subseteq keyed'
    BY <1>3 DEF Create, newExporter, newTracesExporter, newMetricsExporter, newLogsExporter,
                KeyCalled, Marshaler, Keyable
  <2> QED
    BY <1>1, <1>3, <2>1 DEF Create, MarshalerReady, Recognized, KeyCalled, Marshaler
<1>4. CASE /\ keyed \subseteq keyed'
           /\ mode' \in {"building", "refused"} \/ mode \notin {"building", "refused"}
  BY <1>1, <1>4 DEF MarshalerReady, Recognized, KeyCalled, Marshaler
<1>5. CASE \E cfg \in Siblings : CreateSibling(cfg)
  BY <1>2, <1>4, <1>5 DEF CreateSibling
<1>6. CASE UNCHANGED keyed /\ (mode' = mode \/ mode \notin {"building", "refused"})
  BY <1>4, <1>6
<1>7. \/ Create
      \/ \E cfg \in Siblings : CreateSibling(cfg)
      \/ UNCHANGED keyed /\ (mode' = mode \/ mode \notin {"building", "refused"})
  BY DEF Next, Export, tracesPusher, metricsDataPusher, logsDataPusher, Push, Take, Interrupt,
         Offer, start, Shutdown, Close, vars, factory
<1> QED
  BY <1>3, <1>5, <1>6, <1>7

(* An item has its own key, for every factory and every set of siblings.     *)
THEOREM KeysAsConfigured == Spec => []KeyedAsConfigured
<1>1. Init => KeyedAsConfigured /\ MarshalerReady
  BY DEF Init, KeyedAsConfigured, MarshalerReady
<1>2. Inv /\ MarshalerReady /\ KeyedAsConfigured /\ [Next]_vars => KeyedAsConfigured'
  <2> SUFFICES ASSUME Inv, MarshalerReady, KeyedAsConfigured, [Next]_vars,
                      NEW b \in Batches, NEW i \in Items(b), NEW at \in stored'[b][i]
               PROVE  /\ config.signal = "traces"
                         /\ (config.partition \/ config.encoding = "jaeger") =>
                            at.key = Item(b, i).trace
                      /\ config.signal = "metrics" /\ config.partition => at.key = Hash(b, i)
    BY CopiesStep DEF KeyedAsConfigured
  <2>1. CASE at \in stored[b][i]
    BY <2>1 DEF KeyedAsConfigured
  <2>2. CASE at \notin stored[b][i]
    <3>1. /\ mode \in {"running", "stopping"}
          /\ \E m \in Messages(b) : i \in m.items /\ at = [topic |-> getTopic(b), key |-> m.key]
      BY <2>2, CopiesStep
    <3>2. PICK m \in Messages(b) : i \in m.items /\ at.key = m.key
      BY <3>1
    <3>3. Recognized(config) /\ KeyCalled(config) \subseteq keyed
      BY <3>1 DEF MarshalerReady
    <3> DEFINE k == Marshaler(config) \in keyed
    <3>4. k \in BOOLEAN /\ m \in Marshal(config, k, b)
      BY <3>2 DEF Messages
    <3> HIDE DEF k
    <3>5. /\ config.encoding = "jaeger" => m.key = Item(b, i).trace
          /\ config.encoding = "otlp" /\ config.signal = "traces" /\ k => m.key = Item(b, i).trace
          /\ config.encoding = "otlp" /\ config.signal = "metrics" /\ k => m.key = Hash(b, i)
      BY <3>2, <3>4, MessagesKeyed
    <3>6. /\ config.signal = "traces" => config.encoding \in {"otlp", "jaeger"}
          /\ config.signal = "metrics" => config.encoding = "otlp"
      BY <3>3 DEF Recognized, Encodings
    <3>7. config.partition /\ config.signal \in {"traces", "metrics"}
          /\ config.encoding = "otlp" => k
      BY <3>3 DEF KeyCalled, Marshaler, Keyable, k
    <3> QED
      BY <3>2, <3>5, <3>6, <3>7
  <2> QED
    BY <2>1, <2>2
<1> QED
  BY <1>1, <1>2, InvInit, InvNext, MarshalerReadyNext, PTL DEF Spec

(* The topic of a batch does not depend on the order of its resources when   *)
(* they agree.                                                               *)
TopicStored ==
    \A b \in Batches : \A i \in Items(b) : \A at \in stored[b][i] : at.topic = getTopic(b)

THEOREM AgreedTopicUsed == Spec => []AgreedTopic
<1>1. Init => TopicStored
  BY DEF Init, TopicStored
<1>2. Inv /\ TopicStored /\ [Next]_vars => TopicStored'
  <2> SUFFICES ASSUME Inv, TopicStored, [Next]_vars,
                      NEW b \in Batches, NEW i \in Items(b), NEW at \in stored'[b][i]
               PROVE  at.topic = getTopic(b)
    BY DEF TopicStored
  <2> QED
    BY CopiesStep DEF TopicStored
<1>3. TopicStored => AgreedTopic
  BY TopicOfBatch DEF TopicStored, AgreedTopic
<1> QED
  BY <1>1, <1>2, <1>3, InvInit, InvNext, PTL DEF Spec

-----------------------------------------------------------------------------
(* What is reported as exported is stored.                                   *)

(* A batch becomes exported only by an attempt without an error, which has   *)
(* stored all that is owed for it.                                           *)
LEMMA OkStep ==
    ASSUME Inv, [Next]_vars, NEW b \in Batches, fate'[b] = "ok", fate[b] # "ok"
    PROVE  \A i \in Owed(b) : Stored(b, i)'
<1>1. PICK c \in Consumers : Push(c) /\ holds[c] = b
  <2>1. \/ \E c \in Consumers : Push(c) \/ Take(c) \/ Interrupt(c)
        \/ \E d \in Batches : Offer(d)
        \/ UNCHANGED fate
    BY DEF Next, Export, tracesPusher, metricsDataPusher, logsDataPusher,
           Create, CreateSibling, start, Shutdown, Close, vars
  <2>2. ASSUME NEW c \in Consumers, Push(c) PROVE holds[c] = b
    <3>1. \E f : fate' = fate \/ fate' = [fate EXCEPT ![holds[c]] = f]
      BY <2>2, PushCases DEF End
    <3> QED
      BY <3>1 DEF Inv, TypeOK
  <2>3. ~ \E c \in Consumers : Take(c) \/ Interrupt(c)
    BY DEF Take, Interrupt, End, Inv, TypeOK
  <2>4. ~ \E d \in Batches : Offer(d)
    BY DEF Offer, Inv, TypeOK
  <2> QED
    BY <2>1, <2>2, <2>3, <2>4
<1>2. /\ tries[b] < MaxTries /\ fate[b] = "exporting"
      /\ TypeOK
  BY <1>1, NoneAssumption DEF Inv, Placed
<1>3. SendMessages(b, TRUE)
  <2>1. ~ End(c, "permanent") /\ ~ End(c, "interrupted") /\ ~ End(c, "exhausted")
    BY <1>1, <1>2 DEF End, TypeOK
  <2>2. fate' # fate
    OBVIOUS
  <2> QED
    BY <1>1, <2>1, <2>2, PushCases
<1>4. ASSUME NEW i \in Owed(b) PROVE Stored(b, i)'
  <2>1. i \in Items(b) /\ config \in Configurations
    BY <1>2, ConfigAssumption DEF Owed, TypeOK
  <2> DEFINE k == Marshaler(config) \in keyed
  <2>2. k \in BOOLEAN /\ Messages(b) = Marshal(config, k, b)
    BY DEF Messages
  <2>3. /\ ~(Oversize(b, i) /\ config.encoding = "jaeger" /\ config.dropSpans)
        /\ ~(Item(b, i).class = "empty" /\ config.encoding = "raw")
    BY <1>4 DEF Owed
  <2> HIDE DEF k
  <2>4. \E m \in Marshal(config, k, b) : i \in m.items
    BY <2>1, <2>2, <2>3, MessagesCover
  <2>5. PICK m \in Messages(b) : i \in m.items
    BY <2>2, <2>4
  <2>6. copies'[b][i] \in Nat /\ copies'[b][i] > copies[b][i]
    <3>1. PICK ok \in BOOLEAN : ok = TRUE
      OBVIOUS
    <3>2. SendMessages(b, ok)
      BY <1>3, <3>1
    <3>3. /\ copies'[b] \in [Items(b) -> Nat]
          /\ ok => \A n \in Messages(b) : i \in n.items => copies'[b][i] > copies[b][i]
      BY <1>2, <2>1, <3>2, SendMessagesStores
    <3> QED
      BY <2>1, <2>5, <3>1, <3>3
  <2>7. copies[b][i] \in Nat
    BY <1>2, <2>1 DEF TypeOK
  <2> QED
    BY <2>6, <2>7 DEF Stored
<1> QED
  BY <1>4

(* A pusher returns nil only when all that is owed for the batch is stored.  *)
THEOREM OkAlwaysStored == Spec => []OkIsStored
<1>1. Init => OkIsStored
  BY DEF Init, OkIsStored
<1>2. Inv /\ OkIsStored /\ [Next]_vars => OkIsStored'
  <2> SUFFICES ASSUME Inv, OkIsStored, [Next]_vars, NEW b \in Batches, fate'[b] = "ok",
                      NEW i \in Owed(b)
               PROVE  Stored(b, i)'
    BY CopiesStep DEF OkIsStored, Owed
  <2>1. CASE fate[b] = "ok"
    <3>1. copies[b][i] \in Nat /\ copies[b][i] > 0 /\ i \in Items(b)
      BY <2>1 DEF OkIsStored, Stored, Inv, TypeOK, Owed
    <3> QED
      BY <3>1, CopiesStep DEF Stored
  <2>2. CASE fate[b] # "ok"
    BY <2>2, OkStep
  <2> QED
    BY <2>1, <2>2
<1> QED
  BY <1>1, <1>2, InvInit, InvNext, PTL DEF Spec

-----------------------------------------------------------------------------
(* The exporter implements BatchDelivery.                                    *)

(* The copies are a function: one that is overridden at its own value is     *)
(* unchanged.                                                                *)
Tabulated == copies = [b \in Batches |-> copies[b]]

LEMMA TabulatedNext == Inv /\ Tabulated /\ [Next]_vars => Tabulated'
<1> SUFFICES ASSUME Inv, Tabulated, [Next]_vars PROVE Tabulated'
  OBVIOUS
<1>1. ASSUME NEW b, NEW ok, SendMessages(b, ok) PROVE Tabulated'
  <2>1. \E g : copies' = [copies EXCEPT ![b] = g]
    BY <1>1 DEF SendMessages, Store
  <2> QED
    BY <2>1 DEF Tabulated
<1>2. \/ UNCHANGED copies
      \/ \E c \in Consumers : \E ok : SendMessages(holds[c], ok)
  BY DEF Next, Export, tracesPusher, metricsDataPusher, logsDataPusher, Push, PushPermanent,
         PushOk, PushFails, Take, Interrupt, Offer, Create, CreateSibling, start, Shutdown,
         Close, vars, log
<1> QED
  BY <1>1, <1>2 DEF Tabulated

(* A step concerns one batch at most, and that one has no outcome yet.       *)
LEMMA OneBatch ==
    ASSUME Inv, Tabulated, [Next]_vars
    PROVE  \/ UNCHANGED <<fate, copies>>
           \/ \E b \in Batches :
                 /\ fate[b] \notin Ended
                 /\ fate' = [fate EXCEPT ![b] = fate'[b]]
                 /\ copies' = [copies EXCEPT ![b] = copies'[b]]
<1>1. /\ fate = [b \in Batches |-> fate[b]]
      /\ copies = [b \in Batches |-> copies[b]]
  BY DEF Inv, TypeOK, Tabulated
<1>2. ASSUME NEW b \in Batches, UNCHANGED copies, NEW f, fate' = [fate EXCEPT ![b] = f]
      PROVE  /\ fate' = [fate EXCEPT ![b] = fate'[b]]
             /\ copies' = [copies EXCEPT ![b] = copies'[b]]
  BY <1>1, <1>2
<1>3. ASSUME NEW c \in Consumers, holds[c] # None
      PROVE  holds[c] \in Batches /\ fate[holds[c]] \notin Ended
  BY <1>3 DEF Inv, TypeOK, Placed, Ended
<1>4. ASSUME NEW c \in Consumers, Push(c)
      PROVE  /\ fate' = [fate EXCEPT ![holds[c]] = fate'[holds[c]]]
             /\ copies' = [copies EXCEPT ![holds[c]] = copies'[holds[c]]]
  <2>1. /\ holds[c] \in Batches
        /\ fate' = fate \/ \E f : fate' = [fate EXCEPT ![holds[c]] = f]
        /\ \/ copies' = copies
           \/ \E ok : SendMessages(holds[c], ok)
    BY <1>4, PushCases DEF End, log
  <2>2. fate' = [fate EXCEPT ![holds[c]] = fate'[holds[c]]]
    BY <1>1, <2>1
  <2>3. copies' = copies \/ \E g : copies' = [copies EXCEPT ![holds[c]] = g]
    BY <2>1 DEF SendMessages, Store
  <2>4. copies' = [copies EXCEPT ![holds[c]] = copies'[holds[c]]]
    BY <1>1, <2>1, <2>3
  <2> QED
    BY <2>2, <2>4
<1>5. ASSUME NEW c \in Consumers, Interrupt(c)
      PROVE  /\ fate' = [fate EXCEPT ![holds[c]] = fate'[holds[c]]]
             /\ copies' = [copies EXCEPT ![holds[c]] = copies'[holds[c]]]
  <2>1. UNCHANGED copies /\ holds[c] # None /\ fate' = [fate EXCEPT ![holds[c]] = "interrupted"]
    BY <1>5 DEF Interrupt, End, log
  <2> QED
    BY <1>2, <1>3, <2>1
<1>6. ASSUME NEW c \in Consumers, Take(c)
      PROVE  \E b \in Batches :
                 /\ fate[b] \notin Ended
                 /\ fate' = [fate EXCEPT ![b] = fate'[b]]
                 /\ copies' = [copies EXCEPT ![b] = copies'[b]]
  <2>1. /\ queue \in Seq(Batches) /\ queue # <<>> /\ UNCHANGED copies
        /\ fate' = [fate EXCEPT ![Head(queue)] = "exporting"]
    BY <1>6 DEF Take, Inv, TypeOK, log
  <2>2. Head(queue) = queue[1] /\ 1 \in 1 .. Len(queue) /\ Head(queue) \in Batches
    BY <2>1
  <2>3. fate[Head(queue)] = "queued"
    BY <2>2 DEF Inv, Placed
  <2> QED
    BY <1>2, <2>1, <2>2, <2>3 DEF Ended
<1>7. ASSUME NEW b \in Batches, Offer(b)
      PROVE  /\ fate[b] \notin Ended
             /\ fate' = [fate EXCEPT ![b] = fate'[b]]
             /\ copies' = [copies EXCEPT ![b] = copies'[b]]
  <2>1. /\ fate[b] = "new" /\ UNCHANGED copies
        /\ \E f : fate' = [fate EXCEPT ![b] = f]
    BY <1>7 DEF Offer, log
  <2> QED
    BY <1>2, <2>1 DEF Ended
<1>8. \/ \E c \in Consumers : (Push(c) /\ holds[c] # None) \/ Take(c)
                              \/ (Interrupt(c) /\ holds[c] # None)
      \/ \E b \in Batches : Offer(b)
      \/ UNCHANGED <<fate, copies>>
  BY DEF Next, Export, tracesPusher, metricsDataPusher, logsDataPusher, Push, Interrupt,
         Create, CreateSibling, start, Shutdown, Close, vars, log
<1> QED
  BY <1>3, <1>4, <1>5, <1>6, <1>7, <1>8

(* The exporter delivers at least once, reports honestly, and sends nothing  *)
(* of a batch whose outcome the pipeline knows.                              *)
THEOREM ImplementsBatchDelivery == Spec => DeliveryRefined
<1> DEFINE outcome == [b \in Batches |-> Outcome(b)]
           owed == [b \in Batches |-> Owed(b)]
<1>1. Init => Delivery!Init /\ Tabulated
  BY DEF Init, Delivery!Init, Outcome, Ended, Tabulated
<1>2. Inv /\ Tabulated /\ [Next]_vars => [Delivery!Next]_<<owed, outcome, copies>>
  <2> SUFFICES ASSUME Inv, Tabulated, [Next]_vars
               PROVE  [Delivery!Next]_<<owed, outcome, copies>>
    OBVIOUS
  <2>1. owed' = owed
    BY CopiesStep DEF Owed
  <2>2. CASE UNCHANGED <<fate, copies>>
    BY <2>1, <2>2 DEF Outcome
  <2>3. ASSUME NEW b \in Batches,
               fate[b] \notin Ended,
               fate' = [fate EXCEPT ![b] = fate'[b]],
               copies' = [copies EXCEPT ![b] = copies'[b]]
        PROVE  Delivery!Attempt(b)
    <3>1. outcome[b] = "pending"
      BY <2>3 DEF Outcome, Ended
    <3>2. DOMAIN copies[b] = Items(b) /\ copies'[b] = [i \in Items(b) |-> copies'[b][i]]
      BY InvNext DEF Inv, TypeOK
    <3>3. \A i \in Items(b) : copies[b][i] \in Nat
      BY DEF Inv, TypeOK
    <3>4. \A i \in DOMAIN copies[b] :
             copies'[b][i] \in copies[b][i] .. copies[b][i] + (1 + MaxResends)
      BY <3>2, <3>3, CopiesStep, QueueAssumption
    <3>5. copies' = [copies EXCEPT ![b] = [i \in DOMAIN @ |-> copies'[b][i]]]
      BY <2>3, <3>2 DEF Tabulated
    <3>6. outcome' = [outcome EXCEPT ![b] = Outcome(b)']
      <4>1. \A d \in Batches : d # b => fate'[d] = fate[d]
        BY <2>3 DEF Inv, TypeOK
      <4> QED
        BY <4>1 DEF Outcome
    <3>7. Outcome(b)' \in {"pending", "ok", "failed"}
      BY DEF Outcome
    <3>8. ASSUME Outcome(b)' = "ok" PROVE \A i \in owed[b] : copies'[b][i] > 0
      <4>1. fate'[b] = "ok" /\ fate[b] # "ok"
        BY <2>3, <3>8 DEF Outcome, Ended
      <4> QED
        BY <4>1, OkStep DEF Stored
    <3> HIDE DEF outcome, owed
    <3> QED
      BY <2>1, <3>1, <3>4, <3>5, <3>6, <3>7, <3>8 DEF Delivery!Attempt, outcome, owed
  <2> QED
    BY <2>2, <2>3, OneBatch DEF Delivery!Next
<1> QED
  BY <1>1, <1>2, InvInit, InvNext, TabulatedNext, PTL DEF Spec, DeliveryRefined, Delivery!Spec
=============================================================================
