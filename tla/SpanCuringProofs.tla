-------------------------- MODULE SpanCuringProofs --------------------------
(* Theorems about the marshaler that cures spans, for any batches, limits    *)
(* and number of tries, and whatever the size of a message is.               *)
EXTENDS SpanCuring, SumTheorems

MessageRecord == [span : Nat, tags : Seq(Tag), markers : Markers, logs : Seq(Logs)]

-----------------------------------------------------------------------------
(* The powers of two.                                                        *)

Powers(n, f) == f = [k \in 0 .. n |-> IF k = 0 THEN 1 ELSE 2 * f[k - 1]]

LEMMA PowersExist == \A n \in Nat : \E f : Powers(n, f)
<1> DEFINE N == {n \in Nat : \E f : Powers(n, f)}
<1>1. 0 \in N
  <2> DEFINE f == [k \in 0 .. 0 |-> 1]
  <2>1. Powers(0, f)
    BY DEF Powers
  <2> QED
    BY <2>1
<1>2. ASSUME NEW n \in Nat, n \in N PROVE n + 1 \in N
  <2>1. PICK f : Powers(n, f)
    BY <1>2
  <2> DEFINE g == [k \in 0 .. n + 1 |-> IF k = 0 THEN 1 ELSE 2 * f[k - 1]]
  <2>2. \A k \in 0 .. n : g[k] = f[k]
    BY <2>1 DEF Powers
  <2>3. ASSUME NEW k \in 0 .. n + 1
        PROVE  g[k] = IF k = 0 THEN 1 ELSE 2 * g[k - 1]
    <3>1. g[k] = IF k = 0 THEN 1 ELSE 2 * f[k - 1]
      OBVIOUS
    <3>2. k # 0 => k - 1 \in 0 .. n
      OBVIOUS
    <3> HIDE DEF g
    <3> QED
      BY <2>2, <3>1, <3>2
  <2>4. g = [k \in 0 .. n + 1 |-> g[k]]
    OBVIOUS
  <2> HIDE DEF g
  <2>5. Powers(n + 1, g)
    BY <2>3, <2>4 DEF Powers
  <2> QED
    BY <2>5
<1> HIDE DEF N
<1>3. \A n \in Nat : n \in N
  BY <1>1, <1>2, SetInduction
<1> QED
  BY <1>3 DEF N

(* A power is twice the one before it.                                       *)
LEMMA PowerSteps ==
    /\ PowerOfTwo[0] = 1
    /\ \A k \in 0 .. maxTruncationTries - 1 : PowerOfTwo[k + 1] = 2 * PowerOfTwo[k]
<1>1. PICK f : Powers(maxTruncationTries, f)
  BY PowersExist, SizesAssumption
<1>2. Powers(maxTruncationTries, PowerOfTwo)
  BY <1>1 DEF PowerOfTwo, Powers
<1>3. \A k \in 0 .. maxTruncationTries :
         PowerOfTwo[k] = IF k = 0 THEN 1 ELSE 2 * PowerOfTwo[k - 1]
  BY <1>2 DEF Powers
<1> QED
  BY <1>3, SizesAssumption

LEMMA PowerType == \A k \in 0 .. maxTruncationTries : PowerOfTwo[k] \in Nat \ {0}
<1> DEFINE N == {n \in Nat : n <= maxTruncationTries => PowerOfTwo[n] \in Nat \ {0}}
<1>1. 0 \in N
  BY PowerSteps
<1>2. ASSUME NEW n \in Nat, n \in N PROVE n + 1 \in N
  <2>1. CASE n + 1 <= maxTruncationTries
    <3>1. n \in 0 .. maxTruncationTries - 1 /\ PowerOfTwo[n] \in Nat \ {0}
      BY <1>2, <2>1, SizesAssumption
    <3> QED
      BY <3>1, PowerSteps
  <2>2. CASE ~ (n + 1 <= maxTruncationTries)
    BY <2>2
  <2> QED
    BY <2>1, <2>2
<1> HIDE DEF N
<1>3. \A n \in Nat : n \in N
  BY <1>1, <1>2, SetInduction
<1> QED
  BY <1>3 DEF N

(* There are at least two logs to thin.                                      *)
LEMMA EnoughLogs == minSpanLogsArrSize \in Nat \ {0, 1}
<1>1. maxTruncationTries - 1 \in 0 .. maxTruncationTries - 1
  BY SizesAssumption
<1>2. PowerOfTwo[maxTruncationTries - 1] \in Nat \ {0}
  BY PowerType, SizesAssumption
<1>3. PowerOfTwo[(maxTruncationTries - 1) + 1] = 2 * PowerOfTwo[maxTruncationTries - 1]
  BY <1>1, PowerSteps
<1>4. (maxTruncationTries - 1) + 1 = maxTruncationTries
  BY SizesAssumption
<1> QED
  BY <1>2, <1>3, <1>4 DEF minSpanLogsArrSize

-----------------------------------------------------------------------------
(* What a try leaves is a span again.                                        *)

LEMMA TruncateType ==
    ASSUME NEW ts \in Seq(Tag), NEW l \in Nat
    PROVE  Truncate(ts, l) \in Seq(Tag)
<1>1. \A i \in 1 .. Len(ts) : ts[i] \in Tag
  OBVIOUS
<1>2. \A t \in Tag : [t EXCEPT !.len = l] \in Tag
  BY DEF Tag
<1>3. \A i \in 1 .. Len(ts) :
         (IF TooLong(ts[i], l) THEN [ts[i] EXCEPT !.len = l] ELSE ts[i]) \in Tag
  BY <1>1, <1>2
<1> QED
  BY <1>3 DEF Truncate

LEMMA HalfType ==
    ASSUME NEW l \in Seq(Logs)
    PROVE  cutSpanLogsByHalf(l) \in Seq(Logs)
<1>1. (Len(l) + 1) \div 2 \in Nat
  OBVIOUS
<1>2. \A i \in 1 .. (Len(l) + 1) \div 2 : 2 * i - 1 \in 1 .. Len(l)
  OBVIOUS
<1>3. \A i \in 1 .. (Len(l) + 1) \div 2 : l[2 * i - 1] \in Logs
  BY <1>2
<1> QED
  BY <1>1, <1>3 DEF cutSpanLogsByHalf

LEMMA CurrentType ==
    ASSUME TypeOK, phase # "returned"
    PROVE  /\ Current \in Span
           /\ Current.tags \in Seq(Tag)
           /\ Current.logs \in Seq(Logs)
           /\ AsReceived(next) \in MessageRecord
           /\ AsReceived(next).span = next
<1>1. Current \in Span
  BY DEF TypeOK, Current
<1>2. Current.tags \in Seq(Tag) /\ Current.logs \in Seq(Logs)
  BY <1>1 DEF Span
<1>3. NoMarkers \in Markers
  BY DEF NoMarkers, Markers
<1> QED
  BY <1>1, <1>2, <1>3 DEF AsReceived, Message, MessageRecord, TypeOK, Current

-----------------------------------------------------------------------------
(* What a step of Marshal does to the spans it has passed, whatever it is.   *)

(* The current span becomes the message msg.                                 *)
Sends(msg) ==
    /\ msg \in MessageRecord
    /\ msg.span = next
    /\ phase # "returned"
    /\ Fits(msg) \/ (~dropSpans /\ msg = AsReceived(next))
    /\ Produce(msg)

(* It is left out.                                                           *)
LeavesOut ==
    /\ phase # "returned"
    /\ NextSpan
    /\ UNCHANGED messages
    /\ \/ failed' = failed \cup {next} /\ UNCHANGED dropped
       \/ dropped' = dropped \cup {next} /\ UNCHANGED failed

(* It is still being cured.                                                  *)
GoesOn ==
    /\ UNCHANGED <<dropSpans, batch, next, messages, failed, dropped>>
    /\ phase' = phase \/ phase' \in {"tags", "logs", "uncured"}
    /\ phase = "returned" => phase' = "returned"

SpanVarsType ==
    /\ tags \in Seq(Tag)
    /\ markers \in Markers
    /\ logs \in Seq(Logs)
    /\ limit \in Nat
    /\ try \in 0 .. maxTruncationTries
    /\ truncatedKeysSoFar \in SUBSET Keys

LEMMA MeasureSteps ==
    ASSUME TypeOK, SpanVarsType', phase \in {"tags", "logs"}, Measure
    PROVE  GoesOn \/ \E msg \in MessageRecord : Sends(msg)
<1> DEFINE msg == Message(next, tags', markers', logs')
<1>1. msg \in MessageRecord /\ msg.span = next
  BY DEF TypeOK, SpanVarsType, Message, MessageRecord
<1>2. CASE Produce(msg) /\ Fits(msg)
  BY <1>1, <1>2 DEF Sends
<1>3. CASE UNCHANGED <<dropSpans, batch, next, messages, failed, dropped>>
           /\ phase' \in {"uncured", phase}
  BY <1>3 DEF GoesOn
<1> QED
  BY <1>2, <1>3 DEF Measure

LEMMA Steps ==
    ASSUME TypeOK, [Next]_vars
    PROVE  /\ SpanVarsType'
           /\ LeavesOut \/ GoesOn \/ \E msg \in MessageRecord : Sends(msg)
<1> USE DEF SpanVarsType
<1>1. SpanVarsType
  BY DEF TypeOK
<1>2. CASE MarshalFails
  BY <1>1, <1>2 DEF MarshalFails, LeavesOut, spanVars
<1>3. CASE MarshalFits
  BY <1>1, <1>3, CurrentType DEF MarshalFits, Sends, spanVars
<1>4. CASE BeginCure
  <2>1. SpanVarsType'
    BY <1>4, CurrentType, SizesAssumption DEF BeginCure, NoMarkers, Markers
  <2> QED
    BY <1>4, <2>1 DEF BeginCure, GoesOn
<1>5. CASE TruncateTags
  <2>1. KeysTooLong(tags, limit) \subseteq Keys
    <3>1. \A i \in 1 .. Len(tags) : tags[i] \in Tag
      BY <1>1
    <3> QED
      BY <3>1 DEF KeysTooLong, Tag
  <2>2. markers' \in Markers /\ truncatedKeysSoFar' \in SUBSET Keys
    BY <1>1, <1>5, <2>1 DEF TruncateTags, Markers
  <2>3. tags' \in Seq(Tag)
    BY <1>1, <1>5, TruncateType DEF TruncateTags
  <2>4. limit' \in Nat /\ try' \in 0 .. maxTruncationTries /\ logs' = logs
    BY <1>1, <1>5, SizesAssumption DEF TruncateTags
  <2>5. SpanVarsType'
    BY <1>1, <2>2, <2>3, <2>4
  <2> QED
    BY <1>5, <2>5, MeasureSteps DEF TruncateTags
<1>6. CASE TagsExhausted
  BY <1>1, <1>6, SizesAssumption DEF TagsExhausted, GoesOn
<1>7. CASE HalveLogs
  <2>1. logs' \in Seq(Logs)
    BY <1>1, <1>7, HalfType DEF HalveLogs
  <2>2. markers' \in Markers
    BY <1>1, <1>7 DEF HalveLogs, Markers
  <2>3. /\ try' \in 0 .. maxTruncationTries
        /\ UNCHANGED <<tags, limit, truncatedKeysSoFar>>
    BY <1>1, <1>7, SizesAssumption DEF HalveLogs
  <2>4. SpanVarsType'
    BY <1>1, <2>1, <2>2, <2>3
  <2> QED
    BY <1>7, <2>4, MeasureSteps DEF HalveLogs
<1>8. CASE LogsExhausted
  BY <1>1, <1>8 DEF LogsExhausted, GoesOn, spanVars
<1>9. CASE Uncured
  <2>1. SpanVarsType'
    BY <1>1, <1>9 DEF Uncured, spanVars
  <2>2. CASE dropSpans
    BY <1>9, <2>1, <2>2 DEF Uncured, LeavesOut
  <2>3. CASE ~dropSpans
    BY <1>9, <2>1, <2>3, CurrentType DEF Uncured, Sends
  <2> QED
    BY <2>2, <2>3
<1>10. CASE Returned \/ UNCHANGED vars
  BY <1>1, <1>10 DEF Returned, vars, spanVars, GoesOn
<1> QED
  BY <1>2, <1>3, <1>4, <1>5, <1>6, <1>7, <1>8, <1>9, <1>10 DEF Next

-----------------------------------------------------------------------------
(* Type correctness.                                                         *)

LEMMA TypeInit == Init => TypeOK
<1> SUFFICES ASSUME Init PROVE TypeOK
  OBVIOUS
<1>1. batch \in Seq(Span) /\ (batch # <<>> => 1 <= Len(batch))
  BY BatchesAssumption DEF Init
<1>2. NoMarkers \in Markers
  BY DEF NoMarkers, Markers
<1> QED
  BY <1>1, <1>2, SizesAssumption DEF Init, TypeOK

LEMMA TypeNext == TypeOK /\ [Next]_vars => TypeOK'
<1> SUFFICES ASSUME TypeOK, [Next]_vars PROVE TypeOK'
  OBVIOUS
<1>1. SpanVarsType'
  BY Steps
<1>2. CASE GoesOn
  BY <1>1, <1>2 DEF GoesOn, TypeOK, SpanVarsType
<1>3. ASSUME NextSpan, phase # "returned"
      PROVE  /\ dropSpans' = dropSpans
             /\ batch' = batch
             /\ next' \in Nat \ {0}
             /\ phase' \in {"marshal", "returned"}
             /\ phase' # "returned" => next' <= Len(batch')
  BY <1>3 DEF NextSpan, TypeOK
<1>4. CASE LeavesOut
  BY <1>1, <1>3, <1>4 DEF LeavesOut, TypeOK, SpanVarsType
<1>5. ASSUME NEW msg \in MessageRecord, Sends(msg) PROVE TypeOK'
  <2>1. messages \in Seq(MessageRecord)
    BY DEF TypeOK, MessageRecord
  <2>2. messages' \in Seq(MessageRecord)
    BY <1>5, <2>1 DEF Sends, Produce
  <2> QED
    BY <1>1, <1>3, <1>5, <2>2 DEF Sends, Produce, TypeOK, SpanVarsType, MessageRecord
<1> QED
  BY <1>2, <1>4, <1>5, Steps

(* The state of a call of Marshal is what its declarations say, at every     *)
(* step of the cure.                                                         *)
THEOREM CuringTypeCorrect == Spec => []TypeOK
BY TypeInit, TypeNext, PTL DEF Spec

-----------------------------------------------------------------------------
(* What is sent.                                                             *)

(* A sent message follows the ones before it.                                *)
LEMMA SendsAppends ==
    ASSUME TypeOK, NEW msg \in MessageRecord, Sends(msg)
    PROVE  /\ Len(messages') = Len(messages) + 1
           /\ messages'[Len(messages) + 1] = msg
           /\ \A n \in MessageNumbers : messages'[n] = messages[n]
           /\ MessageNumbers' = MessageNumbers \cup {Len(messages) + 1}
           /\ Len(messages) \in Nat
<1>1. messages \in Seq(MessageRecord)
  BY DEF TypeOK, MessageRecord
<1>2. messages' = Append(messages, msg)
  BY DEF Sends, Produce
<1>3. /\ Len(messages') = Len(messages) + 1
      /\ messages'[Len(messages) + 1] = msg
      /\ Len(messages) \in Nat
  BY <1>1, <1>2
<1>4. \A n \in 1 .. Len(messages) : messages'[n] = messages[n]
  BY <1>1, <1>2
<1> QED
  BY <1>3, <1>4 DEF MessageNumbers

LEMMA OversizeNext ==
    TypeOK /\ OversizeOnlyAsReceived /\ [Next]_vars => OversizeOnlyAsReceived'
<1> SUFFICES ASSUME TypeOK, OversizeOnlyAsReceived, [Next]_vars
             PROVE  OversizeOnlyAsReceived'
  OBVIOUS
<1>1. CASE LeavesOut \/ GoesOn
  BY <1>1 DEF LeavesOut, GoesOn, NextSpan, OversizeOnlyAsReceived, MessageNumbers,
              Fits, MessageSize, AsReceived
<1>2. ASSUME NEW msg \in MessageRecord, Sends(msg)
      PROVE  OversizeOnlyAsReceived'
  <2>1. batch' = batch /\ dropSpans' = dropSpans
    BY <1>2 DEF Sends, Produce, NextSpan
  <2>2. msg.span = next /\ (Fits(msg) \/ (~dropSpans /\ msg = AsReceived(next)))
    BY <1>2 DEF Sends
  <2> QED
    BY <1>2, <2>1, <2>2, SendsAppends
       DEF OversizeOnlyAsReceived, Fits, MessageSize, AsReceived
<1> QED
  BY <1>1, <1>2, Steps

(* No half-cured span is ever sent: a message that is too large is a span as *)
(* it was received, when spans are not dropped.                              *)
THEOREM NothingHalfCured == Spec => []OversizeOnlyAsReceived
<1>1. Init => TypeOK /\ OversizeOnlyAsReceived
  BY TypeInit DEF Init, OversizeOnlyAsReceived, MessageNumbers
<1>2. TypeOK /\ OversizeOnlyAsReceived /\ [Next]_vars
         => (TypeOK /\ OversizeOnlyAsReceived)'
  BY TypeNext, OversizeNext
<1> QED
  BY <1>1, <1>2, PTL DEF Spec

-----------------------------------------------------------------------------
(* Every span has one fate.                                                  *)

Sent == {messages[n].span : n \in MessageNumbers}

LEMMA OneFateNext == TypeOK /\ OneFateEach /\ [Next]_vars => OneFateEach'
<1> SUFFICES ASSUME TypeOK, OneFateEach, [Next]_vars PROVE OneFateEach'
  OBVIOUS
<1> USE DEF Sent
<1>1. /\ Sent \cup failed \cup dropped = 1 .. next - 1
      /\ Sent \cap (failed \cup dropped) = {}
      /\ failed \cap dropped = {}
      /\ next \in Nat \ {0}
  BY DEF OneFateEach, TypeOK
<1>2. 1 .. next = (1 .. next - 1) \cup {next} /\ next \notin 1 .. next - 1
  BY <1>1
<1>3. CASE GoesOn
  BY <1>3 DEF GoesOn, OneFateEach, MessageNumbers
<1>4. CASE LeavesOut
  <2>1. /\ next' = next + 1
        /\ Sent' = Sent
        /\ \/ failed' = failed \cup {next} /\ dropped' = dropped
           \/ dropped' = dropped \cup {next} /\ failed' = failed
    BY <1>4 DEF LeavesOut, NextSpan, MessageNumbers
  <2>2. /\ Sent' \cup failed' \cup dropped' = 1 .. next' - 1
        /\ Sent' \cap (failed' \cup dropped') = {}
        /\ failed' \cap dropped' = {}
    <3>1. next' - 1 = next
      BY <1>1, <2>1
    <3> HIDE DEF Sent
    <3> QED
      BY <1>1, <1>2, <2>1, <3>1
  <2>3. UNCHANGED messages
    BY <1>4 DEF LeavesOut
  <2> QED
    BY <2>2, <2>3 DEF OneFateEach, MessageNumbers
<1>5. ASSUME NEW msg \in MessageRecord, Sends(msg) PROVE OneFateEach'
  <2>1. next' = next + 1 /\ failed' = failed /\ dropped' = dropped /\ msg.span = next
    BY <1>5 DEF Sends, Produce, NextSpan
  <2>2. Sent' = Sent \cup {next}
    BY <1>5, <2>1, SendsAppends
  <2>3. /\ Sent' \cup failed' \cup dropped' = 1 .. next' - 1
        /\ Sent' \cap (failed' \cup dropped') = {}
        /\ failed' \cap dropped' = {}
    <3>1. next' - 1 = next
      BY <1>1, <2>1
    <3> HIDE DEF Sent
    <3> QED
      BY <1>1, <1>2, <2>1, <2>2, <3>1
  <2>4. \A n \in MessageNumbers : messages[n].span < next
    <3>1. \A s \in 1 .. next - 1 : s < next
      BY <1>1
    <3>2. \A n \in MessageNumbers : messages[n].span \in Sent
      OBVIOUS
    <3> HIDE DEF Sent
    <3> QED
      BY <1>1, <3>1, <3>2
  <2>5. ASSUME NEW n \in MessageNumbers', NEW k \in MessageNumbers', n < k
        PROVE  messages'[n].span < messages'[k].span
    <3>1. n \in MessageNumbers /\ messages'[n] = messages[n]
      BY <1>5, <2>5, SendsAppends DEF MessageNumbers
    <3>2. CASE k \in MessageNumbers
      <4>1. messages'[k] = messages[k]
        BY <1>5, <3>2, SendsAppends
      <4> QED
        BY <2>5, <3>1, <3>2, <4>1 DEF OneFateEach
    <3>3. CASE k \notin MessageNumbers
      <4>1. messages'[k] = msg
        BY <1>5, <2>5, <3>3, SendsAppends
      <4> QED
        BY <2>1, <2>4, <3>1, <4>1
    <3> QED
      BY <3>2, <3>3
  <2> QED
    BY <2>3, <2>5 DEF OneFateEach
<1> QED
  BY <1>3, <1>4, <1>5, Steps

(* Marshal loses no span and sends none twice or out of order.               *)
THEOREM OneFateForEachSpan == Spec => []OneFateEach
<1>1. Init => TypeOK /\ OneFateEach
  BY TypeInit DEF Init, OneFateEach, MessageNumbers
<1>2. TypeOK /\ OneFateEach /\ [Next]_vars => (TypeOK /\ OneFateEach)'
  BY TypeNext, OneFateNext
<1> QED
  BY <1>1, <1>2, PTL DEF Spec

-----------------------------------------------------------------------------
(* The markers.                                                              *)

(* The values ts are values orig, some of them cut.                          *)
Shorter(ts, orig) ==
    /\ Len(ts) = Len(orig)
    /\ \A i \in 1 .. Len(ts) : ts[i].key = orig[i].key /\ ts[i].len <= orig[i].len

CutKeys(ts, orig) == {ts[i].key : i \in {j \in 1 .. Len(ts) : ts[j].len < orig[j].len}}

LEMMA TruncateCuts ==
    ASSUME NEW ts \in Seq(Tag), NEW orig \in Seq(Tag), NEW l \in Nat, Shorter(ts, orig)
    PROVE  /\ Shorter(Truncate(ts, l), orig)
           /\ CutKeys(Truncate(ts, l), orig) = CutKeys(ts, orig) \cup KeysTooLong(ts, l)
<1> DEFINE new == Truncate(ts, l)
<1>1. Len(new) = Len(ts) /\ Len(ts) \in Nat
  BY DEF Truncate
<1>2. ASSUME NEW i \in 1 .. Len(ts)
      PROVE  /\ new[i].key = ts[i].key
             /\ new[i].len = IF TooLong(ts[i], l) THEN l ELSE ts[i].len
             /\ TooLong(ts[i], l) => l < ts[i].len
             /\ ts[i].len \in Nat /\ orig[i].len \in Nat
             /\ ts[i].key = orig[i].key /\ ts[i].len <= orig[i].len
  <2>1. ts[i] \in Tag /\ orig[i] \in Tag
    BY DEF Shorter
  <2>2. new[i] = IF TooLong(ts[i], l) THEN [ts[i] EXCEPT !.len = l] ELSE ts[i]
    BY DEF Truncate
  <2> QED
    BY <2>1, <2>2 DEF Tag, TooLong, Shorter
<1> HIDE DEF new
<1>3. ASSUME NEW i \in 1 .. Len(ts)
      PROVE  /\ new[i].len <= orig[i].len
             /\ new[i].len < orig[i].len <=>
                   ts[i].len < orig[i].len \/ TooLong(ts[i], l)
  BY <1>2
<1>4. Shorter(new, orig)
  BY <1>1, <1>2, <1>3 DEF Shorter
<1>5. CutKeys(new, orig) = CutKeys(ts, orig) \cup KeysTooLong(ts, l)
  BY <1>1, <1>2, <1>3 DEF CutKeys, KeysTooLong
<1> QED
  BY <1>4, <1>5 DEF new

(* Each key of a value that was cut has its one marker; and so have the logs.*)
TagsMarked(ts, m, orig) ==
    \A k \in Keys : m[k] = IF k \in CutKeys(ts, orig) THEN 1 ELSE 0
LogsMarked(l, m, orig) == m[LogsMarker] = IF l = orig THEN 0 ELSE 1

Marked(msg) ==
    /\ TagsMarked(msg.tags, msg.markers, batch[msg.span].tags)
    /\ LogsMarked(msg.logs, msg.markers, batch[msg.span].logs)

LEMMA MarkedSafe ==
    (\A n \in MessageNumbers : Marked(messages[n])) => MarkedOnceIfCut
BY DEF Marked, TagsMarked, LogsMarked, CutKeys, MarkedOnceIfCut, CutValue

LEMMA AsReceivedMarked ==
    ASSUME TypeOK, phase # "returned"
    PROVE  Marked(AsReceived(next))
<1>1. AsReceived(next).tags = Current.tags /\ Current.tags \in Seq(Tag)
  BY CurrentType DEF AsReceived, Message, Current
<1>2. \A i \in 1 .. Len(Current.tags) : ~(Current.tags[i].len < Current.tags[i].len)
  <2>1. \A i \in 1 .. Len(Current.tags) : Current.tags[i] \in Tag
    BY <1>1
  <2> QED
    BY <2>1 DEF Tag
<1>3. CutKeys(Current.tags, Current.tags) = {}
  BY <1>2 DEF CutKeys
<1> QED
  BY <1>1, <1>3 DEF Marked, TagsMarked, LogsMarked, AsReceived, Message, NoMarkers, Current

(* While a span is cured, what is marked is what was cut.                    *)
CureInv ==
    phase \in {"tags", "logs"} =>
        /\ Shorter(tags, Current.tags)
        /\ truncatedKeysSoFar = CutKeys(tags, Current.tags)
        /\ TagsMarked(tags, markers, Current.tags)
        /\ LogsMarked(logs, markers, Current.logs)
        /\ phase = "tags" => logs = Current.logs
        /\ phase = "logs" => IF try = 0 THEN logs = Current.logs /\ Len(logs) >= 2
                                        ELSE Len(logs) < Len(Current.logs)

(* After a try the span is sent, with its marks, or is cured further.        *)
LEMMA MeasureMarks ==
    ASSUME TypeOK, SpanVarsType', phase \in {"tags", "logs"}, Measure,
           TagsMarked(tags', markers', Current.tags),
           LogsMarked(logs', markers', Current.logs)
    PROVE  \/ UNCHANGED <<batch, next, messages>> /\ phase' \in {phase, "uncured"}
           \/ /\ phase' \in {"marshal", "returned"}
              /\ \E msg \in MessageRecord : Sends(msg) /\ Marked(msg)
<1> DEFINE msg == Message(next, tags', markers', logs')
<1>1. msg \in MessageRecord /\ msg.span = next
  BY DEF TypeOK, SpanVarsType, Message, MessageRecord
<1>2. CASE Produce(msg) /\ Fits(msg)
  <2>1. Marked(msg)
    BY DEF Marked, Message, Current
  <2>2. phase' \in {"marshal", "returned"}
    BY <1>2 DEF Produce, NextSpan
  <2> QED
    BY <1>1, <1>2, <2>1, <2>2 DEF Sends
<1>3. CASE UNCHANGED <<dropSpans, batch, next, messages, failed, dropped>>
           /\ phase' \in {"uncured", phase}
  BY <1>3
<1> QED
  BY <1>2, <1>3 DEF Measure

Marks ==
    \/ UNCHANGED <<batch, messages>>
    \/ \E msg \in MessageRecord : Sends(msg) /\ Marked(msg)

LEMMA TruncateMarks ==
    ASSUME TypeOK, CureInv, TruncateTags, SpanVarsType'
    PROVE  CureInv' /\ Marks
<1>1. /\ tags \in Seq(Tag) /\ Current.tags \in Seq(Tag) /\ limit \in Nat
      /\ markers \in [Keys \cup {LogsMarker} -> Nat]
      /\ phase = "tags"
  BY CurrentType DEF TypeOK, TruncateTags, Markers
<1>2. /\ Shorter(tags, Current.tags)
      /\ truncatedKeysSoFar = CutKeys(tags, Current.tags)
      /\ TagsMarked(tags, markers, Current.tags)
      /\ LogsMarked(logs, markers, Current.logs)
      /\ logs = Current.logs
  BY <1>1 DEF CureInv
<1> DEFINE new == KeysTooLong(tags, limit) \ truncatedKeysSoFar
<1>3. /\ tags' = Truncate(tags, limit)
      /\ markers' = [k \in DOMAIN markers |-> IF k \in new THEN markers[k] + 1 ELSE markers[k]]
      /\ truncatedKeysSoFar' = truncatedKeysSoFar \cup new
      /\ logs' = logs
      /\ Measure
  BY DEF TruncateTags
<1>4. /\ Shorter(tags', Current.tags)
      /\ truncatedKeysSoFar' = CutKeys(tags', Current.tags)
  BY <1>1, <1>2, <1>3, TruncateCuts
<1>5. TagsMarked(tags', markers', Current.tags)
  <2>1. ASSUME NEW k \in Keys
        PROVE  markers'[k] = IF k \in truncatedKeysSoFar' THEN 1 ELSE 0
    <3>1. markers[k] = IF k \in truncatedKeysSoFar THEN 1 ELSE 0
      BY <1>2 DEF TagsMarked
    <3>2. markers'[k] = IF k \in new THEN markers[k] + 1 ELSE markers[k]
      BY <1>1, <1>3
    <3> QED
      BY <1>3, <3>1, <3>2
  <2> QED
    BY <1>4, <2>1 DEF TagsMarked
<1>6. LogsMarked(logs', markers', Current.logs)
  <2>1. LogsMarker \notin new
    <3>1. \A i \in 1 .. Len(tags) : tags[i] \in Tag
      BY <1>1
    <3>2. \A i \in 1 .. Len(tags) : tags[i].key \in Keys
      BY <3>1 DEF Tag
    <3> QED
      BY <3>2, MarkerAssumption DEF KeysTooLong
  <2>2. markers'[LogsMarker] = markers[LogsMarker]
    BY <1>1, <1>3, <2>1
  <2> QED
    BY <1>2, <1>3, <2>2 DEF LogsMarked
<1>7. \/ UNCHANGED <<batch, next, messages>> /\ phase' \in {phase, "uncured"}
      \/ /\ phase' \in {"marshal", "returned"}
         /\ \E msg \in MessageRecord : Sends(msg) /\ Marked(msg)
  BY <1>1, <1>3, <1>5, <1>6, MeasureMarks
<1>8. CASE UNCHANGED <<batch, next, messages>> /\ phase' \in {phase, "uncured"}
  <2>1. Current' = Current
    BY <1>8 DEF Current
  <2> QED
    BY <1>1, <1>2, <1>3, <1>4, <1>5, <1>6, <1>8, <2>1 DEF CureInv, Marks
<1> QED
  BY <1>7, <1>8 DEF CureInv, Marks

LEMMA HalfShorter ==
    ASSUME NEW l \in Seq(Logs)
    PROVE  /\ Len(cutSpanLogsByHalf(l)) <= Len(l)
           /\ Len(l) >= 2 => Len(cutSpanLogsByHalf(l)) < Len(l)
<1>1. Len(cutSpanLogsByHalf(l)) = (Len(l) + 1) \div 2
  BY DEF cutSpanLogsByHalf
<1> QED
  BY <1>1

LEMMA HalveMarks ==
    ASSUME TypeOK, CureInv, HalveLogs, SpanVarsType'
    PROVE  CureInv' /\ Marks
<1>1. /\ logs \in Seq(Logs) /\ Current.logs \in Seq(Logs) /\ logs' \in Seq(Logs)
      /\ markers \in [Keys \cup {LogsMarker} -> Nat]
      /\ phase = "logs"
      /\ try \in Nat
  BY CurrentType DEF TypeOK, HalveLogs, Markers, SpanVarsType
<1>2. /\ Shorter(tags, Current.tags)
      /\ truncatedKeysSoFar = CutKeys(tags, Current.tags)
      /\ TagsMarked(tags, markers, Current.tags)
      /\ LogsMarked(logs, markers, Current.logs)
      /\ IF try = 0 THEN logs = Current.logs /\ Len(logs) >= 2
                    ELSE Len(logs) < Len(Current.logs)
  BY <1>1 DEF CureInv
<1>3. /\ logs' = cutSpanLogsByHalf(logs)
      /\ markers' = [markers EXCEPT ![LogsMarker] = IF try = 0 THEN @ + 1 ELSE @]
      /\ try' = try + 1
      /\ UNCHANGED <<tags, truncatedKeysSoFar>>
      /\ Measure
  BY DEF HalveLogs
<1>4. TagsMarked(tags', markers', Current.tags)
  <2>1. \A k \in Keys : markers'[k] = markers[k]
    BY <1>1, <1>3, MarkerAssumption
  <2> QED
    BY <1>2, <1>3, <2>1 DEF TagsMarked
<1>5. Len(logs') < Len(Current.logs)
  <2>1. /\ Len(logs) \in Nat /\ Len(Current.logs) \in Nat /\ Len(logs') \in Nat
        /\ Len(logs') <= Len(logs)
        /\ Len(logs) >= 2 => Len(logs') < Len(logs)
    BY <1>1, <1>3, HalfShorter
  <2> QED
    BY <1>2, <2>1
<1>6. LogsMarked(logs', markers', Current.logs)
  <2>1. logs' # Current.logs
    <3>1. Len(Current.logs) \in Nat /\ ~(Len(Current.logs) < Len(Current.logs))
      BY <1>1
    <3> QED
      BY <1>5, <3>1
  <2>2. markers'[LogsMarker] = 1
    <3>1. markers'[LogsMarker] = IF try = 0 THEN markers[LogsMarker] + 1 ELSE markers[LogsMarker]
      BY <1>1, <1>3
    <3>2. CASE try = 0
      BY <1>2, <3>1, <3>2 DEF LogsMarked
    <3>3. CASE try # 0
      <4>1. Len(Current.logs) \in Nat /\ ~(Len(Current.logs) < Len(Current.logs))
        BY <1>1
      <4>2. logs # Current.logs
        BY <1>2, <3>3, <4>1
      <4> QED
        BY <1>2, <3>1, <3>3, <4>2 DEF LogsMarked
    <3> QED
      BY <3>2, <3>3
  <2> QED
    BY <2>1, <2>2 DEF LogsMarked
<1>7. \/ UNCHANGED <<batch, next, messages>> /\ phase' \in {phase, "uncured"}
      \/ /\ phase' \in {"marshal", "returned"}
         /\ \E msg \in MessageRecord : Sends(msg) /\ Marked(msg)
  BY <1>1, <1>3, <1>4, <1>6, MeasureMarks
<1>8. CASE UNCHANGED <<batch, next, messages>> /\ phase' \in {phase, "uncured"}
  <2>1. Current' = Current /\ try' # 0
    BY <1>1, <1>3, <1>8 DEF Current
  <2> QED
    BY <1>1, <1>2, <1>3, <1>4, <1>5, <1>6, <1>8, <2>1 DEF CureInv, Marks
<1> QED
  BY <1>7, <1>8 DEF CureInv, Marks

LEMMA CureInvNext ==
    ASSUME TypeOK, CureInv, [Next]_vars
    PROVE  CureInv' /\ Marks
<1>1. SpanVarsType'
  BY Steps
<1>2. CASE MarshalFails
  BY <1>2 DEF MarshalFails, NextSpan, CureInv, Marks
<1>3. CASE MarshalFits
  <2>1. Sends(AsReceived(next)) /\ Marked(AsReceived(next))
    BY <1>3, CurrentType, AsReceivedMarked DEF MarshalFits, Sends
  <2>2. CureInv'
    BY <1>3 DEF MarshalFits, Produce, NextSpan, CureInv
  <2> QED
    BY <1>3, <2>1, <2>2, CurrentType DEF MarshalFits, Marks
<1>4. CASE BeginCure
  <2>1. /\ phase # "returned" /\ UNCHANGED <<batch, next, messages>> /\ phase' = "tags"
        /\ tags' = Current.tags /\ logs' = Current.logs
        /\ markers' = NoMarkers /\ truncatedKeysSoFar' = {}
        /\ Current' = Current
    BY <1>4 DEF BeginCure, Current
  <2>2. Current.tags \in Seq(Tag)
    BY <2>1, CurrentType
  <2>3. \A i \in 1 .. Len(Current.tags) :
            /\ Current.tags[i].len <= Current.tags[i].len
            /\ ~(Current.tags[i].len < Current.tags[i].len)
    <3>1. \A i \in 1 .. Len(Current.tags) : Current.tags[i].len \in Nat
      <4>1. \A i \in 1 .. Len(Current.tags) : Current.tags[i] \in Tag
        BY <2>2
      <4> QED
        BY <4>1 DEF Tag
    <3>2. \A n \in Nat : n <= n /\ ~(n < n)
      OBVIOUS
    <3> QED
      BY <3>1, <3>2
  <2>4. Shorter(Current.tags, Current.tags) /\ CutKeys(Current.tags, Current.tags) = {}
    BY <2>3 DEF Shorter, CutKeys
  <2>5. TagsMarked(Current.tags, NoMarkers, Current.tags)
    BY <2>4 DEF TagsMarked, NoMarkers
  <2>6. LogsMarked(Current.logs, NoMarkers, Current.logs)
    BY DEF LogsMarked, NoMarkers
  <2> QED
    BY <2>1, <2>4, <2>5, <2>6 DEF CureInv, Marks
<1>5. CASE TruncateTags
  BY <1>1, <1>5, TruncateMarks
<1>6. CASE TagsExhausted
  <2>1. Len(logs) \in Nat
    BY DEF TypeOK
  <2>2. phase' = "logs" => try' = 0 /\ Len(logs') >= 2 /\ phase = "tags"
    BY <1>6, <2>1, EnoughLogs DEF TagsExhausted
  <2>3. /\ phase' \in {"logs", "uncured"} /\ phase = "tags"
        /\ UNCHANGED <<batch, next, tags, markers, logs, truncatedKeysSoFar, messages>>
    BY <1>6 DEF TagsExhausted
  <2>4. Current' = Current
    BY <2>3 DEF Current
  <2> QED
    BY <2>2, <2>3, <2>4 DEF CureInv, Marks
<1>7. CASE HalveLogs
  BY <1>1, <1>7, HalveMarks
<1>8. CASE LogsExhausted
  BY <1>8 DEF LogsExhausted, CureInv, Marks
<1>9. CASE Uncured
  <2>1. CureInv'
    BY <1>9 DEF Uncured, Produce, NextSpan, CureInv
  <2>2. phase # "returned"
    BY <1>9 DEF Uncured
  <2>3. CASE dropSpans
    BY <1>9, <2>1, <2>3 DEF Uncured, NextSpan, Marks
  <2>4. CASE ~dropSpans
    <3>1. Sends(AsReceived(next))
      BY <1>9, <2>2, <2>4, CurrentType DEF Uncured, Sends
    <3> QED
      BY <2>1, <2>2, <3>1, CurrentType, AsReceivedMarked DEF Marks
  <2> QED
    BY <2>3, <2>4
<1>10. CASE Returned \/ UNCHANGED vars
  BY <1>10 DEF Returned, vars, spanVars, CureInv, Marks, Current
<1> QED
  BY <1>2, <1>3, <1>4, <1>5, <1>6, <1>7, <1>8, <1>9, <1>10 DEF Next

AllMarked == \A n \in MessageNumbers : Marked(messages[n])

LEMMA AllMarkedNext ==
    ASSUME TypeOK, CureInv, AllMarked, [Next]_vars
    PROVE  AllMarked'
<1>1. CASE UNCHANGED <<batch, messages>>
  BY <1>1 DEF AllMarked, Marked, MessageNumbers
<1>2. ASSUME NEW msg \in MessageRecord, Sends(msg), Marked(msg) PROVE AllMarked'
  <2>1. batch' = batch
    BY <1>2 DEF Sends, Produce, NextSpan
  <2> QED
    BY <1>2, <2>1, SendsAppends DEF AllMarked, Marked
<1> QED
  BY <1>1, <1>2, CureInvNext DEF Marks

(* A sent span is marked for what was cut of it, once and for nothing else,  *)
(* whichever of the tries cut it.                                            *)
THEOREM MarkedForWhatWasCut == Spec => []MarkedOnceIfCut
<1>1. Init => TypeOK /\ CureInv /\ AllMarked
  BY TypeInit DEF Init, CureInv, AllMarked, MessageNumbers
<1>2. TypeOK /\ CureInv /\ AllMarked /\ [Next]_vars => (TypeOK /\ CureInv /\ AllMarked)'
  BY TypeNext, CureInvNext, AllMarkedNext
<1>3. AllMarked => MarkedOnceIfCut
  BY MarkedSafe DEF AllMarked
<1> QED
  BY <1>1, <1>2, <1>3, PTL DEF Spec

-----------------------------------------------------------------------------
(* The gentlest cure.                                                        *)

(* While a span is cured, it is what the tries so far make of the span that  *)
(* was received, and what they made of it before did not fit.                *)
CureSoFar == Message(next, tags, markers, logs)

GentleInv ==
    /\ phase = "tags" =>
          /\ limit = LimitOf(try)
          /\ logs = Current.logs
          /\ try = 0 => /\ tags = Current.tags
                        /\ markers = NoMarkers
                        /\ truncatedKeysSoFar = {}
          /\ \A k \in Tries : try = k + 1 =>
                /\ CureSoFar = CuredAt(next, k, 0)
                /\ truncatedKeysSoFar = KeysTooLong(Current.tags, LimitOf(k))
          /\ \A j \in Tries : j < try => ~Fits(CuredAt(next, j, 0))
    /\ phase = "logs" =>
          /\ \A h \in 0 .. maxTruncationTries : try = h => CureSoFar = CuredAt(next, LastTry, h)
          /\ \A k \in Tries : ~Fits(CuredAt(next, k, 0))
          /\ \A j \in 1 .. maxTruncationTries :
                j <= try => ~Fits(CuredAt(next, LastTry, j))

(* The limit is halved with every try.                                       *)
LEMMA Halved ==
    ASSUME NEW m \in Nat, NEW p \in Nat \ {0}
    PROVE  /\ m \div p \in Nat
           /\ m \div (2 * p) = (m \div p) \div 2
           /\ (m \div p) \div 2 <= m \div p
           /\ (m + p) \div p = (m \div p) + 1
OBVIOUS

LEMMA LimitSteps ==
    /\ LimitOf(0) = maxAttributeValueSize
    /\ \A k \in 0 .. maxTruncationTries : LimitOf(k) \in Nat
    /\ \A k \in Tries : LimitOf(k + 1) = LimitOf(k) \div 2 /\ LimitOf(k + 1) <= LimitOf(k)
<1>1. LimitOf(0) = maxAttributeValueSize
  BY PowerSteps, SizesAssumption DEF LimitOf
<1>2. \A k \in 0 .. maxTruncationTries : LimitOf(k) \in Nat
  BY PowerType, SizesAssumption, Halved DEF LimitOf
<1>3. ASSUME NEW k \in Tries
      PROVE  LimitOf(k + 1) = LimitOf(k) \div 2 /\ LimitOf(k + 1) <= LimitOf(k)
  <2>1. PowerOfTwo[k] \in Nat \ {0} /\ PowerOfTwo[k + 1] = 2 * PowerOfTwo[k]
    BY PowerType, PowerSteps, SizesAssumption DEF Tries
  <2>2. \A p \in Nat \ {0} :
           /\ maxAttributeValueSize \div (2 * p) = (maxAttributeValueSize \div p) \div 2
           /\ (maxAttributeValueSize \div p) \div 2 <= maxAttributeValueSize \div p
    BY SizesAssumption, Halved
  <2> QED
    BY <2>1, <2>2 DEF LimitOf
<1> QED
  BY <1>1, <1>2, <1>3

(* A value that is cut twice is as long as if it had been cut once.          *)
LEMMA TruncateTwice ==
    ASSUME NEW ts \in Seq(Tag), NEW l \in Nat, NEW m \in Nat, m <= l
    PROVE  /\ Truncate(Truncate(ts, l), m) = Truncate(ts, m)
           /\ KeysTooLong(ts, m) = KeysTooLong(ts, l) \cup KeysTooLong(Truncate(ts, l), m)
<1> DEFINE cut == Truncate(ts, l)
<1>1. Len(cut) = Len(ts) /\ Len(ts) \in Nat
  BY DEF Truncate
<1>2. ASSUME NEW i \in 1 .. Len(ts)
      PROVE  /\ cut[i].key = ts[i].key
             /\ TooLong(ts[i], m) <=> TooLong(ts[i], l) \/ TooLong(cut[i], m)
             /\ (IF TooLong(cut[i], m) THEN [cut[i] EXCEPT !.len = m] ELSE cut[i])
                   = IF TooLong(ts[i], m) THEN [ts[i] EXCEPT !.len = m] ELSE ts[i]
  <2>1. ts[i] \in Tag
    OBVIOUS
  <2>2. cut[i] = IF TooLong(ts[i], l) THEN [ts[i] EXCEPT !.len = l] ELSE ts[i]
    BY DEF Truncate
  <2> HIDE DEF cut
  <2>3. CASE ~ TooLong(ts[i], l)
    BY <2>2, <2>3
  <2>4. CASE TooLong(ts[i], l)
    <3>1. /\ cut[i] \in Tag /\ cut[i].key = ts[i].key
          /\ cut[i].kind = ts[i].kind /\ cut[i].len = l
          /\ [cut[i] EXCEPT !.len = m] = [ts[i] EXCEPT !.len = m]
          /\ l = m => cut[i] = [ts[i] EXCEPT !.len = m]
      BY <2>1, <2>2, <2>4 DEF Tag
    <3>2. TooLong(ts[i], m)
      BY <2>1, <2>4 DEF TooLong, Tag
    <3>3. TooLong(cut[i], m) <=> l > m
      BY <2>4, <3>1 DEF TooLong
    <3> QED
      BY <2>4, <3>1, <3>2, <3>3
  <2> QED
    BY <2>3, <2>4
<1> HIDE DEF cut
<1>3. Truncate(cut, m) = Truncate(ts, m)
  <2> DEFINE Cut(t) == IF TooLong(t, m) THEN [t EXCEPT !.len = m] ELSE t
  <2>1. \A i \in 1 .. Len(ts) : Cut(cut[i]) = Cut(ts[i])
    BY <1>2
  <2>2. /\ Truncate(cut, m) = [i \in 1 .. Len(ts) |-> Cut(cut[i])]
        /\ Truncate(ts, m) = [i \in 1 .. Len(ts) |-> Cut(ts[i])]
    BY <1>1 DEF Truncate
  <2> HIDE DEF Cut
  <2> QED
    BY <2>1, <2>2
<1>4. KeysTooLong(ts, m) = KeysTooLong(ts, l) \cup KeysTooLong(cut, m)
  <2>1. \A i \in 1 .. Len(ts) :
           /\ cut[i].key = ts[i].key
           /\ TooLong(ts[i], m) <=> TooLong(ts[i], l) \/ TooLong(cut[i], m)
    BY <1>2
  <2> QED
    BY <1>1, <2>1 DEF KeysTooLong
<1> QED
  BY <1>3, <1>4 DEF cut

(* Logs thinned h times and then by half are thinned h + 1 times.            *)
Thinned(all, h) ==
    LET step == PowerOfTwo[h]
    IN  [j \in 1 .. (Len(all) + step - 1) \div step |-> all[(j - 1) * step + 1]]

LEMMA NotThinned == ASSUME NEW all \in Seq(Logs) PROVE Thinned(all, 0) = all
<1>1. (Len(all) + 1 - 1) \div 1 = Len(all)
  OBVIOUS
<1>2. \A j \in 1 .. Len(all) : (j - 1) * 1 + 1 = j
  OBVIOUS
<1>3. Thinned(all, 0) = [j \in 1 .. Len(all) |-> all[j]]
  BY <1>1, <1>2, PowerSteps DEF Thinned
<1> QED
  BY <1>3

LEMMA ThinTwice ==
    ASSUME NEW all \in Seq(Logs), NEW h \in Tries
    PROVE  cutSpanLogsByHalf(Thinned(all, h)) = Thinned(all, h + 1)
<1> DEFINE p == PowerOfTwo[h]
           n == (Len(all) + p - 1) \div p
           thin == Thinned(all, h)
<1>1. p \in Nat \ {0} /\ PowerOfTwo[h + 1] = 2 * p
  BY PowerType, PowerSteps, SizesAssumption DEF Tries
<1>2. Len(all) \in Nat
  OBVIOUS
<1> HIDE DEF p
<1>3. Len(all) + p - 1 \in Nat
  BY <1>1, <1>2
<1>4. n \in Nat
  BY <1>1, <1>3, Halved
<1>5. (Len(all) + 2 * p - 1) \div (2 * p) = (n + 1) \div 2
  <2>1. Len(all) + 2 * p - 1 = (Len(all) + p - 1) + p
    BY <1>1, <1>2
  <2>2. Len(all) + 2 * p - 1 \in Nat
    BY <1>1, <1>3, <2>1
  <2>3. (Len(all) + 2 * p - 1) \div (2 * p) = ((Len(all) + 2 * p - 1) \div p) \div 2
    BY <1>1, <2>2, Halved
  <2>4. ((Len(all) + p - 1) + p) \div p = n + 1
    BY <1>1, <1>3, Halved
  <2> QED
    BY <2>1, <2>3, <2>4
<1>6. thin = [j \in 1 .. n |-> all[(j - 1) * p + 1]]
  BY DEF Thinned, p
<1> HIDE DEF n, thin
<1>7. Len(thin) = n
  BY <1>4, <1>6
<1>8. ASSUME NEW j \in 1 .. (n + 1) \div 2
      PROVE  thin[2 * j - 1] = all[(j - 1) * (2 * p) + 1]
  <2>1. 2 * j - 1 \in 1 .. n
    BY <1>4
  <2>2. ((2 * j - 1) - 1) * p + 1 = (j - 1) * (2 * p) + 1
    BY <1>1
  <2> QED
    BY <1>6, <2>1, <2>2
<1>9. cutSpanLogsByHalf(thin) = [j \in 1 .. (n + 1) \div 2 |-> thin[2 * j - 1]]
  BY <1>7 DEF cutSpanLogsByHalf
<1>10. Thinned(all, h + 1) = [j \in 1 .. (n + 1) \div 2 |-> all[(j - 1) * (2 * p) + 1]]
  BY <1>1, <1>5 DEF Thinned
<1> QED
  BY <1>8, <1>9, <1>10 DEF thin

(* A cure is made of the limit of its try and of the thinning of its logs.   *)
Marking(cut, h) ==
    [m \in Keys \cup {LogsMarker} |->
        IF m \in cut \/ (m = LogsMarker /\ h > 0) THEN 1 ELSE 0]

LEMMA CuredParts ==
    \A i, k, h :
        CuredAt(i, k, h) =
            Message(i, Truncate(batch[i].tags, LimitOf(k)),
                    Marking(KeysTooLong(batch[i].tags, LimitOf(k)), h),
                    Thinned(batch[i].logs, h))
BY DEF CuredAt, Marking, Thinned, NoMarkers

LEMMA CuredSame ==
    ASSUME UNCHANGED <<batch, next>>
    PROVE  /\ Current' = Current
           /\ \A k, h : CuredAt(next, k, h)' = CuredAt(next, k, h)
           /\ \A k, h : Fits(CuredAt(next, k, h))' <=> Fits(CuredAt(next, k, h))
<1>1. \A k, h : CuredAt(next, k, h)' = CuredAt(next, k, h)
  BY DEF CuredAt, Message
<1> QED
  BY <1>1 DEF Current, Fits, MessageSize

LEMMA GentleSame ==
    ASSUME UNCHANGED batch
    PROVE  \A msg : Gentle(msg)' <=> Gentle(msg)
BY DEF Gentle, Fits, MessageSize, CuredAt, AsReceived, Message

LEMMA KeysTooLongAreKeys ==
    ASSUME NEW ts \in Seq(Tag), NEW l
    PROVE  KeysTooLong(ts, l) \subseteq Keys
<1>1. \A i \in 1 .. Len(ts) : ts[i] \in Tag
  OBVIOUS
<1>2. \A i \in 1 .. Len(ts) : ts[i].key \in Keys
  BY <1>1 DEF Tag
<1> QED
  BY <1>2 DEF KeysTooLong

(* What was made of the span is sent, or was too large, or the cure is over. *)
Outcome(msg) ==
    \/ UNCHANGED <<batch, next, messages>> /\ phase' = "uncured"
    \/ UNCHANGED <<batch, next, messages, phase>> /\ ~Fits(msg)
    \/ /\ UNCHANGED batch
       /\ phase' \in {"marshal", "returned"}
       /\ msg \in MessageRecord /\ Sends(msg)

LEMMA MeasureGentle ==
    ASSUME TypeOK, SpanVarsType', phase \in {"tags", "logs"}, Measure
    PROVE  Outcome(Message(next, tags', markers', logs'))
<1> DEFINE msg == Message(next, tags', markers', logs')
<1>1. msg \in MessageRecord /\ msg.span = next
  BY DEF TypeOK, SpanVarsType, Message, MessageRecord
<1>2. CASE Produce(msg) /\ Fits(msg)
  BY <1>1, <1>2 DEF Sends, Outcome, Produce, NextSpan
<1>3. CASE UNCHANGED <<dropSpans, batch, next, phase, messages, failed, dropped>>
           /\ ~Fits(msg)
  BY <1>3 DEF Outcome
<1>4. CASE UNCHANGED <<dropSpans, batch, next, messages, failed, dropped>>
           /\ phase' = "uncured"
  BY <1>4 DEF Outcome
<1> QED
  BY <1>2, <1>3, <1>4 DEF Measure

(* What a step sends is one of the gentlest cures.                           *)
SendsGently ==
    \/ UNCHANGED <<batch, messages>>
    \/ \E msg \in MessageRecord : Sends(msg) /\ Gentle(msg)

LEMMA TruncateIsCure ==
    ASSUME TypeOK, GentleInv, TruncateTags
    PROVE  /\ Message(next, tags', markers', logs') = CuredAt(next, try, 0)
           /\ truncatedKeysSoFar' = KeysTooLong(Current.tags, LimitOf(try))
           /\ limit' = LimitOf(try + 1)
<1>1. /\ Current.tags \in Seq(Tag) /\ Current.logs \in Seq(Logs)
      /\ phase = "tags"
      /\ try \in Tries
      /\ limit = LimitOf(try) /\ logs = Current.logs
  <2>1. phase = "tags"
    BY DEF TruncateTags
  <2>2. try \in Tries
    BY SizesAssumption DEF TypeOK, TruncateTags, Tries
  <2> QED
    BY <2>1, <2>2, CurrentType DEF GentleInv
<1> DEFINE orig == Current.tags
           seen == truncatedKeysSoFar
           new == KeysTooLong(tags, limit) \ seen
           cut == KeysTooLong(orig, LimitOf(try))
<1>2. /\ tags' = Truncate(tags, limit)
      /\ markers' = [k \in DOMAIN markers |-> IF k \in new THEN markers[k] + 1 ELSE markers[k]]
      /\ seen' = seen \cup new
      /\ limit' = limit \div 2
      /\ logs' = logs
  BY DEF TruncateTags
<1>3. /\ Truncate(tags, limit) = Truncate(orig, LimitOf(try))
      /\ seen \cup KeysTooLong(tags, limit) = cut
      /\ markers = Marking(seen, 0)
  <2>1. CASE try = 0
    <3>1. tags = orig /\ markers = NoMarkers /\ seen = {}
      BY <1>1, <2>1 DEF GentleInv
    <3> QED
      BY <1>1, <3>1 DEF NoMarkers, Marking
  <2>2. CASE try # 0
    <3> try - 1 \in Tries /\ (try - 1) + 1 = try
      BY <1>1, <2>2, SizesAssumption DEF Tries
    <3>1. /\ CureSoFar = CuredAt(next, try - 1, 0)
          /\ seen = KeysTooLong(orig, LimitOf(try - 1))
      BY <1>1, <2>2 DEF GentleInv
    <3>2. tags = Truncate(orig, LimitOf(try - 1)) /\ markers = Marking(seen, 0)
      BY <3>1, CuredParts DEF CureSoFar, Message, Current
    <3>3. /\ LimitOf(try - 1) \in Nat /\ LimitOf(try) \in Nat
          /\ LimitOf(try) <= LimitOf(try - 1)
      <4>1. Tries \subseteq 0 .. maxTruncationTries
        BY SizesAssumption DEF Tries
      <4> QED
        BY <1>1, <4>1, LimitSteps
    <3> QED
      BY <1>1, <3>1, <3>2, <3>3, TruncateTwice
  <2> QED
    BY <2>1, <2>2
<1>4. seen' = cut
  BY <1>2, <1>3
<1>5. markers' = Marking(cut, 0)
  <2>1. cut = seen \cup new /\ seen \cap new = {}
    BY <1>3
  <2>2. DOMAIN markers = Keys \cup {LogsMarker}
    BY <1>3 DEF Marking
  <2>3. ASSUME NEW k \in Keys \cup {LogsMarker}
        PROVE  (IF k \in new THEN markers[k] + 1 ELSE markers[k]) = IF k \in cut THEN 1 ELSE 0
    <3>1. markers[k] = IF k \in seen THEN 1 ELSE 0
      BY <1>3 DEF Marking
    <3> HIDE DEF seen, new, cut
    <3> QED
      BY <2>1, <3>1
  <2> HIDE DEF seen, new, cut
  <2>4. markers' = [k \in Keys \cup {LogsMarker} |-> IF k \in cut THEN 1 ELSE 0]
    BY <1>2, <2>2, <2>3
  <2> QED
    BY <2>4 DEF Marking
<1>6. Message(next, tags', markers', logs') = CuredAt(next, try, 0)
  BY <1>1, <1>2, <1>3, <1>5, CuredParts, NotThinned DEF Current
<1>7. limit' = LimitOf(try + 1)
  BY <1>1, <1>2, LimitSteps
<1> QED
  BY <1>4, <1>6, <1>7

LEMMA TruncateGently ==
    ASSUME TypeOK, GentleInv, TruncateTags, SpanVarsType'
    PROVE  GentleInv' /\ SendsGently
<1>1. /\ phase = "tags" /\ try' = try + 1 /\ logs' = logs
      /\ try \in Tries
      /\ logs = Current.logs
      /\ Measure
  BY SizesAssumption DEF TypeOK, TruncateTags, GentleInv, Tries
<1>2. PICK k \in Tries : k = try
  BY <1>1
<1> DEFINE msg == CuredAt(next, k, 0)
<1>3. /\ Message(next, tags', markers', logs') = msg
      /\ truncatedKeysSoFar' = KeysTooLong(Current.tags, LimitOf(k))
      /\ limit' = LimitOf(k + 1)
  BY <1>2, TruncateIsCure
<1>4. \A j \in Tries : j < k => ~Fits(CuredAt(next, j, 0))
  BY <1>1, <1>2 DEF GentleInv
<1>5. Outcome(msg)
  BY <1>1, <1>3, MeasureGentle
<1>6. CASE UNCHANGED <<batch, next, messages>> /\ phase' = "uncured"
  BY <1>6 DEF GentleInv, SendsGently
<1>7. CASE UNCHANGED <<batch, next, messages, phase>> /\ ~Fits(msg)
  <2>1. k \in Nat /\ \A j \in Tries : j \in Nat
    BY DEF Tries
  <2>2. Current' = Current /\ msg' = msg
    BY <1>7, CuredSame
  <2>3. ASSUME NEW j \in Tries, j < try' PROVE ~Fits(CuredAt(next, j, 0))'
    <3>1. j < k \/ j = k
      BY <1>1, <1>2, <2>1, <2>3
    <3>2. ~Fits(CuredAt(next, j, 0))
      BY <1>4, <1>7, <3>1
    <3> QED
      BY <1>7, <3>2, CuredSame
  <2>4. CureSoFar' = msg'
    BY <1>3, <1>7, <2>2 DEF CureSoFar, Message
  <2>5. ASSUME NEW i \in Tries, try' = i + 1
        PROVE  /\ CureSoFar' = CuredAt(next, i, 0)'
               /\ truncatedKeysSoFar' = KeysTooLong(Current.tags, LimitOf(i))'
    <3>1. i = k
      BY <1>1, <1>2, <2>1, <2>5
    <3>2. truncatedKeysSoFar' = KeysTooLong(Current.tags, LimitOf(k))'
      BY <1>3, <2>2 DEF KeysTooLong, TooLong, LimitOf
    <3> QED
      BY <2>4, <3>1, <3>2
  <2>6. /\ limit' = LimitOf(try') /\ logs' = Current'.logs
        /\ try' # 0 /\ phase' = "tags"
    BY <1>1, <1>2, <1>3, <1>7, <2>1, <2>2
  <2> HIDE DEF msg
  <2>7. GentleInv'
    BY <2>3, <2>5, <2>6 DEF GentleInv
  <2> QED
    BY <1>7, <2>7 DEF SendsGently
<1>8. CASE phase' \in {"marshal", "returned"} /\ msg \in MessageRecord /\ Sends(msg)
  <2>1. Gentle(msg)
    <3>1. msg.span = next
      BY CuredParts DEF Message
    <3> QED
      BY <1>4, <3>1 DEF Gentle
  <2> QED
    BY <1>8, <2>1 DEF GentleInv, SendsGently
<1> HIDE DEF msg
<1> QED
  BY <1>5, <1>6, <1>7, <1>8 DEF Outcome

LEMMA HalveIsCure ==
    ASSUME TypeOK, GentleInv, HalveLogs, NEW h \in Tries, h = try
    PROVE  Message(next, tags', markers', logs') = CuredAt(next, LastTry, h + 1)
<1>1. /\ Current.tags \in Seq(Tag) /\ Current.logs \in Seq(Logs)
      /\ phase = "logs"
  BY CurrentType DEF TypeOK, HalveLogs
<1> DEFINE cut == KeysTooLong(Current.tags, LimitOf(LastTry))
<1>2. CureSoFar = CuredAt(next, LastTry, h)
  <2>1. h \in 0 .. maxTruncationTries
    BY SizesAssumption DEF Tries
  <2> QED
    BY <1>1, <2>1 DEF GentleInv
<1>3. /\ tags = Truncate(Current.tags, LimitOf(LastTry))
      /\ markers = Marking(cut, h)
      /\ logs = Thinned(Current.logs, h)
  BY <1>2, CuredParts DEF CureSoFar, Message, Current
<1>4. /\ logs' = cutSpanLogsByHalf(logs)
      /\ markers' = [markers EXCEPT ![LogsMarker] = IF h = 0 THEN @ + 1 ELSE @]
      /\ tags' = tags
  BY DEF HalveLogs
<1>5. markers' = Marking(cut, h + 1)
  <2>1. LogsMarker \notin cut
    BY <1>1, KeysTooLongAreKeys, MarkerAssumption
  <2>2. h \in Nat
    BY DEF Tries
  <2> DEFINE Now(m) == IF m \in cut \/ (m = LogsMarker /\ h + 1 > 0) THEN 1 ELSE 0
  <2>3. ASSUME NEW m \in Keys \cup {LogsMarker} PROVE markers'[m] = Now(m)
    <3>1. markers[m] = IF m \in cut \/ (m = LogsMarker /\ h > 0) THEN 1 ELSE 0
      BY <1>3 DEF Marking
    <3>2. markers'[m] = IF m = LogsMarker /\ h = 0 THEN markers[m] + 1 ELSE markers[m]
      BY <1>3, <1>4 DEF Marking
    <3> HIDE DEF cut
    <3> QED
      BY <2>1, <2>2, <3>1, <3>2
  <2>4. /\ markers' = [m \in Keys \cup {LogsMarker} |-> markers'[m]]
        /\ Marking(cut, h + 1) = [m \in Keys \cup {LogsMarker} |-> Now(m)]
    BY <1>3, <1>4 DEF Marking
  <2> HIDE DEF Now
  <2> QED
    BY <2>3, <2>4
<1>6. logs' = Thinned(Current.logs, h + 1)
  BY <1>1, <1>3, <1>4, ThinTwice
<1> HIDE DEF cut
<1> QED
  BY <1>3, <1>4, <1>5, <1>6, CuredParts DEF Current, cut

LEMMA HalveGently ==
    ASSUME TypeOK, GentleInv, HalveLogs, SpanVarsType'
    PROVE  GentleInv' /\ SendsGently
<1>1. /\ phase = "logs" /\ try' = try + 1
      /\ try \in Tries
      /\ Measure
  BY SizesAssumption DEF TypeOK, HalveLogs, Tries
<1>2. PICK h \in Tries : h = try
  BY <1>1
<1>3. h + 1 \in 1 .. maxTruncationTries /\ h \in Nat
  BY SizesAssumption DEF Tries
<1> DEFINE msg == CuredAt(next, LastTry, h + 1)
<1>4. Message(next, tags', markers', logs') = msg
  BY <1>2, HalveIsCure
<1>5. /\ \A k \in Tries : ~Fits(CuredAt(next, k, 0))
      /\ \A j \in 1 .. maxTruncationTries : j <= h => ~Fits(CuredAt(next, LastTry, j))
  BY <1>1, <1>2 DEF GentleInv
<1>6. Outcome(msg)
  BY <1>1, <1>4, MeasureGentle
<1>7. CASE UNCHANGED <<batch, next, messages>> /\ phase' = "uncured"
  BY <1>7 DEF GentleInv, SendsGently
<1>8. CASE UNCHANGED <<batch, next, messages, phase>> /\ ~Fits(msg)
  <2>1. msg' = msg
    BY <1>8, CuredSame
  <2>2. CureSoFar' = msg'
    BY <1>4, <1>8, <2>1 DEF CureSoFar, Message
  <2>3. ASSUME NEW i \in 0 .. maxTruncationTries, try' = i
        PROVE  CureSoFar' = CuredAt(next, LastTry, i)'
    <3>1. i = h + 1
      BY <1>1, <1>2, <2>3
    <3> QED
      BY <2>2, <3>1
  <2>4. ASSUME NEW j \in 1 .. maxTruncationTries, j <= try'
        PROVE  ~Fits(CuredAt(next, LastTry, j))'
    <3>1. j <= h \/ j = h + 1
      BY <1>1, <1>2, <1>3, <2>4
    <3>2. ~Fits(CuredAt(next, LastTry, j))
      BY <1>5, <1>8, <3>1
    <3> QED
      BY <1>8, <3>2, CuredSame
  <2>5. \A k \in Tries : ~Fits(CuredAt(next, k, 0))'
    BY <1>5, <1>8, CuredSame
  <2> HIDE DEF msg
  <2>6. GentleInv'
    BY <1>1, <1>8, <2>3, <2>4, <2>5 DEF GentleInv
  <2> QED
    BY <1>8, <2>6 DEF SendsGently
<1>9. CASE phase' \in {"marshal", "returned"} /\ msg \in MessageRecord /\ Sends(msg)
  <2>1. Gentle(msg)
    <3>1. msg.span = next
      BY CuredParts DEF Message
    <3>2. \A j \in 1 .. maxTruncationTries : j < h + 1 => j <= h
      BY <1>3
    <3> QED
      BY <1>3, <1>5, <3>1, <3>2 DEF Gentle
  <2> QED
    BY <1>9, <2>1 DEF GentleInv, SendsGently
<1> HIDE DEF msg
<1> QED
  BY <1>6, <1>7, <1>8, <1>9 DEF Outcome

LEMMA GentleNext ==
    ASSUME TypeOK, GentleInv, [Next]_vars
    PROVE  GentleInv' /\ SendsGently
<1>1. SpanVarsType'
  BY Steps
<1>2. CASE MarshalFails
  BY <1>2 DEF MarshalFails, NextSpan, GentleInv, SendsGently
<1>3. CASE MarshalFits
  <2>1. Sends(AsReceived(next)) /\ Gentle(AsReceived(next))
    BY <1>3, CurrentType DEF MarshalFits, Sends, Gentle
  <2>2. GentleInv'
    BY <1>3 DEF MarshalFits, Produce, NextSpan, GentleInv
  <2> QED
    BY <1>3, <2>1, <2>2, CurrentType DEF MarshalFits, SendsGently
<1>4. CASE BeginCure
  <2>1. /\ UNCHANGED <<batch, next, messages>> /\ phase' = "tags"
        /\ tags' = Current.tags /\ logs' = Current.logs
        /\ markers' = NoMarkers /\ truncatedKeysSoFar' = {}
        /\ limit' = maxAttributeValueSize /\ try' = 0
    BY <1>4 DEF BeginCure
  <2>2. Current' = Current
    BY <2>1 DEF Current
  <2>3. \A k \in Tries : k + 1 # 0 /\ ~(k < 0)
    BY DEF Tries
  <2>4. limit' = LimitOf(try')
    BY <2>1, LimitSteps
  <2>5. NoMarkers' = NoMarkers
    BY DEF NoMarkers
  <2>6. GentleInv'
    BY <2>1, <2>2, <2>3, <2>4, <2>5 DEF GentleInv
  <2> QED
    BY <2>1, <2>6 DEF SendsGently
<1>5. CASE TruncateTags
  BY <1>1, <1>5, TruncateGently
<1>6. CASE TagsExhausted
  <2>1. /\ phase' \in {"logs", "uncured"} /\ phase = "tags"
        /\ try = maxTruncationTries /\ try' = 0
        /\ UNCHANGED <<batch, next, tags, markers, logs, messages>>
    BY <1>6 DEF TagsExhausted
  <2>2. LastTry \in Tries /\ try = LastTry + 1
    BY <2>1, SizesAssumption DEF LastTry, Tries
  <2>3. CureSoFar = CuredAt(next, LastTry, 0)
    BY <2>1, <2>2 DEF GentleInv
  <2>4. \A k \in Tries : ~Fits(CuredAt(next, k, 0))
    <3>1. \A k \in Tries : k < try
      BY <2>1, SizesAssumption DEF Tries
    <3> QED
      BY <2>1, <3>1 DEF GentleInv
  <2>5. CureSoFar' = CureSoFar
    BY <2>1 DEF CureSoFar, Message
  <2>6. /\ CureSoFar' = CuredAt(next, LastTry, 0)'
        /\ \A k \in Tries : ~Fits(CuredAt(next, k, 0))'
    BY <2>1, <2>3, <2>4, <2>5, CuredSame
  <2>7. \A j \in 1 .. maxTruncationTries : ~(j <= 0)
    OBVIOUS
  <2>8. GentleInv'
    BY <2>1, <2>6, <2>7 DEF GentleInv
  <2> QED
    BY <2>1, <2>8 DEF SendsGently
<1>7. CASE HalveLogs
  BY <1>1, <1>7, HalveGently
<1>8. CASE LogsExhausted
  BY <1>8 DEF LogsExhausted, GentleInv, SendsGently
<1>9. CASE Uncured
  <2>1. GentleInv'
    BY <1>9 DEF Uncured, Produce, NextSpan, GentleInv
  <2>2. phase # "returned"
    BY <1>9 DEF Uncured
  <2>3. CASE dropSpans
    BY <1>9, <2>1, <2>3 DEF Uncured, NextSpan, SendsGently
  <2>4. CASE ~dropSpans
    <3>1. Sends(AsReceived(next)) /\ Gentle(AsReceived(next))
      BY <1>9, <2>2, <2>4, CurrentType DEF Uncured, Sends, Gentle
    <3> QED
      BY <2>1, <2>2, <3>1, CurrentType DEF SendsGently
  <2> QED
    BY <2>3, <2>4
<1>10. CASE Returned \/ UNCHANGED vars
  <2>1. UNCHANGED vars
    BY <1>10 DEF Returned
  <2> QED
    BY <2>1 DEF vars, spanVars, GentleInv, SendsGently, Current, CureSoFar,
                CuredAt, Fits, MessageSize, Message
<1> QED
  BY <1>2, <1>3, <1>4, <1>5, <1>6, <1>7, <1>8, <1>9, <1>10 DEF Next

LEMMA GentlestNext ==
    ASSUME TypeOK, GentleInv, GentlestCure, [Next]_vars
    PROVE  GentlestCure'
<1>1. CASE UNCHANGED <<batch, messages>>
  BY <1>1, GentleSame DEF GentlestCure, MessageNumbers
<1>2. ASSUME NEW msg \in MessageRecord, Sends(msg), Gentle(msg) PROVE GentlestCure'
  <2>1. batch' = batch
    BY <1>2 DEF Sends, Produce, NextSpan
  <2>2. \A m : Gentle(m)' <=> Gentle(m)
    BY <2>1, GentleSame
  <2> QED
    BY <1>2, <2>2, SendsAppends DEF GentlestCure
<1> QED
  BY <1>1, <1>2, GentleNext DEF SendsGently

(* A cured span is cut no more than it needs: the larger limits, and the     *)
(* logs that would have been kept, did not fit.                              *)
THEOREM CuredNoMoreThanNeeded == Spec => []GentlestCure
<1>1. Init => TypeOK /\ GentleInv /\ GentlestCure
  BY TypeInit DEF Init, GentleInv, GentlestCure, MessageNumbers
<1>2. TypeOK /\ GentleInv /\ GentlestCure /\ [Next]_vars => (TypeOK /\ GentleInv /\ GentlestCure)'
  BY TypeNext, GentleNext, GentlestNext
<1> QED
  BY <1>1, <1>2, PTL DEF Spec

=============================================================================
