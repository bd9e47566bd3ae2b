----------------------------- MODULE SpanCuring -----------------------------
(* The marshaler that makes spans fit into a Kafka message                   *)
(* (src/exporter/kafkaexporter/jaeger_marshaler_curer.go).                   *)
(*                                                                           *)
(* One call of Marshal: the spans of a batch are serialised one by one.  One *)
(* that is too large is cured: its attribute values are cut to a limit that  *)
(* is halved with every try, and when that does not help its logs are thinned*)
(* to every second one, again and again.  What cannot be cured is dropped or *)
(* sent as it was received.                                                  *)
(*                                                                           *)
(* A value is its length, a log its identity; the size of a serialised span  *)
(* is a parameter, because nothing here depends on how it is computed.       *)
EXTENDS Integers, Sequences

CONSTANTS
    Keys,                  \* attribute keys
    Logs,                  \* span logs
    Batches,               \* the sequences of spans that Marshal may be given
    Size(_, _, _),         \* byteSize of a message: of tags, markers and logs
    maxMessageBytes,
    maxAttributeValueSize,
    maxTruncationTries

ASSUME SizesAssumption ==
    /\ maxMessageBytes \in Nat
    /\ maxAttributeValueSize \in Nat \ {0}
    /\ maxTruncationTries \in Nat \ {0}

Kinds == {"string", "binary", "other"}
Tag == [key : Keys, kind : Kinds, len : Nat]

(* "never" and "unlessCured" are the two places where marshal may fail.     *)
Marshals == {"always", "never", "unlessCured"}
Span == [tags : Seq(Tag), logs : Seq(Logs), marshals : Marshals]

ASSUME BatchesAssumption == Batches \subseteq Seq(Span)

(* The attributes added by curing: how many "<key>.htcollector.truncated"    *)
(* there are for each key, and how many "htcollector.spanlogstruncated".     *)
LogsMarker == "spanlogs"
Markers == [Keys \cup {LogsMarker} -> Nat]
NoMarkers == [k \in Keys \cup {LogsMarker} |-> 0]

ASSUME MarkerAssumption == LogsMarker \notin Keys

PowerOfTwo[n \in 0 .. maxTruncationTries] ==
    IF n = 0 THEN 1 ELSE 2 * PowerOfTwo[n - 1]

(* We truncate logs only if there are that many.                             *)
minSpanLogsArrSize == PowerOfTwo[maxTruncationTries]

VARIABLES
    dropSpans,           \* configuration: what to do with what cannot be cured
    batch,               \* the spans given to Marshal
    next,                \* index of the current span
    phase,               \* "marshal", "tags", "logs", "uncured", "returned"
    tags, markers, logs, \* the current span, changed in place while cured
    limit,               \* attributeValueSize
    try,                 \* truncationTry
    truncatedKeysSoFar,
    messages,            \* messages so far
    failed,              \* indices of the spans with an error in errs
    dropped              \* indices of the spans dropped

spanVars == <<tags, markers, logs, limit, try, truncatedKeysSoFar>>
vars == <<dropSpans, batch, next, phase, spanVars, messages, failed, dropped>>

Current == batch[next]

Message(i, t, m, l) == [span |-> i, tags |-> t, markers |-> m, logs |-> l]
AsReceived(i) == Message(i, batch[i].tags, NoMarkers, batch[i].logs)
MessageSize(msg) == Size(msg.tags, msg.markers, msg.logs)
Fits(msg) == MessageSize(msg) <= maxMessageBytes

-----------------------------------------------------------------------------
(* The loop of Marshal.                                                      *)

(* The next iteration: another span, or the return.                          *)
NextSpan ==
    /\ next' = next + 1
    /\ phase' = IF next < Len(batch) THEN "marshal" ELSE "returned"
    /\ UNCHANGED <<dropSpans, batch>>

Produce(msg) ==
    /\ messages' = Append(messages, msg)
    /\ NextSpan
    /\ UNCHANGED <<failed, dropped>>

(* "continue to process spans that can be serialized"                        *)
MarshalFails ==
    /\ phase = "marshal"
    /\ Current.marshals = "never"
    /\ failed' = failed \cup {next}
    /\ NextSpan
    /\ UNCHANGED <<spanVars, messages, dropped>>

MarshalFits ==
    /\ phase = "marshal"
    /\ Current.marshals # "never"
    /\ Fits(AsReceived(next))
    /\ Produce(AsReceived(next))
    /\ UNCHANGED spanVars

(* cureSpan is called, with local variables of its own.                      *)
BeginCure ==
    /\ phase = "marshal"
    /\ Current.marshals # "never"
    /\ ~Fits(AsReceived(next))
    /\ tags' = Current.tags
    /\ logs' = Current.logs
    /\ markers' = NoMarkers
    /\ limit' = maxAttributeValueSize
    /\ try' = 0
    /\ truncatedKeysSoFar' = {}
    /\ phase' = "tags"
    /\ UNCHANGED <<dropSpans, batch, next, messages, failed, dropped>>

(* Mutant: the span as cureSpan left it is sent.                             *)
UncuredSendsCut ==
    /\ phase = "uncured"
    /\ Produce(Message(next, tags, markers, logs))
    /\ UNCHANGED spanVars

(* Mutant: the continue after the drop is missing.                           *)
UncuredFallsThrough ==
    /\ phase = "uncured"
    /\ dropped' = IF dropSpans THEN dropped \cup {next} ELSE dropped
    /\ messages' = Append(messages, AsReceived(next))
    /\ NextSpan
    /\ UNCHANGED <<failed, spanVars>>

(* What Marshal does with an error of cureSpan.                              *)
Uncured ==
    /\ phase = "uncured"
    /\ \/ /\ dropSpans
          /\ dropped' = dropped \cup {next}
          /\ NextSpan
          /\ UNCHANGED <<messages, failed>>
       \/ /\ ~dropSpans
          /\ Produce(AsReceived(next))
    /\ UNCHANGED spanVars

-----------------------------------------------------------------------------
(* cureSpan and cureSpanLogs.                                                *)

TooLong(tag, l) == tag.kind \in {"string", "binary"} /\ tag.len > l

Truncate(ts, l) ==
    [i \in 1 .. Len(ts) |->
        IF TooLong(ts[i], l) THEN [ts[i] EXCEPT !.len = l] ELSE ts[i]]

KeysTooLong(ts, l) == {ts[i].key : i \in {j \in 1 .. Len(ts) : TooLong(ts[j], l)}}

(* After a try: marshal fails, or the message fits and is returned, or the   *)
(* next try is prepared.                                                     *)
Measure ==
    LET msg == Message(next, tags', markers', logs')
    IN  \/ /\ Current.marshals = "unlessCured"
           /\ phase' = "uncured"
           /\ UNCHANGED <<dropSpans, batch, next, messages, failed, dropped>>
        \/ /\ Current.marshals # "unlessCured"
           /\ Fits(msg)
           /\ Produce(msg)
        \/ /\ Current.marshals # "unlessCured"
           /\ ~Fits(msg)
           /\ UNCHANGED <<dropSpans, batch, next, phase, messages, failed, dropped>>

(* Mutant: one try too many.                                                 *)
TruncateTagsOnceMore ==
    /\ phase = "tags"
    /\ try <= maxTruncationTries
    /\ tags' = Truncate(tags, limit)
    /\ limit' = limit \div 2
    /\ try' = try + 1
    /\ UNCHANGED <<markers, truncatedKeysSoFar, logs>>
    /\ Measure

(* Mutant: every try marks the keys it cuts.                                 *)
TruncateTagsMarksAgain ==
    /\ phase = "tags"
    /\ try < maxTruncationTries
    /\ LET new == KeysTooLong(tags, limit)
       IN  markers' = [k \in DOMAIN markers |->
                          IF k \in new THEN markers[k] + 1 ELSE markers[k]]
    /\ tags' = Truncate(tags, limit)
    /\ limit' = limit \div 2
    /\ try' = try + 1
    /\ UNCHANGED <<truncatedKeysSoFar, logs>>
    /\ Measure

(* Mutant: a try with nothing to cut is not counted.                         *)
TruncateTagsNotCounted ==
    /\ phase = "tags"
    /\ try < maxTruncationTries
    /\ tags' = Truncate(tags, limit)
    /\ limit' = limit \div 2
    /\ try' = IF KeysTooLong(tags, limit) = {} THEN try ELSE try + 1
    /\ UNCHANGED <<markers, truncatedKeysSoFar, logs>>
    /\ Measure

(* One try of cureSpan: the values over the limit are cut, and each key gets *)
(* one marker, the first time one of its values is cut.                      *)
TruncateTags ==
    /\ phase = "tags"
    /\ try < maxTruncationTries
    /\ LET new == KeysTooLong(tags, limit) \ truncatedKeysSoFar
       IN  /\ markers' = [k \in DOMAIN markers |->
                             IF k \in new THEN markers[k] + 1 ELSE markers[k]]
           /\ truncatedKeysSoFar' = truncatedKeysSoFar \cup new
    /\ tags' = Truncate(tags, limit)
    /\ limit' = limit \div 2
    /\ try' = try + 1
    /\ UNCHANGED logs
    /\ Measure

(* The tries are used up: the logs are tried, if there are enough of them.   *)
TagsExhausted ==
    /\ phase = "tags"
    /\ try = maxTruncationTries
    /\ phase' = IF Len(logs) >= minSpanLogsArrSize THEN "logs" ELSE "uncured"
    /\ try' = 0
    /\ UNCHANGED <<dropSpans, batch, next, tags, markers, logs, limit,
                   truncatedKeysSoFar, messages, failed, dropped>>

(* Mutant: the odd indices are kept.                                         *)
cutSpanLogsFirst(l) == [i \in 1 .. Len(l) \div 2 |-> l[2 * i]]

cutSpanLogsByHalf(l) == [i \in 1 .. (Len(l) + 1) \div 2 |-> l[2 * i - 1]]

(* One try of cureSpanLogs, which marks the span in its first one.           *)
HalveLogs ==
    /\ phase = "logs"
    /\ try < maxTruncationTries
    /\ logs' = cutSpanLogsByHalf(logs)
    /\ markers' = [markers EXCEPT ![LogsMarker] = IF try = 0 THEN @ + 1 ELSE @]
    /\ try' = try + 1
    /\ UNCHANGED <<tags, limit, truncatedKeysSoFar>>
    /\ Measure

LogsExhausted ==
    /\ phase = "logs"
    /\ try = maxTruncationTries
    /\ phase' = "uncured"
    /\ UNCHANGED <<dropSpans, batch, next, spanVars, messages, failed, dropped>>

-----------------------------------------------------------------------------
Init ==
    /\ dropSpans \in BOOLEAN
    /\ batch \in Batches
    /\ next = 1
    /\ phase = IF batch = <<>> THEN "returned" ELSE "marshal"
    /\ tags = <<>>
    /\ markers = NoMarkers
    /\ logs = <<>>
    /\ limit = maxAttributeValueSize
    /\ try = 0
    /\ truncatedKeysSoFar = {}
    /\ messages = <<>>
    /\ failed = {}
    /\ dropped = {}

(* Marshal has returned.                                                     *)
Returned == phase = "returned" /\ UNCHANGED vars

Next ==
    \/ MarshalFails
    \/ MarshalFits
    \/ BeginCure
    \/ TruncateTags
    \/ TagsExhausted
    \/ HalveLogs
    \/ LogsExhausted
    \/ Uncured
    \/ Returned

Spec == Init /\ [][Next]_vars

(* Marshal is one goroutine that waits for nobody.                           *)
FairSpec == Spec /\ WF_vars(Next)

-----------------------------------------------------------------------------
(* Properties.                                                               *)

TypeOK ==
    /\ dropSpans \in BOOLEAN
    /\ batch \in Seq(Span)
    /\ next \in Nat \ {0}
    /\ phase \in {"marshal", "tags", "logs", "uncured", "returned"}
    /\ phase # "returned" => next <= Len(batch)
    /\ tags \in Seq(Tag)
    /\ markers \in Markers
    /\ logs \in Seq(Logs)
    /\ limit \in Nat
    /\ try \in 0 .. maxTruncationTries
    /\ truncatedKeysSoFar \in SUBSET Keys
    /\ messages \in Seq([span : Nat, tags : Seq(Tag), markers : Markers,
                         logs : Seq(Logs)])
    /\ failed \in SUBSET Nat
    /\ dropped \in SUBSET Nat

MessageNumbers == 1 .. Len(messages)

(* A message that is still too large is the span as it was received, and     *)
(* only when spans are not to be dropped: a half-cured span is never sent    *)
(* (the two branches after cureSpan in Marshal).                             *)
OversizeOnlyAsReceived ==
    \A n \in MessageNumbers :
        ~Fits(messages[n]) =>
            ~dropSpans /\ messages[n] = AsReceived(messages[n].span)

(* Every span that Marshal has passed has had exactly one fate, and the      *)
(* messages are in the order of their spans (the continues of Marshal).      *)
OneFateEach ==
    /\ \A n, k \in MessageNumbers : n < k => messages[n].span < messages[k].span
    /\ LET sent == {messages[n].span : n \in MessageNumbers}
       IN  /\ sent \cup failed \cup dropped = 1 .. next - 1
           /\ sent \cap (failed \cup dropped) = {}
           /\ failed \cap dropped = {}

(* A sent span carries one marker for each key of which a value was cut, and *)
(* none for another, over all the tries and however many of its attributes   *)
(* share a key (truncatedKeysSoFar); and one for its logs if they were cut.  *)
CutValue(msg, i) == msg.tags[i].len < batch[msg.span].tags[i].len

MarkedOnceIfCut ==
    \A n \in MessageNumbers :
        LET msg == messages[n]
            cut == {msg.tags[i].key : i \in {j \in 1 .. Len(msg.tags) : CutValue(msg, j)}}
        IN  /\ \A k \in Keys : msg.markers[k] = IF k \in cut THEN 1 ELSE 0
            /\ msg.markers[LogsMarker] = IF msg.logs = batch[msg.span].logs THEN 0 ELSE 1

(* The reference: the span with values cut to the limit of try k, counting   *)
(* from 0, and its logs thinned h times.                                     *)
LimitOf(k) == maxAttributeValueSize \div PowerOfTwo[k]

CuredAt(i, k, h) ==
    LET cut == KeysTooLong(batch[i].tags, LimitOf(k))
        all == batch[i].logs
        step == PowerOfTwo[h]
        kept == (Len(all) + step - 1) \div step
    IN  Message(i, Truncate(batch[i].tags, LimitOf(k)),
                [m \in DOMAIN NoMarkers |->
                    IF m \in cut \/ (m = LogsMarker /\ h > 0) THEN 1 ELSE 0],
                [j \in 1 .. kept |-> all[(j - 1) * step + 1]])

Tries == 0 .. maxTruncationTries - 1
LastTry == maxTruncationTries - 1

Gentle(msg) ==
    LET i == msg.span
    IN  \/ msg = AsReceived(i)
        \/ \E k \in Tries :
              /\ msg = CuredAt(i, k, 0)
              /\ \A j \in Tries : j < k => ~Fits(CuredAt(i, j, 0))
        \/ \E h \in 1 .. maxTruncationTries :
              /\ msg = CuredAt(i, LastTry, h)
              /\ \A k \in Tries : ~Fits(CuredAt(i, k, 0))
              /\ \A j \in 1 .. maxTruncationTries :
                    j < h => ~Fits(CuredAt(i, LastTry, j))

(* A cured span is the gentlest of the cures: no larger limit would have     *)
(* done, logs are only touched when no limit does, and then as few of them   *)
(* are left out as possible, the first one never.                            *)
GentlestCure == \A n \in MessageNumbers : Gentle(messages[n])

(* Marshal returns, whatever the spans are.                                  *)
MarshalReturns == <>(phase = "returned")

=============================================================================
