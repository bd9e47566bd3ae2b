---------------------------- MODULE MC_SpanCuring ----------------------------
(* Batches of up to two spans for TLC.  A span has up to two attributes,     *)
(* under one key or two, of the length of the limit, one byte over it, or    *)
(* more than all the halvings can bring down; and up to seven logs.          *)
EXTENDS SpanCuring, FiniteSetsExt, SequencesExt

CONSTANTS k1, k2

(* A byte for each byte of a value, one for each attribute and its key, two  *)
(* for each marker and three for each log.                                   *)
MCSize(t, m, l) ==
    FoldSeq(LAMBDA tag, sum : sum + tag.len + 1, 0, t)
        + 2 * MapThenSumSet(LAMBDA k : m[k], DOMAIN m)
        + 3 * Len(l)

MCLogs == 1 .. 7

MCTag(k, t, n) == [key |-> k, kind |-> t, len |-> n]

MCTags ==
    {MCTag(k, "string", n) : k \in {k1, k2}, n \in {2, 4, 5, 12}}
        \cup {MCTag(k1, "binary", 5), MCTag(k1, "other", 9)}

MCSpan(t, n, m) == [tags |-> t, logs |-> [i \in 1 .. n |-> i], marshals |-> m]

OneSpan ==
    {<<MCSpan(t, n, m)>> :
        t \in {<<>>} \cup {<<x>> : x \in MCTags} \cup (MCTags \X MCTags),
        n \in {0, 3, 4, 7}, m \in Marshals}

(* One that fits, one cured by its attributes, one by its logs, two that are *)
(* not cured and one that fails.                                             *)
Various ==
    {MCSpan(<<>>, 1, "always"),
     MCSpan(<<MCTag(k1, "string", 12)>>, 0, "always"),
     MCSpan(<<MCTag(k1, "string", 5)>>, 7, "always"),
     MCSpan(<<MCTag(k1, "other", 9)>>, 3, "always"),
     MCSpan(<<MCTag(k2, "string", 12)>>, 0, "unlessCured"),
     MCSpan(<<>>, 0, "never")}

MCBatches == {<<>>} \cup OneSpan \cup (Various \X Various)
=============================================================================
