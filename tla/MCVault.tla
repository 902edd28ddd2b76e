------------------------------ MODULE MCVault ------------------------------
(***************************************************************************)
(* A vault small enough for TLC: two values, two spellings, one reversible *)
(* and one irreversible type, and the batches that make them meet.         *)
(***************************************************************************)
EXTENDS VaultInvariant, TLC

CONSTANTS w1, w2, v1, v2, s1, s2

MCType == {"NAME", "CARD"}

\* The catalogue of an ordinary run, one edited to make every type reversible,
\* and one that has dropped a type.
MCCatalogues == { [NAME |-> TRUE, CARD |-> FALSE],
                  [NAME |-> TRUE, CARD |-> TRUE],
                  [NAME |-> TRUE] }

SpanOf(t, v, s) == [type |-> t, value |-> v, text |-> s]
Call(spans, carried) ==
  [spans |-> spans, carried |-> carried, adopting |-> carried # {}]
Issued(t, i) == [type |-> t, index |-> i]

\* One batch uses an irreversible type and meets two spellings of one value, the
\* other replays placeholders of both types, skips a blank span and races the
\* first for a suffix.
MCBatches ==
  { Call(<<SpanOf("CARD", v1, s2), SpanOf("NAME", v1, s1), SpanOf("NAME", v1, s2)>>, {}),
    Call(<<SpanOf("NAME", Blank, s2), SpanOf("NAME", v2, s1)>>,
         {Issued("NAME", 0), Issued("CARD", 0)}) }
=============================================================================
