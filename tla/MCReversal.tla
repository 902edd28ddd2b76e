----------------------------- MODULE MCReversal -----------------------------
(***************************************************************************)
(* One call to the direct API or the gateway beside two sessions: texts    *)
(* that hold the caller's own placeholders, another document's,            *)
(* irreversible and invented ones, and bodies with every kind of field.    *)
(***************************************************************************)
EXTENDS DirectApi, TLC

CONSTANTS w1, w2, v1, v2, s1, s2

MCType == {"NAME", "CARD"}
MCCatalogues == { [NAME |-> TRUE, CARD |-> FALSE] }

SpanOf(t, v, s) == [type |-> t, value |-> v, text |-> s]
P(t, i) == [type |-> t, index |-> i]
Plain(spans) == [spans |-> spans, carried |-> {}, adopting |-> FALSE]
Replay(spans, carried) == [spans |-> spans, carried |-> carried, adopting |-> TRUE]

\* A name spelled twice beside a card; the name spelled as another author does;
\* a second name in a conversation that replays the first placeholder.
MCBatches ==
  { Plain(<<SpanOf("NAME", v1, s1), SpanOf("NAME", v1, s2), SpanOf("CARD", v2, s1)>>),
    Plain(<<SpanOf("NAME", v1, s2)>>),
    Replay(<<SpanOf("NAME", v2, s1)>>, {P("NAME", 0)}) }

Exact(p) == [of |-> p, exact |-> TRUE]
Rewritten(p) == [of |-> p, exact |-> FALSE]

Texts ==
  { <<Exact(P("NAME", 0)), Exact(P("CARD", 1))>>,
    <<Exact(P("NAME", 1)), Exact(P("NAME", 0)), Rewritten(P("NAME", 1))>>,
    <<Exact(P("CARD", 0)), Rewritten(P("NAME", 0)), Exact(P("CARD", 0))>>,
    <<Exact(P("NAME", 0))>> }

Of(kind, value) == [is |-> kind, value |-> value]
Body(text, mapping, strict) ==
  [object |-> TRUE, fields |-> [text |-> text, mapping_id |-> mapping, strict |-> strict]]

Wrong == Of("number", None)

\* Mappings named, one that may not exist, and none in every way there is.
MCBodies ==
  {Body(Of("string", t), m, Of("boolean", strict)) :
     t \in Texts, m \in {Of("string", 1), Of("string", 2), Of("empty", None), Of("null", None)},
     strict \in BOOLEAN}
  \cup { [object |-> TRUE, fields |-> [text |-> Of("empty", << >>)]],
         [object |-> TRUE, fields |-> [text |-> Of("string", <<Exact(P("NAME", 0))>>)]],
         [object |-> FALSE, fields |-> << >>],
         Body(Wrong, Of("null", None), Of("boolean", TRUE)),
         Body(Of("empty", << >>), Wrong, Of("boolean", TRUE)),
         Body(Of("empty", << >>), Of("null", None), Wrong),
         Body(Of("empty", << >>), Of("null", None), Of("null", None)) }

\* The gateway names its mapping and is tolerant.
MCRequests ==
  {[mapping |-> m, text |-> t, strict |-> FALSE, fuzzy |-> TRUE] : m \in {1, 2}, t \in Texts}
=============================================================================
