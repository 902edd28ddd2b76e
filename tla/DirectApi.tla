----------------------------- MODULE DirectApi -----------------------------
(***************************************************************************)
(* The gateway's direct API (gateway/direct.py) over one vault.  The       *)
(* sessions of Vault are its POST /privaparse/pseudonymize, which adopts   *)
(* nothing; this module adds one call of POST /privaparse/reverse or GET   *)
(* /privaparse/vault beside them, from the body to the response.  The      *)
(* lookup of a mapping and the reversal are two sessions here and one in   *)
(* engine.reverse: as each query sees the last committed state, that makes *)
(* no difference.  /detect and /catalogue read no vault.                   *)
(*                                                                         *)
(* A body is [object, fields], a field [is, value]: what kind of JSON it   *)
(* is, "empty" for the empty string, and its value.                        *)
(***************************************************************************)
EXTENDS Reversal

CONSTANT Bodies  \* what clients post to /reverse

VARIABLES
  reply,   \* to the call: None, or [status, ..]
  counts   \* what stats() has read so far, in the order of Queries

direct == <<reply, counts>>

DirectInit == ReversalInit /\ reply = None /\ counts = << >>

Free == stage = "idle" /\ reply = None /\ counts = << >>

-----------------------------------------------------------------------------
(* POST /privaparse/reverse                                                *)

KindOf(body, name) == IF name \in DOMAIN body.fields THEN body.fields[name].is ELSE "absent"
ValueOf(body, name) == body.fields[name].value

\* What a string says: a text, and an id that may be nobody's.
ASSUME BodyAssumption ==
  \A body \in Bodies : body.object =>
    /\ KindOf(body, "text") \in {"string", "empty"} => ValueOf(body, "text") \in Seq(Token)
    /\ KindOf(body, "mapping_id") = "string" => ValueOf(body, "mapping_id") \in Nat

\* JSON's null is as good as no field for mapping_id, and for nothing else.
BadRequest(body) ==
  \/ ~body.object
  \/ KindOf(body, "text") \notin {"string", "empty"}
  \/ KindOf(body, "mapping_id") \notin {"string", "empty", "null", "absent"}
  \/ KindOf(body, "strict") \notin {"boolean", "absent"}

\* An empty mapping_id means the same as none: look it up.
Asked(body) ==
  [mapping |-> IF KindOf(body, "mapping_id") = "string"
               THEN ValueOf(body, "mapping_id") ELSE None,
   text |-> ValueOf(body, "text"),
   strict |-> KindOf(body, "strict") = "boolean" /\ ValueOf(body, "strict"),
   fuzzy |-> FALSE]

RefuseBody ==
  /\ Free
  /\ \E body \in Bodies : BadRequest(body)
  /\ reply' = [status |-> 400]
  /\ UNCHANGED <<reversal, counts>>

PostReverse ==
  /\ Free
  /\ \E body \in Bodies : ~BadRequest(body) /\ CallWith(Asked(body))
  /\ UNCHANGED direct

\* ForeignPlaceholderError is a 400, every LookupError a 404.
AnswerReverse ==
  /\ stage \in Ended /\ ~request.fuzzy /\ reply = None
  /\ reply' =
       IF stage = "done" THEN [status |-> 200, mapping |-> chosen, report |-> report]
       ELSE [status |-> IF stage = "refused" THEN 400 ELSE 404]
  /\ UNCHANGED <<reversal, counts>>

-----------------------------------------------------------------------------
(* GET /privaparse/vault: the queries of VaultRepository.stats             *)

MutantQueries == <<"entities", "types", "forms", "mappings">>
Queries == <<"types", "entities", "forms", "mappings">>

OfType(E, t) == {e \in E : e.type = t}
CountByType(E) == [t \in {e.type : e \in E} |-> Cardinality(OfType(E, t))]

Result(query) ==
  CASE query = "types" -> CountByType(entities)
    [] query = "entities" -> Cardinality(entities)
    [] query = "forms" -> Cardinality(forms)
    [] query = "mappings" -> Len(mappings)

Count ==
  /\ Free \/ Len(counts) \in 1 .. 3
  /\ counts' = Append(counts, Result(Queries[Len(counts) + 1]))
  /\ reply' = IF Len(counts) = 3 THEN [status |-> 200] ELSE None
  /\ seen' = IF counts = << >> THEN answers ELSE seen
  /\ UNCHANGED <<stage, request, chosen, table, cursor, report>>

-----------------------------------------------------------------------------
\* Beside the direct API's calls, the gateway restores an answer.
DirectNext ==
  \/ Next /\ UNCHANGED <<reversal, direct>>
  \/ /\ UNCHANGED vars
     /\ \/ RefuseBody \/ PostReverse \/ AnswerReverse \/ Count
        \/ Free /\ Call /\ UNCHANGED direct
        \/ Reversing /\ UNCHANGED direct

DirectSpec == DirectInit /\ [][DirectNext]_<<vars, reversal, direct>>

-----------------------------------------------------------------------------
\* A client that names no mapping, or an empty one, and gets an answer got a whole
\* one, and the mapping it is told issued all of its text: whatever is committed
\* between the lookup and the reversal, nothing is left standing.
FoundIsClean ==
  stage = "done" /\ reply # None /\ request.mapping = None =>
    /\ report.foreign = {} /\ report.unknown = {} /\ report.irreversible = {}
    /\ ExactIn(request.text) \subseteq Issued(report.restored)
    /\ ExactIn(request.text) \subseteq Issued(mappings[reply.mapping])

\* What clients had been handed when the call began.
Handed == UNION {{a.resolved[i].entity : i \in DOMAIN a.resolved} : a \in seen}

\* The rows that counts by type speak of: the n-th of each type, for each n.
RowsCounted(types) == UNION {{t} \X (1 .. types[t]) : t \in DOMAIN types}

\* The four counts come from four queries between which others commit, and an
\* entity is committed before its batch is; still the types together count no more
\* than the total does, and what a client had been handed before it asked is
\* counted, with a spelling for each value that can be restored.
CountsAgree ==
  Len(counts) = 4 =>
    LET total(query) == counts[CHOOSE i \in 1 .. 4 : Queries[i] = query]
        types == total("types")
    IN  /\ Cardinality(RowsCounted(types)) <= total("entities")
        /\ \A e \in Handed : Cardinality(OfType(Handed, e.type)) <= types[e.type]
        /\ Cardinality({e \in Handed : ~e.digested}) <= total("forms")
        /\ \A a \in seen : a.mapping <= total("mappings")
=============================================================================
