------------------------- MODULE ReversalInvariant -------------------------
(***************************************************************************)
(* The inductive invariant of a reversal beside the vault's sessions: what *)
(* one query of engine.reverse has established for the next, while others  *)
(* commit in between.                                                      *)
(***************************************************************************)
EXTENDS DirectApi, VaultInvariant

IsRequest(r) ==
  /\ r.mapping \in Nat \cup {None}
  /\ r.text \in Seq(Token)

\* From its table on, a call asks no further what its mapping is.
WithTable == {"match", "known", "done", "refused"}

ReversalTypeOK ==
  /\ stage \in {"idle", "find", "table", "match", "known"} \cup Ended
  /\ stage # "idle" => IsRequest(request)
  /\ table \subseteq Entry
  /\ cursor \in Nat \ {0}
  /\ report \in [restored : SUBSET Entry, recovered : SUBSET Entry,
                 irreversible : SUBSET Placeholder, foreign : SUBSET Placeholder,
                 unknown : SUBSET Placeholder]
  /\ seen \subseteq answers

CursorOK ==
  /\ stage = "known" => cursor <= Len(request.text) /\ Here.exact
  /\ stage \in {"done", "refused"} => cursor > Len(request.text)

\* The table read is the mapping's still, and a mapping looked up issued all
\* that is exact in the text.
TableOK ==
  /\ stage \in WithTable => chosen \in DOMAIN mappings /\ table = mappings[chosen]
  /\ stage \notin WithTable => table = {} /\ cursor = 1 /\ report = NoReport
  /\ stage \in {"table"} \cup WithTable /\ request.mapping = None =>
       /\ chosen \in DOMAIN mappings
       /\ ExactIn(request.text) \subseteq Issued(mappings[chosen])

Verdicts == report.irreversible \cup report.foreign \cup report.unknown

\* The tokens before the cursor are dealt with, by the table if it has them.
ReportOK ==
  /\ report.restored \cup report.recovered \subseteq table
  /\ \A p \in Verdicts : p \in ExactIn(request.text) /\ EntriesFor(p) = {}
  /\ stage = "known" => EntriesFor(Here.of) = {}
  /\ stage \in WithTable =>
       \A j \in 1 .. (cursor - 1) :
         LET token == request.text[j]
         IN  /\ j \in DOMAIN request.text
             /\ token.exact =>
                  /\ EntriesFor(token.of) \subseteq report.restored
                  /\ EntriesFor(token.of) = {} => token.of \in Verdicts

\* A placeholder that is not irreversible when asked has a value that can be
\* restored, if a caller had been handed it before: it does not change while the
\* second query is under way.
BetweenQueries ==
  stage = "known" =>
    \A a \in seen : \A i \in DOMAIN a.resolved :
      PlaceholderOf(a.resolved[i].entity) = Here.of => ~a.resolved[i].entity.digested

Reporting ==
  /\ ReversalTypeOK
  /\ CursorOK /\ TableOK /\ ReportOK
  /\ SettledVerdicts /\ BetweenQueries

\* What the direct API says of it.
Replying ==
  /\ reply # None => stage \in {"idle"} \cup Ended
  /\ reply # None /\ stage = "done" => reply.mapping = chosen
  /\ counts # << >> => stage = "idle"

\* The tables are finite: a statement writes one row.
FiniteRows ==
  /\ IsFiniteSet(entities) /\ IsFiniteSet(newEntities)
  /\ IsFiniteSet(forms) /\ IsFiniteSet(newForms)

\* What each query has counted, of a vault that has grown since.
Counting ==
  /\ Len(counts) \in 0 .. 4
  /\ Len(counts) >= 1 =>
       \E E \in SUBSET entities :
         /\ Handed \subseteq E
         /\ counts[1] = CountByType(E)
         /\ Len(counts) >= 2 => counts[2] \in Nat /\ Cardinality(E) <= counts[2]
  /\ Len(counts) >= 3 => Cardinality({e \in Handed : ~e.digested}) <= counts[3]
  /\ Len(counts) >= 4 => \A a \in seen : a.mapping <= counts[4]
=============================================================================
