------------------------------ MODULE Reversal ------------------------------
(***************************************************************************)
(* engine.reverse against a vault that is being written to                 *)
(* (parser/reverse_mapper.py and the queries of database/repository.py).   *)
(*                                                                         *)
(* One call of reverse runs beside the sessions of Vault.  It only reads,  *)
(* each query sees the last committed state, and nothing holds the state   *)
(* still between two queries; since calls of reverse do not affect each    *)
(* other, one stands for all.                                              *)
(*                                                                         *)
(* The text is the sequence of placeholders in it: "exact" ones, which     *)
(* PLACEHOLDER_RE matches, and ones a model has rewritten, which only      *)
(* _tolerant_pattern of their own placeholder matches.  A mapping id is a  *)
(* position in "mappings", which is their order of creation as well.       *)
(***************************************************************************)
EXTENDS Vault

CONSTANTS
  Requests,  \* arguments of reverse: mapping (or None), text, strict, fuzzy
  Limit      \* find_covering_mappings: how many mappings are looked at

Token == [of: Placeholder, exact: BOOLEAN]

ASSUME RequestAssumption ==
  Requests \subseteq [mapping: Nat \cup {None}, text: Seq(Token),
                      strict: BOOLEAN, fuzzy: BOOLEAN]
ASSUME LimitAssumption == Limit \in Nat \ {0}

VARIABLES
  stage,    \* where the call is, and how it ended
  request,
  chosen,   \* the mapping reversed against
  table,    \* its entries: restore_table
  cursor,   \* the token at hand
  report,   \* the ReverseResult so far
  seen      \* history: the answers that had been returned when it began

reversal == <<stage, request, chosen, table, cursor, report, seen>>

NoReport == [restored |-> {}, recovered |-> {}, irreversible |-> {},
             foreign |-> {}, unknown |-> {}]

Ended == {"done", "refused", "nomapping", "uncovered"}

-----------------------------------------------------------------------------
ExactIn(text) == {text[i].of : i \in {j \in DOMAIN text : text[j].exact}}

Issued(m) == {PlaceholderOf(x.entity) : x \in m}

MutantCoversPart(i, wanted) == Issued(mappings[i]) \cap wanted # {}
Covers(i, wanted) == wanted \subseteq Issued(mappings[i])

\* The mappings newest first, no further back than the limit.
Covering(wanted) ==
  {i \in DOMAIN mappings : i > Len(mappings) - Limit /\ Covers(i, wanted)}

\* placeholder_is_known, placeholder_is_irreversible: committed rows only.
IsKnown(p) == \E e \in entities : PlaceholderOf(e) = p

IsIrreversible(p) ==
  \E e \in entities : PlaceholderOf(e) = p /\ \A f \in forms : f.entity # e

EntriesFor(p) == {x \in table : PlaceholderOf(x.entity) = p}

MutantWholeVault(i) ==
  {[entity |-> f.entity, restore |-> f] : f \in forms} \cup mappings[i]
RestoreTable(i) == mappings[i]

-----------------------------------------------------------------------------
ReversalInit ==
  /\ Init
  /\ stage = "idle" /\ request = None /\ chosen = None /\ table = {} /\ cursor = 1
  /\ report = NoReport /\ seen = {}

CallWith(r) ==
  /\ stage = "idle"
  /\ request' = r
  /\ chosen' = r.mapping
  /\ stage' = IF r.mapping = None THEN "find" ELSE "table"
  /\ seen' = answers
  /\ UNCHANGED <<table, cursor, report>>

Call == \E r \in Requests : CallWith(r)

FindMapping ==
  LET wanted == ExactIn(request.text)
  IN  /\ stage = "find"
      /\ \/ /\ wanted = {} \/ Covering(wanted) = {}
            /\ stage' = "uncovered"
            /\ UNCHANGED chosen
         \/ /\ wanted # {} /\ Covering(wanted) # {}
            /\ chosen' = Max(Covering(wanted))
            /\ stage' = "table"
      /\ UNCHANGED <<request, table, cursor, report, seen>>

\* A mapping and its entries appear in one commit, so that looking the mapping
\* up and joining its entries is one read.
ReadTable ==
  /\ stage = "table"
  /\ \/ /\ chosen \notin DOMAIN mappings
        /\ stage' = "nomapping"
        /\ UNCHANGED table
     \/ /\ chosen \in DOMAIN mappings
        /\ table' = RestoreTable(chosen)
        /\ stage' = "match"
  /\ UNCHANGED <<request, chosen, cursor, report, seen>>

AtToken == stage = "match" /\ cursor <= Len(request.text)
Here == request.text[cursor]

Advance(class, found) ==
  /\ report' = [report EXCEPT ![class] = @ \cup found]
  /\ cursor' = cursor + 1
  /\ stage' = "match"

\* A placeholder of the table, or one the exact pass does not see.
Restore ==
  /\ AtToken
  /\ Here.exact => EntriesFor(Here.of) # {}
  /\ Advance("restored", IF Here.exact THEN EntriesFor(Here.of) ELSE {})
  /\ UNCHANGED <<request, chosen, table, seen>>

MutantGuessByElimination ==
  /\ AtToken /\ Here.exact /\ EntriesFor(Here.of) = {}
  /\ stage' = "known"
  /\ UNCHANGED <<cursor, report, request, chosen, table, seen>>

AskIrreversible ==
  /\ AtToken /\ Here.exact /\ EntriesFor(Here.of) = {}
  /\ \/ /\ IsIrreversible(Here.of)
        /\ Advance("irreversible", {Here.of})
     \/ /\ ~IsIrreversible(Here.of)
        /\ stage' = "known"
        /\ UNCHANGED <<cursor, report>>
  /\ UNCHANGED <<request, chosen, table, seen>>

AskKnown ==
  /\ stage = "known"
  /\ Advance(IF IsKnown(Here.of) THEN "foreign" ELSE "unknown", {Here.of})
  /\ UNCHANGED <<request, chosen, table, seen>>

\* What the tolerant patterns of the table's own placeholders match.
Recovered ==
  {x \in table : \E i \in DOMAIN request.text :
                   ~request.text[i].exact /\ request.text[i].of = PlaceholderOf(x.entity)}

Finish ==
  /\ stage = "match" /\ cursor > Len(request.text)
  /\ report' = [report EXCEPT !.recovered = IF request.fuzzy THEN Recovered ELSE {}]
  /\ stage' = IF request.strict /\ report.foreign # {} THEN "refused" ELSE "done"
  /\ UNCHANGED <<request, chosen, table, cursor, seen>>

Reversing ==
  \/ FindMapping \/ ReadTable
  \/ Restore \/ AskIrreversible \/ AskKnown
  \/ Finish

ReversalNext ==
  \/ Next /\ UNCHANGED reversal
  \/ (Call \/ Reversing) /\ UNCHANGED vars

ReversalSpec == ReversalInit /\ [][ReversalNext]_<<vars, reversal>>

-----------------------------------------------------------------------------
\* A document reversed under the mapping it was given comes back as it was
\* written: each reversible placeholder with the first spelling of its own
\* batch, each irreversible one left standing and called that, none reported
\* as somebody else's or as invented, while other batches share its entities
\* and write to the vault.
RoundTrip ==
  stage \in {"done", "refused"} =>
    \A a \in seen :
      a.mapping = chosen =>
        \A i \in DOMAIN a.resolved :
          LET e == a.resolved[i].entity
              p == PlaceholderOf(e)
          IN  p \in ExactIn(request.text) =>
                /\ p \notin report.foreign \cup report.unknown
                /\ IF e.digested
                     THEN p \in report.irreversible
                     ELSE \E x \in report.restored :
                            /\ x.entity = e
                            /\ x.restore.text = FirstSpelling(a.resolved, e)

\* Nothing is put back but what the batch of the chosen mapping issued itself
\* or carried in: neither a mapping of one's own nor a tolerant match reaches
\* the value behind another document's placeholder.
ScopedToItsDocument ==
  \A x \in report.restored \cup report.recovered :
    \E a \in answers :
      /\ a.mapping = chosen
      /\ \/ PlaceholderOf(x.entity) \in a.batch.carried
         \/ \E i \in DOMAIN a.resolved : a.resolved[i].entity = x.entity

\* For a placeholder that some caller had been handed before the call began,
\* the verdict does not depend on which queries other sessions slip between
\* its two: never unknown, irreversible exactly when its value was digested.
SettledVerdicts ==
  \A a \in seen : \A i \in DOMAIN a.resolved :
    LET e == a.resolved[i].entity
        p == PlaceholderOf(e)
    IN  /\ p \notin report.unknown
        /\ p \in report.irreversible => e.digested
        /\ p \in report.foreign => ~e.digested

-----------------------------------------------------------------------------
(* What the sources say and the code does not do.                          *)

\* ADR-0005: find_mapping_for leaves irreversible placeholders out of the set
\* it demands coverage for, so that the text of an answer is always found.
OwnDocumentFound ==
  stage = "uncovered" =>
    \A a \in seen :
      \/ a.resolved = << >>
      \/ ExactIn(request.text) # {PlaceholderOf(a.resolved[i].entity) : i \in DOMAIN a.resolved}
=============================================================================
