--------------------------- MODULE VaultInvariant ---------------------------
(***************************************************************************)
(* The inductive invariant of Vault: what each session may rely on between *)
(* two of its statements, whatever the others do in the meantime.          *)
(***************************************************************************)
EXTENDS Vault

Resolving == {"suffix", "insert", "refind", "form", "insertform"}
HoldsCandidate == Resolving \ {"suffix"}
Publishing == {"adopt", "commit"}

\* A call in progress has its arguments, and a span at hand while it resolves
\* one.  Only the lock holder is past the INSERT of the mapping.
CallOK(w) ==
  /\ pc[w] = "idle" => lock # w
  /\ pc[w] # "idle" => batch[w] \in Batches /\ cat[w] \in Catalogues
  /\ pc[w] \in Resolving =>
       at[w] \in DOMAIN batch[w].spans /\ CurrentSpan(w).value # Blank
  /\ pc[w] \in HoldsCandidate =>
       cand[w] \in Entity /\ KeyOf(cand[w]) = CurrentKey(w)
  /\ pc[w] \in Publishing => lock = w
  /\ pc[w] \notin Publishing /\ lock = w => newEntries = {}

\* What the session read under the lock is still so: its own MAX + 1 and its
\* own failed lookup cannot have been overtaken.
RaceOK(w) ==
  /\ tries[w] <= 1
  /\ tries[w] # 0 => lock = w
  /\ pc[w] = "refind" => lock = w /\ tries[w] = 0
  /\ pc[w] = "suffix" /\ lock = w => Found(w) = {}
  /\ pc[w] = "insert" /\ lock = w => ~Collides(w)

\* A suffix picked is the next one, or one that has been taken since.
SuffixOK(w) ==
  pc[w] = "insert" =>
    cand[w].index = 0 \/ cand[w].index - 1 \in Suffixes(Entities(w))

\* What a session has resolved cannot be rolled back under it.
HeldOK(w) ==
  /\ \A i \in DOMAIN resolved[w] : resolved[w][i].entity \in Entities(w)
  /\ pc[w] \in {"form", "insertform"} =>
       cand[w] \in Entities(w) /\ ~cand[w].digested
  /\ usages[w] \subseteq Forms(w)
  /\ \A t, u \in usages[w] : t.entity = u.entity => t = u

SessionOK(w) == CallOK(w) /\ RaceOK(w) /\ SuffixOK(w) /\ HeldOK(w)

\* Uncommitted rows have an owner.
PendingOK ==
  lock = None => newEntities = {} /\ newForms = {} /\ newEntries = {}

\* Rows point at rows at least as durable as themselves.
FormsOK ==
  /\ \A f \in forms : f.entity \in entities /\ ~f.entity.digested
  /\ \A f \in newForms :
       f.entity \in entities \cup newEntities /\ ~f.entity.digested

OneEntryEach(m) == \A x, y \in m : x.entity = y.entity => x = y

MappingsOK ==
  /\ \A x \in newEntries :
       x.restore \in forms \cup newForms /\ x.restore.entity = x.entity
  /\ OneEntryEach(newEntries)
  /\ EntriesResolve
  /\ \A i \in DOMAIN mappings : OneEntryEach(mappings[i])

AnswersOK ==
  \A a \in answers : \A i \in DOMAIN a.resolved : a.resolved[i].entity \in entities

\* The invariant the theorems of VaultProofs rest on: every statement of
\* get_or_create_entity, record_surface_form and pseudonymize_batch keeps it.
Inductive ==
  /\ TypeOK
  /\ \A w \in Worker : SessionOK(w)
  /\ PendingOK /\ FormsOK /\ MappingsOK /\ AnswersOK
  /\ OneName /\ SuffixesDense

-----------------------------------------------------------------------------
(* What a call owes its caller, from its first span to its answer.         *)

EntryOf(form) == [entity |-> form.entity, restore |-> form]

\* Each reversible entity of the spans r is used with its first spelling, and
\* nothing else is.
FirstUses(r, used) ==
  /\ \A i \in DOMAIN r :
       LET e == r[i].entity
       IN  ~e.digested => [entity |-> e, text |-> FirstSpelling(r, e)] \in used
  /\ \A u \in used : \E i \in DOMAIN r : r[i].entity = u.entity

UsagesOK(w) == FirstUses(resolved[w], usages[w])

\* The mapping being written has an entry for each entity used and, once it has
\* adopted, for each that an earlier answer had issued and the texts carried in;
\* it has no other.
DraftOK(w) ==
  /\ pc[w] \in Publishing =>
       /\ \A u \in usages[w] : EntryOf(u) \in newEntries
       /\ \A x \in newEntries : \/ PlaceholderOf(x.entity) \in batch[w].carried
                                \/ \E u \in usages[w] : u.entity = x.entity
  /\ pc[w] = "commit" =>
       \A a \in answers : \A i \in DOMAIN a.resolved :
         LET e == a.resolved[i].entity
         IN  ~e.digested /\ PlaceholderOf(e) \in batch[w].carried =>
               \E x \in newEntries : x.entity = e

\* Each mapping was returned in an answer, and is of what its batch issued or
\* carried in.
MappingsAnswered ==
  /\ \A a \in answers : a.mapping \in DOMAIN mappings
  /\ \A m \in DOMAIN mappings : \E a \in answers :
       /\ a.mapping = m
       /\ \A x \in mappings[m] :
            \/ PlaceholderOf(x.entity) \in a.batch.carried
            \/ \E i \in DOMAIN a.resolved : a.resolved[i].entity = x.entity

\* With Inductive, what the theorems on answers rest on (pseudonymize_batch,
\* add_mapping, _adopt_existing).
Answering ==
  /\ \A w \in Worker : UsagesOK(w) /\ DraftOK(w)
  /\ MappingsAnswered
  /\ AnswersRestorable
=============================================================================
