------------------------------- MODULE Vault -------------------------------
(***************************************************************************)
(* The pseudonym vault under concurrent pseudonymisation.                  *)
(*                                                                         *)
(* Each Worker is one call of pseudonymize_batch (parser/pseudonymizer.py) *)
(* on a thread of the gateway or in a process of its own, with its own     *)
(* session and VaultRepository (database/repository.py) over one SQLite    *)
(* file.  Every statement a batch sends is an action, so that batches      *)
(* interleave between the SELECT that looks an entity up, the SELECT MAX   *)
(* that picks a suffix and the INSERT that may collide.                    *)
(*                                                                         *)
(* What the driver does with those statements is part of the model:        *)
(*  - a SELECT outside a transaction reads the last committed state;       *)
(*  - begin_nested() sends SAVEPOINT with no BEGIN before it, so releasing *)
(*    it COMMITS: an entity or a surface form is durable on its own;       *)
(*  - after an IntegrityError only ROLLBACK TO SAVEPOINT is sent: the      *)
(*    transaction stays open and keeps SQLite's one write lock, and what   *)
(*    the batch writes from then on is visible to nobody until it commits; *)
(*  - the INSERT of the mapping opens a transaction in any case.           *)
(* The data abstracted: a value and its spellings are model values, the    *)
(* sha256 of an irreversible value is the value marked "digested", a       *)
(* placeholder is its type and its suffix index, an id is the row itself;  *)
(* timestamps, digests and occurrence counts are left out.                 *)
(*                                                                         *)
(* A definition named Mutant... is the faulty variant of the definition    *)
(* below it that a property is shown to catch.                             *)
(***************************************************************************)
EXTENDS Integers, Sequences, FiniteSets, FiniteSetsExt

CONSTANTS
  Worker,       \* sessions that run pseudonymize_batch
  None,         \* no session, no call, no entity
  Type,         \* entity types a detector can report
  Value,        \* normalised values
  Blank,        \* what a span of pure separators normalises to
  Spelling,     \* surface forms
  Catalogues,   \* catalogues batches may run under: defined type -> reversible
  Batches,      \* calls: spans in document order, placeholders in the texts
  MaxRetries,   \* _MAX_SUFFIX_RETRIES
  MaxBatches    \* bound: calls in a behaviour

Span == [type: Type, value: Value \cup {Blank}, text: Spelling]
Entity == [type: Type, value: Value, digested: BOOLEAN, index: Nat]
Form == [entity: Entity, text: Spelling]
Entry == [entity: Entity, restore: Form]
Placeholder == [type: Type, index: Nat]
Resolved == [span: Span, entity: Entity]

ASSUME NoneAssumption == None \notin Worker /\ None \notin Batches
ASSUME ValueAssumption == Blank \notin Value
ASSUME CatalogueAssumption ==
  \A c \in Catalogues : \E S \in SUBSET Type : c \in [S -> BOOLEAN]
ASSUME BatchAssumption ==
  Batches \subseteq [spans: Seq(Span), carried: SUBSET Placeholder,
                     adopting: BOOLEAN]
ASSUME RetryAssumption == MaxRetries \in Nat \ {0}
ASSUME BoundAssumption == MaxBatches \in Nat

VARIABLES
  entities,     \* committed rows of "entities"
  forms,        \* committed rows of "entity_values"
  mappings,     \* committed mappings in creation order: the entries of each
  lock,         \* the session that holds SQLite's write lock
  newEntities,  \* rows the lock holder has written and not committed
  newForms,
  newEntries,
  pc,           \* where each call is
  batch,        \* its arguments
  cat,          \* the catalogue it runs under
  at,           \* the span being resolved
  cand,         \* the entity found, or about to be inserted, for it
  tries,        \* suffix collisions met for it
  resolved,     \* the ResolvedSpans so far
  usages,       \* one surface form per entity used: what the mapping restores
  begun,        \* calls accepted so far
  answers       \* what was returned to callers

vault == <<entities, forms, mappings>>
pending == <<lock, newEntities, newForms, newEntries>>
progress == <<batch, cat, at, cand, tries, resolved, usages>>
vars == <<vault, pending, pc, progress, begun, answers>>

-----------------------------------------------------------------------------
(* What a session sees, and what it is working on.                         *)

Entities(w) == IF lock = w THEN entities \cup newEntities ELSE entities
Forms(w) == IF lock = w THEN forms \cup newForms ELSE forms

CanWrite(w) == lock \in {None, w}

CurrentSpan(w) == batch[w].spans[at[w]]
OneWay(w) == ~cat[w][CurrentSpan(w).type]

\* The (type, normalized_value) an entity is stored and looked up under.
KeyOf(e) == <<e.type, e.value, e.digested>>
CurrentKey(w) == <<CurrentSpan(w).type, CurrentSpan(w).value, OneWay(w)>>
Found(w) == {e \in Entities(w) : KeyOf(e) = CurrentKey(w)}

PlaceholderOf(e) == [type |-> e.type, index |-> e.index]

Suffixes(E) == {e.index : e \in E}
MutantSuffixFromOne(E) == IF E = {} THEN 1 ELSE Max(Suffixes(E)) + 1
NextSuffix(E) == IF E = {} THEN 0 ELSE Max(Suffixes(E)) + 1

CurrentForm(w) == [entity |-> cand[w], text |-> CurrentSpan(w).text]

Accepts(b, c) ==
  /\ b.adopting \/ b.carried = {}
  /\ \A i \in DOMAIN b.spans : b.spans[i].type \in DOMAIN c

-----------------------------------------------------------------------------
Init ==
  /\ entities = {} /\ forms = {} /\ mappings = << >>
  /\ lock = None /\ newEntities = {} /\ newForms = {} /\ newEntries = {}
  /\ pc = [w \in Worker |-> "idle"]
  /\ batch = [w \in Worker |-> None]
  /\ cat = [w \in Worker |-> << >>]
  /\ at = [w \in Worker |-> 1]
  /\ cand = [w \in Worker |-> None]
  /\ tries = [w \in Worker |-> 0]
  /\ resolved = [w \in Worker |-> << >>]
  /\ usages = [w \in Worker |-> {}]
  /\ begun = 0 /\ answers = {}

-----------------------------------------------------------------------------
(* The statements of pseudonymize_batch.                                   *)

Goto(w, label) == pc' = [pc EXCEPT ![w] = label]

\* The span at hand is rewritten to e's placeholder; on to the next one.
Rewrite(w, e) ==
  /\ resolved' = [resolved EXCEPT
                    ![w] = Append(@, [span |-> CurrentSpan(w), entity |-> e])]
  /\ at' = [at EXCEPT ![w] = @ + 1]

MutantRecordsEverySpelling(w, e) ==
  /\ cand' = [cand EXCEPT ![w] = e]
  /\ Goto(w, "form")
  /\ UNCHANGED <<resolved, at>>

\* A span of an irreversible type is done once its entity is known; any other
\* goes on to record_surface_form.
UseEntity(w, e) ==
  \/ /\ OneWay(w)
     /\ Rewrite(w, e)
     /\ Goto(w, "span")
     /\ UNCHANGED cand
  \/ /\ ~OneWay(w)
     /\ cand' = [cand EXCEPT ![w] = e]
     /\ Goto(w, "form")
     /\ UNCHANGED <<resolved, at>>

\* The first spelling of an entity in this batch is the one its mapping keeps.
UseForm(w, f) ==
  /\ usages' = IF \E u \in usages[w] : u.entity = f.entity
                 THEN usages
                 ELSE [usages EXCEPT ![w] = @ \cup {f}]
  /\ Rewrite(w, f.entity)
  /\ Goto(w, "span")

\* The session is closed: whatever it has not committed is rolled back.
Close(w) ==
  /\ Goto(w, "idle")
  /\ batch' = [batch EXCEPT ![w] = None]
  /\ cat' = [cat EXCEPT ![w] = << >>]
  /\ at' = [at EXCEPT ![w] = 1]
  /\ cand' = [cand EXCEPT ![w] = None]
  /\ tries' = [tries EXCEPT ![w] = 0]
  /\ resolved' = [resolved EXCEPT ![w] = << >>]
  /\ usages' = [usages EXCEPT ![w] = {}]
  /\ \/ /\ lock = w
        /\ lock' = None
        /\ newEntities' = {} /\ newForms' = {} /\ newEntries' = {}
     \/ /\ lock # w
        /\ UNCHANGED pending

\* A call whose texts pass the checks made before anything is written: no
\* placeholder in them unless the caller adopts, every type in the catalogue.
\* A call that fails them raises and leaves no trace.
Begin(w) ==
  /\ pc[w] = "idle" /\ begun < MaxBatches
  /\ \E b \in Batches, c \in Catalogues :
       /\ Accepts(b, c)
       /\ batch' = [batch EXCEPT ![w] = b]
       /\ cat' = [cat EXCEPT ![w] = c]
  /\ begun' = begun + 1
  /\ Goto(w, "span")
  /\ UNCHANGED <<vault, pending, at, cand, tries, resolved, usages, answers>>

MoreSpans(w) == pc[w] = "span" /\ at[w] <= Len(batch[w].spans)

\* A span that normalises to nothing gets no placeholder.
SkipBlank(w) ==
  /\ MoreSpans(w) /\ CurrentSpan(w).value = Blank
  /\ at' = [at EXCEPT ![w] = @ + 1]
  /\ UNCHANGED <<vault, pending, pc, batch, cat, cand, tries, resolved, usages,
                 begun, answers>>

FindEntity(w) ==
  /\ MoreSpans(w) /\ CurrentSpan(w).value # Blank
  /\ \/ /\ \E e \in Found(w) : UseEntity(w, e)
        /\ UNCHANGED tries
     \/ /\ Found(w) = {}
        /\ Goto(w, "suffix")
        /\ tries' = [tries EXCEPT ![w] = 0]
        /\ UNCHANGED <<at, cand, resolved>>
  /\ UNCHANGED <<vault, pending, batch, cat, usages, begun, answers>>

ReadSuffix(w) ==
  /\ pc[w] = "suffix"
  /\ cand' = [cand EXCEPT ![w] =
                [type |-> CurrentSpan(w).type, value |-> CurrentSpan(w).value,
                 digested |-> OneWay(w), index |-> NextSuffix(Entities(w))]]
  /\ Goto(w, "insert")
  /\ UNCHANGED <<vault, pending, batch, cat, at, tries, resolved, usages, begun,
                 answers>>

MutantNoSuffixConstraint(w) == \E e \in Entities(w) : KeyOf(e) = KeyOf(cand[w])
MutantNoValueConstraint(w) == \E e \in Entities(w) : e.index = cand[w].index

\* uq_entities_type_value and uq_entities_suffix_index; a placeholder repeats
\* only if its suffix does.
Collides(w) ==
  \E e \in Entities(w) : KeyOf(e) = KeyOf(cand[w]) \/ e.index = cand[w].index

\* Writes rows where an INSERT and the RELEASE after it leave them: in the open
\* transaction of the session, or committed if it has none.
StoreEntity(w, e) ==
  IF lock = w THEN newEntities' = newEntities \cup {e} /\ UNCHANGED entities
              ELSE entities' = entities \cup {e} /\ UNCHANGED newEntities

StoreForm(w, f) ==
  IF lock = w THEN newForms' = newForms \cup {f} /\ UNCHANGED forms
              ELSE forms' = forms \cup {f} /\ UNCHANGED newForms

InsertEntity(w) ==
  /\ pc[w] = "insert" /\ CanWrite(w) /\ ~Collides(w)
  /\ StoreEntity(w, cand[w])
  /\ UseEntity(w, cand[w])
  /\ UNCHANGED <<forms, mappings, lock, newForms, newEntries, batch, cat, tries,
                 usages, begun, answers>>

CollideEntity(w) ==
  /\ pc[w] = "insert" /\ CanWrite(w) /\ Collides(w)
  /\ lock' = w
  /\ Goto(w, "refind")
  /\ UNCHANGED <<vault, newEntities, newForms, newEntries, progress, begun,
                 answers>>

MutantRetrySameSuffix(w) ==
  /\ pc[w] = "refind"
  /\ \/ \E e \in Found(w) : UseEntity(w, e)
     \/ /\ Found(w) = {}
        /\ Goto(w, "insert")
        /\ UNCHANGED <<at, cand, resolved>>
  /\ UNCHANGED <<vault, pending, batch, cat, tries, usages, begun, answers>>

RefindEntity(w) ==
  /\ pc[w] = "refind"
  /\ \/ /\ \E e \in Found(w) : UseEntity(w, e)
        /\ UNCHANGED tries
     \/ /\ Found(w) = {} /\ tries[w] + 1 < MaxRetries
        /\ tries' = [tries EXCEPT ![w] = @ + 1]
        /\ Goto(w, "suffix")
        /\ UNCHANGED <<at, cand, resolved>>
  /\ UNCHANGED <<vault, pending, batch, cat, usages, begun, answers>>

\* "could not allocate a placeholder": the last attempt has collided too.
GiveUp(w) ==
  /\ pc[w] = "refind" /\ Found(w) = {} /\ tries[w] + 1 >= MaxRetries
  /\ Close(w)
  /\ UNCHANGED <<vault, begun, answers>>

FindForm(w) ==
  /\ pc[w] = "form"
  /\ \/ /\ CurrentForm(w) \in Forms(w)
        /\ UseForm(w, CurrentForm(w))
     \/ /\ CurrentForm(w) \notin Forms(w)
        /\ Goto(w, "insertform")
        /\ UNCHANGED <<usages, resolved, at>>
  /\ UNCHANGED <<vault, pending, batch, cat, cand, tries, begun, answers>>

\* If another session recorded the spelling since, the INSERT collides, the
\* transaction stays open and the row is there to be selected.
InsertForm(w) ==
  /\ pc[w] = "insertform" /\ CanWrite(w)
  /\ \/ /\ CurrentForm(w) \notin Forms(w)
        /\ StoreForm(w, CurrentForm(w))
        /\ UNCHANGED lock
     \/ /\ CurrentForm(w) \in Forms(w)
        /\ lock' = w
        /\ UNCHANGED <<forms, newForms>>
  /\ UseForm(w, CurrentForm(w))
  /\ UNCHANGED <<entities, mappings, newEntities, newEntries, batch, cat, cand,
                 tries, begun, answers>>

\* The mapping row and one entry per entity used, under the write lock.
CreateMapping(w) ==
  /\ pc[w] = "span" /\ at[w] > Len(batch[w].spans) /\ CanWrite(w)
  /\ lock' = w
  /\ newEntries' = {[entity |-> u.entity, restore |-> u] : u \in usages[w]}
  /\ Goto(w, "adopt")
  /\ UNCHANGED <<vault, newEntities, newForms, progress, begun, answers>>

MutantAdoptIfNothingDetected(w) ==
  {e \in Entities(w) : /\ PlaceholderOf(e) \in batch[w].carried
                       /\ newEntries = {}
                       /\ \E f \in Forms(w) : f.entity = e}

\* Entities whose placeholders the texts carried in and that have something to
\* restore.
Adoptable(w) ==
  {e \in Entities(w) :
     /\ PlaceholderOf(e) \in batch[w].carried
     /\ \A n \in newEntries : n.entity # e
     /\ \E f \in Forms(w) : f.entity = e}

\* Each is restored to entity.values[0]; the relationship states no order.
AdoptExisting(w) ==
  /\ pc[w] = "adopt"
  /\ \E restore \in [Adoptable(w) -> Forms(w)] :
       /\ \A e \in Adoptable(w) : restore[e].entity = e
       /\ newEntries' = newEntries \cup
            {[entity |-> e, restore |-> restore[e]] : e \in Adoptable(w)}
  /\ Goto(w, "commit")
  /\ UNCHANGED <<vault, lock, newEntities, newForms, progress, begun, answers>>

Commit(w) ==
  /\ pc[w] = "commit"
  /\ entities' = entities \cup newEntities
  /\ forms' = forms \cup newForms
  /\ mappings' = Append(mappings, newEntries)
  /\ answers' = answers \cup
       {[mapping |-> Len(mappings) + 1, batch |-> batch[w], resolved |-> resolved[w]]}
  /\ Close(w)
  /\ UNCHANGED begun

\* SQLite's busy timeout expires while another session holds the write lock.
Busy(w) ==
  /\ \/ pc[w] \in {"insert", "insertform"}
     \/ pc[w] = "span" /\ at[w] > Len(batch[w].spans)
  /\ ~CanWrite(w)
  /\ Close(w)
  /\ UNCHANGED <<vault, begun, answers>>

\* Any other exception out of the call, or the death of its process.
Abort(w) ==
  /\ pc[w] # "idle"
  /\ Close(w)
  /\ UNCHANGED <<vault, begun, answers>>

Step(w) ==
  \/ SkipBlank(w) \/ FindEntity(w) \/ ReadSuffix(w)
  \/ InsertEntity(w) \/ CollideEntity(w) \/ RefindEntity(w) \/ GiveUp(w)
  \/ FindForm(w) \/ InsertForm(w)
  \/ CreateMapping(w) \/ AdoptExisting(w) \/ Commit(w)
  \/ Busy(w)

Next == \E w \in Worker : Begin(w) \/ Step(w) \/ Abort(w)

Spec == Init /\ [][Next]_vars

\* A call that has begun keeps taking steps: its thread is scheduled, and a
\* wait for the write lock ends with the lock or with the busy timeout.
FairSpec == Spec /\ \A w \in Worker : WF_vars(Step(w))

-----------------------------------------------------------------------------
TypeOK ==
  /\ entities \subseteq Entity /\ newEntities \subseteq Entity
  /\ forms \subseteq Form /\ newForms \subseteq Form
  /\ mappings \in Seq(SUBSET Entry) /\ newEntries \subseteq Entry
  /\ lock \in Worker \cup {None}
  /\ pc \in [Worker -> {"idle", "span", "suffix", "insert", "refind", "form",
                        "insertform", "adopt", "commit"}]
  /\ batch \in [Worker -> Batches \cup {None}]
  /\ cat \in [Worker -> Catalogues \cup {<< >>}]
  /\ at \in [Worker -> Nat \ {0}]
  /\ cand \in [Worker -> Entity \cup {None}]
  /\ tries \in [Worker -> 0 .. MaxRetries]
  /\ resolved \in [Worker -> Seq(Resolved)]
  /\ usages \in [Worker -> SUBSET Form]
  /\ begun \in 0 .. MaxBatches
  /\ answers \subseteq [mapping: Nat, batch: Batches, resolved: Seq(Resolved)]

\* Two sessions may pick the same MAX + 1 and insert the same value, and a
\* rolled-back session gives its suffixes up for others to take; still no two
\* values share a suffix and no value has two, in what is committed together
\* with what the lock holder has written (uq_entities_* in models.py).
OneName ==
  \A d, e \in entities \cup newEntities :
    d.index = e.index \/ KeyOf(d) = KeyOf(e) => d = e

Dense(E) == E = {} \/ \E last \in E : Suffixes(E) = 0 .. last.index

\* The suffix counter has no gap: a suffix lost to a rollback or to a
\* collision is handed out again (_next_suffix_index).
SuffixesDense == Dense(entities) /\ Dense(entities \cup newEntities)

\* A session loses the suffix race at most once per value: the collision
\* leaves it holding the write lock, so the next MAX + 1 cannot be taken
\* from it.  With _MAX_SUFFIX_RETRIES at 5, get_or_create_entity cannot raise
\* its RuntimeError.
AtMostOneRetry ==
  \A w \in Worker : tries[w] <= 1 /\ (pc[w] = "refind" => tries[w] = 0)

\* A placeholder that a caller was handed stands for the same value in every
\* answer, and its entity is still in the vault after any later rollback.
AnswersStand ==
  \A a, b \in answers :
    \A i \in DOMAIN a.resolved, j \in DOMAIN b.resolved :
      LET d == a.resolved[i].entity
          e == b.resolved[j].entity
      IN  /\ d \in entities
          /\ PlaceholderOf(d) = PlaceholderOf(e) <=> KeyOf(d) = KeyOf(e)

\* The first spelling of e in a returned batch.
FirstSpelling(r, e) ==
  LET uses == {i \in DOMAIN r : r[i].entity = e}
  IN  r[CHOOSE i \in uses : \A j \in uses : i <= j].span.text

\* The mapping of an answer restores all it may meet: each reversible placeholder
\* of its batch by one entry, with the first spelling of this batch and not the one
\* another document used first, and each reversible one that an earlier answer had
\* issued and a replayed turn carried in (_adopt_existing).
AnswersRestorable ==
  \A a \in answers : \A i \in DOMAIN a.resolved :
    LET e == a.resolved[i].entity
        m == mappings[a.mapping]
    IN  ~e.digested =>
          /\ [entity |-> e,
              restore |-> [entity |-> e, text |-> FirstSpelling(a.resolved, e)]] \in m
          /\ \A x, y \in m : x.entity = y.entity => x = y
          /\ \A b \in answers :
               a.mapping < b.mapping /\ PlaceholderOf(e) \in b.batch.carried =>
                 \E x \in mappings[b.mapping] : x.entity = e

\* An irreversible value has no surface form and no mapping entry, written or
\* about to be, whatever catalogue later batches run under.
OneWayDoor ==
  /\ \A f \in forms \cup newForms : ~f.entity.digested
  /\ \A x \in newEntries \cup UNION {mappings[i] : i \in DOMAIN mappings} :
       ~x.entity.digested

\* Every entry of a mapping points at committed rows, and its spelling is a
\* spelling of its own entity: the foreign keys state only the first.
EntriesResolve ==
  \A i \in DOMAIN mappings : \A x \in mappings[i] :
    /\ x.entity \in entities
    /\ x.restore \in forms
    /\ x.restore.entity = x.entity

\* Nothing committed is ever changed or taken back, by a rollback least of all.
VaultOnlyGrows ==
  [][ /\ entities \subseteq entities'
      /\ forms \subseteq forms'
      /\ mappings' # mappings => mappings' = Append(mappings, newEntries) ]_vault

\* No call waits for the write lock for ever: each returns or raises.
CallsEnd == \A w \in Worker : pc[w] # "idle" ~> pc[w] = "idle"

\* The rows implement the ledger: committed entities are its names.
Abstract == INSTANCE Ledger WITH names <- entities, archives <- mappings
ImplementsLedger == Abstract!Spec

=============================================================================
