---------------------------- MODULE VaultProofs ----------------------------
(***************************************************************************)
(* Inductive is an invariant of Vault, and what follows from it.  A step   *)
(* of one session is taken apart into four questions, a group of lemmas    *)
(* each: the types (TypeStep), what the other sessions relied on           *)
(* (OthersStep), what the session itself relies on next (SelfStep) and the *)
(* tables (GlobalStep).                                                    *)
(*                                                                         *)
(* Then what the vault promises those outside it.  Its tables implement    *)
(* the ledger: every statement of every session is a step of the ledger or *)
(* none.  And the mapping of an answer restores all that it may meet.      *)
(*                                                                         *)
(* Last, what a reversal finds and reports beside sessions that keep       *)
(* writing, in engine.reverse on its own and behind the direct API.  A     *)
(* step of the vault leaves the call what it has read (VaultKeeps); a      *)
(* query of the call keeps Reporting, one lemma for each of them.          *)
(***************************************************************************)
EXTENDS ReversalInvariant, FiniteSetTheorems, SequenceTheorems, WellFoundedInduction, TLAPS

LEMMA InitInductive == Init => Inductive
<1> SUFFICES ASSUME Init PROVE Inductive
  OBVIOUS
<1> USE DEF Init
<1>1. TypeOK
  BY BoundAssumption, RetryAssumption DEF TypeOK
<1>2. ASSUME NEW w \in Worker PROVE SessionOK(w)
  BY NoneAssumption DEF SessionOK, CallOK, RaceOK, SuffixOK, HeldOK, Resolving,
     HoldsCandidate, Publishing
<1>3. PendingOK /\ FormsOK /\ MappingsOK /\ AnswersOK
  BY DEF PendingOK, FormsOK, MappingsOK, OneEntryEach, AnswersOK, EntriesResolve
<1>4. OneName /\ SuffixesDense
  BY DEF OneName, SuffixesDense, Dense
<1>5. QED
  BY <1>1, <1>2, <1>3, <1>4 DEF Inductive

LEMMA NextSuffixOfDense ==
  ASSUME NEW E, E \subseteq Entity, Dense(E)
  PROVE  /\ NextSuffix(E) \in Nat
         /\ NextSuffix(E) = 0 \/ NextSuffix(E) - 1 \in Suffixes(E)
         /\ NextSuffix(E) \notin Suffixes(E)
         /\ \A n \in Nat : n = 0 \/ n - 1 \in Suffixes(E) => n \in Suffixes(E) \/ n = NextSuffix(E)
<1>1. CASE E = {}
  BY <1>1 DEF NextSuffix, Suffixes
<1>2. CASE E # {}
  <2>1. PICK last \in E : Suffixes(E) = 0 .. last.index
    BY <1>2 DEF Dense
  <2>2. last.index \in Nat
    BY DEF Entity
  <2>3. Max(Suffixes(E)) = last.index
    <3>1. last.index \in Suffixes(E) /\ \A j \in Suffixes(E) : last.index >= j
      BY <2>1, <2>2
    <3>2. \A m \in Suffixes(E) : (\A j \in Suffixes(E) : m >= j) => m = last.index
      BY <2>1, <2>2
    <3>3. QED
      BY <3>1, <3>2 DEF Max
  <2>4. NextSuffix(E) = last.index + 1
    BY <1>2, <2>3 DEF NextSuffix
  <2>5. QED
    BY <2>1, <2>2, <2>4
<1>3. QED
  BY <1>1, <1>2


\* A session keeps what it relies on through a step that leaves its own state
\* alone, takes no row from its view and none from under its lock.
LEMMA Undisturbed ==
  ASSUME NEW u \in Worker, SessionOK(u),
         pc'[u] = pc[u], batch'[u] = batch[u], cat'[u] = cat[u],
         at'[u] = at[u], cand'[u] = cand[u], tries'[u] = tries[u],
         resolved'[u] = resolved[u], usages'[u] = usages[u],
         lock' = u <=> lock = u,
         lock = u => newEntries' = newEntries /\ Entities(u)' = Entities(u),
         Entities(u) \subseteq Entities(u)', Forms(u) \subseteq Forms(u)'
  PROVE  SessionOK(u)'
<1>1. CurrentSpan(u)' = CurrentSpan(u) /\ CurrentKey(u)' = CurrentKey(u)
  BY DEF CurrentKey, CurrentSpan, OneWay
<1>2. CallOK(u)'
  BY <1>1 DEF SessionOK, CallOK
<1>3. RaceOK(u)'
  BY <1>1 DEF SessionOK, RaceOK, Found, Collides
<1>4. SuffixOK(u)'
  BY <1>1 DEF SessionOK, SuffixOK, Suffixes
<1>5. HeldOK(u)'
  BY <1>1 DEF SessionOK, HeldOK
<1>6. QED
  BY <1>2, <1>3, <1>4, <1>5 DEF SessionOK

\* What the record types give for the span and the candidate at hand.
LEMMA AtHand ==
  ASSUME Inductive, NEW w \in Worker, pc[w] # "idle",
         at[w] \in DOMAIN batch[w].spans
  PROVE  /\ CurrentSpan(w) \in Span
         /\ CurrentSpan(w).type \in Type
         /\ CurrentSpan(w).text \in Spelling
         /\ CurrentSpan(w).value # Blank => CurrentSpan(w).value \in Value
         /\ OneWay(w) \in BOOLEAN
<1>1. batch[w] \in Batches
  BY DEF Inductive, SessionOK, CallOK
<1>2. batch[w].spans \in Seq(Span)
  BY <1>1, BatchAssumption
<1>3. CurrentSpan(w) \in Span
  BY <1>2 DEF CurrentSpan
<1>4. QED
  BY <1>3 DEF Span, OneWay

\* Batches and catalogues are never None or the empty catalogue by accident:
\* closing a session only resets it.
LEMMA CloseType ==
  ASSUME TypeOK, NEW w \in Worker, Close(w)
  PROVE  /\ newEntities' \subseteq Entity /\ newForms' \subseteq Form
         /\ newEntries' \subseteq Entry
         /\ lock' \in Worker \cup {None}
         /\ pc' \in [Worker -> {"idle", "span", "suffix", "insert", "refind", "form",
                               "insertform", "adopt", "commit"}]
         /\ batch' \in [Worker -> Batches \cup {None}]
         /\ cat' \in [Worker -> Catalogues \cup {<< >>}]
         /\ at' \in [Worker -> Nat \ {0}]
         /\ cand' \in [Worker -> Entity \cup {None}]
         /\ tries' \in [Worker -> 0 .. MaxRetries]
         /\ resolved' \in [Worker -> Seq(Resolved)]
         /\ usages' \in [Worker -> SUBSET Form]
  BY RetryAssumption DEF TypeOK, Close, Goto, pending

LEMMA RewriteType ==
  ASSUME Inductive, NEW w \in Worker, pc[w] # "idle",
         at[w] \in DOMAIN batch[w].spans, NEW e \in Entity, Rewrite(w, e)
  PROVE  /\ resolved' \in [Worker -> Seq(Resolved)]
         /\ at' \in [Worker -> Nat \ {0}]
<1>1. [span |-> CurrentSpan(w), entity |-> e] \in Resolved
  BY AtHand DEF Resolved
<1>2. resolved[w] \in Seq(Resolved) /\ at[w] \in Nat \ {0}
  BY DEF Inductive, TypeOK
<1>3. Append(resolved[w], [span |-> CurrentSpan(w), entity |-> e]) \in Seq(Resolved)
  BY <1>1, <1>2
<1>4. at[w] + 1 \in Nat \ {0}
  BY <1>2
<1>5. QED
  BY <1>3, <1>4 DEF Rewrite, Inductive, TypeOK

LEMMA UseEntityType ==
  ASSUME Inductive, NEW w \in Worker, pc[w] # "idle",
         at[w] \in DOMAIN batch[w].spans, NEW e \in Entity, UseEntity(w, e)
  PROVE  /\ resolved' \in [Worker -> Seq(Resolved)]
         /\ at' \in [Worker -> Nat \ {0}]
         /\ cand' \in [Worker -> Entity \cup {None}]
         /\ pc' \in [Worker -> {"idle", "span", "suffix", "insert", "refind", "form",
                               "insertform", "adopt", "commit"}]
<1>1. CASE OneWay(w)
  BY <1>1, RewriteType DEF UseEntity, Goto, Inductive, TypeOK
<1>2. CASE ~OneWay(w)
  <2>1. /\ cand' = [cand EXCEPT ![w] = e] /\ pc' = [pc EXCEPT ![w] = "form"]
        /\ UNCHANGED <<resolved, at>>
    BY <1>2 DEF UseEntity, Goto
  <2>2. QED
    BY <2>1 DEF Inductive, TypeOK
<1>3. QED
  BY <1>1, <1>2

LEMMA UseFormType ==
  ASSUME Inductive, NEW w \in Worker, pc[w] # "idle",
         at[w] \in DOMAIN batch[w].spans, NEW f \in Form, UseForm(w, f)
  PROVE  /\ resolved' \in [Worker -> Seq(Resolved)]
         /\ at' \in [Worker -> Nat \ {0}]
         /\ usages' \in [Worker -> SUBSET Form]
         /\ pc' \in [Worker -> {"idle", "span", "suffix", "insert", "refind", "form",
                               "insertform", "adopt", "commit"}]
<1>1. f.entity \in Entity
  BY DEF Form
<1>2. QED
  BY <1>1, RewriteType DEF UseForm, Goto, Inductive, TypeOK

\* The span at hand is a span of the batch, wherever one is being resolved.
LEMMA SpanAtHand ==
  ASSUME Inductive, NEW w \in Worker, pc[w] \in Resolving \/ MoreSpans(w)
  PROVE  pc[w] # "idle" /\ at[w] \in DOMAIN batch[w].spans
<1>1. CASE pc[w] \in Resolving
  BY <1>1 DEF Inductive, SessionOK, CallOK, Resolving
<1>2. CASE MoreSpans(w)
  <2>1. pc[w] # "idle" /\ batch[w].spans \in Seq(Span)
    BY <1>2, BatchAssumption DEF MoreSpans, Inductive, SessionOK, CallOK
  <2>2. at[w] \in Nat \ {0}
    BY DEF Inductive, TypeOK
  <2>3. QED
    BY <1>2, <2>1, <2>2 DEF MoreSpans
<1>3. QED
  BY <1>1, <1>2

LEMMA ViewType ==
  ASSUME Inductive, NEW w \in Worker
  PROVE  /\ Entities(w) \subseteq Entity
         /\ Forms(w) \subseteq Form
         /\ Dense(Entities(w))
         /\ \A d, e \in Entities(w) : d.index = e.index \/ KeyOf(d) = KeyOf(e) => d = e
  BY DEF Inductive, TypeOK, Entities, Forms, SuffixesDense, OneName

LEMMA TypeStep ==
  ASSUME Inductive, NEW w \in Worker, Begin(w) \/ Step(w) \/ Abort(w)
  PROVE  TypeOK'
<1> USE DEF Inductive
<1> DEFINE Labels == {"idle", "span", "suffix", "insert", "refind", "form",
                      "insertform", "adopt", "commit"}
<1>1. CASE Begin(w)
  <2>1. begun' \in 0 .. MaxBatches
    BY <1>1, BoundAssumption DEF Begin, TypeOK
  <2>2. pc' \in [Worker -> Labels]
    BY <1>1 DEF Begin, Goto, TypeOK
  <2>3. batch' \in [Worker -> Batches \cup {None}] /\ cat' \in [Worker -> Catalogues \cup {<< >>}]
    BY <1>1 DEF Begin, TypeOK
  <2>4. QED
    BY <1>1, <2>1, <2>2, <2>3 DEF Begin, TypeOK, vault, pending
<1>2. CASE SkipBlank(w)
  BY <1>2 DEF SkipBlank, TypeOK, vault, pending
<1>3. CASE FindEntity(w)
  <2>1. \A e \in Found(w) : e \in Entity
    BY ViewType DEF Found
  <2>2. CASE \E e \in Found(w) : UseEntity(w, e) /\ UNCHANGED tries
    BY <1>3, <2>1, <2>2, SpanAtHand, UseEntityType DEF FindEntity, TypeOK, vault, pending
  <2>3. CASE Found(w) = {}
    <3>1. /\ Goto(w, "suffix") /\ UNCHANGED <<at, cand, resolved>>
          /\ tries' = [tries EXCEPT ![w] = 0]
      BY <1>3, <2>3 DEF FindEntity
    <3>2. tries \in [Worker -> 0 .. MaxRetries] /\ pc \in [Worker -> Labels]
      BY DEF TypeOK
    <3>3. tries' \in [Worker -> 0 .. MaxRetries]
      BY <3>1, <3>2, RetryAssumption
    <3>4. pc' \in [Worker -> Labels]
      BY <3>1, <3>2 DEF Goto
    <3>5. QED
      BY <1>3, <3>1, <3>3, <3>4 DEF FindEntity, TypeOK, vault, pending
  <2>4. QED
    BY <1>3, <2>2, <2>3 DEF FindEntity
<1>4. CASE ReadSuffix(w)
  <2>1. [type |-> CurrentSpan(w).type, value |-> CurrentSpan(w).value,
         digested |-> OneWay(w), index |-> NextSuffix(Entities(w))] \in Entity
    BY <1>4, SpanAtHand, AtHand, ViewType, NextSuffixOfDense
       DEF ReadSuffix, Resolving, Entity, SessionOK, CallOK
  <2>2. QED
    BY <1>4, <2>1 DEF ReadSuffix, Goto, TypeOK, vault, pending
<1>5. CASE InsertEntity(w)
  <2>1. cand[w] \in Entity
    BY <1>5 DEF InsertEntity, SessionOK, CallOK, HoldsCandidate, Resolving
  <2>2. QED
    BY <1>5, <2>1, SpanAtHand, UseEntityType
       DEF InsertEntity, StoreEntity, TypeOK, Resolving
<1>6. CASE CollideEntity(w)
  BY <1>6 DEF CollideEntity, Goto, TypeOK, vault, progress
<1>7. CASE RefindEntity(w)
  <2>1. \A e \in Found(w) : e \in Entity
    BY ViewType DEF Found
  <2>2. CASE \E e \in Found(w) : UseEntity(w, e) /\ UNCHANGED tries
    BY <1>7, <2>1, <2>2, SpanAtHand, UseEntityType
       DEF RefindEntity, TypeOK, vault, pending, Resolving
  <2>3. CASE Found(w) = {}
    <3>1. /\ Goto(w, "suffix") /\ UNCHANGED <<at, cand, resolved>>
          /\ tries[w] + 1 < MaxRetries /\ tries' = [tries EXCEPT ![w] = @ + 1]
      BY <1>7, <2>3 DEF RefindEntity
    <3>2. tries \in [Worker -> 0 .. MaxRetries] /\ pc \in [Worker -> Labels]
      BY DEF TypeOK
    <3>3. tries' \in [Worker -> 0 .. MaxRetries]
      BY <3>1, <3>2, RetryAssumption
    <3>4. pc' \in [Worker -> Labels]
      BY <3>1, <3>2 DEF Goto
    <3>5. QED
      BY <1>7, <3>1, <3>3, <3>4 DEF RefindEntity, TypeOK, vault, pending
  <2>4. QED
    BY <1>7, <2>2, <2>3 DEF RefindEntity
<1>8. CASE FindForm(w)
  <2>1. CurrentForm(w) \in Form
    BY <1>8, SpanAtHand, AtHand
       DEF FindForm, CurrentForm, Form, SessionOK, CallOK, HoldsCandidate, Resolving
  <2>2. QED
    BY <1>8, <2>1, SpanAtHand, UseFormType
       DEF FindForm, Goto, TypeOK, vault, pending, Resolving
<1>9. CASE InsertForm(w)
  <2>1. CurrentForm(w) \in Form
    BY <1>9, SpanAtHand, AtHand
       DEF InsertForm, CurrentForm, Form, SessionOK, CallOK, HoldsCandidate, Resolving
  <2>2. QED
    <3>1. /\ UseForm(w, CurrentForm(w)) /\ pc[w] = "insertform"
          /\ UNCHANGED <<entities, mappings, newEntities, newEntries, batch, cat, cand,
                         tries, begun, answers>>
      BY <1>9 DEF InsertForm
    <3>2. forms' \subseteq Form /\ newForms' \subseteq Form /\ lock' \in Worker \cup {None}
      BY <1>9, <2>1 DEF InsertForm, StoreForm, TypeOK
    <3>3. QED
      BY <2>1, <3>1, <3>2, SpanAtHand, UseFormType DEF TypeOK, Resolving
<1>10. CASE CreateMapping(w)
  <2>1. {[entity |-> u.entity, restore |-> u] : u \in usages[w]} \subseteq Entry
    BY DEF TypeOK, Entry, Form
  <2>2. QED
    BY <1>10, <2>1 DEF CreateMapping, Goto, TypeOK, vault, progress
<1>11. CASE AdoptExisting(w)
  <2>1. PICK restore \in [Adoptable(w) -> Forms(w)] :
          newEntries' = newEntries \cup
            {[entity |-> e, restore |-> restore[e]] : e \in Adoptable(w)}
    BY <1>11 DEF AdoptExisting
  <2>2. {[entity |-> e, restore |-> restore[e]] : e \in Adoptable(w)} \subseteq Entry
    BY ViewType DEF Adoptable, Entry
  <2>3. QED
    BY <1>11, <2>1, <2>2 DEF AdoptExisting, Goto, TypeOK, vault, progress
<1>12. CASE Commit(w)
  <2>1. batch[w] \in Batches
    BY <1>12 DEF Commit, SessionOK, CallOK
  <2>2. mappings' \in Seq(SUBSET Entry)
    BY <1>12 DEF Commit, TypeOK
  <2>3. answers' \subseteq [mapping: Nat, batch: Batches, resolved: Seq(Resolved)]
    BY <1>12, <2>1 DEF Commit, TypeOK
  <2>4. entities' \subseteq Entity /\ forms' \subseteq Form /\ begun' \in 0 .. MaxBatches
    BY <1>12 DEF Commit, TypeOK
  <2>5. QED
    BY <1>12, <2>2, <2>3, <2>4, CloseType DEF Commit, TypeOK
<1>13. CASE Busy(w) \/ GiveUp(w) \/ Abort(w)
  <2>1. Close(w) /\ UNCHANGED <<vault, begun, answers>>
    BY <1>13 DEF Busy, GiveUp, Abort
  <2>2. QED
    BY <2>1, CloseType DEF TypeOK, vault
<1>14. QED
  BY <1>1, <1>2, <1>3, <1>4, <1>5, <1>6, <1>7, <1>8, <1>9, <1>10, <1>11, <1>12, <1>13
     DEF Step

-----------------------------------------------------------------------------
(* What the other sessions rely on survives a step of w.                   *)

LEMMA CloseOthers ==
  ASSUME Inductive, NEW w \in Worker, NEW u \in Worker, u # w, Close(w),
         entities \subseteq entities', forms \subseteq forms',
         lock # w => UNCHANGED <<entities, forms>>
  PROVE  SessionOK(u)'
<1>1. /\ pc'[u] = pc[u] /\ batch'[u] = batch[u] /\ cat'[u] = cat[u]
      /\ at'[u] = at[u] /\ cand'[u] = cand[u] /\ tries'[u] = tries[u]
      /\ resolved'[u] = resolved[u] /\ usages'[u] = usages[u]
  BY DEF Close, Goto, Inductive, TypeOK
<1>2. CASE lock = w
  BY <1>1, <1>2, Undisturbed, NoneAssumption DEF Close, Entities, Forms, Inductive
<1>3. CASE lock # w
  BY <1>1, <1>3, Undisturbed DEF Close, Entities, Forms, Inductive, pending
<1>4. QED
  BY <1>2, <1>3

LEMMA OthersStep ==
  ASSUME Inductive, NEW w \in Worker, NEW u \in Worker, u # w,
         Begin(w) \/ Step(w) \/ Abort(w)
  PROVE  SessionOK(u)'
<1> USE DEF Inductive
<1> DEFINE Still == /\ pc'[u] = pc[u] /\ batch'[u] = batch[u] /\ cat'[u] = cat[u]
                    /\ at'[u] = at[u] /\ cand'[u] = cand[u] /\ tries'[u] = tries[u]
                    /\ resolved'[u] = resolved[u] /\ usages'[u] = usages[u]
<1>1. CASE Begin(w)
  <2>1. Still /\ UNCHANGED <<vault, pending>>
    BY <1>1 DEF Begin, Goto, TypeOK
  <2>2. QED
    BY <2>1, Undisturbed DEF vault, pending, Entities, Forms
<1>2. CASE SkipBlank(w) \/ ReadSuffix(w)
  <2>1. Still /\ UNCHANGED <<vault, pending>>
    BY <1>2 DEF SkipBlank, ReadSuffix, Goto, TypeOK
  <2>2. QED
    BY <2>1, Undisturbed DEF vault, pending, Entities, Forms
<1>3. CASE FindEntity(w) \/ RefindEntity(w)
  <2>1. Still /\ UNCHANGED <<vault, pending>>
    BY <1>3 DEF FindEntity, RefindEntity, UseEntity, Rewrite, Goto, TypeOK
  <2>2. QED
    BY <2>1, Undisturbed DEF vault, pending, Entities, Forms
<1>4. CASE FindForm(w)
  <2>1. Still /\ UNCHANGED <<vault, pending>>
    BY <1>4 DEF FindForm, UseForm, Rewrite, Goto, TypeOK
  <2>2. QED
    BY <2>1, Undisturbed DEF vault, pending, Entities, Forms
<1>5. CASE InsertEntity(w)
  <2>1. Still /\ UNCHANGED <<forms, mappings, lock, newForms, newEntries>>
    BY <1>5 DEF InsertEntity, UseEntity, Rewrite, Goto, TypeOK
  <2>2. lock # u
    BY <1>5, NoneAssumption DEF InsertEntity, CanWrite
  <2>3. entities \subseteq entities'
    BY <1>5 DEF InsertEntity, StoreEntity
  <2>4. QED
    BY <2>1, <2>2, <2>3, Undisturbed DEF Entities, Forms
<1>6. CASE InsertForm(w)
  <2>1. Still /\ UNCHANGED <<entities, mappings, newEntities, newEntries>>
    BY <1>6 DEF InsertForm, UseForm, Rewrite, Goto, TypeOK
  <2>2. lock # u /\ lock' # u
    BY <1>6, NoneAssumption DEF InsertForm, CanWrite
  <2>3. forms \subseteq forms'
    BY <1>6 DEF InsertForm, StoreForm
  <2>4. QED
    BY <2>1, <2>2, <2>3, Undisturbed DEF Entities, Forms
<1>7. CASE CollideEntity(w) \/ CreateMapping(w) \/ AdoptExisting(w)
  <2>1. Still /\ UNCHANGED <<vault, newEntities, newForms>>
    BY <1>7 DEF CollideEntity, CreateMapping, AdoptExisting, Goto, progress, TypeOK
  <2>2. lock # u /\ lock' # u
    BY <1>7, NoneAssumption
       DEF CollideEntity, CreateMapping, AdoptExisting, CanWrite, SessionOK, CallOK, Publishing
  <2>3. QED
    BY <2>1, <2>2, Undisturbed DEF vault, Entities, Forms
<1>8. CASE Commit(w)
  <2>1. Close(w) /\ entities \subseteq entities' /\ forms \subseteq forms'
    BY <1>8 DEF Commit
  <2>2. lock = w
    BY <1>8 DEF Commit, SessionOK, CallOK, Publishing
  <2>3. QED
    BY <2>1, <2>2, CloseOthers
<1>9. CASE Busy(w) \/ GiveUp(w) \/ Abort(w)
  <2>1. Close(w) /\ UNCHANGED vault
    BY <1>9 DEF Busy, GiveUp, Abort, vault
  <2>2. QED
    BY <2>1, CloseOthers DEF vault
<1>10. QED
  BY <1>1, <1>2, <1>3, <1>4, <1>5, <1>6, <1>7, <1>8, <1>9 DEF Step

-----------------------------------------------------------------------------
(* The session that takes the step.                                        *)

\* An entity in w's view, with the key of the span at hand, may be used for it.
LEMMA UseEntitySelf ==
  ASSUME Inductive, NEW w \in Worker, pc[w] \in Resolving \/ MoreSpans(w),
         CurrentSpan(w).value # Blank, pc[w] \notin Publishing,
         NEW e \in Entity, UseEntity(w, e), KeyOf(e) = CurrentKey(w),
         e \in Entities(w)', Entities(w) \subseteq Entities(w)', Forms(w)' = Forms(w),
         UNCHANGED <<lock, newEntries, batch, cat, usages, tries>>
  PROVE  SessionOK(w)'
<1> USE DEF Inductive
<1>1. pc[w] # "idle" /\ at[w] \in DOMAIN batch[w].spans
  BY SpanAtHand
<1>2. CASE OneWay(w)
  <2>1. /\ pc'[w] = "span" /\ cand' = cand
        /\ resolved'[w] = Append(resolved[w], [span |-> CurrentSpan(w), entity |-> e])
    BY <1>2 DEF UseEntity, Rewrite, Goto, TypeOK
  <2>2. resolved[w] \in Seq(Resolved)
    BY DEF TypeOK
  <2>3. HeldOK(w)'
    <3>1. \A i \in DOMAIN resolved'[w] : resolved'[w][i].entity \in Entities(w)'
      BY <2>1, <2>2 DEF SessionOK, HeldOK
    <3>2. QED
      BY <3>1, <2>1 DEF SessionOK, HeldOK
  <2>4. QED
    BY <1>1, <2>1, <2>3 DEF SessionOK, CallOK, RaceOK, SuffixOK, Resolving, HoldsCandidate, Publishing
<1>3. CASE ~OneWay(w)
  <2>1. /\ pc'[w] = "form" /\ cand'[w] = e /\ UNCHANGED <<resolved, at>>
    BY <1>3 DEF UseEntity, Goto, TypeOK
  <2>2. CurrentSpan(w)' = CurrentSpan(w) /\ CurrentKey(w)' = CurrentKey(w)
    BY <2>1 DEF CurrentSpan, CurrentKey, OneWay
  <2>3. ~e.digested
    BY <1>3 DEF KeyOf, CurrentKey
  <2>4. QED
    BY <1>1, <2>1, <2>2, <2>3
       DEF SessionOK, CallOK, RaceOK, SuffixOK, HeldOK, Resolving, HoldsCandidate, Publishing
<1>4. QED
  BY <1>2, <1>3

LEMMA CloseSelf ==
  ASSUME Inductive, NEW w \in Worker, Close(w)
  PROVE  SessionOK(w)'
<1>1. /\ pc'[w] = "idle" /\ lock' # w /\ tries'[w] = 0
      /\ resolved'[w] = << >> /\ usages'[w] = {}
  BY NoneAssumption DEF Inductive, TypeOK, Close, Goto, pending
<1>2. QED
  BY <1>1 DEF SessionOK, CallOK, RaceOK, SuffixOK, HeldOK, Resolving, HoldsCandidate, Publishing

\* The form in w's view, of the candidate, may be used for the span at hand.
LEMMA UseFormSelf ==
  ASSUME Inductive, NEW w \in Worker, pc[w] \in {"form", "insertform"},
         UseForm(w, CurrentForm(w)), CurrentForm(w) \in Forms(w)',
         Entities(w)' = Entities(w), Forms(w) \subseteq Forms(w)',
         lock' = lock \/ lock = None,
         lock = w => lock' = w,
         UNCHANGED <<newEntries, batch, cat, tries>>
  PROVE  SessionOK(w)'
<1> USE DEF Inductive
<1>1. pc[w] # "idle" /\ pc[w] \notin Publishing /\ at[w] \in DOMAIN batch[w].spans
  BY SpanAtHand DEF Resolving, Publishing
<1>2. cand[w] \in Entities(w) /\ CurrentForm(w).entity = cand[w]
  BY DEF SessionOK, HeldOK, CurrentForm
<1>3. /\ pc'[w] = "span"
      /\ resolved'[w] = Append(resolved[w], [span |-> CurrentSpan(w), entity |-> cand[w]])
  BY <1>2 DEF UseForm, Rewrite, Goto, TypeOK
<1>4. resolved[w] \in Seq(Resolved)
  BY DEF TypeOK
<1>5. \A i \in DOMAIN resolved'[w] : resolved'[w][i].entity \in Entities(w)'
  BY <1>2, <1>3, <1>4 DEF SessionOK, HeldOK
<1>6. /\ usages'[w] \subseteq Forms(w)'
      /\ \A t, u \in usages'[w] : t.entity = u.entity => t = u
  BY DEF UseForm, SessionOK, HeldOK, TypeOK
<1>7. HeldOK(w)'
  BY <1>3, <1>5, <1>6 DEF HeldOK
<1>8. newEntries # {} => lock # w
  BY <1>1 DEF SessionOK, CallOK
<1>9. PendingOK
  OBVIOUS
<1>10. CallOK(w)'
  <2>1. newEntries' = {} \/ lock' # w
    BY <1>8, <1>9 DEF PendingOK
  <2>2. QED
    BY <1>1, <1>3, <2>1 DEF SessionOK, CallOK, Resolving, HoldsCandidate, Publishing
<1>11. RaceOK(w)' /\ SuffixOK(w)'
  BY <1>1, <1>3 DEF SessionOK, RaceOK, SuffixOK
<1>12. QED
  BY <1>7, <1>10, <1>11 DEF SessionOK

LEMMA SelfStep ==
  ASSUME Inductive, NEW w \in Worker, Begin(w) \/ Step(w) \/ Abort(w)
  PROVE  SessionOK(w)'
<1> USE DEF Inductive
<1>1. CASE Begin(w)
  <2>1. /\ pc'[w] = "span" /\ batch'[w] \in Batches /\ cat'[w] \in Catalogues
        /\ UNCHANGED <<vault, pending, cand, tries, resolved, usages>>
        /\ pc[w] = "idle"
    BY <1>1 DEF Begin, Goto, TypeOK
  <2>2. QED
    BY <2>1 DEF SessionOK, CallOK, RaceOK, SuffixOK, HeldOK, Resolving, HoldsCandidate,
       Publishing, Entities, Forms, vault, pending
<1>2. CASE SkipBlank(w)
  <2>1. pc[w] = "span" /\ UNCHANGED <<vault, pending, pc, batch, cat, cand, tries, resolved, usages>>
    BY <1>2 DEF SkipBlank, MoreSpans
  <2>2. QED
    BY <2>1 DEF SessionOK, CallOK, RaceOK, SuffixOK, HeldOK, Resolving, HoldsCandidate,
       Publishing, Entities, Forms, vault, pending
<1>3. CASE FindEntity(w)
  <2>1. pc[w] = "span" /\ UNCHANGED <<vault, pending, batch, cat, usages>>
    BY <1>3 DEF FindEntity, MoreSpans
  <2>2. Entities(w)' = Entities(w) /\ Forms(w)' = Forms(w)
    BY <2>1 DEF Entities, Forms, vault, pending
  <2>3. CASE \E e \in Found(w) : UseEntity(w, e) /\ UNCHANGED tries
    BY <1>3, <2>1, <2>2, <2>3, UseEntitySelf, ViewType
       DEF FindEntity, Found, Publishing, pending
  <2>4. CASE Found(w) = {}
    <3>1. /\ pc'[w] = "suffix" /\ tries'[w] = 0 /\ UNCHANGED <<at, cand, resolved>>
      BY <1>3, <2>4 DEF FindEntity, Goto, TypeOK
    <3>2. CurrentSpan(w)' = CurrentSpan(w) /\ Found(w)' = Found(w)
      BY <2>1, <2>2, <3>1 DEF CurrentSpan, Found, CurrentKey, OneWay
    <3>3. CurrentSpan(w).value # Blank /\ at[w] \in DOMAIN batch[w].spans /\ pc[w] # "idle"
      BY <1>3, SpanAtHand DEF FindEntity
    <3>4. QED
      BY <2>1, <2>2, <2>4, <3>1, <3>2, <3>3
         DEF SessionOK, CallOK, RaceOK, SuffixOK, HeldOK, Resolving, HoldsCandidate,
             Publishing, pending
  <2>5. QED
    BY <1>3, <2>3, <2>4 DEF FindEntity
<1>4. CASE ReadSuffix(w)
  <2>1. /\ pc[w] = "suffix" /\ pc'[w] = "insert"
        /\ UNCHANGED <<vault, pending, batch, cat, at, tries, resolved, usages>>
        /\ cand'[w] = [type |-> CurrentSpan(w).type, value |-> CurrentSpan(w).value,
                       digested |-> OneWay(w), index |-> NextSuffix(Entities(w))]
    BY <1>4 DEF ReadSuffix, Goto, TypeOK
  <2>2. /\ Entities(w)' = Entities(w) /\ Forms(w)' = Forms(w)
        /\ CurrentSpan(w)' = CurrentSpan(w) /\ CurrentKey(w)' = CurrentKey(w)
    BY <2>1 DEF Entities, Forms, vault, pending, CurrentSpan, CurrentKey, OneWay
  <2>3. KeyOf(cand'[w]) = CurrentKey(w)
    BY <2>1 DEF KeyOf, CurrentKey
  <2>4. cand'[w] \in Entity
    BY <2>1, SpanAtHand, AtHand, ViewType, NextSuffixOfDense
       DEF Resolving, Entity, SessionOK, CallOK
  <2>5. /\ cand'[w].index \notin Suffixes(Entities(w))
        /\ cand'[w].index = 0 \/ cand'[w].index - 1 \in Suffixes(Entities(w))
    BY <2>1, ViewType, NextSuffixOfDense
  <2>6. lock = w => ~Collides(w)'
    BY <2>1, <2>2, <2>3, <2>5 DEF SessionOK, RaceOK, Found, Collides, Suffixes
  <2>7. QED
    BY <2>1, <2>2, <2>3, <2>4, <2>5, <2>6
       DEF SessionOK, CallOK, RaceOK, SuffixOK, HeldOK, Resolving, HoldsCandidate,
           Publishing, Suffixes, pending
<1>5. CASE InsertEntity(w)
  <2>1. /\ pc[w] = "insert" /\ UseEntity(w, cand[w])
        /\ UNCHANGED <<forms, mappings, lock, newForms, newEntries, batch, cat, tries, usages>>
    BY <1>5 DEF InsertEntity
  <2>2. /\ cand[w] \in Entity /\ KeyOf(cand[w]) = CurrentKey(w)
        /\ CurrentSpan(w).value # Blank
    BY <2>1 DEF SessionOK, CallOK, HoldsCandidate, Resolving
  <2>3. /\ cand[w] \in Entities(w)' /\ Entities(w) \subseteq Entities(w)'
        /\ Forms(w)' = Forms(w)
    BY <1>5, <2>1 DEF InsertEntity, StoreEntity, Entities, Forms
  <2>4. QED
    BY <2>1, <2>2, <2>3, UseEntitySelf DEF Resolving, Publishing
<1>6. CASE CollideEntity(w)
  <2>1. /\ pc[w] = "insert" /\ pc'[w] = "refind" /\ lock' = w /\ lock \in {None, w}
        /\ Collides(w)
        /\ UNCHANGED <<vault, newEntities, newForms, newEntries, progress>>
    BY <1>6 DEF CollideEntity, CanWrite, Goto, TypeOK
  <2>2. lock = None
    BY <2>1 DEF SessionOK, RaceOK
  <2>3. /\ tries[w] = 0 /\ newEntities = {} /\ newForms = {} /\ newEntries = {}
    BY <2>2, NoneAssumption DEF SessionOK, RaceOK, PendingOK
  <2>4. /\ Entities(w)' = Entities(w) /\ Forms(w)' = Forms(w)
        /\ CurrentSpan(w)' = CurrentSpan(w) /\ CurrentKey(w)' = CurrentKey(w)
    BY <2>1, <2>2, <2>3, NoneAssumption
       DEF Entities, Forms, vault, progress, CurrentSpan, CurrentKey, OneWay
  <2>5. QED
    BY <2>1, <2>3, <2>4
       DEF SessionOK, CallOK, RaceOK, SuffixOK, HeldOK, Resolving, HoldsCandidate,
           Publishing, progress
<1>7. CASE RefindEntity(w)
  <2>1. pc[w] = "refind" /\ UNCHANGED <<vault, pending, batch, cat, usages>>
    BY <1>7 DEF RefindEntity
  <2>2. Entities(w)' = Entities(w) /\ Forms(w)' = Forms(w)
    BY <2>1 DEF Entities, Forms, vault, pending
  <2>3. CurrentSpan(w).value # Blank /\ at[w] \in DOMAIN batch[w].spans /\ pc[w] # "idle"
    BY <2>1 DEF SessionOK, CallOK, Resolving
  <2>4. CASE \E e \in Found(w) : UseEntity(w, e) /\ UNCHANGED tries
    BY <2>1, <2>2, <2>3, <2>4, UseEntitySelf, ViewType
       DEF Found, Publishing, pending, Resolving
  <2>5. CASE Found(w) = {}
    <3>1. /\ pc'[w] = "suffix" /\ tries'[w] = tries[w] + 1
          /\ UNCHANGED <<at, cand, resolved>>
      BY <1>7, <2>5 DEF RefindEntity, Goto, TypeOK
    <3>2. tries[w] = 0 /\ lock = w
      BY <2>1 DEF SessionOK, RaceOK
    <3>3. CurrentSpan(w)' = CurrentSpan(w) /\ Found(w)' = Found(w)
      BY <2>1, <2>2, <3>1 DEF CurrentSpan, Found, CurrentKey, OneWay
    <3>4. QED
      BY <2>1, <2>2, <2>3, <2>5, <3>1, <3>2, <3>3
         DEF SessionOK, CallOK, RaceOK, SuffixOK, HeldOK, Resolving, HoldsCandidate,
             Publishing, pending
  <2>6. QED
    BY <1>7, <2>4, <2>5 DEF RefindEntity
<1>8. CASE FindForm(w)
  <2>1. pc[w] = "form" /\ UNCHANGED <<vault, pending, batch, cat, cand, tries>>
    BY <1>8 DEF FindForm
  <2>2. Entities(w)' = Entities(w) /\ Forms(w)' = Forms(w)
    BY <2>1 DEF Entities, Forms, vault, pending
  <2>3. CASE CurrentForm(w) \in Forms(w)
    BY <1>8, <2>1, <2>2, <2>3, UseFormSelf DEF FindForm, pending
  <2>4. CASE CurrentForm(w) \notin Forms(w)
    <3>1. pc'[w] = "insertform" /\ UNCHANGED <<usages, resolved, at>>
      BY <1>8, <2>4 DEF FindForm, Goto, TypeOK
    <3>2. CurrentSpan(w)' = CurrentSpan(w) /\ CurrentKey(w)' = CurrentKey(w)
      BY <2>1, <3>1 DEF CurrentSpan, CurrentKey, OneWay
    <3>3. QED
      BY <2>1, <2>2, <3>1, <3>2
         DEF SessionOK, CallOK, RaceOK, SuffixOK, HeldOK, Resolving, HoldsCandidate,
             Publishing, pending
  <2>5. QED
    BY <2>3, <2>4
<1>9. CASE InsertForm(w)
  <2>1. /\ pc[w] = "insertform" /\ CanWrite(w) /\ UseForm(w, CurrentForm(w))
        /\ UNCHANGED <<entities, mappings, newEntities, newEntries, batch, cat, cand, tries>>
    BY <1>9 DEF InsertForm
  <2>2. lock' = lock \/ lock = None
    BY <1>9, <2>1 DEF InsertForm, CanWrite
  <2>3. lock = w => lock' = w
    BY <1>9 DEF InsertForm
  <2>4. Entities(w)' = Entities(w)
    BY <1>9, <2>1, <2>2 DEF InsertForm, Entities, PendingOK
  <2>5. Forms(w) \subseteq Forms(w)' /\ CurrentForm(w) \in Forms(w)'
    BY <1>9, <2>2 DEF InsertForm, StoreForm, Forms, PendingOK
  <2>6. QED
    BY <2>1, <2>2, <2>3, <2>4, <2>5, UseFormSelf
<1>10. CASE CreateMapping(w)
  <2>1. /\ pc[w] = "span" /\ pc'[w] = "adopt" /\ lock' = w /\ lock \in {None, w}
        /\ UNCHANGED <<vault, newEntities, newForms, progress>>
    BY <1>10 DEF CreateMapping, CanWrite, Goto, TypeOK
  <2>2. Entities(w)' = Entities(w) /\ Forms(w)' = Forms(w)
    BY <2>1 DEF Entities, Forms, PendingOK, vault
  <2>3. QED
    BY <2>1, <2>2
       DEF SessionOK, CallOK, RaceOK, SuffixOK, HeldOK, Resolving, HoldsCandidate,
           Publishing, progress
<1>11. CASE AdoptExisting(w)
  <2>1. /\ pc[w] = "adopt" /\ pc'[w] = "commit"
        /\ UNCHANGED <<vault, lock, newEntities, newForms, progress>>
    BY <1>11 DEF AdoptExisting, Goto, TypeOK
  <2>2. Entities(w)' = Entities(w) /\ Forms(w)' = Forms(w)
    BY <2>1 DEF Entities, Forms, vault
  <2>3. QED
    BY <2>1, <2>2
       DEF SessionOK, CallOK, RaceOK, SuffixOK, HeldOK, Resolving, HoldsCandidate,
           Publishing, progress
<1>12. CASE Commit(w) \/ Busy(w) \/ GiveUp(w) \/ Abort(w)
  BY <1>12, CloseSelf DEF Commit, Busy, GiveUp, Abort
<1>13. QED
  BY <1>1, <1>2, <1>3, <1>4, <1>5, <1>6, <1>7, <1>8, <1>9, <1>10, <1>11, <1>12 DEF Step

-----------------------------------------------------------------------------
(* The rows themselves.                                                    *)

GlobalOK == PendingOK /\ FormsOK /\ MappingsOK /\ AnswersOK /\ OneName /\ SuffixesDense

LEMMA DenseExtends ==
  ASSUME NEW E, E \subseteq Entity, Dense(E), NEW e \in Entity,
         e.index \notin Suffixes(E),
         e.index = 0 \/ e.index - 1 \in Suffixes(E)
  PROVE  Dense(E \cup {e})
<1>1. e.index \in Nat
  BY DEF Entity
<1>2. Suffixes(E \cup {e}) = Suffixes(E) \cup {e.index}
  BY DEF Suffixes
<1>3. Suffixes(E) \cup {e.index} = 0 .. e.index
  <2>1. CASE E = {}
    <3>1. Suffixes(E) = {}
      BY <2>1 DEF Suffixes
    <3>2. QED
      BY <3>1
  <2>2. CASE E # {}
    <3>1. PICK last \in E : Suffixes(E) = 0 .. last.index
      BY <2>2 DEF Dense
    <3>2. last.index \in Nat
      BY DEF Entity
    <3>3. e.index = last.index + 1
      BY <1>1, <3>1, <3>2
    <3>4. QED
      BY <3>1, <3>2, <3>3
  <2>3. QED
    BY <2>1, <2>2
<1>4. QED
  BY <1>2, <1>3 DEF Dense

LEMMA CloseGlobal ==
  ASSUME Inductive, NEW w \in Worker, Close(w), UNCHANGED <<vault, answers>>
  PROVE  GlobalOK'
<1> USE DEF Inductive
<1>1. CASE lock = w
  <2>1. newEntities' = {} /\ newForms' = {} /\ newEntries' = {}
    BY <1>1 DEF Close
  <2>2. PendingOK' /\ FormsOK' /\ AnswersOK'
    BY <2>1 DEF PendingOK, FormsOK, AnswersOK, vault
  <2>3. MappingsOK'
    BY <2>1 DEF MappingsOK, OneEntryEach, EntriesResolve, vault
  <2>4. OneName' /\ SuffixesDense'
    <3>1. entities' \cup newEntities' = entities
      BY <2>1 DEF vault
    <3>2. QED
      BY <3>1 DEF OneName, SuffixesDense, vault
  <2>5. QED
    BY <2>2, <2>3, <2>4 DEF GlobalOK
<1>2. CASE lock # w
  BY <1>2 DEF Close, GlobalOK, PendingOK, FormsOK, MappingsOK, OneEntryEach, AnswersOK, OneName,
     SuffixesDense, EntriesResolve, vault, pending
<1>3. QED
  BY <1>1, <1>2

LEMMA StoreEntityGlobal ==
  ASSUME Inductive, NEW w \in Worker, InsertEntity(w)
  PROVE  GlobalOK'
<1> USE DEF Inductive
<1>1. /\ cand[w] \in Entity /\ ~Collides(w) /\ lock \in {None, w} /\ StoreEntity(w, cand[w])
      /\ UNCHANGED <<forms, mappings, lock, newForms, newEntries, answers>>
      /\ cand[w].index = 0 \/ cand[w].index - 1 \in Suffixes(Entities(w))
  BY DEF InsertEntity, CanWrite, SessionOK, CallOK, SuffixOK, HoldsCandidate, Resolving
<1>2. Entities(w) = entities \cup newEntities
  BY <1>1 DEF Entities, PendingOK
<1>3. entities' \cup newEntities' = Entities(w) \cup {cand[w]}
  BY <1>1, <1>2 DEF StoreEntity
<1>4. /\ entities \subseteq entities' /\ newEntities \subseteq newEntities'
      /\ lock = None => newEntities' = {}
      /\ entities' = entities \/ entities' = entities' \cup newEntities'
  BY <1>1, NoneAssumption DEF StoreEntity, PendingOK
<1>5. OneName'
  BY <1>1, <1>2, <1>3 DEF OneName, Collides
<1>6. cand[w].index \notin Suffixes(Entities(w))
  BY <1>1 DEF Collides, Suffixes
<1>7. Dense(Entities(w) \cup {cand[w]})
  BY <1>1, <1>6, ViewType, DenseExtends
<1>8. SuffixesDense'
  BY <1>3, <1>4, <1>7 DEF SuffixesDense
<1>9. PendingOK' /\ FormsOK' /\ MappingsOK' /\ AnswersOK'
  BY <1>1, <1>4 DEF PendingOK, FormsOK, MappingsOK, AnswersOK, EntriesResolve
<1>10. QED
  BY <1>5, <1>8, <1>9 DEF GlobalOK

LEMMA StoreFormGlobal ==
  ASSUME Inductive, NEW w \in Worker, InsertForm(w)
  PROVE  GlobalOK'
<1> USE DEF Inductive
<1>1. /\ lock \in {None, w} /\ UNCHANGED <<entities, mappings, newEntities, newEntries, answers>>
      /\ cand[w] \in Entities(w) /\ ~cand[w].digested
      /\ CurrentForm(w).entity = cand[w]
  BY DEF InsertForm, CanWrite, SessionOK, HeldOK, CurrentForm
<1>2. /\ forms \subseteq forms' /\ newForms \subseteq newForms'
      /\ forms' \subseteq forms \cup {CurrentForm(w)}
      /\ newForms' \subseteq newForms \cup {CurrentForm(w)}
      /\ lock # w => newForms' = newForms
      /\ lock = w => forms' = forms
      /\ lock' = lock \/ newForms' = newForms
      /\ lock = None => lock' \in {None, w}
  BY <1>1 DEF InsertForm, StoreForm, Forms
<1>3. PendingOK'
  <2>1. lock' = None => lock = None
    BY <1>1, NoneAssumption DEF InsertForm
  <2>2. lock = None => newForms' = newForms
    BY <1>2, NoneAssumption
  <2>3. QED
    BY <1>1, <2>1, <2>2 DEF PendingOK
<1>4. FormsOK'
  BY <1>1, <1>2, NoneAssumption DEF FormsOK, Entities
<1>5. MappingsOK' /\ AnswersOK'
  BY <1>1, <1>2 DEF MappingsOK, AnswersOK, EntriesResolve
<1>6. OneName' /\ SuffixesDense'
  BY <1>1 DEF OneName, SuffixesDense
<1>7. QED
  BY <1>3, <1>4, <1>5, <1>6 DEF GlobalOK

LEMMA PublishGlobal ==
  ASSUME Inductive, NEW w \in Worker, CreateMapping(w) \/ AdoptExisting(w)
  PROVE  GlobalOK'
<1> USE DEF Inductive
<1>1. CASE CreateMapping(w)
  <2>1. /\ lock \in {None, w} /\ lock' = w
        /\ newEntries' = {[entity |-> u.entity, restore |-> u] : u \in usages[w]}
        /\ UNCHANGED <<vault, newEntities, newForms, answers>>
    BY <1>1 DEF CreateMapping, CanWrite
  <2>2. /\ usages[w] \subseteq forms \cup newForms
        /\ \A t, u \in usages[w] : t.entity = u.entity => t = u
    BY <2>1 DEF SessionOK, HeldOK, Forms
  <2>3. \A x \in newEntries' : x.restore \in forms' \cup newForms' /\ x.restore.entity = x.entity
    BY <2>1, <2>2 DEF vault
  <2>4. OneEntryEach(newEntries)'
    BY <2>1, <2>2 DEF OneEntryEach
  <2>5. EntriesResolve' /\ (\A i \in DOMAIN mappings : OneEntryEach(mappings[i]))'
    BY <2>1 DEF MappingsOK, EntriesResolve, vault, OneEntryEach
  <2>6. QED
    BY <2>1, <2>3, <2>4, <2>5, NoneAssumption
       DEF GlobalOK, PendingOK, FormsOK, MappingsOK, AnswersOK, OneName, SuffixesDense, vault
<1>2. CASE AdoptExisting(w)
  <2>1. PICK restore \in [Adoptable(w) -> Forms(w)] :
          /\ \A e \in Adoptable(w) : restore[e].entity = e
          /\ newEntries' = newEntries \cup
               {[entity |-> e, restore |-> restore[e]] : e \in Adoptable(w)}
    BY <1>2 DEF AdoptExisting
  <2>2. UNCHANGED <<vault, lock, newEntities, newForms, answers>> /\ lock = w
    BY <1>2 DEF AdoptExisting, SessionOK, CallOK, Publishing
  <2>3. \A x \in newEntries' : x.restore \in forms' \cup newForms' /\ x.restore.entity = x.entity
    BY <2>1, <2>2 DEF vault, Forms, MappingsOK
  <2>4. OneEntryEach(newEntries)'
    BY <2>1 DEF OneEntryEach, MappingsOK, Adoptable
  <2>5. EntriesResolve' /\ (\A i \in DOMAIN mappings : OneEntryEach(mappings[i]))'
    BY <2>2 DEF MappingsOK, EntriesResolve, vault, OneEntryEach
  <2>6. QED
    BY <2>2, <2>3, <2>4, <2>5, NoneAssumption
       DEF GlobalOK, PendingOK, FormsOK, MappingsOK, AnswersOK, OneName, SuffixesDense, vault
<1>3. QED
  BY <1>1, <1>2

LEMMA LastOrBefore ==
  ASSUME NEW n \in Nat, NEW i \in 1 .. n + 1
  PROVE  i = n + 1 \/ i \in 1 .. n
  OBVIOUS

LEMMA AppendIndex ==
  ASSUME NEW S, NEW m \in Seq(S), NEW x \in S, NEW p, p = Append(m, x)
  PROVE  \A i \in DOMAIN p : p[i] = x \/ (i \in DOMAIN m /\ p[i] = m[i])
<1>1. DOMAIN m = 1 .. Len(m) /\ Len(m) \in Nat
  OBVIOUS
<1>2. p \in Seq(S) /\ Len(p) = Len(m) + 1
  BY AppendProperties
<1>3. DOMAIN p = 1 .. Len(m) + 1
  BY <1>2
<1>4. p[Len(m) + 1] = x /\ \A j \in 1 .. Len(m) : p[j] = m[j]
  BY AppendProperties
<1>5. ASSUME NEW i \in 1 .. Len(m) + 1
      PROVE  p[i] = x \/ (i \in DOMAIN m /\ p[i] = m[i])
  <2>1. i = Len(m) + 1 \/ i \in 1 .. Len(m)
    BY <1>1, <1>5, LastOrBefore
  <2>2. QED
    BY <1>1, <1>4, <2>1, Zenon
<1>6. QED
  BY <1>3, <1>5, Zenon

LEMMA CommitGlobal ==
  ASSUME Inductive, NEW w \in Worker, Commit(w)
  PROVE  GlobalOK'
<1> USE DEF Inductive
<1>1. /\ lock = w /\ lock' = None
      /\ newEntities' = {} /\ newForms' = {} /\ newEntries' = {}
      /\ entities' = entities \cup newEntities /\ forms' = forms \cup newForms
      /\ mappings' = Append(mappings, newEntries)
      /\ answers' = answers \cup
           {[mapping |-> Len(mappings) + 1, batch |-> batch[w], resolved |-> resolved[w]]}
  BY DEF Commit, Close, SessionOK, CallOK, Publishing
<1>2. PendingOK' /\ FormsOK' /\ OneName' /\ SuffixesDense'
  BY <1>1 DEF PendingOK, FormsOK, OneName, SuffixesDense
<1>3. \A x \in newEntries : x.entity \in entities'
  BY <1>1 DEF MappingsOK, FormsOK
<1>4. mappings \in Seq(SUBSET Entry) /\ newEntries \in SUBSET Entry
  BY DEF TypeOK
<1>5. \A i \in DOMAIN mappings' :
        mappings'[i] = newEntries \/ (i \in DOMAIN mappings /\ mappings'[i] = mappings[i])
  <2> HIDE DEF Inductive
  <2>1. ASSUME NEW p, p = Append(mappings, newEntries)
        PROVE  \A i \in DOMAIN p :
                 p[i] = newEntries \/ (i \in DOMAIN mappings /\ p[i] = mappings[i])
    BY <1>4, <2>1, AppendIndex
  <2>2. mappings' = Append(mappings, newEntries)
    BY <1>1
  <2>3. QED
    BY <2>1, <2>2, Zenon
<1>6. EntriesResolve'
  BY <1>1, <1>3, <1>5 DEF EntriesResolve, MappingsOK
<1>7. \A i \in DOMAIN mappings' : OneEntryEach(mappings'[i])
  BY <1>5 DEF MappingsOK
<1>8. MappingsOK'
  BY <1>1, <1>6, <1>7 DEF MappingsOK, OneEntryEach
<1>9. AnswersOK'
  BY <1>1 DEF AnswersOK, SessionOK, HeldOK, Entities
<1>10. QED
  BY <1>2, <1>8, <1>9 DEF GlobalOK

LEMMA GlobalStep ==
  ASSUME Inductive, NEW w \in Worker, Begin(w) \/ Step(w) \/ Abort(w)
  PROVE  GlobalOK'
<1>1. CASE \/ Begin(w) \/ SkipBlank(w) \/ FindEntity(w) \/ ReadSuffix(w)
           \/ RefindEntity(w) \/ FindForm(w)
  <2>1. UNCHANGED <<vault, pending, answers>>
    BY <1>1 DEF Begin, SkipBlank, FindEntity, ReadSuffix, RefindEntity, FindForm
  <2>2. QED
    BY <2>1 DEF Inductive, GlobalOK, PendingOK, FormsOK, MappingsOK, OneEntryEach,
       EntriesResolve, AnswersOK, OneName, SuffixesDense, vault, pending
<1>2. CASE CollideEntity(w)
  <2>1. UNCHANGED <<vault, newEntities, newForms, newEntries, answers>> /\ lock' = w
    BY <1>2 DEF CollideEntity
  <2>2. QED
    BY <2>1, NoneAssumption
       DEF Inductive, GlobalOK, PendingOK, FormsOK, MappingsOK, OneEntryEach,
           EntriesResolve, AnswersOK, OneName, SuffixesDense, vault
<1>3. CASE Busy(w) \/ GiveUp(w) \/ Abort(w)
  BY <1>3, CloseGlobal DEF Busy, GiveUp, Abort
<1>4. QED
  BY <1>1, <1>2, <1>3, StoreEntityGlobal, StoreFormGlobal, PublishGlobal, CommitGlobal DEF Step

-----------------------------------------------------------------------------
LEMMA StutterInductive == Inductive /\ UNCHANGED vars => Inductive'
<1> SUFFICES ASSUME Inductive, UNCHANGED vars PROVE Inductive'
  OBVIOUS
<1> USE DEF Inductive, vars, vault, pending, progress
<1>1. TypeOK'
  BY DEF TypeOK
<1>2. ASSUME NEW u \in Worker PROVE SessionOK(u)'
  BY Undisturbed DEF Entities, Forms
<1>3. PendingOK' /\ FormsOK' /\ MappingsOK' /\ AnswersOK' /\ OneName' /\ SuffixesDense'
  BY DEF PendingOK, FormsOK, MappingsOK, OneEntryEach, EntriesResolve, AnswersOK, OneName,
     SuffixesDense
<1>4. QED
  BY <1>1, <1>2, <1>3

LEMMA NextInductive == Inductive /\ [Next]_vars => Inductive'
<1>1. ASSUME Inductive, NEW w \in Worker, Begin(w) \/ Step(w) \/ Abort(w)
      PROVE  Inductive'
  <2>1. \A u \in Worker : SessionOK(u)'
    BY <1>1, SelfStep, OthersStep
  <2>2. QED
    BY <1>1, <2>1, TypeStep, GlobalStep DEF Inductive, GlobalOK
<1>2. QED
  BY <1>1, StutterInductive DEF Next

\* The vault's invariant: the conjunction every theorem below reads a part of.
THEOREM InvariantHolds == Spec => []Inductive
  BY InitInductive, NextInductive, PTL DEF Spec

\* Every state of the vault is well typed: what the tables, the sessions and
\* the answers hold is what the code puts there.
THEOREM TypeCorrect == Spec => []TypeOK
  BY InvariantHolds, PTL DEF Inductive

\* No two values ever share a suffix and none has two, however many sessions
\* race in get_or_create_entity and whichever of them roll back.
THEOREM NamesUnique == Spec => []OneName
  BY InvariantHolds, PTL DEF Inductive

\* A suffix lost to a collision or a rollback is handed out again.
THEOREM NoSuffixLost == Spec => []SuffixesDense
  BY InvariantHolds, PTL DEF Inductive

\* The retry loop of get_or_create_entity loses at most one race per value.
THEOREM OneRetryAtMost == Spec => []AtMostOneRetry
<1>1. Inductive => AtMostOneRetry
  BY DEF Inductive, SessionOK, RaceOK, AtMostOneRetry
<1>2. QED
  BY <1>1, InvariantHolds, PTL

\* With more than one attempt, as the code has, the RuntimeError of
\* get_or_create_entity is dead code.
THEOREM GiveUpUnreachable ==
  ASSUME MaxRetries >= 2
  PROVE  Spec => [](\A w \in Worker : pc[w] = "refind" => ~(tries[w] + 1 >= MaxRetries))
<1>1. Inductive => \A w \in Worker : pc[w] = "refind" => ~(tries[w] + 1 >= MaxRetries)
  BY RetryAssumption DEF Inductive, SessionOK, RaceOK
<1>2. QED
  BY <1>1, InvariantHolds, PTL

\* A placeholder handed out in a returned batch means one value for ever.
THEOREM AnswersKeepMeaning == Spec => []AnswersStand
<1>1. Inductive => AnswersStand
  BY DEF Inductive, AnswersOK, OneName, AnswersStand, PlaceholderOf, KeyOf
<1>2. QED
  BY <1>1, InvariantHolds, PTL

\* An irreversible value never gets a surface form or a mapping entry, under
\* any sequence of catalogues.
THEOREM NoWayBack == Spec => []OneWayDoor
<1>1. Inductive => OneWayDoor
  <2> SUFFICES ASSUME Inductive PROVE OneWayDoor
    OBVIOUS
  <2>1. \A f \in forms \cup newForms : ~f.entity.digested
    BY DEF Inductive, FormsOK
  <2>2. \A x \in newEntries : ~x.entity.digested
    BY <2>1 DEF Inductive, MappingsOK
  <2>3. \A i \in DOMAIN mappings : \A x \in mappings[i] : ~x.entity.digested
    BY <2>1 DEF Inductive, MappingsOK, EntriesResolve
  <2>4. QED
    BY <2>1, <2>2, <2>3 DEF OneWayDoor
<1>2. QED
  BY <1>1, InvariantHolds, PTL

\* Every entry of every mapping restores a committed spelling of its entity.
THEOREM EntriesAlwaysResolve == Spec => []EntriesResolve
<1>1. Inductive => EntriesResolve
  BY DEF Inductive, MappingsOK
<1>2. QED
  BY <1>1, InvariantHolds, PTL

-----------------------------------------------------------------------------
(* The promises.                                                           *)

\* What a step may do to the committed rows.
Recorded ==
  entities \subseteq entities' /\ forms \subseteq forms' /\ UNCHANGED mappings

LEMMA StepCommits ==
  ASSUME NEW w \in Worker, Begin(w) \/ Step(w) \/ Abort(w)
  PROVE  Recorded \/ (Commit(w) /\ entities' = entities \cup newEntities
                      /\ forms' = forms \cup newForms
                      /\ mappings' = Append(mappings, newEntries))
<1>1. CASE InsertEntity(w) \/ InsertForm(w)
  BY <1>1 DEF InsertEntity, InsertForm, StoreEntity, StoreForm, Recorded
<1>2. CASE Commit(w)
  BY <1>2 DEF Commit
<1>3. CASE \/ Begin(w) \/ SkipBlank(w) \/ FindEntity(w) \/ ReadSuffix(w)
           \/ CollideEntity(w) \/ RefindEntity(w) \/ GiveUp(w) \/ FindForm(w)
           \/ CreateMapping(w) \/ AdoptExisting(w) \/ Busy(w) \/ Abort(w)
  <2>1. UNCHANGED vault
    BY <1>3 DEF Begin, SkipBlank, FindEntity, ReadSuffix, CollideEntity,
       RefindEntity, GiveUp, FindForm, CreateMapping, AdoptExisting, Busy, Abort
  <2>2. QED
    BY <2>1 DEF Recorded, vault
<1>4. QED
  BY <1>1, <1>2, <1>3 DEF Step

\* No committed row is ever taken back, and the archive of mappings only ever
\* gets the entries the committing session has written.
THEOREM NothingTakenBack == Spec => VaultOnlyGrows
<1>1. [Next]_vars => [ /\ entities \subseteq entities'
                       /\ forms \subseteq forms'
                       /\ mappings' # mappings =>
                            mappings' = Append(mappings, newEntries) ]_vault
  <2> SUFFICES ASSUME [Next]_vars
               PROVE  [ /\ entities \subseteq entities'
                        /\ forms \subseteq forms'
                        /\ mappings' # mappings =>
                             mappings' = Append(mappings, newEntries) ]_vault
    OBVIOUS
  <2>1. CASE UNCHANGED vars
    BY <2>1 DEF vars
  <2>2. ASSUME NEW w \in Worker, Begin(w) \/ Step(w) \/ Abort(w)
        PROVE  /\ entities \subseteq entities'
               /\ forms \subseteq forms'
               /\ mappings' # mappings => mappings' = Append(mappings, newEntries)
    BY <2>2, StepCommits DEF Recorded
  <2>3. QED
    BY <2>1, <2>2 DEF Next
<1>2. QED
  BY <1>1, PTL DEF Spec, VaultOnlyGrows

LEMMA ExtendsLedger ==
  ASSUME Inductive', entities \subseteq entities'
  PROVE  Abstract!Extend
  BY DEF Inductive, OneName, KeyOf, Abstract!Extend, Abstract!OneToOne,
     Abstract!ValueOf

LEMMA LastOfAppend ==
  ASSUME NEW S, NEW m \in Seq(S), NEW x \in S, NEW p, p = Append(m, x)
  PROVE  /\ Len(p) = Len(m) + 1
         /\ p[Len(p)] = x
         /\ Len(p) \in DOMAIN p
<1>1. Len(m) \in Nat
  OBVIOUS
<1>2. p \in Seq(S) /\ Len(p) = Len(m) + 1 /\ p[Len(m) + 1] = x
  BY AppendProperties
<1>3. DOMAIN p = 1 .. Len(p)
  BY <1>2
<1>4. QED
  BY <1>1, <1>2, <1>3

LEMMA CommitPublishes ==
  ASSUME Inductive, Inductive', mappings' = Append(mappings, newEntries),
         entities \subseteq entities'
  PROVE  Abstract!Publish
<1>1. mappings \in Seq(SUBSET Entry) /\ newEntries \in SUBSET Entry
  BY DEF Inductive, TypeOK
<1>2. /\ Len(mappings') = Len(mappings) + 1
      /\ mappings'[Len(mappings')] = newEntries
      /\ Len(mappings') \in DOMAIN mappings'
  <2>1. ASSUME NEW p, p = Append(mappings, newEntries)
        PROVE  Len(p) = Len(mappings) + 1 /\ p[Len(p)] = newEntries /\ Len(p) \in DOMAIN p
    BY <1>1, <2>1, LastOfAppend
  <2>2. QED
    BY <2>1, Zenon
<1>3. EntriesResolve' /\ OneEntryEach(mappings'[Len(mappings')])
  BY <1>2 DEF Inductive, MappingsOK
<1>4. Abstract!WellFormed(mappings'[Len(mappings')], entities')
  BY <1>2, <1>3 DEF EntriesResolve, OneEntryEach, Abstract!WellFormed
<1>5. QED
  BY <1>2, <1>4, ExtendsLedger DEF Abstract!Publish

\* Whatever interleaving, collision or rollback: each value's name is given
\* once and kept, and each archive is complete when it appears.
THEOREM VaultImplementsLedger == Spec => ImplementsLedger
<1>1. Init => Abstract!Init
  BY DEF Init, Abstract!Init
<1>2. Inductive /\ Inductive' /\ [Next]_vars => [Abstract!Next]_(Abstract!ledger)
  <2> SUFFICES ASSUME Inductive, Inductive', [Next]_vars
               PROVE  [Abstract!Next]_(Abstract!ledger)
    OBVIOUS
  <2>1. CASE UNCHANGED vars
    BY <2>1 DEF vars, vault, Abstract!ledger
  <2>2. ASSUME NEW w \in Worker, Begin(w) \/ Step(w) \/ Abort(w)
        PROVE  Abstract!Next
    <3>1. CASE Recorded
      BY <3>1, ExtendsLedger DEF Recorded, Abstract!Next, Abstract!Register
    <3>2. CASE entities' = entities \cup newEntities /\ mappings' = Append(mappings, newEntries)
      BY <3>2, CommitPublishes DEF Abstract!Next
    <3>3. QED
      BY <2>2, <3>1, <3>2, StepCommits
  <2>3. QED
    BY <2>1, <2>2 DEF Next
<1>3. QED
  BY <1>1, <1>2, InvariantHolds, PTL DEF Spec, ImplementsLedger, Abstract!Spec

-----------------------------------------------------------------------------
(* Answers: one lemma on what the first spelling of an entity is, two on   *)
(* what a step uses, then what each step owes, and Answering.              *)

LEMMA SmallestOf ==
  ASSUME NEW S \in SUBSET Nat, S # {}
  PROVE  \E x \in S : \A y \in S : x <= y
<1> DEFINE R == {p \in Nat \X Nat : p[1] < p[2]}
<1>1. IsWellFoundedOn(R, Nat)
  BY NatLessThanWellFounded DEF OpToRel
<1>2. PICK x \in S : \A y \in S : ~ (<<y, x>> \in R)
  <2> HIDE DEF R
  <2> QED
    BY <1>1, WFMin
<1>3. ASSUME NEW y \in S PROVE x <= y
  <2>1. x \in Nat /\ y \in Nat
    OBVIOUS
  <2>2. y < x => <<y, x>> \in R
    BY <2>1
  <2> HIDE DEF R
  <2> QED
    BY <1>2, <2>1, <2>2
<1> QED
  BY <1>3

\* The spelling at the smallest position with the entity.
LEMMA FirstIs ==
  ASSUME NEW r \in Seq(Resolved), NEW e, NEW i \in DOMAIN r, r[i].entity = e,
         \A j \in DOMAIN r : r[j].entity = e => i <= j
  PROVE  FirstSpelling(r, e) = r[i].span.text
<1> DEFINE uses == {j \in DOMAIN r : r[j].entity = e}
           first == CHOOSE k \in uses : \A j \in uses : k <= j
<1>1. i \in uses /\ \A j \in uses : i <= j
  OBVIOUS
<1>2. first \in uses /\ \A j \in uses : first <= j
  BY <1>1
<1>3. uses \subseteq Nat
  OBVIOUS
<1>4. first = i
  <2> HIDE DEF uses, first
  <2> QED
    BY <1>1, <1>2, <1>3
<1> QED
  BY <1>4 DEF FirstSpelling

LEMMA FirstKept ==
  ASSUME NEW r \in Seq(Resolved), NEW x \in Resolved, NEW e,
         \E i \in DOMAIN r : r[i].entity = e
  PROVE  FirstSpelling(Append(r, x), e) = FirstSpelling(r, e)
<1> DEFINE uses == {j \in DOMAIN r : r[j].entity = e}
           longer == Append(r, x)
<1>1. PICK i \in uses : \A j \in uses : i <= j
  <2>1. uses \in SUBSET Nat /\ uses # {}
    OBVIOUS
  <2> HIDE DEF uses
  <2> QED
    BY <2>1, SmallestOf
<1>2. /\ i \in DOMAIN r /\ r[i].entity = e
      /\ \A j \in DOMAIN r : r[j].entity = e => i <= j
  BY <1>1
<1>3. FirstSpelling(r, e) = r[i].span.text
  BY <1>2, FirstIs
<1>4. /\ longer \in Seq(Resolved) /\ Len(longer) = Len(r) + 1
      /\ \A j \in 1 .. Len(r) : longer[j] = r[j]
  BY AppendProperties
<1>5. /\ DOMAIN longer = 1 .. Len(r) + 1 /\ DOMAIN r = 1 .. Len(r) /\ Len(r) \in Nat
  BY <1>4
<1>6. i \in DOMAIN longer /\ longer[i] = r[i]
  BY <1>2, <1>4, <1>5
<1>7. \A j \in DOMAIN longer : longer[j].entity = e => i <= j
  <2> SUFFICES ASSUME NEW j \in DOMAIN longer, longer[j].entity = e PROVE i <= j
    OBVIOUS
  <2>1. CASE j \in 1 .. Len(r)
    BY <1>2, <1>4, <1>5, <2>1
  <2>2. CASE j = Len(r) + 1
    BY <1>2, <1>5, <2>2
  <2> QED
    BY <1>5, <2>1, <2>2
<1> HIDE DEF longer, uses
<1>8. FirstSpelling(longer, e) = longer[i].span.text
  BY <1>2, <1>4, <1>6, <1>7, FirstIs
<1> QED
  BY <1>3, <1>6, <1>8 DEF longer

LEMMA FirstNew ==
  ASSUME NEW r \in Seq(Resolved), NEW x \in Resolved,
         \A i \in DOMAIN r : r[i].entity # x.entity
  PROVE  FirstSpelling(Append(r, x), x.entity) = x.span.text
<1> DEFINE longer == Append(r, x)
           last == Len(r) + 1
<1>1. /\ longer \in Seq(Resolved) /\ Len(longer) = last /\ longer[last] = x
      /\ \A j \in 1 .. Len(r) : longer[j] = r[j]
  BY AppendProperties
<1>2. DOMAIN longer = 1 .. Len(r) + 1 /\ DOMAIN r = 1 .. Len(r) /\ Len(r) \in Nat
  BY <1>1
<1>3. last \in DOMAIN longer
  BY <1>2
<1>4. \A j \in DOMAIN longer : longer[j].entity = x.entity => last <= j
  BY <1>1, <1>2
<1> HIDE DEF longer, last
<1>5. FirstSpelling(longer, x.entity) = longer[last].span.text
  BY <1>1, <1>3, <1>4, FirstIs
<1> QED
  BY <1>1, <1>5 DEF longer

\* The spans so far with one more: what the old ones owe stays, what the new one
\* owes is its own spelling, unless its entity has been used.
LEMMA AppendIn ==
  ASSUME NEW r \in Seq(Resolved), NEW x \in Resolved, NEW longer, longer = Append(r, x)
  PROVE  /\ \A i \in DOMAIN r : i \in DOMAIN longer /\ longer[i] = r[i]
         /\ Len(r) + 1 \in DOMAIN longer /\ longer[Len(r) + 1] = x
         /\ \A i \in DOMAIN longer : (i \in DOMAIN r /\ longer[i] = r[i]) \/ longer[i] = x
<1>1. /\ longer \in Seq(Resolved) /\ Len(longer) = Len(r) + 1 /\ longer[Len(r) + 1] = x
      /\ \A j \in 1 .. Len(r) : longer[j] = r[j]
  BY AppendProperties
<1>2. DOMAIN longer = 1 .. Len(r) + 1 /\ DOMAIN r = 1 .. Len(r) /\ Len(r) \in Nat
  BY <1>1
<1> QED
  BY <1>1, <1>2

LEMMA UsesDigested ==
  ASSUME NEW r \in Seq(Resolved), NEW x \in Resolved, NEW used, FirstUses(r, used),
         x.entity.digested
  PROVE  FirstUses(Append(r, x), used)
<1> DEFINE longer == Append(r, x)
<1>1. /\ \A i \in DOMAIN r : i \in DOMAIN longer /\ longer[i] = r[i]
      /\ \A i \in DOMAIN longer : (i \in DOMAIN r /\ longer[i] = r[i]) \/ longer[i] = x
  BY AppendIn
<1>2. \A i \in DOMAIN r : FirstSpelling(longer, r[i].entity) = FirstSpelling(r, r[i].entity)
  BY FirstKept
<1> HIDE DEF longer
<1>3. FirstUses(longer, used)
  BY <1>1, <1>2 DEF FirstUses
<1> QED
  BY <1>3 DEF longer

LEMMA UsesForm ==
  ASSUME NEW r \in Seq(Resolved), NEW x \in Resolved, NEW used, FirstUses(r, used),
         ~x.entity.digested, NEW more,
         more = IF \E u \in used : u.entity = x.entity THEN used
                ELSE used \cup {[entity |-> x.entity, text |-> x.span.text]}
  PROVE  FirstUses(Append(r, x), more)
<1> DEFINE longer == Append(r, x)
           first == [entity |-> x.entity, text |-> x.span.text]
<1>1. /\ \A i \in DOMAIN r : i \in DOMAIN longer /\ longer[i] = r[i]
      /\ Len(r) + 1 \in DOMAIN longer /\ longer[Len(r) + 1] = x
      /\ \A i \in DOMAIN longer : (i \in DOMAIN r /\ longer[i] = r[i]) \/ longer[i] = x
  BY AppendIn
<1>2. \A i \in DOMAIN r : FirstSpelling(longer, r[i].entity) = FirstSpelling(r, r[i].entity)
  BY FirstKept
<1>3. CASE \E u \in used : u.entity = x.entity
  <2>1. PICK k \in DOMAIN r : r[k].entity = x.entity
    BY <1>3 DEF FirstUses
  <2>2. [entity |-> x.entity, text |-> FirstSpelling(longer, x.entity)] \in used
    BY <1>2, <2>1 DEF FirstUses
  <2> HIDE DEF longer
  <2>3. FirstUses(longer, used)
    BY <1>1, <1>2, <2>2 DEF FirstUses
  <2> QED
    BY <1>3, <2>3 DEF longer
<1>4. CASE ~ \E u \in used : u.entity = x.entity
  <2>1. \A i \in DOMAIN r : r[i].entity # x.entity
    BY <1>4 DEF FirstUses
  <2>2. FirstSpelling(longer, x.entity) = x.span.text
    BY <2>1, FirstNew
  <2>3. more = used \cup {first}
    BY <1>4
  <2> HIDE DEF longer
  <2>4. FirstUses(longer, more)
    BY <1>1, <1>2, <2>2, <2>3 DEF FirstUses
  <2> QED
    BY <2>4 DEF longer
<1> QED
  BY <1>3, <1>4

\* While a session holds the write lock, no other writes or publishes anything.
LEMMA LockedOut ==
  ASSUME Inductive, NEW w \in Worker, NEW u \in Worker, u # w, lock = u,
         Begin(w) \/ Step(w) \/ Abort(w)
  PROVE  UNCHANGED <<vault, pending, answers>>
<1>1. ~CanWrite(w) /\ pc[w] \notin Publishing
  BY NoneAssumption DEF CanWrite, Inductive, SessionOK, CallOK
<1>2. CASE \/ Begin(w) \/ SkipBlank(w) \/ FindEntity(w) \/ ReadSuffix(w)
           \/ RefindEntity(w) \/ FindForm(w)
  BY <1>2 DEF Begin, SkipBlank, FindEntity, ReadSuffix, RefindEntity, FindForm
<1>3. CASE \/ InsertEntity(w) \/ CollideEntity(w) \/ InsertForm(w) \/ CreateMapping(w)
           \/ AdoptExisting(w) \/ Commit(w)
  BY <1>1, <1>3 DEF InsertEntity, CollideEntity, InsertForm, CreateMapping, AdoptExisting,
     Commit, Publishing
<1>4. CASE GiveUp(w) \/ Busy(w) \/ Abort(w)
  <2>1. Close(w) /\ UNCHANGED <<vault, answers>>
    BY <1>4 DEF GiveUp, Busy, Abort
  <2>2. UNCHANGED pending
    BY <2>1 DEF Close
  <2> QED
    BY <2>1, <2>2
<1> QED
  BY <1>2, <1>3, <1>4 DEF Step

\* A session's progress is its own.
LEMMA OthersProgress ==
  ASSUME Inductive, NEW w \in Worker, NEW u \in Worker, u # w,
         Begin(w) \/ Step(w) \/ Abort(w)
  PROVE  /\ pc'[u] = pc[u] /\ batch'[u] = batch[u]
         /\ resolved'[u] = resolved[u] /\ usages'[u] = usages[u]
<1> USE DEF Inductive
<1>1. CASE Begin(w)
  BY <1>1 DEF Begin, Goto, TypeOK
<1>2. CASE \/ SkipBlank(w) \/ ReadSuffix(w) \/ CollideEntity(w) \/ CreateMapping(w)
           \/ AdoptExisting(w)
  BY <1>2 DEF SkipBlank, ReadSuffix, CollideEntity, CreateMapping, AdoptExisting, Goto,
     TypeOK, progress
<1>3. CASE FindEntity(w) \/ InsertEntity(w) \/ RefindEntity(w)
  BY <1>3 DEF FindEntity, InsertEntity, RefindEntity, UseEntity, Rewrite, Goto, TypeOK
<1>4. CASE FindForm(w) \/ InsertForm(w)
  BY <1>4 DEF FindForm, InsertForm, UseForm, Rewrite, Goto, TypeOK
<1>5. CASE GiveUp(w) \/ Commit(w) \/ Busy(w) \/ Abort(w)
  <2>1. Close(w)
    BY <1>5 DEF GiveUp, Commit, Busy, Abort
  <2> QED
    BY <2>1 DEF Close, Goto, TypeOK
<1> QED
  BY <1>1, <1>2, <1>3, <1>4, <1>5 DEF Step

\* What an answer has issued and can be restored has a spelling in the vault.
LEMMA AnsweredForm ==
  ASSUME Inductive, Answering, NEW a \in answers, NEW i \in DOMAIN a.resolved,
         ~a.resolved[i].entity.digested
  PROVE  \E f \in forms : f.entity = a.resolved[i].entity
<1> DEFINE e == a.resolved[i].entity
<1>1. a.mapping \in DOMAIN mappings
  BY DEF Answering, MappingsAnswered
<1> DEFINE x == EntryOf([entity |-> e, text |-> FirstSpelling(a.resolved, e)])
<1>2. x \in mappings[a.mapping] /\ x.entity = e
  BY DEF Answering, AnswersRestorable, EntryOf
<1> HIDE DEF x
<1>3. x.restore \in forms /\ x.restore.entity = x.entity
  BY <1>1, <1>2 DEF Inductive, MappingsOK, EntriesResolve
<1> QED
  BY <1>2, <1>3

LEMMA GotoLabel ==
  ASSUME Inductive, NEW w \in Worker, NEW label, Goto(w, label)
  PROVE  pc'[w] = label
BY DEF Goto, Inductive, TypeOK

LEMMA OthersOwe ==
  ASSUME Inductive, Answering, NEW w \in Worker, NEW u \in Worker, u # w,
         Begin(w) \/ Step(w) \/ Abort(w)
  PROVE  UsagesOK(u)' /\ DraftOK(u)'
<1>1. /\ pc'[u] = pc[u] /\ batch'[u] = batch[u]
      /\ resolved'[u] = resolved[u] /\ usages'[u] = usages[u]
  BY OthersProgress
<1>2. UsagesOK(u) /\ DraftOK(u)
  BY DEF Answering
<1>3. UsagesOK(u)'
  BY <1>1, <1>2 DEF UsagesOK
<1>4. CASE pc[u] \in Publishing
  <2>1. lock = u
    BY <1>4 DEF Inductive, SessionOK, CallOK
  <2>2. UNCHANGED <<newEntries, answers>>
    BY <2>1, LockedOut DEF pending
  <2> QED
    BY <1>1, <1>2, <1>3, <2>2 DEF DraftOK
<1>5. CASE pc[u] \notin Publishing
  BY <1>1, <1>3, <1>5 DEF DraftOK, Publishing
<1> QED
  BY <1>4, <1>5

LEMMA UseEntityOwes ==
  ASSUME Inductive, NEW w \in Worker, UsagesOK(w), pc[w] \in Resolving \/ MoreSpans(w),
         NEW e \in Entity, KeyOf(e) = CurrentKey(w), UseEntity(w, e), UNCHANGED usages
  PROVE  UsagesOK(w)' /\ pc'[w] \in {"span", "form"}
<1>1. resolved[w] \in Seq(Resolved) /\ resolved \in [Worker -> Seq(Resolved)]
  BY DEF Inductive, TypeOK
<1>2. CASE OneWay(w)
  <2> DEFINE x == [span |-> CurrentSpan(w), entity |-> e]
  <2>1. CurrentSpan(w) \in Span
    BY SpanAtHand, AtHand
  <2>2. x \in Resolved /\ x.entity.digested
    BY <1>2, <2>1 DEF Resolved, KeyOf, CurrentKey
  <2>3. resolved'[w] = Append(resolved[w], x) /\ pc'[w] = "span"
    BY <1>1, <1>2, GotoLabel DEF UseEntity, Rewrite
  <2> HIDE DEF x
  <2>4. FirstUses(Append(resolved[w], x), usages[w])
    BY <1>1, <2>2, UsesDigested DEF UsagesOK
  <2> QED
    BY <2>3, <2>4 DEF UsagesOK
<1>3. CASE ~OneWay(w)
  BY <1>1, <1>3, GotoLabel DEF UseEntity, UsagesOK
<1> QED
  BY <1>2, <1>3

LEMMA UseFormOwes ==
  ASSUME Inductive, NEW w \in Worker, UsagesOK(w), pc[w] \in {"form", "insertform"},
         UseForm(w, CurrentForm(w))
  PROVE  UsagesOK(w)' /\ pc'[w] = "span"
<1>1. /\ resolved \in [Worker -> Seq(Resolved)]
      /\ usages \in [Worker -> SUBSET Form]
  BY DEF Inductive, TypeOK
<1>2. cand[w] \in Entity /\ ~cand[w].digested /\ CurrentSpan(w) \in Span
  <2>1. pc[w] \in Resolving /\ pc[w] \in HoldsCandidate
    BY DEF Resolving, HoldsCandidate
  <2> QED
    BY <2>1, SpanAtHand, AtHand DEF Inductive, SessionOK, HeldOK, CallOK
<1> DEFINE x == [span |-> CurrentSpan(w), entity |-> cand[w]]
<1>3. x \in Resolved /\ ~x.entity.digested
  BY <1>2 DEF Resolved
<1>4. /\ CurrentForm(w).entity = x.entity
      /\ CurrentForm(w) = [entity |-> x.entity, text |-> x.span.text]
  BY DEF CurrentForm
<1>5. /\ resolved'[w] = Append(resolved[w], x) /\ pc'[w] = "span"
      /\ usages'[w] = IF \E u \in usages[w] : u.entity = x.entity THEN usages[w]
                      ELSE usages[w] \cup {[entity |-> x.entity, text |-> x.span.text]}
  BY <1>1, <1>4, GotoLabel DEF UseForm, Rewrite
<1> HIDE DEF x
<1>6. FirstUses(Append(resolved[w], x), usages'[w])
  BY <1>1, <1>3, <1>5, UsesForm DEF UsagesOK
<1> QED
  BY <1>5, <1>6 DEF UsagesOK

LEMMA CloseOwes ==
  ASSUME Inductive, NEW w \in Worker, Close(w)
  PROVE  UsagesOK(w)' /\ DraftOK(w)'
<1>1. pc'[w] = "idle" /\ resolved'[w] = << >> /\ usages'[w] = {}
  BY DEF Inductive, TypeOK, Close, Goto
<1> QED
  BY <1>1 DEF UsagesOK, FirstUses, DraftOK, Publishing

\* The mapping is drafted: an entry for each use, then one for each adopted.
LEMMA DraftOwes ==
  ASSUME Inductive, Answering, NEW w \in Worker, CreateMapping(w) \/ AdoptExisting(w)
  PROVE  UsagesOK(w)' /\ DraftOK(w)'
<1>1. /\ UsagesOK(w)' /\ usages' = usages /\ batch' = batch /\ answers' = answers
      /\ entities' = entities
  BY DEF Answering, CreateMapping, AdoptExisting, UsagesOK, progress, vault
<1>2. CASE CreateMapping(w)
  <2>1. pc'[w] = "adopt" /\ newEntries' = {EntryOf(u) : u \in usages[w]}
    BY <1>2, GotoLabel DEF CreateMapping, EntryOf
  <2>2. \A u \in usages[w] : EntryOf(u) \in newEntries' /\ EntryOf(u).entity = u.entity
    BY <2>1 DEF EntryOf
  <2>3. \A x \in newEntries' : \E u \in usages[w] : u.entity = x.entity
    BY <2>1 DEF EntryOf
  <2> QED
    BY <1>1, <2>1, <2>2, <2>3 DEF DraftOK, Publishing
<1>3. CASE AdoptExisting(w)
  <2>1. pc[w] = "adopt" /\ pc'[w] = "commit" /\ lock = w
    BY <1>3, GotoLabel DEF AdoptExisting, Inductive, SessionOK, CallOK, Publishing
  <2>2. PICK restore \in [Adoptable(w) -> Forms(w)] :
          newEntries' = newEntries \cup
            {[entity |-> e, restore |-> restore[e]] : e \in Adoptable(w)}
    BY <1>3 DEF AdoptExisting
  <2>3. DraftOK(w)
    BY DEF Answering
  <2>4. \A u \in usages[w] : EntryOf(u) \in newEntries'
    BY <2>1, <2>2, <2>3 DEF DraftOK, Publishing
  <2>5. \A x \in newEntries' : \/ PlaceholderOf(x.entity) \in batch[w].carried
                               \/ \E u \in usages[w] : u.entity = x.entity
    <3> SUFFICES ASSUME NEW x \in newEntries'
                 PROVE  \/ PlaceholderOf(x.entity) \in batch[w].carried
                        \/ \E u \in usages[w] : u.entity = x.entity
      OBVIOUS
    <3>1. CASE x \in newEntries
      BY <2>1, <2>3, <3>1 DEF DraftOK, Publishing
    <3>2. CASE \E e \in Adoptable(w) : x = [entity |-> e, restore |-> restore[e]]
      BY <3>2 DEF Adoptable
    <3> QED
      BY <2>2, <3>1, <3>2
  <2>6. ASSUME NEW a \in answers, NEW i \in DOMAIN a.resolved,
               ~a.resolved[i].entity.digested,
               PlaceholderOf(a.resolved[i].entity) \in batch[w].carried
        PROVE  \E x \in newEntries' : x.entity = a.resolved[i].entity
    <3> DEFINE e == a.resolved[i].entity
    <3>1. CASE \E n \in newEntries : n.entity = e
      BY <2>2, <3>1
    <3>2. CASE ~ \E n \in newEntries : n.entity = e
      <4>1. e \in entities
        BY DEF Inductive, AnswersOK
      <4>2. \E f \in forms : f.entity = e
        BY <2>6, AnsweredForm
      <4>3. e \in Adoptable(w)
        BY <2>6, <3>2, <4>1, <4>2 DEF Adoptable, Entities, Forms
      <4>4. [entity |-> e, restore |-> restore[e]] \in newEntries'
        BY <2>2, <4>3
      <4> QED
        BY <4>4
    <3> QED
      BY <3>1, <3>2
  <2> QED
    BY <1>1, <2>1, <2>4, <2>5, <2>6 DEF DraftOK
<1> QED
  BY <1>2, <1>3

LEMMA SelfOwes ==
  ASSUME Inductive, Answering, NEW w \in Worker, Begin(w) \/ Step(w) \/ Abort(w)
  PROVE  UsagesOK(w)' /\ DraftOK(w)'
<1>0. UsagesOK(w)
  BY DEF Answering
<1>1. ASSUME UsagesOK(w)', pc'[w] \notin Publishing
      PROVE  UsagesOK(w)' /\ DraftOK(w)'
  BY <1>1 DEF DraftOK, Publishing
<1>2. CASE Begin(w) \/ SkipBlank(w) \/ ReadSuffix(w) \/ CollideEntity(w)
  <2>1. UsagesOK(w)'
    BY <1>0, <1>2 DEF Begin, SkipBlank, ReadSuffix, CollideEntity, UsagesOK, progress
  <2>2. pc'[w] \in {"span", "insert", "refind"}
    BY <1>2, GotoLabel DEF Begin, SkipBlank, MoreSpans, ReadSuffix, CollideEntity
  <2> QED
    BY <1>1, <2>1, <2>2 DEF Publishing
<1>3. CASE FindEntity(w) \/ InsertEntity(w) \/ RefindEntity(w)
  <2>1. UNCHANGED usages
    BY <1>3 DEF FindEntity, InsertEntity, RefindEntity
  <2>2. pc[w] \in Resolving \/ MoreSpans(w)
    BY <1>3 DEF FindEntity, InsertEntity, RefindEntity, Resolving
  <2>3. CASE \E e \in Entity : KeyOf(e) = CurrentKey(w) /\ UseEntity(w, e)
    BY <1>0, <1>1, <2>1, <2>2, <2>3, UseEntityOwes DEF Publishing
  <2>4. CASE UNCHANGED resolved /\ pc'[w] = "suffix"
    BY <1>0, <1>1, <2>1, <2>4 DEF UsagesOK, Publishing
  <2>5. \A e \in Found(w) : e \in Entity /\ KeyOf(e) = CurrentKey(w)
    BY ViewType DEF Found
  <2>6. CASE InsertEntity(w)
    <3>1. cand[w] \in Entity /\ KeyOf(cand[w]) = CurrentKey(w) /\ UseEntity(w, cand[w])
      BY <2>6 DEF InsertEntity, Inductive, SessionOK, CallOK, HoldsCandidate, Resolving
    <3> QED
      BY <2>3, <3>1
  <2>7. CASE FindEntity(w) \/ RefindEntity(w)
    BY <2>3, <2>4, <2>5, <2>7, GotoLabel DEF FindEntity, RefindEntity
  <2> QED
    BY <1>3, <2>6, <2>7
<1>4. CASE FindForm(w) \/ InsertForm(w)
  <2>1. CASE UseForm(w, CurrentForm(w))
    BY <1>0, <1>1, <1>4, <2>1, UseFormOwes DEF FindForm, InsertForm, Publishing
  <2>2. CASE UNCHANGED <<usages, resolved>> /\ pc'[w] = "insertform"
    BY <1>0, <1>1, <2>2 DEF UsagesOK, Publishing
  <2> QED
    BY <1>4, <2>1, <2>2, GotoLabel DEF FindForm, InsertForm
<1>5. CASE CreateMapping(w) \/ AdoptExisting(w)
  BY <1>5, DraftOwes
<1>6. CASE GiveUp(w) \/ Commit(w) \/ Busy(w) \/ Abort(w)
  BY <1>6, CloseOwes DEF GiveUp, Commit, Busy, Abort
<1> QED
  BY <1>2, <1>3, <1>4, <1>5, <1>6 DEF Step

\* The answer a commit gives, and the answers before it.
LEMMA CommitOwes ==
  ASSUME Inductive, Answering, NEW w \in Worker, Commit(w)
  PROVE  MappingsAnswered' /\ AnswersRestorable'
<1> DEFINE last == Len(mappings) + 1
           new == [mapping |-> last, batch |-> batch[w], resolved |-> resolved[w]]
<1>1. /\ mappings \in Seq(SUBSET Entry) /\ newEntries \in SUBSET Entry
      /\ \A a \in answers : a.mapping \in Nat
  BY DEF Inductive, TypeOK
<1>2. /\ answers' = answers \cup {new} /\ mappings' = Append(mappings, newEntries)
      /\ pc[w] = "commit"
  BY DEF Commit
<1>3. /\ DOMAIN mappings' = 1 .. last /\ DOMAIN mappings = 1 .. Len(mappings)
      /\ Len(mappings) \in Nat
      /\ mappings'[last] = newEntries
      /\ \A m \in DOMAIN mappings : mappings'[m] = mappings[m]
  <2>1. ASSUME NEW p, p = Append(mappings, newEntries)
        PROVE  /\ DOMAIN p = 1 .. last /\ p[last] = newEntries
               /\ \A m \in 1 .. Len(mappings) : p[m] = mappings[m]
    BY <1>1, <2>1, AppendProperties
  <2> QED
    BY <1>1, <1>2, <2>1
<1>4. /\ new.mapping = last /\ new.batch = batch[w] /\ new.resolved = resolved[w]
  OBVIOUS
<1>5. /\ FirstUses(resolved[w], usages[w]) /\ DraftOK(w) /\ OneEntryEach(newEntries)
      /\ MappingsAnswered /\ AnswersRestorable
  BY DEF Answering, UsagesOK, Inductive, MappingsOK
<1> HIDE DEF new, last
<1>6. MappingsAnswered'
  <2>1. \A a \in answers' : a.mapping \in DOMAIN mappings'
    BY <1>2, <1>3, <1>4, <1>5 DEF MappingsAnswered, last
  <2>2. \A x \in newEntries :
          \/ PlaceholderOf(x.entity) \in new.batch.carried
          \/ \E i \in DOMAIN new.resolved : new.resolved[i].entity = x.entity
    BY <1>2, <1>4, <1>5 DEF DraftOK, Publishing, FirstUses
  <2>3. ASSUME NEW m \in DOMAIN mappings'
        PROVE  \E a \in answers' :
                 /\ a.mapping = m
                 /\ \A x \in mappings'[m] :
                      \/ PlaceholderOf(x.entity) \in a.batch.carried
                      \/ \E i \in DOMAIN a.resolved : a.resolved[i].entity = x.entity
    <3>1. CASE m \in DOMAIN mappings
      BY <1>2, <1>3, <1>5, <3>1 DEF MappingsAnswered
    <3>2. CASE m = last
      BY <1>2, <1>3, <1>4, <2>2, <3>2
    <3> QED
      BY <1>3, <3>1, <3>2 DEF last
  <2> QED
    BY <2>1, <2>3 DEF MappingsAnswered, PlaceholderOf
<1>7. AnswersRestorable'
  <2> SUFFICES ASSUME NEW a \in answers', NEW i \in DOMAIN a.resolved,
                      NEW e, e = a.resolved[i].entity, ~e.digested
               PROVE  /\ EntryOf([entity |-> e, text |-> FirstSpelling(a.resolved, e)])
                           \in mappings'[a.mapping]
                      /\ OneEntryEach(mappings'[a.mapping])
                      /\ \A b \in answers' :
                           a.mapping < b.mapping /\ PlaceholderOf(e) \in b.batch.carried =>
                             \E x \in mappings'[b.mapping] : x.entity = e
    BY DEF AnswersRestorable, EntryOf, OneEntryEach
  <2>1. CASE a \in answers
    <3>1. a.mapping \in DOMAIN mappings
      BY <1>5, <2>1 DEF MappingsAnswered
    <3>2. /\ EntryOf([entity |-> e, text |-> FirstSpelling(a.resolved, e)])
               \in mappings[a.mapping]
          /\ OneEntryEach(mappings[a.mapping])
          /\ \A b \in answers :
               a.mapping < b.mapping /\ PlaceholderOf(e) \in b.batch.carried =>
                 \E x \in mappings[b.mapping] : x.entity = e
      BY <1>5, <2>1 DEF AnswersRestorable, EntryOf, OneEntryEach
    <3>3. \A b \in answers : b.mapping \in DOMAIN mappings
      BY <1>5 DEF MappingsAnswered
    <3>4. PlaceholderOf(e) \in new.batch.carried => \E x \in newEntries : x.entity = e
      BY <1>2, <1>4, <1>5, <2>1 DEF DraftOK
    <3> QED
      BY <1>2, <1>3, <1>4, <3>1, <3>2, <3>3, <3>4
  <2>2. CASE a = new
    <3>1. EntryOf([entity |-> e, text |-> FirstSpelling(a.resolved, e)]) \in newEntries
      BY <1>2, <1>4, <1>5, <2>2 DEF FirstUses, DraftOK, Publishing
    <3>2. \A b \in answers' : b.mapping <= last
      BY <1>2, <1>3, <1>4, <1>5 DEF MappingsAnswered, last
    <3>3. \A b \in answers' : ~ a.mapping < b.mapping
      BY <1>1, <1>2, <1>3, <1>4, <2>2, <3>2 DEF last
    <3> QED
      BY <1>3, <1>4, <1>5, <2>2, <3>1, <3>3
  <2> QED
    BY <1>2, <2>1, <2>2
<1> QED
  BY <1>6, <1>7

LEMMA NoCommit ==
  ASSUME NEW w \in Worker, Begin(w) \/ Step(w) \/ Abort(w), ~Commit(w)
  PROVE  UNCHANGED <<mappings, answers>>
BY DEF Step, Begin, SkipBlank, FindEntity, ReadSuffix, InsertEntity, CollideEntity,
   RefindEntity, GiveUp, FindForm, InsertForm, CreateMapping, AdoptExisting, Busy, Abort,
   vault

LEMMA AnsweringInit == Init => Answering
BY DEF Init, Answering, UsagesOK, FirstUses, DraftOK, Publishing, MappingsAnswered,
   AnswersRestorable

LEMMA AnsweringNext == Inductive /\ Answering /\ [Next]_vars => Answering'
<1> SUFFICES ASSUME Inductive, Answering, [Next]_vars PROVE Answering'
  OBVIOUS
<1>1. CASE UNCHANGED vars
  <2>1. \A u \in Worker : UsagesOK(u)' /\ DraftOK(u)'
    BY <1>1 DEF Answering, UsagesOK, DraftOK, vars, vault, pending, progress
  <2>2. MappingsAnswered' /\ AnswersRestorable'
    BY <1>1 DEF Answering, MappingsAnswered, AnswersRestorable, vars, vault
  <2> QED
    BY <2>1, <2>2 DEF Answering
<1>2. ASSUME NEW w \in Worker, Begin(w) \/ Step(w) \/ Abort(w) PROVE Answering'
  <2>1. \A u \in Worker : UsagesOK(u)' /\ DraftOK(u)'
    BY <1>2, SelfOwes, OthersOwe
  <2>2. MappingsAnswered' /\ AnswersRestorable'
    <3>1. CASE Commit(w)
      BY <3>1, CommitOwes
    <3>2. CASE ~Commit(w)
      <4>1. mappings' = mappings /\ answers' = answers
        BY <1>2, <3>2, NoCommit
      <4>2. MappingsAnswered'
        BY <4>1 DEF Answering, MappingsAnswered
      <4>3. AnswersRestorable'
        BY <4>1 DEF Answering, AnswersRestorable
      <4> QED
        BY <4>2, <4>3
    <3> QED
      BY <3>1, <3>2
  <2> QED
    BY <2>1, <2>2 DEF Answering
<1> QED
  BY <1>1, <1>2 DEF Next

\* Inductive and Answering together, for what is composed of the vault.
LEMMA AnsweringHolds == Spec => [](Inductive /\ Answering)
<1>1. Init => Inductive /\ Answering
  BY InitInductive, AnsweringInit
<1>2. Inductive /\ Answering /\ [Next]_vars => (Inductive /\ Answering)'
  BY NextInductive, AnsweringNext
<1> QED
  BY <1>1, <1>2, PTL DEF Spec

\* A returned mapping restores every reversible placeholder of its batch, by one
\* entry and in the batch's own first spelling, and every one that an earlier answer
\* issued and a replayed turn carried in (create_mapping's loop over the usages,
\* _adopt_existing), whatever other sessions write between two of its statements.
THEOREM AnswersCanBeRestored == Spec => []AnswersRestorable
<1>1. Inductive /\ Answering => AnswersRestorable
  BY DEF Answering
<1> QED
  BY <1>1, AnsweringHolds, PTL

-----------------------------------------------------------------------------
\* What is committed when a query looks is there for the next, unchanged.
LEMMA CommittedStays ==
  ASSUME Inductive, [Next]_vars
  PROVE  /\ \A m \in DOMAIN mappings : m \in DOMAIN mappings' /\ mappings'[m] = mappings[m]
         /\ answers \subseteq answers'
<1>1. CASE UNCHANGED vars
  BY <1>1 DEF vars, vault
<1>2. ASSUME NEW w \in Worker, Begin(w) \/ Step(w) \/ Abort(w)
      PROVE  /\ \A m \in DOMAIN mappings :
                  m \in DOMAIN mappings' /\ mappings'[m] = mappings[m]
             /\ answers \subseteq answers'
  <2>1. CASE Commit(w)
    <3>1. mappings \in Seq(SUBSET Entry) /\ newEntries \in SUBSET Entry
      BY DEF Inductive, TypeOK
    <3>2. answers \subseteq answers' /\ mappings' = Append(mappings, newEntries)
      BY <2>1 DEF Commit
    <3>3. ASSUME NEW p, p = Append(mappings, newEntries)
          PROVE  \A m \in DOMAIN mappings : m \in DOMAIN p /\ p[m] = mappings[m]
      <4>1. /\ p \in Seq(SUBSET Entry) /\ Len(p) = Len(mappings) + 1
            /\ \A m \in 1 .. Len(mappings) : p[m] = mappings[m]
        BY <3>1, <3>3, AppendProperties
      <4>2. DOMAIN p = 1 .. Len(mappings) + 1 /\ DOMAIN mappings = 1 .. Len(mappings)
            /\ Len(mappings) \in Nat
        BY <3>1, <4>1
      <4> QED
        BY <4>1, <4>2
    <3> QED
      BY <3>2, <3>3
  <2>2. CASE ~Commit(w)
    <3>1. mappings' = mappings /\ answers' = answers
      BY <1>2, <2>2, NoCommit
    <3> QED
      BY <3>1
  <2> QED
    BY <2>1, <2>2
<1> QED
  BY <1>1, <1>2 DEF Next

LEMMA LargestOf ==
  ASSUME NEW n \in Nat, NEW S \in SUBSET (1 .. n), S # {}
  PROVE  Max(S) \in S
<1> DEFINE below == {n - x : x \in S}
<1>1. below \in SUBSET Nat /\ below # {}
  <2>1. \A x \in S : n - x \in Nat
    OBVIOUS
  <2> QED
    BY <2>1
<1>2. PICK b \in below : \A c \in below : b <= c
  <2> HIDE DEF below
  <2> QED
    BY <1>1, SmallestOf
<1>3. PICK x \in S : b = n - x
  BY <1>2
<1>4. \A y \in S : x >= y
  <2> SUFFICES ASSUME NEW y \in S PROVE x >= y
    OBVIOUS
  <2>1. n - y \in below
    OBVIOUS
  <2>2. n - x <= n - y
    BY <1>2, <1>3, <2>1
  <2>3. x \in Nat /\ y \in Nat
    OBVIOUS
  <2> HIDE DEF below
  <2> QED
    BY ONLY <2>2, <2>3, n \in Nat
<1> QED
  BY <1>4 DEF Max

-----------------------------------------------------------------------------
LEMMA ReportingInit == ReversalInit => Reporting
<1> SUFFICES ASSUME ReversalInit PROVE Reporting
  OBVIOUS
<1> USE DEF ReversalInit, Init
<1>1. ReversalTypeOK
  BY DEF ReversalTypeOK, NoReport
<1>2. CursorOK /\ TableOK /\ ReportOK /\ SettledVerdicts /\ BetweenQueries
  BY DEF CursorOK, TableOK, ReportOK, Verdicts, NoReport, SettledVerdicts, BetweenQueries,
     WithTable
<1> QED
  BY <1>1, <1>2 DEF Reporting

\* A commit between two queries adds mappings and answers; it changes neither the
\* mapping chosen nor what the call has seen.
LEMMA VaultKeeps ==
  ASSUME Inductive, Reporting, [Next]_vars, UNCHANGED reversal
  PROVE  Reporting'
<1>1. /\ \A m \in DOMAIN mappings : m \in DOMAIN mappings' /\ mappings'[m] = mappings[m]
      /\ answers \subseteq answers'
  BY CommittedStays
<1>2. UNCHANGED <<stage, request, chosen, table, cursor, report, seen>>
  BY DEF reversal
<1>3. ReversalTypeOK' /\ CursorOK'
  BY <1>1, <1>2 DEF Reporting, ReversalTypeOK, CursorOK, IsRequest, Here
<1>4. TableOK'
  BY <1>1, <1>2 DEF Reporting, TableOK
<1>5. ReportOK'
  BY <1>2 DEF Reporting, ReportOK, Verdicts, EntriesFor, Here
<1>6. SettledVerdicts' /\ BetweenQueries'
  BY <1>2 DEF Reporting, SettledVerdicts, BetweenQueries, Here
<1> QED
  BY <1>3, <1>4, <1>5, <1>6 DEF Reporting

\* Until the table is read there is nothing to say.
LEMMA NothingYet ==
  ASSUME Reporting, stage \in {"idle", "find", "table"}
  PROVE  table = {} /\ cursor = 1 /\ report = NoReport
BY DEF Reporting, TableOK, WithTable

LEMMA NothingReported ==
  ASSUME report' = NoReport, stage' # "known", cursor' = 1
  PROVE  ReportOK' /\ SettledVerdicts' /\ BetweenQueries'
BY DEF ReportOK, SettledVerdicts, BetweenQueries, Verdicts, NoReport

LEMMA CallKeeps ==
  ASSUME Reporting, NEW r, IsRequest(r), CallWith(r), UNCHANGED vars
  PROVE  Reporting'
<1>1. /\ stage = "idle" /\ stage' \in {"find", "table"} /\ request' = r /\ seen' = answers
      /\ r.mapping = None => stage' = "find"
      /\ answers' = answers
      /\ UNCHANGED <<table, cursor, report>>
  BY DEF CallWith, vars
<1>2. table = {} /\ cursor = 1 /\ report = NoReport
  BY <1>1, NothingYet
<1>3. ReversalTypeOK' /\ CursorOK'
  BY <1>1, <1>2 DEF Reporting, ReversalTypeOK, CursorOK
<1>4. TableOK'
  BY <1>1, <1>2 DEF TableOK, WithTable
<1> QED
  BY <1>1, <1>2, <1>3, <1>4, NothingReported DEF Reporting

\* find_covering_mappings: the newest mapping that issued all of the text.
LEMMA FindKeeps ==
  ASSUME Inductive, Reporting, FindMapping, UNCHANGED vars
  PROVE  Reporting'
<1> DEFINE wanted == ExactIn(request.text)
<1>1. /\ stage = "find" /\ stage' \in {"uncovered", "table"}
      /\ stage' = "table" => Covering(wanted) # {} /\ chosen' = Max(Covering(wanted))
      /\ UNCHANGED <<request, table, cursor, report, seen>>
      /\ answers' = answers /\ mappings' = mappings
  BY DEF FindMapping, vars, vault
<1>2. table = {} /\ cursor = 1 /\ report = NoReport
  BY <1>1, NothingYet
<1>3. ASSUME stage' = "table"
      PROVE  chosen' \in DOMAIN mappings /\ wanted \subseteq Issued(mappings[chosen'])
  <2>1. mappings \in Seq(SUBSET Entry)
    BY DEF Inductive, TypeOK
  <2>2. /\ Len(mappings) \in Nat
        /\ Covering(wanted) \in SUBSET (1 .. Len(mappings)) /\ Covering(wanted) # {}
    BY <1>1, <1>3, <2>1 DEF Covering
  <2>3. chosen' \in Covering(wanted)
    BY <1>1, <1>3, <2>2, LargestOf
  <2> QED
    BY <2>3 DEF Covering, Covers
<1>4. ReversalTypeOK' /\ CursorOK'
  BY <1>1 DEF Reporting, ReversalTypeOK, CursorOK, Ended, IsRequest
<1>5. TableOK'
  BY <1>1, <1>2, <1>3 DEF TableOK, WithTable
<1> QED
  BY <1>1, <1>2, <1>4, <1>5, NothingReported DEF Reporting

LEMMA ReadTableKeeps ==
  ASSUME Inductive, Reporting, ReadTable, UNCHANGED vars
  PROVE  Reporting'
<1>1. /\ stage = "table" /\ stage' \in {"nomapping", "match"}
      /\ stage' = "match" => chosen \in DOMAIN mappings /\ table' = mappings[chosen]
      /\ stage' = "nomapping" => table' = table
      /\ UNCHANGED <<request, chosen, cursor, report, seen>>
      /\ answers' = answers /\ mappings' = mappings
  BY DEF ReadTable, RestoreTable, vars, vault
<1>2. table = {} /\ cursor = 1 /\ report = NoReport
  BY <1>1, NothingYet
<1>3. table' \subseteq Entry
  <2>1. mappings \in Seq(SUBSET Entry)
    BY DEF Inductive, TypeOK
  <2> QED
    BY <1>1, <1>2, <2>1
<1>4. ReversalTypeOK' /\ CursorOK'
  BY <1>1, <1>3 DEF Reporting, ReversalTypeOK, CursorOK, Ended, IsRequest
<1>5. TableOK'
  BY <1>1, <1>2 DEF Reporting, TableOK, WithTable
<1> QED
  BY <1>1, <1>2, <1>4, <1>5, NothingReported DEF Reporting

-----------------------------------------------------------------------------
(* A token is dealt with: found in the table, or given a verdict.          *)

LEMMA AdvanceFields ==
  ASSUME ReversalTypeOK, NEW class \in {"restored", "irreversible", "foreign", "unknown"},
         NEW found, Advance(class, found),
         class = "restored" => found \subseteq Entry,
         class # "restored" => found \subseteq Placeholder
  PROVE  /\ report' \in [restored : SUBSET Entry, recovered : SUBSET Entry,
                         irreversible : SUBSET Placeholder, foreign : SUBSET Placeholder,
                         unknown : SUBSET Placeholder]
         /\ report'.restored = report.restored \cup IF class = "restored" THEN found ELSE {}
         /\ report'.irreversible =
              report.irreversible \cup IF class = "irreversible" THEN found ELSE {}
         /\ report'.foreign = report.foreign \cup IF class = "foreign" THEN found ELSE {}
         /\ report'.unknown = report.unknown \cup IF class = "unknown" THEN found ELSE {}
         /\ report'.recovered = report.recovered
<1> USE DEF ReversalTypeOK
<1>1. CASE class = "restored"
  BY <1>1 DEF Advance
<1>2. CASE class = "irreversible"
  BY <1>2 DEF Advance
<1>3. CASE class = "foreign"
  BY <1>3 DEF Advance
<1>4. CASE class = "unknown"
  BY <1>4 DEF Advance
<1> QED
  BY <1>1, <1>2, <1>3, <1>4

LEMMA TokenAtHand ==
  ASSUME Reporting, stage \in {"match", "known"}, cursor <= Len(request.text)
  PROVE  /\ request.text \in Seq(Token) /\ cursor \in DOMAIN request.text
         /\ Here \in Token /\ Here.of \in Placeholder
         /\ Here.exact => Here.of \in ExactIn(request.text)
<1>1. request.text \in Seq(Token) /\ cursor \in Nat \ {0}
  BY DEF Reporting, ReversalTypeOK, IsRequest
<1>2. cursor \in DOMAIN request.text
  BY <1>1
<1>3. Here \in Token /\ Here = request.text[cursor]
  BY <1>1, <1>2 DEF Here
<1>4. Here.of \in Placeholder
  BY <1>3 DEF Token
<1>5. Here.exact => Here.of \in ExactIn(request.text)
  BY <1>2, <1>3 DEF ExactIn
<1> QED
  BY <1>1, <1>2, <1>3, <1>4, <1>5

LEMMA AdvanceKeeps ==
  ASSUME Reporting, stage \in {"match", "known"}, cursor <= Len(request.text),
         NEW class \in {"restored", "irreversible", "foreign", "unknown"}, NEW found,
         Advance(class, found), UNCHANGED <<request, chosen, table, seen>>, UNCHANGED vars,
         class = "restored" =>
           /\ found = IF Here.exact THEN EntriesFor(Here.of) ELSE {}
           /\ Here.exact => EntriesFor(Here.of) # {},
         class # "restored" => found = {Here.of} /\ Here.exact /\ EntriesFor(Here.of) = {}
  PROVE  ReversalTypeOK' /\ CursorOK' /\ TableOK' /\ ReportOK' /\ BetweenQueries'
<1>1. /\ request.text \in Seq(Token) /\ cursor \in DOMAIN request.text
      /\ Here.of \in Placeholder
      /\ Here.exact => Here.of \in ExactIn(request.text)
  BY TokenAtHand
<1>2. /\ ReversalTypeOK /\ CursorOK /\ TableOK /\ ReportOK
      /\ cursor \in Nat \ {0} /\ table \subseteq Entry
  BY DEF Reporting, ReversalTypeOK
<1>3. EntriesFor(Here.of) \subseteq table
  BY DEF EntriesFor
<1>4. /\ report' \in [restored : SUBSET Entry, recovered : SUBSET Entry,
                      irreversible : SUBSET Placeholder, foreign : SUBSET Placeholder,
                      unknown : SUBSET Placeholder]
      /\ report'.restored = report.restored \cup IF class = "restored" THEN found ELSE {}
      /\ report'.irreversible =
           report.irreversible \cup IF class = "irreversible" THEN found ELSE {}
      /\ report'.foreign = report.foreign \cup IF class = "foreign" THEN found ELSE {}
      /\ report'.unknown = report.unknown \cup IF class = "unknown" THEN found ELSE {}
      /\ report'.recovered = report.recovered
  BY <1>1, <1>2, <1>3, AdvanceFields
<1>5. /\ stage' = "match" /\ cursor' = cursor + 1
      /\ answers' = answers /\ mappings' = mappings
  BY DEF Advance, vars, vault
<1>6. ReversalTypeOK' /\ CursorOK'
  BY <1>2, <1>4, <1>5 DEF ReversalTypeOK, CursorOK, Ended, IsRequest
<1>7. TableOK'
  BY <1>2, <1>5 DEF TableOK, WithTable
<1>8. BetweenQueries'
  BY <1>5 DEF BetweenQueries
<1>9. ReportOK'
  <2>1. \A p : EntriesFor(p)' = EntriesFor(p)
    BY DEF EntriesFor
  <2>2. (report.restored \cup report.recovered \subseteq table)'
    BY <1>2, <1>3, <1>4 DEF ReportOK
  <2>3. /\ Verdicts' = Verdicts \cup IF class = "restored" THEN {} ELSE found
        /\ Verdicts \subseteq Verdicts' /\ report.restored \subseteq report'.restored
    BY <1>4 DEF Verdicts
  <2>4. \A p \in Verdicts' : p \in ExactIn(request.text) /\ EntriesFor(p) = {}
    BY <1>1, <1>2, <2>3 DEF ReportOK
  <2>5. ASSUME NEW j \in 1 .. cursor
        PROVE  LET token == request.text[j]
               IN  /\ j \in DOMAIN request.text
                   /\ token.exact =>
                        /\ EntriesFor(token.of) \subseteq report'.restored
                        /\ EntriesFor(token.of) = {} => token.of \in Verdicts'
    <3>1. CASE j = cursor
      <4>1. CASE class = "restored"
        BY <1>1, <1>4, <3>1, <4>1 DEF Here
      <4>2. CASE class # "restored"
        BY <1>1, <2>3, <3>1, <4>2 DEF Here
      <4> QED
        BY <4>1, <4>2
    <3>2. CASE j # cursor
      <4>1. j \in 1 .. (cursor - 1)
        BY <1>2, <3>2
      <4> QED
        BY <1>2, <2>3, <4>1 DEF ReportOK, WithTable
    <3> QED
      BY <3>1, <3>2
  <2>6. cursor' - 1 = cursor
    BY <1>2, <1>5
  <2> QED
    BY <1>5, <2>1, <2>2, <2>4, <2>5, <2>6 DEF ReportOK
<1> QED
  BY <1>6, <1>7, <1>8, <1>9

LEMMA RestoreKeeps ==
  ASSUME Reporting, Restore, UNCHANGED vars
  PROVE  Reporting'
<1> DEFINE found == IF Here.exact THEN EntriesFor(Here.of) ELSE {}
<1>1. /\ stage = "match" /\ cursor <= Len(request.text)
      /\ Here.exact => EntriesFor(Here.of) # {}
      /\ Advance("restored", found)
      /\ UNCHANGED <<request, chosen, table, seen>>
  BY DEF Restore, AtToken
<1>2. ReversalTypeOK' /\ CursorOK' /\ TableOK' /\ ReportOK' /\ BetweenQueries'
  BY <1>1, AdvanceKeeps
<1>3. /\ report'.irreversible = report.irreversible /\ report'.foreign = report.foreign
      /\ report'.unknown = report.unknown
  BY <1>1 DEF Reporting, ReversalTypeOK, Advance
<1>4. SettledVerdicts'
  BY <1>1, <1>3 DEF Reporting, SettledVerdicts
<1> QED
  BY <1>2, <1>4 DEF Reporting

\* What a caller was handed is committed, alone in its placeholder, and has a
\* spelling exactly when it was not digested.
LEMMA HandedIsSettled ==
  ASSUME Inductive, Answering, Reporting, NEW a \in seen, NEW i \in DOMAIN a.resolved
  PROVE  LET e == a.resolved[i].entity IN
           /\ e \in entities
           /\ \A d \in entities : PlaceholderOf(d) = PlaceholderOf(e) => d = e
           /\ e.digested <=> \A f \in forms : f.entity # e
<1> DEFINE e == a.resolved[i].entity
<1>1. a \in answers
  BY DEF Reporting, ReversalTypeOK
<1>2. e \in entities
  BY <1>1 DEF Inductive, AnswersOK
<1>3. \A d \in entities : PlaceholderOf(d) = PlaceholderOf(e) => d = e
  BY <1>2 DEF Inductive, OneName, PlaceholderOf
<1>4. ~e.digested => \E f \in forms : f.entity = e
  BY <1>1, AnsweredForm
<1>5. e.digested => \A f \in forms : f.entity # e
  BY DEF Inductive, FormsOK
<1> QED
  BY <1>2, <1>3, <1>4, <1>5

\* placeholder_is_irreversible: for what was handed out, it does not matter when
\* the question is asked.
LEMMA AskIrreversibleKeeps ==
  ASSUME Inductive, Answering, Reporting, AskIrreversible, UNCHANGED vars
  PROVE  Reporting'
<1>1. /\ stage = "match" /\ cursor <= Len(request.text)
      /\ Here.exact /\ EntriesFor(Here.of) = {}
      /\ UNCHANGED <<request, chosen, table, seen>>
      /\ answers' = answers /\ mappings' = mappings
  BY DEF AskIrreversible, AtToken, vars, vault
<1>2. CASE IsIrreversible(Here.of) /\ Advance("irreversible", {Here.of})
  <2>1. ReversalTypeOK' /\ CursorOK' /\ TableOK' /\ ReportOK' /\ BetweenQueries'
    BY <1>1, <1>2, AdvanceKeeps
  <2>2. /\ report'.irreversible = report.irreversible \cup {Here.of}
        /\ report'.foreign = report.foreign /\ report'.unknown = report.unknown
    BY <1>2 DEF Reporting, ReversalTypeOK, Advance
  <2>3. \A a \in seen : \A i \in DOMAIN a.resolved :
          PlaceholderOf(a.resolved[i].entity) = Here.of => a.resolved[i].entity.digested
    BY <1>2, HandedIsSettled DEF IsIrreversible
  <2>4. SettledVerdicts'
    BY <1>1, <2>2, <2>3 DEF Reporting, SettledVerdicts
  <2> QED
    BY <2>1, <2>4 DEF Reporting
<1>3. CASE ~IsIrreversible(Here.of) /\ stage' = "known" /\ UNCHANGED <<cursor, report>>
  <2>1. \A a \in seen : \A i \in DOMAIN a.resolved :
          PlaceholderOf(a.resolved[i].entity) = Here.of => ~a.resolved[i].entity.digested
    BY <1>3, HandedIsSettled DEF IsIrreversible
  <2>2. ReversalTypeOK' /\ CursorOK'
    BY <1>1, <1>3 DEF Reporting, ReversalTypeOK, CursorOK, IsRequest, Here
  <2>3. TableOK'
    BY <1>1, <1>3 DEF Reporting, TableOK, WithTable
  <2>4. ReportOK'
    <3>1. /\ \A p : EntriesFor(p)' = EntriesFor(p)
          /\ Here' = Here /\ Verdicts' = Verdicts
      BY <1>1, <1>3 DEF EntriesFor, Here, Verdicts
    <3> QED
      BY <1>1, <1>3, <3>1 DEF Reporting, ReportOK, WithTable
  <2>5. SettledVerdicts' /\ BetweenQueries'
    BY <1>1, <1>3, <2>1 DEF Reporting, SettledVerdicts, BetweenQueries, Here
  <2> QED
    BY <2>2, <2>3, <2>4, <2>5 DEF Reporting
<1> QED
  BY <1>2, <1>3 DEF AskIrreversible

\* placeholder_is_known.
LEMMA AskKnownKeeps ==
  ASSUME Inductive, Answering, Reporting, AskKnown, UNCHANGED vars
  PROVE  Reporting'
<1> DEFINE class == IF IsKnown(Here.of) THEN "foreign" ELSE "unknown"
<1>1. /\ stage = "known" /\ cursor <= Len(request.text)
      /\ Here.exact /\ EntriesFor(Here.of) = {}
      /\ Advance(class, {Here.of})
      /\ UNCHANGED <<request, chosen, table, seen>>
  BY DEF AskKnown, Reporting, CursorOK, ReportOK
<1>2. class \in {"foreign", "unknown"}
  OBVIOUS
<1>3. ReversalTypeOK' /\ CursorOK' /\ TableOK' /\ ReportOK' /\ BetweenQueries'
  <2> HIDE DEF class
  <2> QED
    BY <1>1, <1>2, AdvanceKeeps
<1>4. \A a \in seen : \A i \in DOMAIN a.resolved :
        PlaceholderOf(a.resolved[i].entity) = Here.of =>
          IsKnown(Here.of) /\ ~a.resolved[i].entity.digested
  BY <1>1, HandedIsSettled DEF IsKnown, Reporting, BetweenQueries
<1>5. CASE IsKnown(Here.of)
  <2>1. /\ report'.foreign = report.foreign \cup {Here.of}
        /\ report'.irreversible = report.irreversible /\ report'.unknown = report.unknown
    BY <1>1, <1>5 DEF Reporting, ReversalTypeOK, Advance
  <2>2. SettledVerdicts'
    BY <1>1, <1>4, <2>1 DEF Reporting, SettledVerdicts
  <2> QED
    BY <1>3, <2>2 DEF Reporting
<1>6. CASE ~IsKnown(Here.of)
  <2>1. /\ report'.unknown = report.unknown \cup {Here.of}
        /\ report'.irreversible = report.irreversible /\ report'.foreign = report.foreign
    BY <1>1, <1>6 DEF Reporting, ReversalTypeOK, Advance
  <2>2. SettledVerdicts'
    BY <1>1, <1>4, <1>6, <2>1 DEF Reporting, SettledVerdicts
  <2> QED
    BY <1>3, <2>2 DEF Reporting
<1> QED
  BY <1>5, <1>6

\* The tolerant pass looks for the table's own placeholders only.
LEMMA FinishKeeps ==
  ASSUME Reporting, Finish, UNCHANGED vars
  PROVE  Reporting'
<1>1. /\ stage = "match" /\ stage' \in {"done", "refused"} /\ cursor > Len(request.text)
      /\ UNCHANGED <<request, chosen, table, cursor, seen>>
      /\ answers' = answers /\ mappings' = mappings
  BY DEF Finish, vars, vault
<1>2. /\ report' \in [restored : SUBSET Entry, recovered : SUBSET Entry,
                      irreversible : SUBSET Placeholder, foreign : SUBSET Placeholder,
                      unknown : SUBSET Placeholder]
      /\ report'.restored = report.restored /\ report'.irreversible = report.irreversible
      /\ report'.foreign = report.foreign /\ report'.unknown = report.unknown
      /\ report'.recovered \subseteq table
  <2>1. table \subseteq Entry /\ Recovered \subseteq table
    BY DEF Reporting, ReversalTypeOK, Recovered
  <2> DEFINE recovered == IF request.fuzzy THEN Recovered ELSE {}
  <2>2. recovered \subseteq table
    BY <2>1
  <2>3. report' = [report EXCEPT !.recovered = recovered]
    BY DEF Finish
  <2> HIDE DEF recovered
  <2> QED
    BY <2>1, <2>2, <2>3 DEF Reporting, ReversalTypeOK
<1>3. ReversalTypeOK' /\ CursorOK'
  BY <1>1, <1>2 DEF Reporting, ReversalTypeOK, CursorOK, Ended, IsRequest
<1>4. TableOK' /\ BetweenQueries'
  BY <1>1 DEF Reporting, TableOK, WithTable, BetweenQueries
<1>5. ReportOK'
  <2>1. /\ \A p : EntriesFor(p)' = EntriesFor(p)
        /\ Verdicts' = Verdicts
    BY <1>1, <1>2 DEF EntriesFor, Verdicts
  <2> QED
    BY <1>1, <1>2, <2>1 DEF Reporting, ReportOK, WithTable
<1>6. SettledVerdicts'
  BY <1>1, <1>2 DEF Reporting, SettledVerdicts
<1> QED
  BY <1>3, <1>4, <1>5, <1>6 DEF Reporting

LEMMA ReversingKeeps ==
  ASSUME Inductive, Answering, Reporting, Reversing, UNCHANGED vars
  PROVE  Reporting'
BY FindKeeps, ReadTableKeeps, RestoreKeeps, AskIrreversibleKeeps, AskKnownKeeps,
   FinishKeeps DEF Reversing

-----------------------------------------------------------------------------
(* What follows in any state that keeps the three invariants.              *)

\* A token is found in the table or judged once the cursor is behind it.
LEMMA TokenDealtWith ==
  ASSUME Reporting, stage \in {"done", "refused"}, NEW p \in ExactIn(request.text)
  PROVE  /\ EntriesFor(p) \subseteq report.restored
         /\ EntriesFor(p) = {} <=> p \in Verdicts
<1>1. PICK j \in DOMAIN request.text : request.text[j].exact /\ request.text[j].of = p
  BY DEF ExactIn
<1>2. /\ request.text \in Seq(Token) /\ cursor \in Nat \ {0} /\ cursor > Len(request.text)
  BY DEF Reporting, ReversalTypeOK, CursorOK, IsRequest
<1>3. j \in 1 .. (cursor - 1)
  BY <1>2
<1> QED
  BY <1>1, <1>3 DEF Reporting, ReportOK, WithTable

LEMMA RoundTripFollows == Inductive /\ Answering /\ Reporting => RoundTrip
<1> SUFFICES ASSUME Inductive, Answering, Reporting, stage \in {"done", "refused"},
                    NEW a \in seen, a.mapping = chosen, NEW i \in DOMAIN a.resolved,
                    NEW e, e = a.resolved[i].entity,
                    PlaceholderOf(e) \in ExactIn(request.text)
             PROVE  /\ PlaceholderOf(e) \notin report.foreign \cup report.unknown
                    /\ IF e.digested
                         THEN PlaceholderOf(e) \in report.irreversible
                         ELSE \E x \in report.restored :
                                /\ x.entity = e
                                /\ x.restore.text = FirstSpelling(a.resolved, e)
  BY DEF RoundTrip
<1> DEFINE p == PlaceholderOf(e)
<1>1. a \in answers /\ chosen \in DOMAIN mappings /\ table = mappings[chosen]
  BY DEF Reporting, ReversalTypeOK, TableOK, WithTable
<1>2. EntriesFor(p) \subseteq report.restored /\ (EntriesFor(p) = {} <=> p \in Verdicts)
  BY TokenDealtWith
<1>3. /\ p \notin report.unknown
      /\ p \in report.foreign => ~e.digested
      /\ p \in report.irreversible => e.digested
  BY DEF Reporting, SettledVerdicts
<1>4. CASE e.digested
  <2>1. ASSUME NEW x \in EntriesFor(p) PROVE FALSE
    <3>1. x \in mappings[chosen] /\ PlaceholderOf(x.entity) = PlaceholderOf(e)
      BY <1>1, <2>1 DEF EntriesFor
    <3>2. /\ x.entity \in entities /\ x.restore \in forms /\ x.restore.entity = x.entity
      BY <1>1, <3>1 DEF Inductive, MappingsOK, EntriesResolve
    <3>3. x.entity = e
      BY <3>1, <3>2, HandedIsSettled
    <3> QED
      BY <1>4, <3>2, <3>3, HandedIsSettled
  <2>2. p \in Verdicts
    BY <1>2, <2>1
  <2> QED
    BY <1>3, <1>4, <2>2 DEF Verdicts
<1>5. CASE ~e.digested
  <2> DEFINE x == EntryOf([entity |-> e, text |-> FirstSpelling(a.resolved, e)])
  <2>1. x \in mappings[chosen]
    BY <1>1, <1>5 DEF Answering, AnswersRestorable, EntryOf
  <2>2. x.entity = e /\ x.restore.text = FirstSpelling(a.resolved, e)
    BY DEF EntryOf
  <2> HIDE DEF x
  <2>3. x \in EntriesFor(p)
    BY <1>1, <2>1, <2>2 DEF EntriesFor
  <2>4. p \notin Verdicts /\ x \in report.restored
    BY <1>2, <2>3
  <2> QED
    BY <1>5, <2>2, <2>4 DEF Verdicts
<1> QED
  BY <1>4, <1>5

LEMMA ScopedFollows == Answering /\ Reporting => ScopedToItsDocument
<1> SUFFICES ASSUME Answering, Reporting,
                    NEW x \in report.restored \cup report.recovered
             PROVE  \E a \in answers :
                      /\ a.mapping = chosen
                      /\ \/ PlaceholderOf(x.entity) \in a.batch.carried
                         \/ \E i \in DOMAIN a.resolved : a.resolved[i].entity = x.entity
  BY DEF ScopedToItsDocument
<1>1. x \in table
  BY DEF Reporting, ReportOK
<1>2. chosen \in DOMAIN mappings /\ table = mappings[chosen]
  BY <1>1 DEF Reporting, TableOK
<1> QED
  BY <1>1, <1>2 DEF Answering, MappingsAnswered

LEMMA FoundFollows == Reporting /\ Replying => FoundIsClean
<1> SUFFICES ASSUME Reporting, Replying, stage = "done", reply # None,
                    request.mapping = None
             PROVE  /\ Verdicts = {}
                    /\ ExactIn(request.text) \subseteq Issued(report.restored)
                    /\ ExactIn(request.text) \subseteq Issued(mappings[reply.mapping])
  BY DEF FoundIsClean, Verdicts
<1>1. /\ table = mappings[chosen] /\ reply.mapping = chosen
      /\ ExactIn(request.text) \subseteq Issued(mappings[chosen])
  BY DEF Reporting, TableOK, WithTable, Replying
<1>2. \A p \in ExactIn(request.text) : EntriesFor(p) # {}
  BY <1>1 DEF Issued, EntriesFor
<1>3. Verdicts = {}
  BY <1>2 DEF Reporting, ReportOK
<1>4. ASSUME NEW p \in ExactIn(request.text) PROVE p \in Issued(report.restored)
  <2>1. PICK x \in EntriesFor(p) : x \in report.restored
    BY <1>2, TokenDealtWith
  <2> QED
    BY <2>1 DEF EntriesFor, Issued
<1> QED
  BY <1>1, <1>3, <1>4

-----------------------------------------------------------------------------
(* engine.reverse on its own.                                              *)

LEMMA ReversalNextKeeps ==
  Inductive /\ Answering /\ Reporting /\ [ReversalNext]_<<vars, reversal>> => Reporting'
<1> SUFFICES ASSUME Inductive, Answering, Reporting, [ReversalNext]_<<vars, reversal>>
             PROVE  Reporting'
  OBVIOUS
<1>1. CASE [Next]_vars /\ UNCHANGED reversal
  BY <1>1, VaultKeeps
<1>2. CASE Call /\ UNCHANGED vars
  BY <1>2, RequestAssumption, CallKeeps DEF Call, IsRequest
<1>3. CASE Reversing /\ UNCHANGED vars
  BY <1>3, ReversingKeeps
<1> QED
  BY <1>1, <1>2, <1>3 DEF ReversalNext

\* The vault under a reversal is the vault: a call of reverse writes nothing.
LEMMA ReversalReadsOnly == ReversalSpec => Spec
<1>1. ReversalInit => Init
  BY DEF ReversalInit
<1>2. [ReversalNext]_<<vars, reversal>> => [Next]_vars
  BY DEF ReversalNext
<1> QED
  BY <1>1, <1>2, PTL DEF ReversalSpec, Spec

\* Whatever other batches commit between its queries, engine.reverse brings back a
\* document as it was written, puts back nothing of another document, and judges
\* a placeholder that was handed out alike whenever it asks.
THEOREM ReverseIsSafe ==
  ReversalSpec => [](RoundTrip /\ ScopedToItsDocument /\ SettledVerdicts)
<1>1. ReversalInit => Reporting
  BY ReportingInit
<1>2. Reporting => SettledVerdicts
  BY DEF Reporting
<1> QED
  BY <1>1, <1>2, ReversalReadsOnly, AnsweringHolds, ReversalNextKeeps, RoundTripFollows,
     ScopedFollows, PTL DEF ReversalSpec

-----------------------------------------------------------------------------
(* Behind the direct API.                                                  *)

LEMMA DirectReadsOnly == DirectSpec => Spec
<1>1. DirectInit => Init
  BY DEF DirectInit, ReversalInit
<1>2. [DirectNext]_<<vars, reversal, direct>> => [Next]_vars
  BY DEF DirectNext
<1> QED
  BY <1>1, <1>2, PTL DEF DirectSpec, Spec

LEMMA AskedIsRequest ==
  ASSUME NEW body \in Bodies, ~BadRequest(body)
  PROVE  IsRequest(Asked(body))
<1>1. body.object /\ KindOf(body, "text") \in {"string", "empty"}
  BY DEF BadRequest
<1> QED
  BY <1>1, BodyAssumption DEF Asked, IsRequest

LEMMA DirectInitHolds == DirectInit => Reporting /\ Replying
<1> SUFFICES ASSUME DirectInit PROVE Reporting /\ Replying
  OBVIOUS
<1>1. Reporting
  BY ReportingInit DEF DirectInit
<1>2. Replying
  BY DEF DirectInit, Replying
<1> QED
  BY <1>1, <1>2

LEMMA DirectNextKeeps ==
  Inductive /\ Answering /\ Reporting /\ Replying /\ [DirectNext]_<<vars, reversal, direct>>
    => (Reporting /\ Replying)'
<1> SUFFICES ASSUME Inductive, Answering, Reporting, Replying,
                    [DirectNext]_<<vars, reversal, direct>>
             PROVE  Reporting' /\ Replying'
  OBVIOUS
<1>1. CASE [Next]_vars /\ UNCHANGED <<reversal, direct>>
  <2>1. Reporting'
    BY <1>1, VaultKeeps
  <2> QED
    BY <1>1, <2>1 DEF Replying, reversal, direct
<1>2. CASE RefuseBody /\ UNCHANGED vars
  <2>1. UNCHANGED <<reversal, counts>> /\ stage = "idle"
    BY <1>2 DEF RefuseBody, Free
  <2>2. Reporting'
    BY <1>2, <2>1, VaultKeeps
  <2> QED
    BY <2>1, <2>2 DEF Replying, reversal
<1>3. CASE PostReverse /\ UNCHANGED vars
  <2>1. PICK body \in Bodies : ~BadRequest(body) /\ CallWith(Asked(body))
    BY <1>3 DEF PostReverse
  <2>2. Reporting'
    BY <1>3, <2>1, AskedIsRequest, CallKeeps
  <2>3. reply' = None /\ counts' = << >>
    BY <1>3 DEF PostReverse, Free, direct
  <2> QED
    BY <2>2, <2>3 DEF Replying
<1>4. CASE AnswerReverse /\ UNCHANGED vars
  <2>1. /\ UNCHANGED <<reversal, counts>> /\ stage \in Ended
        /\ stage = "done" => reply' = [status |-> 200, mapping |-> chosen, report |-> report]
    BY <1>4 DEF AnswerReverse
  <2>2. Reporting'
    BY <1>4, <2>1, VaultKeeps
  <2> QED
    BY <2>1, <2>2 DEF Replying, reversal
<1>5. CASE Count /\ UNCHANGED vars
  <2>1. stage = "idle"
    BY <1>5 DEF Count, Free, Replying
  <2>2. /\ seen' \in {seen, answers} /\ answers' = answers /\ mappings' = mappings
        /\ UNCHANGED <<stage, request, chosen, table, cursor, report>>
    BY <1>5 DEF Count, vars, vault
  <2>3. table = {} /\ cursor = 1 /\ report = NoReport
    BY <2>1, NothingYet
  <2>4. ReversalTypeOK' /\ CursorOK'
    BY <2>1, <2>2 DEF Reporting, ReversalTypeOK, CursorOK
  <2>5. TableOK'
    BY <2>1, <2>2, <2>3 DEF TableOK, WithTable
  <2>6. Reporting'
    BY <2>1, <2>2, <2>3, <2>4, <2>5, NothingReported DEF Reporting
  <2> QED
    BY <2>1, <2>2, <2>6 DEF Replying
<1>6. CASE Free /\ Call /\ UNCHANGED direct /\ UNCHANGED vars
  <2>1. Reporting'
    BY <1>6, RequestAssumption, CallKeeps DEF Call, IsRequest
  <2>2. reply' = None /\ counts' = << >>
    BY <1>6 DEF Free, direct
  <2> QED
    BY <2>1, <2>2 DEF Replying
<1>7. CASE Reversing /\ UNCHANGED direct /\ UNCHANGED vars
  <2>1. Reporting'
    BY <1>7, ReversingKeeps
  <2>2. stage \in {"find", "table", "match", "known"}
    BY <1>7 DEF Reversing, FindMapping, ReadTable, Restore, AskIrreversible, AskKnown,
       Finish, AtToken
  <2>3. reply' = None /\ counts' = << >>
    BY <1>7, <2>2 DEF Replying, direct, Ended
  <2> QED
    BY <2>1, <2>3 DEF Replying
<1> QED
  BY <1>1, <1>2, <1>3, <1>4, <1>5, <1>6, <1>7 DEF DirectNext

LEMMA DirectHolds == DirectSpec => [](Inductive /\ Answering /\ Reporting /\ Replying)
  BY DirectInitHolds, DirectNextKeeps, DirectReadsOnly, AnsweringHolds, PTL DEF DirectSpec

\* A document posted back under its own mapping comes back as it was written, in its
\* own spellings, whatever others commit meanwhile (engine.reverse, reverse_text).
THEOREM DocumentsComeBack == DirectSpec => []RoundTrip
  BY RoundTripFollows, DirectHolds, PTL

\* Neither a mapping of one's own nor a tolerant match reaches the value behind
\* another document's placeholder (restore_table, _fuzzy_restore).
THEOREM NothingOfOthers == DirectSpec => []ScopedToItsDocument
  BY ScopedFollows, DirectHolds, PTL

\* The two existence queries of reverse_text agree on all that was ever handed out,
\* whatever is committed between them.
THEOREM VerdictsSettled == DirectSpec => []SettledVerdicts
<1>1. Reporting => SettledVerdicts
  BY DEF Reporting
<1> QED
  BY <1>1, DirectHolds, PTL

\* A mapping that was looked up issued all of the text, and all of it is restored
\* (find_mapping_for).
THEOREM LookupIsComplete == DirectSpec => []FoundIsClean
  BY FoundFollows, DirectHolds, PTL

-----------------------------------------------------------------------------
(* GET /privaparse/vault: four counts of a vault that others write to.     *)

\* A statement writes one row, and a commit joins two finite sets of them.
LEMMA RowsStayFinite ==
  ASSUME FiniteRows, [Next]_vars
  PROVE  FiniteRows'
<1>1. \A S, T, x : IsFiniteSet(S) /\ IsFiniteSet(T) =>
                     IsFiniteSet(S \cup T) /\ IsFiniteSet(S \cup {x})
  BY FS_Union, FS_AddElement
<1>2. IsFiniteSet({})
  BY FS_EmptySet
<1>3. CASE UNCHANGED vars
  BY <1>3 DEF vars, vault, pending, FiniteRows
<1>4. ASSUME NEW w \in Worker, Begin(w) \/ Step(w) \/ Abort(w)
      PROVE  FiniteRows'
  <2>1. CASE InsertEntity(w) \/ InsertForm(w)
    <3>1. CASE InsertEntity(w)
      <4>1. /\ \/ newEntities' = newEntities \cup {cand[w]} /\ UNCHANGED entities
               \/ entities' = entities \cup {cand[w]} /\ UNCHANGED newEntities
            /\ UNCHANGED <<forms, newForms>>
        BY <3>1 DEF InsertEntity, StoreEntity
      <4> QED
        BY <1>1, <4>1 DEF FiniteRows
    <3>2. CASE InsertForm(w)
      <4>1. PICK f :
              /\ \/ newForms' = newForms \cup {f} /\ UNCHANGED forms
                 \/ forms' = forms \cup {f} /\ UNCHANGED newForms
                 \/ UNCHANGED <<forms, newForms>>
              /\ UNCHANGED <<entities, newEntities>>
        BY <3>2 DEF InsertForm, StoreForm
      <4> QED
        BY <1>1, <4>1 DEF FiniteRows
    <3> QED
      BY <2>1, <3>1, <3>2
  <2>2. CASE Commit(w)
    BY <1>1, <1>2, <2>2 DEF Commit, Close, FiniteRows, pending
  <2>3. CASE GiveUp(w) \/ Busy(w) \/ Abort(w)
    BY <1>2, <2>3 DEF GiveUp, Busy, Abort, Close, FiniteRows, pending, vault
  <2>4. CASE \/ Begin(w) \/ SkipBlank(w) \/ FindEntity(w) \/ ReadSuffix(w)
             \/ CollideEntity(w) \/ RefindEntity(w) \/ FindForm(w)
             \/ CreateMapping(w) \/ AdoptExisting(w)
    <3>1. UNCHANGED <<entities, forms, newEntities, newForms>>
      BY <2>4 DEF Begin, SkipBlank, FindEntity, ReadSuffix, CollideEntity, RefindEntity,
         FindForm, CreateMapping, AdoptExisting, vault, pending
    <3> QED
      BY <3>1 DEF FiniteRows
  <2> QED
    BY <1>4, <2>1, <2>2, <2>3, <2>4 DEF Step
<1> QED
  BY <1>3, <1>4 DEF Next

\* The rows counted by type can be told apart: as many as the rows there are.
LEMMA RowsOfTypes ==
  ASSUME NEW E, IsFiniteSet(E)
  PROVE  /\ \A t : IsFiniteSet(OfType(E, t)) /\ Cardinality(OfType(E, t)) \in Nat
         /\ Cardinality(RowsCounted(CountByType(E))) \in 0 .. Cardinality(E)
<1> DEFINE Of(t) == OfType(E, t)
           types == CountByType(E)
           kinds == {e.type : e \in E}
           rows == RowsCounted(types)
<1>1. \A t : /\ IsFiniteSet(Of(t)) /\ Cardinality(Of(t)) \in Nat
             /\ \E b : b \in Surjection(1 .. Cardinality(Of(t)), Of(t))
                       /\ b \in Injection(1 .. Cardinality(Of(t)), Of(t))
  <2> TAKE t
  <2>1. IsFiniteSet(Of(t))
    BY FS_Subset DEF OfType
  <2> HIDE DEF Of
  <2>2. Cardinality(Of(t)) \in Nat /\ ExistsBijection(1 .. Cardinality(Of(t)), Of(t))
    BY <2>1, FS_CardinalityType
  <2> QED
    BY <2>1, <2>2 DEF ExistsBijection, Bijection
<1> DEFINE Number(t) == CHOOSE b : b \in Surjection(1 .. Cardinality(Of(t)), Of(t))
                                   /\ b \in Injection(1 .. Cardinality(Of(t)), Of(t))
<1>2. ASSUME NEW t
      PROVE  /\ \A k \in 1 .. Cardinality(Of(t)) : Number(t)[k] \in Of(t)
             /\ \A k, l \in 1 .. Cardinality(Of(t)) : Number(t)[k] = Number(t)[l] => k = l
  <2>1. /\ Number(t) \in Surjection(1 .. Cardinality(Of(t)), Of(t))
        /\ Number(t) \in Injection(1 .. Cardinality(Of(t)), Of(t))
    BY <1>1
  <2> QED
    BY <2>1 DEF Injection, IsInjective
<1>3. ASSUME NEW x \in rows
      PROVE  /\ x = <<x[1], x[2]>>
             /\ x[1] \in kinds /\ x[2] \in 1 .. Cardinality(Of(x[1]))
  <2>1. PICK t \in DOMAIN types : x \in {t} \X (1 .. types[t])
    BY DEF RowsCounted
  <2>2. t \in kinds /\ types[t] = Cardinality(Of(t))
    BY DEF CountByType
  <2> HIDE DEF types, rows, Of, kinds
  <2> QED
    BY <2>1, <2>2
<1> DEFINE row == [x \in rows |-> Number(x[1])[x[2]]]
<1> HIDE DEF Number
<1>4. row \in Injection(rows, E)
  <2>1. ASSUME NEW x \in rows
        PROVE  row[x] \in E /\ row[x].type = x[1]
    <3>1. Number(x[1])[x[2]] \in Of(x[1])
      BY <1>2, <1>3
    <3> QED
      BY <3>1 DEF OfType
  <2>2. ASSUME NEW x \in rows, NEW y \in rows, row[x] = row[y]
        PROVE  x = y
    <3>1. x[1] = y[1]
      BY <2>1, <2>2
    <3>2. Number(x[1])[x[2]] = Number(x[1])[y[2]]
      BY <2>2, <3>1
    <3>3. x[2] = y[2]
      BY <1>2, <1>3, <3>1, <3>2
    <3> QED
      BY <1>3, <3>1, <3>3
  <2> HIDE DEF rows
  <2>3. row \in [rows -> E]
    BY <2>1
  <2> HIDE DEF row
  <2> QED
    BY <2>2, <2>3 DEF Injection, IsInjective
<1> QED
  <2>1. Cardinality(rows) \in 0 .. Cardinality(E)
    <3> HIDE DEF rows, row
    <3>1. IsFiniteSet(rows) /\ Cardinality(rows) <= Cardinality(E)
      BY <1>4, FS_Injection
    <3> QED
      BY <3>1, FS_CardinalityType
  <2> QED
    BY <1>1, <2>1

\* Between two counts the vault grows, and the call has seen what it had seen.
LEMMA CountedStays ==
  ASSUME Counting, entities \subseteq entities', counts' = counts,
         counts # << >> => seen' = seen, \E S : counts \in Seq(S)
  PROVE  Counting'
<1>1. CASE counts = << >>
  BY <1>1 DEF Counting
<1>2. CASE seen' = seen
  <2>1. Handed' = Handed
    BY <1>2 DEF Handed
  <2>2. ASSUME NEW E \in SUBSET entities
        PROVE  E \in SUBSET entities' /\ CountByType(E)' = CountByType(E)
    BY <2>2 DEF CountByType, OfType
  <2> QED
    BY <1>2, <2>1, <2>2 DEF Counting
<1> QED
  BY <1>1, <1>2

\* There are as many spellings as values handed out that can be restored.
LEMMA FormsOfHanded ==
  ASSUME Inductive, Answering, Reporting, FiniteRows
  PROVE  Cardinality({e \in Handed : ~e.digested}) <= Cardinality(forms)
<1> DEFINE reversible == {e \in Handed : ~e.digested}
           spelled == {f \in forms : f.entity \in reversible}
           owner == [f \in spelled |-> f.entity]
<1>1. \A e \in reversible : \E f \in spelled : owner[f] = e
  <2> TAKE e \in reversible
  <2>1. PICK a \in seen : \E i \in DOMAIN a.resolved : e = a.resolved[i].entity
    BY DEF Handed
  <2>2. PICK f \in forms : f.entity = e
    BY <2>1, HandedIsSettled
  <2> QED
    BY <2>2
<1>2. owner \in Surjection(spelled, reversible)
  <2> HIDE DEF reversible
  <2>1. owner \in [spelled -> reversible]
    OBVIOUS
  <2> HIDE DEF spelled, owner
  <2> QED
    BY <1>1, <2>1 DEF Surjection
<1>3. /\ IsFiniteSet(forms) /\ spelled \in SUBSET forms
      /\ IsFiniteSet(spelled) /\ Cardinality(spelled) <= Cardinality(forms)
  <2>1. IsFiniteSet(forms) /\ spelled \in SUBSET forms
    BY DEF FiniteRows
  <2> HIDE DEF spelled
  <2> QED
    BY <2>1, FS_Subset
<1> HIDE DEF reversible, spelled, owner
<1>4. /\ IsFiniteSet(reversible) /\ Cardinality(reversible) <= Cardinality(spelled)
  BY <1>2, <1>3, FS_Surjection
<1>5. /\ Cardinality(reversible) \in Nat /\ Cardinality(spelled) \in Nat
      /\ Cardinality(forms) \in Nat
  BY <1>3, <1>4, FS_CardinalityType
<1>6. Cardinality(reversible) <= Cardinality(forms)
  BY <1>3, <1>4, <1>5
<1> QED
  BY <1>6 DEF reversible

\* Each query counts at least what the one before it had seen.
LEMMA CountKeeps ==
  ASSUME Inductive, Answering, Reporting, FiniteRows, Counting,
         NEW S, counts \in Seq(S), Count, UNCHANGED vars
  PROVE  Counting' /\ \E T : counts' \in Seq(T)
<1> DEFINE n == Len(counts)
           figure == Result(Queries[n + 1])
<1>1. /\ counts = << >> \/ n \in 1 .. 3
      /\ counts' = Append(counts, figure)
      /\ seen' = IF counts = << >> THEN answers ELSE seen
      /\ entities' = entities
  BY DEF Count, Free, vars, vault
<1>2. n \in 0 .. 3 /\ (n = 0 <=> counts = << >>)
  BY <1>1, EmptySeq
<1>3. /\ counts' \in Seq(S \cup {figure}) /\ Len(counts') = n + 1
      /\ counts'[n + 1] = figure /\ \A i \in 1 .. n : counts'[i] = counts[i]
  <2>1. counts \in Seq(S \cup {figure}) /\ figure \in S \cup {figure}
    OBVIOUS
  <2> HIDE DEF figure
  <2> QED
    BY <1>1, <2>1, AppendProperties
<1>4. \A E : CountByType(E)' = CountByType(E)
  BY DEF CountByType, OfType
<1>5. IsFiniteSet(entities) /\ Cardinality(entities) \in Nat
  BY FS_CardinalityType DEF FiniteRows
<1>6. CASE n = 0
  <2>1. figure = CountByType(entities) /\ Len(counts') = 1 /\ counts'[1] = figure
    BY <1>3, <1>6 DEF Result, Queries
  <2>2. Handed' \subseteq entities
    BY <1>1, <1>2, <1>6 DEF Handed, Inductive, AnswersOK
  <2> QED
    BY <1>1, <1>3, <1>4, <2>1, <2>2 DEF Counting
<1>7. ASSUME n \in 1 .. 3
      PROVE  /\ seen' = seen /\ Handed' = Handed /\ Len(counts') = n + 1
             /\ \A i \in 1 .. n : counts'[i] = counts[i]
             /\ counts'[n + 1] = figure
  <2>1. seen' = seen
    BY <1>1, <1>2, <1>7
  <2> QED
    BY <1>3, <2>1 DEF Handed
<1>8. CASE n = 1
  <2>1. figure = Cardinality(entities)
    BY <1>8 DEF Result, Queries
  <2>2. PICK E \in SUBSET entities : Handed \subseteq E /\ counts[1] = CountByType(E)
    BY <1>8 DEF Counting
  <2>3. Cardinality(E) <= Cardinality(entities)
    BY <1>5, FS_Subset
  <2>4. /\ Len(counts') = 2 /\ counts'[1] = counts[1] /\ counts'[2] = figure
        /\ Handed' = Handed
    BY <1>7, <1>8
  <2> HIDE DEF figure
  <2> QED
    BY <1>1, <1>3, <1>4, <1>5, <2>1, <2>2, <2>3, <2>4 DEF Counting
<1>9. CASE n = 2
  <2>1. figure = Cardinality(forms)
    BY <1>9 DEF Result, Queries
  <2>2. Cardinality({e \in Handed : ~e.digested}) <= Cardinality(forms)
    BY FormsOfHanded
  <2>3. /\ Len(counts') = 3 /\ counts'[1] = counts[1] /\ counts'[2] = counts[2]
        /\ counts'[3] = figure /\ Handed' = Handed
    BY <1>7, <1>9
  <2>4. PICK E \in SUBSET entities :
          /\ Handed \subseteq E /\ counts[1] = CountByType(E)
          /\ counts[2] \in Nat /\ Cardinality(E) <= counts[2]
    BY <1>9 DEF Counting
  <2> HIDE DEF figure
  <2> QED
    BY <1>1, <1>3, <1>4, <2>1, <2>2, <2>3, <2>4 DEF Counting
<1>10. CASE n = 3
  <2>1. figure = Len(mappings)
    BY <1>10 DEF Result, Queries
  <2>2. \A a \in seen : a.mapping <= Len(mappings)
    <3>1. mappings \in Seq(SUBSET Entry) /\ seen \subseteq answers
      BY DEF Inductive, TypeOK, Reporting, ReversalTypeOK
    <3> QED
      BY <3>1 DEF Answering, MappingsAnswered
  <2>3. /\ Len(counts') = 4 /\ counts'[1] = counts[1] /\ counts'[2] = counts[2]
        /\ counts'[3] = counts[3] /\ counts'[4] = figure /\ Handed' = Handed /\ seen' = seen
    BY <1>7, <1>10
  <2>4. PICK E \in SUBSET entities :
          /\ Handed \subseteq E /\ counts[1] = CountByType(E)
          /\ counts[2] \in Nat /\ Cardinality(E) <= counts[2]
    BY <1>10 DEF Counting
  <2>5. Cardinality({e \in Handed : ~e.digested}) <= counts[3]
    BY <1>10 DEF Counting
  <2> HIDE DEF figure
  <2> QED
    BY <1>1, <1>3, <1>4, <2>1, <2>2, <2>3, <2>4, <2>5 DEF Counting
<1> QED
  BY <1>2, <1>3, <1>6, <1>8, <1>9, <1>10

LEMMA CountingFollows ==
  ASSUME FiniteRows, Counting
  PROVE  CountsAgree
<1> SUFFICES ASSUME Len(counts) = 4
             PROVE  /\ Cardinality(RowsCounted(counts[1])) <= counts[2]
                    /\ \A e \in Handed : Cardinality(OfType(Handed, e.type)) <= counts[1][e.type]
                    /\ Cardinality({e \in Handed : ~e.digested}) <= counts[3]
                    /\ \A a \in seen : a.mapping <= counts[4]
  <2>1. /\ (CHOOSE i \in 1 .. 4 : Queries[i] = "types") = 1
        /\ (CHOOSE i \in 1 .. 4 : Queries[i] = "entities") = 2
        /\ (CHOOSE i \in 1 .. 4 : Queries[i] = "forms") = 3
        /\ (CHOOSE i \in 1 .. 4 : Queries[i] = "mappings") = 4
    BY DEF Queries
  <2> QED
    BY <2>1 DEF CountsAgree
<1>1. PICK E \in SUBSET entities :
        /\ Handed \subseteq E /\ counts[1] = CountByType(E)
        /\ counts[2] \in Nat /\ Cardinality(E) <= counts[2]
  BY DEF Counting
<1>2. IsFiniteSet(E) /\ Cardinality(E) \in Nat
  BY FS_Subset, FS_CardinalityType DEF FiniteRows
<1>3. /\ \A t : IsFiniteSet(OfType(E, t)) /\ Cardinality(OfType(E, t)) \in Nat
      /\ Cardinality(RowsCounted(CountByType(E))) \in 0 .. Cardinality(E)
  BY <1>2, RowsOfTypes
<1>4. Cardinality(RowsCounted(counts[1])) <= counts[2]
  BY <1>1, <1>2, <1>3
<1>5. ASSUME NEW e \in Handed
      PROVE  Cardinality(OfType(Handed, e.type)) <= counts[1][e.type]
  <2>1. counts[1][e.type] = Cardinality(OfType(E, e.type))
    BY <1>1 DEF CountByType
  <2>2. OfType(Handed, e.type) \in SUBSET OfType(E, e.type)
    BY <1>1 DEF OfType
  <2> QED
    BY <1>3, <2>1, <2>2, FS_Subset
<1> QED
  BY <1>4, <1>5 DEF Counting

\* A call of the direct API does nothing else between its four queries.
LEMMA DirectCounts ==
  ASSUME Inductive, Answering, Reporting, Replying, FiniteRows, Counting,
         NEW S, counts \in Seq(S), [DirectNext]_<<vars, reversal, direct>>
  PROVE  FiniteRows' /\ Counting' /\ \E T : counts' \in Seq(T)
<1>1. [Next]_vars
  BY DEF DirectNext
<1>2. FiniteRows'
  BY <1>1, RowsStayFinite
<1>3. entities \subseteq entities'
  <2>1. CASE UNCHANGED vars
    BY <2>1 DEF vars, vault
  <2>2. ASSUME NEW w \in Worker, Begin(w) \/ Step(w) \/ Abort(w)
        PROVE  entities \subseteq entities'
    BY <2>2, StepCommits DEF Recorded
  <2> QED
    BY <1>1, <2>1, <2>2 DEF Next
<1>4. CASE Count /\ UNCHANGED vars
  BY <1>2, <1>4, CountKeeps
<1>5. CASE ~(Count /\ UNCHANGED vars)
  <2>1. counts' = counts /\ (counts # << >> => seen' = seen)
    <3>1. CASE PostReverse
      BY <3>1 DEF PostReverse, Free, direct
    <3>2. CASE RefuseBody \/ AnswerReverse
      BY <3>2 DEF RefuseBody, AnswerReverse, reversal
    <3>3. CASE Free /\ Call /\ UNCHANGED direct
      BY <3>3 DEF Free, direct
    <3>4. CASE Reversing /\ UNCHANGED direct
      BY <3>4 DEF Reversing, FindMapping, ReadTable, Restore, AskIrreversible, AskKnown,
         Finish, direct
    <3>5. CASE UNCHANGED <<reversal, direct>>
      BY <3>5 DEF reversal, direct
    <3> QED
      BY <1>5, <3>1, <3>2, <3>3, <3>4, <3>5 DEF DirectNext
  <2> QED
    BY <1>2, <1>3, <2>1, CountedStays
<1> QED
  BY <1>4, <1>5

\* While others commit between the four queries of stats, no type is counted more
\* often than the total says, and all that was handed out before is counted.
THEOREM TotalsAgree == DirectSpec => []CountsAgree
<1> DEFINE Counted == FiniteRows /\ Counting /\ \E S : counts \in Seq(S)
<1>1. DirectInit => Counted
  <2> SUFFICES ASSUME DirectInit PROVE Counted
    OBVIOUS
  <2>1. counts = << >> /\ entities = {} /\ newEntities = {} /\ forms = {} /\ newForms = {}
    BY DEF DirectInit, ReversalInit, Init
  <2> QED
    BY <2>1, FS_EmptySet DEF FiniteRows, Counting
<1>2. Inductive /\ Answering /\ Reporting /\ Replying /\ Counted
        /\ [DirectNext]_<<vars, reversal, direct>> => Counted'
  <2> SUFFICES ASSUME Inductive, Answering, Reporting, Replying, Counted,
                      [DirectNext]_<<vars, reversal, direct>>
               PROVE  Counted'
    OBVIOUS
  <2>1. PICK S : counts \in Seq(S)
    OBVIOUS
  <2> QED
    BY <2>1, DirectCounts
<1>3. Counted => CountsAgree
  BY CountingFollows
<1> QED
  BY <1>1, <1>2, <1>3, DirectHolds, PTL DEF DirectSpec
=============================================================================
