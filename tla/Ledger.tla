------------------------------- MODULE Ledger -------------------------------
(***************************************************************************)
(* What the vault promises its users (database/models.py): a name, once    *)
(* given to a value, is that value's name for good and nobody else's; and  *)
(* a mapping, once published, never changes and names only what the ledger *)
(* holds.  Vault.tla implements it with SQLite rows.                       *)
(***************************************************************************)
EXTENDS Integers, Sequences

VARIABLES
  names,     \* records with a field "index" and the value's fields
  archives   \* mappings in publication order: sets of [entity, restore]

ledger == <<names, archives>>

ValueOf(n) == <<n.type, n.value, n.digested>>

OneToOne(N) ==
  \A m, n \in N : m.index = n.index \/ ValueOf(m) = ValueOf(n) => m = n

WellFormed(a, N) ==
  \A x \in a : /\ x.entity \in N
               /\ x.restore.entity = x.entity
               /\ \A y \in a : y.entity = x.entity => y = x

Init == names = {} /\ archives = << >>

Extend == names \subseteq names' /\ OneToOne(names')

Register == Extend /\ UNCHANGED archives

Publish ==
  /\ Extend
  /\ Len(archives') = Len(archives) + 1
  /\ archives' = Append(archives, archives'[Len(archives')])
  /\ WellFormed(archives'[Len(archives')], names')

Next == Register \/ Publish

Spec == Init /\ [][Next]_ledger
=============================================================================
