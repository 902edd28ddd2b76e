------------------------------- MODULE Startup -------------------------------
(***************************************************************************)
(* The first calls in a cold process: threads that all find nothing        *)
(* loaded.  A call of pseudonymize_batch imports the pseudonymizer, asks   *)
(* the engine for its detector (engine.py: built once, under a lock, on    *)
(* first use) and looks names up in the registry (parser/registry.py:      *)
(* filled by importing the modules that register into it, under a second   *)
(* lock).  The builder looks names up too, when it loads the catalogue and *)
(* holds the first lock, and so does a thread that only loads a catalogue. *)
(* Python holds a lock per module while its body runs: three kinds of      *)
(* locks, one taken inside another.                                        *)
(*                                                                         *)
(* A module's registrations appear when its body has run; its imports come *)
(* first.  No module body asks the registry for anything, so the reentry   *)
(* the registry's lock allows does not occur.                              *)
(***************************************************************************)
EXTENDS Naturals, Sequences

CONSTANTS
  Thread,
  None,       \* no thread
  Module,     \* modules that register into the tables
  Deps,       \* what each imports, of those
  Imported,   \* the one the pseudonymizer imports on its way
  Gliner      \* may the model be missing, so that building it fails?

ASSUME NoThread == None \notin Thread
ASSUME Modules == Deps \in [Module -> SUBSET Module] /\ Imported \in Module
ASSUME Locks == {"detector", "registry"} \cap Module = {}
ASSUME GlinerMissing == Gliner \in BOOLEAN

Lock == {"detector", "registry"} \cup Module

VARIABLES
  pc,        \* where each thread is
  owner,     \* who holds each lock
  stack,     \* modules each thread is in the middle of importing
  imported,  \* sys.modules, those whose body has run
  table,     \* whose registrations the tables hold
  loaded,    \* registry._loaded
  catalogue, \* is settings._catalogue there?
  detector   \* engine._detector: None, or who built it

vars == <<pc, owner, stack, imported, table, loaded, catalogue, detector>>

Ended == {"done", "failed"}

Init ==
  /\ pc = [t \in Thread |-> "idle"]
  /\ owner = [l \in Lock |-> None]
  /\ stack = [t \in Thread |-> << >>]
  /\ imported = {} /\ table = {} /\ loaded = FALSE
  /\ catalogue = FALSE /\ detector = None

Goto(t, label) == pc' = [pc EXCEPT ![t] = label]
Take(t, l) == owner[l] = None /\ owner' = [owner EXCEPT ![l] = t]
Give(l) == owner' = [owner EXCEPT ![l] = None]

-----------------------------------------------------------------------------
(* Importing.                                                              *)

Wanted(t) == IF pc[t] = "import" THEN {Imported} ELSE Module
Importing(t) == pc[t] \in {"import", "load"}

\* The next module to import: an import of the one at hand, or one of those
\* wanted.  Its lock is taken, or waited for.
Open(t) ==
  /\ Importing(t)
  /\ \E m \in (IF stack[t] = << >> THEN Wanted(t) ELSE Deps[Head(stack[t])]) \ imported :
       /\ Take(t, m)
       /\ stack' = [stack EXCEPT ![t] = <<m>> \o @]
  /\ UNCHANGED <<pc, imported, table, loaded, catalogue, detector>>

\* Its body runs: the registrations.
RunBody(t) ==
  /\ Importing(t) /\ stack[t] # << >>
  /\ Deps[Head(stack[t])] \subseteq imported
  /\ imported' = imported \cup {Head(stack[t])}
  /\ table' = table \cup {Head(stack[t])}
  /\ Give(Head(stack[t]))
  /\ stack' = [stack EXCEPT ![t] = Tail(@)]
  /\ UNCHANGED <<pc, loaded, catalogue, detector>>

Unchanged == UNCHANGED <<stack, imported, table>>

\* pseudonymize_batch, or a catalogue loaded on its own.
Begin(t) ==
  /\ pc[t] \in {"idle"} \cup Ended
  /\ \E label \in {"import", "flag"} : Goto(t, label)
  /\ Unchanged /\ UNCHANGED <<owner, loaded, catalogue, detector>>

HaveImported(t) ==
  /\ pc[t] = "import" /\ stack[t] = << >> /\ Imported \in imported
  /\ Goto(t, "detector")
  /\ Unchanged /\ UNCHANGED <<owner, loaded, catalogue, detector>>

-----------------------------------------------------------------------------
(* engine.detector.                                                        *)

CheckDetector(t) ==
  /\ pc[t] = "detector"
  /\ Goto(t, IF detector = None THEN "lock" ELSE "flag")
  /\ Unchanged /\ UNCHANGED <<owner, loaded, catalogue, detector>>

LockDetector(t) ==
  /\ pc[t] = "lock"
  /\ Take(t, "detector")
  /\ Goto(t, "recheck")
  /\ Unchanged /\ UNCHANGED <<loaded, catalogue, detector>>

MutantNoSecondCheck(t) ==
  /\ pc[t] = "recheck"
  /\ Goto(t, "schema")
  /\ Unchanged /\ UNCHANGED <<owner, loaded, catalogue, detector>>

RecheckDetector(t) ==
  /\ pc[t] = "recheck"
  /\ \/ /\ detector = None
        /\ Goto(t, "schema")
        /\ UNCHANGED owner
     \/ /\ detector # None
        /\ Goto(t, "flag")
        /\ Give("detector")
  /\ Unchanged /\ UNCHANGED <<loaded, catalogue, detector>>

\* Every builder begins with settings.catalogue, which is loaded once: loading
\* looks names up, and the lock stays held meanwhile.
NeedCatalogue(t) ==
  /\ pc[t] = "schema"
  /\ Goto(t, IF catalogue THEN "build" ELSE "flag")
  /\ Unchanged /\ UNCHANGED <<owner, loaded, catalogue, detector>>

BuildDetector(t) ==
  /\ pc[t] = "build"
  /\ detector' = t
  /\ Give("detector")
  /\ Goto(t, "flag")
  /\ Unchanged /\ UNCHANGED <<loaded, catalogue>>

MutantFailureKeepsLock(t) ==
  /\ pc[t] = "build" /\ Gliner
  /\ Goto(t, "failed")
  /\ Unchanged /\ UNCHANGED <<owner, loaded, catalogue, detector>>

\* GlinerUnavailableError: the call answers that detection is unavailable, and
\* the next one tries again.
FailToBuild(t) ==
  /\ pc[t] = "build" /\ Gliner
  /\ Give("detector")
  /\ Goto(t, "failed")
  /\ Unchanged /\ UNCHANGED <<loaded, catalogue, detector>>

-----------------------------------------------------------------------------
(* registry.get_...: load_builtins, then the table.                        *)

CheckLoaded(t) ==
  /\ pc[t] = "flag"
  /\ Goto(t, IF loaded THEN "read" ELSE "enter")
  /\ Unchanged /\ UNCHANGED <<owner, loaded, catalogue, detector>>

EnterRegistry(t) ==
  /\ pc[t] = "enter"
  /\ Take(t, "registry")
  /\ Goto(t, "again")
  /\ Unchanged /\ UNCHANGED <<loaded, catalogue, detector>>

MutantFlagBeforeImport(t) ==
  /\ pc[t] = "again"
  /\ \/ /\ ~loaded /\ loaded' = TRUE
        /\ Goto(t, "load") /\ UNCHANGED owner
     \/ /\ loaded /\ UNCHANGED loaded
        /\ Goto(t, "read") /\ Give("registry")
  /\ Unchanged /\ UNCHANGED <<catalogue, detector>>

RecheckLoaded(t) ==
  /\ pc[t] = "again"
  /\ \/ ~loaded /\ Goto(t, "load") /\ UNCHANGED owner
     \/ loaded /\ Goto(t, "read") /\ Give("registry")
  /\ Unchanged /\ UNCHANGED <<loaded, catalogue, detector>>

\* The flag is set after the imports.
HaveLoaded(t) ==
  /\ pc[t] = "load" /\ stack[t] = << >> /\ Module \subseteq imported
  /\ loaded' = TRUE
  /\ Give("registry")
  /\ Goto(t, "read")
  /\ Unchanged /\ UNCHANGED <<catalogue, detector>>

\* The names looked up are the detection's, or those of the builder's catalogue.
Read(t) ==
  /\ pc[t] = "read"
  /\ \/ /\ owner["detector"] = t
        /\ catalogue' = TRUE
        /\ Goto(t, "build")
     \/ /\ owner["detector"] # t
        /\ UNCHANGED catalogue
        /\ Goto(t, "done")
  /\ Unchanged /\ UNCHANGED <<owner, loaded, detector>>

-----------------------------------------------------------------------------
Step(t) ==
  \/ Open(t) \/ RunBody(t) \/ HaveImported(t)
  \/ CheckDetector(t) \/ LockDetector(t) \/ RecheckDetector(t)
  \/ NeedCatalogue(t) \/ BuildDetector(t) \/ FailToBuild(t)
  \/ CheckLoaded(t) \/ EnterRegistry(t) \/ RecheckLoaded(t) \/ HaveLoaded(t) \/ Read(t)

Next == \E t \in Thread : Begin(t) \/ Step(t)

Spec == Init /\ [][Next]_vars

\* A thread that can go on is scheduled; a lock that is given up again and again
\* is some day given to whoever waits for it.
FairSpec == Spec /\ \A t \in Thread : SF_vars(Step(t))

-----------------------------------------------------------------------------
TypeOK ==
  /\ pc \in [Thread -> {"idle", "import", "detector", "lock", "recheck", "schema", "build",
                        "flag", "enter", "again", "load", "read"} \cup Ended]
  /\ owner \in [Lock -> Thread \cup {None}]
  /\ stack \in [Thread -> Seq(Module)]
  /\ imported \in SUBSET Module /\ table \in SUBSET Module
  /\ loaded \in BOOLEAN /\ catalogue \in BOOLEAN /\ detector \in Thread \cup {None}

\* No thread ever looks a name up in a table that is empty or half filled, though
\* the modules are being imported by another thread, through the registry or
\* around it.
WholeTable == \A t \in Thread : pc[t] = "read" => table = Module

\* The model is loaded by one thread at a time, and never once it is there: it
\* is in memory once.
OneModel ==
  \A t, u \in Thread :
    pc[t] = "build" => detector = None /\ (pc[u] = "build" => u = t)

\* The detector, the registry and the modules are locked in an order that lets
\* every call end.
CallsEnd == \A t \in Thread : (pc[t] \notin {"idle"} \cup Ended) ~> (pc[t] \in Ended)
=============================================================================
