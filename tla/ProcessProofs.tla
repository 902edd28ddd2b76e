--------------------------- MODULE ProcessProofs ---------------------------
(***************************************************************************)
(* What the threads of one process share besides the vault, for any number *)
(* of threads.  The first calls of a cold process: the tables are whole    *)
(* when they are read, however the modules import each other, and the      *)
(* model is in memory once.  The log filter: no value that was registered  *)
(* when a scrub began is in the line that is written, and the bound of the *)
(* registry forgets the oldest values only.                                *)
(***************************************************************************)
EXTENDS Startup, SecretLog, FiniteSetTheorems, WellFoundedInduction, TLAPS

\* The flag of the registry is a promise about the imports; a thread reads the
\* tables only behind the flag.
FlagOK ==
  /\ imported \subseteq table
  /\ loaded => Module \subseteq imported
  /\ \A t \in Thread : pc[t] = "read" => loaded

\* Who may hold the detector's lock, and what its holder knows.
WithDetectorLock ==
  {"recheck", "schema", "build", "flag", "enter", "again", "load", "read"}
LockOK ==
  \A t \in Thread :
    /\ pc[t] \in {"recheck", "schema", "build"} => owner["detector"] = t
    /\ owner["detector"] = t =>
         pc[t] \in WithDetectorLock /\ (pc[t] # "recheck" => detector = None)

IInv == TypeOK /\ FlagOK /\ LockOK

\* Nothing is loaded at the start.
LEMMA InitIInv == Init => IInv
<1> SUFFICES ASSUME Init PROVE IInv
  OBVIOUS
<1> USE DEF Init
<1>1. TypeOK
  <2>1. << >> \in Seq(Module)
    OBVIOUS
  <2> QED
    BY <2>1 DEF TypeOK, Ended
<1>2. FlagOK
  BY DEF FlagOK
<1>3. LockOK
  <2>1. owner["detector"] = None
    BY DEF Lock
  <2> QED
    BY <2>1, NoThread DEF LockOK
<1> QED
  BY <1>1, <1>2, <1>3 DEF IInv

\* Every step leaves the state well typed.
LEMMA TypeStep == TypeOK /\ [Next]_vars => TypeOK'
<1> SUFFICES ASSUME TypeOK, [Next]_vars PROVE TypeOK'
  OBVIOUS
<1> USE NoThread DEF TypeOK, Lock, Ended, Goto, Take, Give, Unchanged
<1>1. ASSUME NEW t \in Thread, Open(t) PROVE TypeOK'
  <2>1. PICK m \in (IF stack[t] = << >> THEN Wanted(t) ELSE Deps[Head(stack[t])]) \ imported :
          Take(t, m) /\ stack' = [stack EXCEPT ![t] = <<m>> \o @]
    BY <1>1 DEF Open
  <2>2. m \in Module
    BY <2>1, Modules DEF Wanted
  <2>3. <<m>> \o stack[t] \in Seq(Module)
    BY <2>2
  <2> QED
    BY <1>1, <2>1, <2>2, <2>3 DEF Open
<1>2. ASSUME NEW t \in Thread, RunBody(t) PROVE TypeOK'
  <2>1. Head(stack[t]) \in Module /\ Tail(stack[t]) \in Seq(Module)
    BY <1>2 DEF RunBody
  <2> QED
    BY <1>2, <2>1 DEF RunBody
<1>3. ASSUME NEW t \in Thread,
             Begin(t) \/ HaveImported(t) \/ CheckDetector(t) \/ NeedCatalogue(t) \/ CheckLoaded(t)
      PROVE  TypeOK'
  BY <1>3 DEF Begin, HaveImported, CheckDetector, NeedCatalogue, CheckLoaded
<1>4. ASSUME NEW t \in Thread,
             LockDetector(t) \/ RecheckDetector(t) \/ BuildDetector(t) \/ FailToBuild(t)
      PROVE  TypeOK'
  <2>1. owner' \in [Lock -> Thread \cup {None}]
    BY <1>4 DEF LockDetector, RecheckDetector, BuildDetector, FailToBuild
  <2>2. pc' \in [Thread -> {"idle", "import", "detector", "lock", "recheck", "schema", "build",
                           "flag", "enter", "again", "load", "read"} \cup Ended]
    BY <1>4 DEF LockDetector, RecheckDetector, BuildDetector, FailToBuild
  <2> QED
    BY <1>4, <2>1, <2>2 DEF LockDetector, RecheckDetector, BuildDetector, FailToBuild
<1>5. ASSUME NEW t \in Thread,
             EnterRegistry(t) \/ RecheckLoaded(t) \/ HaveLoaded(t) \/ Read(t)
      PROVE  TypeOK'
  <2>1. owner' \in [Lock -> Thread \cup {None}]
    BY <1>5 DEF EnterRegistry, RecheckLoaded, HaveLoaded, Read
  <2>2. pc' \in [Thread -> {"idle", "import", "detector", "lock", "recheck", "schema", "build",
                           "flag", "enter", "again", "load", "read"} \cup Ended]
    BY <1>5 DEF EnterRegistry, RecheckLoaded, HaveLoaded, Read
  <2> QED
    BY <1>5, <2>1, <2>2 DEF EnterRegistry, RecheckLoaded, HaveLoaded, Read
<1>6. CASE UNCHANGED vars
  BY <1>6 DEF vars
<1> QED
  BY <1>1, <1>2, <1>3, <1>4, <1>5, <1>6 DEF Next, Step

\* A module is in the tables before it counts as imported, the flag is set behind
\* all of them, and no step takes any of this back.
LEMMA FlagStep == IInv /\ [Next]_vars => FlagOK'
<1> SUFFICES ASSUME IInv, [Next]_vars PROVE FlagOK'
  OBVIOUS
<1> USE DEF IInv, TypeOK, FlagOK, Goto, Unchanged
<1>1. ASSUME NEW t \in Thread, Open(t) PROVE FlagOK'
  BY <1>1 DEF Open
<1>2. ASSUME NEW t \in Thread, RunBody(t) PROVE FlagOK'
  BY <1>2 DEF RunBody
<1>3. ASSUME NEW t \in Thread,
             Begin(t) \/ HaveImported(t) \/ CheckDetector(t) \/ NeedCatalogue(t) \/ CheckLoaded(t)
      PROVE  FlagOK'
  BY <1>3 DEF Begin, HaveImported, CheckDetector, NeedCatalogue, CheckLoaded
<1>4. ASSUME NEW t \in Thread,
             LockDetector(t) \/ RecheckDetector(t) \/ BuildDetector(t) \/ FailToBuild(t)
      PROVE  FlagOK'
  BY <1>4 DEF LockDetector, RecheckDetector, BuildDetector, FailToBuild
<1>5. ASSUME NEW t \in Thread,
             EnterRegistry(t) \/ RecheckLoaded(t) \/ HaveLoaded(t) \/ Read(t)
      PROVE  FlagOK'
  BY <1>5 DEF EnterRegistry, RecheckLoaded, HaveLoaded, Read
<1>6. CASE UNCHANGED vars
  BY <1>6 DEF vars
<1> QED
  BY <1>1, <1>2, <1>3, <1>4, <1>5, <1>6 DEF Next, Step

\* The holder of the detector's lock keeps it until the detector is there or the
\* build has failed, through everything the builder looks up meanwhile.
LEMMA LockStep == IInv /\ [Next]_vars => LockOK'
<1> SUFFICES ASSUME IInv, [Next]_vars PROVE LockOK'
  OBVIOUS
<1> USE NoThread, Locks DEF IInv, TypeOK, LockOK, WithDetectorLock, Lock, Goto, Take, Give, Unchanged
<1>1. ASSUME NEW t \in Thread, Open(t) PROVE LockOK'
  <2>1. PICK m \in (IF stack[t] = << >> THEN Wanted(t) ELSE Deps[Head(stack[t])]) \ imported :
          Take(t, m)
    BY <1>1 DEF Open
  <2>2. m # "detector" /\ m \in Lock
    <3>1. stack[t] # << >> => Head(stack[t]) \in Module
      OBVIOUS
    <3>2. m \in Module
      BY <2>1, <3>1, Modules DEF Wanted
    <3> QED
      BY <3>2
  <2>3. owner'["detector"] = owner["detector"]
    BY <2>1, <2>2
  <2> QED
    BY <1>1, <2>3 DEF Open
<1>2. ASSUME NEW t \in Thread, RunBody(t) PROVE LockOK'
  <2>1. Head(stack[t]) \in Module
    BY <1>2 DEF RunBody
  <2>2. owner'["detector"] = owner["detector"]
    BY <1>2, <2>1 DEF RunBody
  <2> QED
    BY <1>2, <2>2 DEF RunBody
<1>3. ASSUME NEW t \in Thread,
             Begin(t) \/ HaveImported(t) \/ CheckDetector(t) \/ NeedCatalogue(t) \/ CheckLoaded(t)
      PROVE  LockOK'
  BY <1>3 DEF Begin, HaveImported, CheckDetector, NeedCatalogue, CheckLoaded, Ended
<1>4. ASSUME NEW t \in Thread,
             LockDetector(t) \/ RecheckDetector(t) \/ BuildDetector(t) \/ FailToBuild(t)
      PROVE  LockOK'
  <2>1. CASE LockDetector(t)
    BY <2>1 DEF LockDetector
  <2>2. CASE RecheckDetector(t)
    BY <2>2 DEF RecheckDetector
  <2>3. CASE BuildDetector(t)
    BY <2>3 DEF BuildDetector
  <2>4. CASE FailToBuild(t)
    BY <2>4 DEF FailToBuild
  <2> QED
    BY <1>4, <2>1, <2>2, <2>3, <2>4
<1>5. ASSUME NEW t \in Thread,
             EnterRegistry(t) \/ RecheckLoaded(t) \/ HaveLoaded(t) \/ Read(t)
      PROVE  LockOK'
  <2>1. CASE EnterRegistry(t)
    BY <2>1 DEF EnterRegistry
  <2>2. CASE RecheckLoaded(t)
    BY <2>2 DEF RecheckLoaded
  <2>3. CASE HaveLoaded(t)
    BY <2>3 DEF HaveLoaded
  <2>4. CASE Read(t)
    BY <2>4 DEF Read
  <2> QED
    BY <1>5, <2>1, <2>2, <2>3, <2>4
<1>6. CASE UNCHANGED vars
  BY <1>6 DEF vars
<1> QED
  BY <1>1, <1>2, <1>3, <1>4, <1>5, <1>6 DEF Next, Step

-----------------------------------------------------------------------------
\* The invariant holds in every reachable state.
THEOREM StartupInvariant == Spec => []IInv
<1>1. Init => IInv
  BY InitIInv
<1>2. IInv /\ [Next]_vars => IInv'
  BY TypeStep, FlagStep, LockStep DEF IInv
<1> QED
  BY <1>1, <1>2, PTL DEF Spec

\* The state of the loading is well typed, whatever fails and whoever waits.
THEOREM StartupTypeCorrect == Spec => []TypeOK
<1>1. IInv => TypeOK
  BY DEF IInv
<1> QED
  BY <1>1, StartupInvariant, PTL

\* Whoever looks a name up finds the whole table (registry.py: load_builtins sets
\* its flag behind the imports).
THEOREM TableWhole == Spec => []WholeTable
<1>1. IInv => WholeTable
  BY DEF IInv, TypeOK, FlagOK, WholeTable
<1> QED
  BY <1>1, StartupInvariant, PTL

\* One thread at a time builds the detector, and only while there is none
\* (engine.py: the check, the lock, the check again).
THEOREM ModelOnce == Spec => []OneModel
<1>1. IInv => OneModel
  BY DEF IInv, LockOK, OneModel
<1> QED
  BY <1>1, StartupInvariant, PTL

-----------------------------------------------------------------------------
(* The log filter.                                                         *)

\* What holds at an index whenever it holds at all later ones holds everywhere.
LEMMA Downward ==
  ASSUME NEW N \in Nat, NEW S,
         \A i \in 1 .. N : (\A j \in 1 .. N : i < j => j \in S) => i \in S
  PROVE  1 .. N \subseteq S
<1> DEFINE R == {p \in Nat \X Nat : p[1] < p[2]}
           T == {k \in 0 .. N : N - k \in 1 .. N /\ N - k \notin S}
<1>1. IsWellFoundedOn(R, Nat)
  BY NatLessThanWellFounded DEF OpToRel
<1>2. CASE T = {}
  <2> SUFFICES ASSUME NEW i \in 1 .. N, i \notin S PROVE FALSE
    OBVIOUS
  <2>1. N - i \in 0 .. N /\ N - (N - i) = i
    OBVIOUS
  <2>2. N - i \in T
    BY <2>1
  <2> QED BY <1>2, <2>2
<1>3. CASE T # {}
  <2>1. PICK x \in T : \A y \in T : ~ (<<y, x>> \in R)
    <3>1. T \subseteq Nat /\ T # {}
      BY <1>3
    <3> HIDE DEF R, T
    <3> QED BY <1>1, <1>3, <3>1, WFMin
  <2>2. ASSUME NEW y \in T PROVE ~ (y < x)
    <3>1. y \in Nat /\ x \in Nat
      OBVIOUS
    <3>2. y < x => <<y, x>> \in R
      BY <3>1
    <3> HIDE DEF R, T
    <3> QED BY <2>1, <3>2
  <2>3. \A j \in 1 .. N : N - x < j => j \in S
    <3> SUFFICES ASSUME NEW j \in 1 .. N, N - x < j, j \notin S PROVE FALSE
      OBVIOUS
    <3>1. N - j \in T /\ N - j < x
      OBVIOUS
    <3> QED BY <2>2, <3>1
  <2> QED BY <2>3
<1> QED BY <1>2, <1>3

-----------------------------------------------------------------------------
(* What text.replace leaves.                                               *)

ScrubFrom(text, v, f, i) ==
  IF i > Len(text) THEN << >>
  ELSE IF OccursAt(text, v, i) THEN <<Redacted>> \o f[i + Len(v)]
  ELSE <<text[i]>> \o f[i + 1]

LEMMA ScrubbedRecurs ==
  ASSUME NEW W, NEW X, NEW text \in Seq(W), NEW v \in Seq(X), v # << >>
  PROVE  \E f : /\ f = [i \in 1 .. Len(text) + Len(v) |-> ScrubFrom(text, v, f, i)]
                /\ Scrubbed(text, v) = f[1]
<1> DEFINE N == Len(text) + Len(v)
           Good(i, g) == g = [x \in i .. N |-> ScrubFrom(text, v, g, x)]
           S == {i \in 1 .. N : \E g : Good(i, g)}
<1>1. Len(text) \in Nat /\ Len(v) \in Nat /\ Len(v) >= 1 /\ N \in Nat /\ N >= 1
  OBVIOUS
<1>2. ASSUME NEW i \in 1 .. N, \A j \in 1 .. N : i < j => j \in S
      PROVE  i \in S
  <2>1. CASE i = N
    <3> DEFINE g == [x \in N .. N |-> << >>]
    <3>1. \A x \in N .. N : ScrubFrom(text, v, g, x) = << >>
      BY <1>1 DEF ScrubFrom
    <3>2. Good(N, g)
      BY <3>1
    <3> QED BY <2>1, <3>2
  <2>2. CASE i # N
    <3>1. i + 1 \in 1 .. N /\ i < i + 1
      BY <1>1, <2>2
    <3>2. PICK g : Good(i + 1, g)
      BY <1>2, <3>1
    <3> DEFINE h == [x \in i .. N |-> IF x = i THEN ScrubFrom(text, v, g, i) ELSE g[x]]
    <3>3. \A x \in (i + 1) .. N : x \in i .. N /\ x # i /\ h[x] = g[x]
      BY <1>1
    <3>4. \A x \in i .. N : ScrubFrom(text, v, h, x) = ScrubFrom(text, v, g, x)
      <4> TAKE x \in i .. N
      <4>1. x <= Len(text) => x + 1 \in (i + 1) .. N /\ x + Len(v) \in (i + 1) .. N
        BY <1>1
      <4> HIDE DEF h
      <4> QED BY <1>1, <3>3, <4>1 DEF ScrubFrom
    <3>5. \A x \in (i + 1) .. N : g[x] = ScrubFrom(text, v, g, x)
      BY <3>2
    <3>6. \A x \in i .. N :
            (IF x = i THEN ScrubFrom(text, v, g, i) ELSE g[x]) = ScrubFrom(text, v, h, x)
      <4> HIDE DEF h
      <4> QED BY <1>1, <3>4, <3>5
    <3>7. Good(i, h)
      BY <3>6
    <3> QED BY <3>7
  <2> QED BY <2>1, <2>2
<1>3. 1 .. N \subseteq S
  <2> HIDE DEF S, N
  <2> QED BY <1>1, <1>2, Downward
<1>4. PICK g : Good(1, g)
  BY <1>1, <1>3
<1> DEFINE Is(f) == f = [i \in 1 .. N |->
             IF i > Len(text) THEN << >>
             ELSE IF OccursAt(text, v, i) THEN <<Redacted>> \o f[i + Len(v)]
             ELSE <<text[i]>> \o f[i + 1]]
<1>5. Is(g)
  BY <1>4 DEF ScrubFrom
<1>6. Scrubbed(text, v) = (CHOOSE f : Is(f))[1]
  BY DEF Scrubbed
<1>7. PICK f : Is(f) /\ Scrubbed(text, v) = f[1]
  <2> HIDE DEF Is
  <2> QED BY <1>5, <1>6
<1>8. f = [i \in 1 .. N |-> ScrubFrom(text, v, f, i)]
  BY <1>7 DEF ScrubFrom
<1> QED BY <1>7, <1>8

\* A run of s without the redaction stands in the text as well, from i on; the
\* value does not begin with it there, and if it begins s it is the text at i.
Traced(text, v, i, s) ==
  \A p \in 1 .. Len(s), k \in 1 .. Len(s) :
    (p + k - 1 <= Len(s) /\ \A x \in 0 .. (k - 1) : s[p + x] # Redacted) =>
      \E q \in i .. Len(text) :
        /\ q + k - 1 <= Len(text)
        /\ \A x \in 0 .. (k - 1) : text[q + x] = s[p + x]
        /\ ~OccursAt(text, v, q)
        /\ p = 1 => q = i

LEMMA TracedOver ==
  ASSUME NEW W, Redacted \in W, NEW X, NEW text \in Seq(W), NEW v \in Seq(X), v # << >>,
         NEW i \in 1 .. Len(text), OccursAt(text, v, i),
         NEW s \in Seq(W), Traced(text, v, i + Len(v), s)
  PROVE  Traced(text, v, i, <<Redacted>> \o s)
<1> DEFINE r == <<Redacted>> \o s
<1>1. /\ Len(s) \in Nat /\ Len(text) \in Nat /\ Len(v) \in Nat /\ Len(v) >= 1
      /\ Len(r) = Len(s) + 1 /\ r[1] = Redacted
      /\ \A x \in 2 .. Len(r) : r[x] = s[x - 1]
  OBVIOUS
<1> SUFFICES ASSUME NEW p \in 1 .. Len(r), NEW k \in 1 .. Len(r), p + k - 1 <= Len(r),
                    \A x \in 0 .. (k - 1) : r[p + x] # Redacted
             PROVE  \E q \in i .. Len(text) :
                      /\ q + k - 1 <= Len(text)
                      /\ \A x \in 0 .. (k - 1) : text[q + x] = r[p + x]
                      /\ ~OccursAt(text, v, q)
                      /\ p = 1 => q = i
  BY DEF Traced
<1> HIDE DEF r
<1>2. p # 1
  <2>1. 0 \in 0 .. (k - 1) /\ p + 0 = p
    BY <1>1
  <2> QED BY <1>1, <2>1
<1>3. /\ p - 1 \in 1 .. Len(s) /\ k \in 1 .. Len(s) /\ (p - 1) + k - 1 <= Len(s)
      /\ \A x \in 0 .. (k - 1) : p + x \in 2 .. Len(r) /\ (p + x) - 1 = (p - 1) + x
  BY <1>1, <1>2
<1>4. \A x \in 0 .. (k - 1) : r[p + x] = s[(p - 1) + x]
  BY <1>1, <1>3
<1>5. PICK q \in (i + Len(v)) .. Len(text) :
        /\ q + k - 1 <= Len(text)
        /\ \A x \in 0 .. (k - 1) : text[q + x] = s[(p - 1) + x]
        /\ ~OccursAt(text, v, q)
  <2>1. PICK b \in 1 .. Len(s) : b = p - 1
    BY <1>3
  <2>2. b + k - 1 <= Len(s) /\ \A x \in 0 .. (k - 1) : s[b + x] # Redacted
    BY <1>3, <1>4, <2>1
  <2> QED BY <1>3, <2>1, <2>2 DEF Traced
<1>6. q \in i .. Len(text)
  BY <1>1
<1> QED BY <1>2, <1>4, <1>5, <1>6

LEMMA TracedOn ==
  ASSUME NEW W, NEW X, NEW text \in Seq(W), NEW v \in Seq(X), v # << >>,
         NEW i \in 1 .. Len(text), ~OccursAt(text, v, i),
         NEW s \in Seq(W), Traced(text, v, i + 1, s)
  PROVE  Traced(text, v, i, <<text[i]>> \o s)
<1> DEFINE r == <<text[i]>> \o s
<1>1. /\ Len(s) \in Nat /\ Len(text) \in Nat
      /\ Len(r) = Len(s) + 1 /\ r[1] = text[i]
      /\ \A x \in 2 .. Len(r) : r[x] = s[x - 1]
  OBVIOUS
<1> SUFFICES ASSUME NEW p \in 1 .. Len(r), NEW k \in 1 .. Len(r), p + k - 1 <= Len(r),
                    \A x \in 0 .. (k - 1) : r[p + x] # Redacted
             PROVE  \E q \in i .. Len(text) :
                      /\ q + k - 1 <= Len(text)
                      /\ \A x \in 0 .. (k - 1) : text[q + x] = r[p + x]
                      /\ ~OccursAt(text, v, q)
                      /\ p = 1 => q = i
  BY DEF Traced
<1> HIDE DEF r
<1>2. CASE p # 1
  <2>1. /\ p - 1 \in 1 .. Len(s) /\ k \in 1 .. Len(s) /\ (p - 1) + k - 1 <= Len(s)
        /\ \A x \in 0 .. (k - 1) : p + x \in 2 .. Len(r) /\ (p + x) - 1 = (p - 1) + x
    <3>1. PICK n \in Nat : n = Len(s)
      BY <1>1
    <3>2. Len(r) = n + 1 /\ p \in 1 .. (n + 1) /\ k \in 1 .. (n + 1) /\ p + k - 1 <= n + 1
      BY <1>1, <3>1
    <3>3. p - 1 \in 1 .. n /\ k \in 1 .. n /\ (p - 1) + k - 1 <= n
      BY <1>2, <3>2
    <3>4. \A x \in 0 .. (k - 1) : p + x \in 2 .. (n + 1) /\ (p + x) - 1 = (p - 1) + x
      BY <1>2, <3>2
    <3> QED BY <3>1, <3>2, <3>3, <3>4
  <2>2. \A x \in 0 .. (k - 1) : r[p + x] = s[(p - 1) + x]
    BY <1>1, <2>1
  <2>3. PICK q \in (i + 1) .. Len(text) :
          /\ q + k - 1 <= Len(text)
          /\ \A x \in 0 .. (k - 1) : text[q + x] = s[(p - 1) + x]
          /\ ~OccursAt(text, v, q)
    <3>1. PICK b \in 1 .. Len(s) : b = p - 1
      BY <2>1
    <3>2. b + k - 1 <= Len(s) /\ \A x \in 0 .. (k - 1) : s[b + x] # Redacted
      BY <2>1, <2>2, <3>1
    <3> QED BY <2>1, <3>1, <3>2 DEF Traced
  <2>4. q \in i .. Len(text)
    BY <1>1
  <2> QED BY <1>2, <2>2, <2>3, <2>4
<1>3. CASE p = 1 /\ k = 1
  <2>1. \A x \in 0 .. (k - 1) : x = 0 /\ i + x = i /\ p + x = 1
    BY <1>3
  <2>2. \A x \in 0 .. (k - 1) : text[i + x] = r[p + x]
    BY <1>1, <2>1
  <2>3. i \in i .. Len(text) /\ i + k - 1 <= Len(text)
    BY <1>1, <1>3
  <2> QED BY <2>2, <2>3
<1>4. CASE p = 1 /\ k # 1
  <2>1. /\ 1 \in 1 .. Len(s) /\ k - 1 \in 1 .. Len(s) /\ 1 + (k - 1) - 1 <= Len(s)
        /\ \A x \in 0 .. ((k - 1) - 1) :
             /\ x + 1 \in 0 .. (k - 1) /\ p + (x + 1) = x + 2
             /\ x + 2 \in 2 .. Len(r) /\ (x + 2) - 1 = 1 + x
    BY <1>1, <1>4
  <2>2. \A x \in 0 .. ((k - 1) - 1) : r[p + (x + 1)] # Redacted
    BY <2>1
  <2>3. \A x \in 0 .. ((k - 1) - 1) : r[x + 2] = s[1 + x] /\ s[1 + x] # Redacted
    <3> TAKE x \in 0 .. ((k - 1) - 1)
    <3>1. r[x + 2] = s[(x + 2) - 1]
      BY <1>1, <2>1
    <3>2. r[x + 2] # Redacted
      BY <2>1, <2>2
    <3> QED BY <2>1, <3>1, <3>2
  <2>4. PICK q \in (i + 1) .. Len(text) :
          /\ q + (k - 1) - 1 <= Len(text)
          /\ \A x \in 0 .. ((k - 1) - 1) : text[q + x] = s[1 + x]
          /\ q = i + 1
    BY <2>1, <2>3 DEF Traced
  <2>5. i \in i .. Len(text) /\ i + k - 1 <= Len(text)
    BY <1>1, <1>4, <2>4
  <2>6. ASSUME NEW x \in 0 .. (k - 1) PROVE text[i + x] = r[p + x]
    <3>1. CASE x = 0
      <4>1. i + x = i /\ p + x = 1
        BY <1>4, <3>1
      <4> QED BY <1>1, <4>1
    <3>2. CASE x # 0
      <4>1. /\ x - 1 \in 0 .. ((k - 1) - 1) /\ q + (x - 1) = i + x
            /\ (x - 1) + 2 = p + x
        BY <1>4, <2>4, <3>2
      <4> QED BY <2>3, <2>4, <4>1
    <3> QED BY <3>1, <3>2
  <2> QED BY <1>4, <2>5, <2>6
<1> QED BY <1>2, <1>3, <1>4

LEMMA ScrubbedTraced ==
  ASSUME NEW W, Redacted \in W, NEW X, NEW text \in Seq(W), NEW v \in Seq(X), v # << >>
  PROVE  Scrubbed(text, v) \in Seq(W) /\ Traced(text, v, 1, Scrubbed(text, v))
<1>1. Len(text) \in Nat /\ Len(v) \in Nat /\ Len(v) >= 1
  OBVIOUS
<1>2. PICK f : /\ f = [i \in 1 .. Len(text) + Len(v) |-> ScrubFrom(text, v, f, i)]
               /\ Scrubbed(text, v) = f[1]
  BY ScrubbedRecurs
<1> DEFINE N == Len(text) + Len(v)
           S == {i \in 1 .. N : f[i] \in Seq(W) /\ Traced(text, v, i, f[i])}
<1>3. \A i \in 1 .. N : f[i] = ScrubFrom(text, v, f, i)
  BY <1>2
<1>4. ASSUME NEW i \in 1 .. N, \A j \in 1 .. N : i < j => j \in S
      PROVE  i \in S
  <2>1. CASE i > Len(text)
    <3>1. f[i] = << >>
      BY <1>3, <2>1 DEF ScrubFrom
    <3>2. << >> \in Seq(W) /\ Len(<< >>) = 0
      OBVIOUS
    <3>3. Traced(text, v, i, << >>)
      BY <3>2 DEF Traced
    <3> QED BY <3>1, <3>2, <3>3
  <2>2. CASE i <= Len(text) /\ OccursAt(text, v, i)
    <3>1. f[i] = <<Redacted>> \o f[i + Len(v)]
      <4>1. ~(i > Len(text))
        BY <1>1, <2>2
      <4> QED BY <1>3, <2>2, <4>1, Zenon DEF ScrubFrom
    <3>2. i + Len(v) \in 1 .. N /\ i < i + Len(v) /\ i \in 1 .. Len(text)
      BY <1>1, <2>2
    <3>3. i + Len(v) \in S
      BY <1>4, <3>2
    <3>4. f[i + Len(v)] \in Seq(W) /\ Traced(text, v, i + Len(v), f[i + Len(v)])
      BY <3>3
    <3>5. Traced(text, v, i, f[i])
      BY <2>2, <3>1, <3>2, <3>4, TracedOver
    <3>6. f[i] \in Seq(W)
      BY <3>1, <3>4
    <3> QED BY <3>5, <3>6
  <2>3. CASE i <= Len(text) /\ ~OccursAt(text, v, i)
    <3>1. f[i] = <<text[i]>> \o f[i + 1]
      <4>1. ~(i > Len(text))
        BY <1>1, <2>3
      <4> QED BY <1>3, <2>3, <4>1, Zenon DEF ScrubFrom
    <3>2. i + 1 \in 1 .. N /\ i < i + 1 /\ i \in 1 .. Len(text)
      BY <1>1, <2>3
    <3>3. i + 1 \in S
      BY <1>4, <3>2
    <3>4. f[i + 1] \in Seq(W) /\ Traced(text, v, i + 1, f[i + 1])
      BY <3>3
    <3>5. Traced(text, v, i, f[i])
      BY <2>3, <3>1, <3>2, <3>4, TracedOn
    <3>6. f[i] \in Seq(W)
      BY <3>1, <3>2, <3>4
    <3> QED BY <3>5, <3>6
  <2> QED BY <1>1, <2>1, <2>2, <2>3
<1>5. 1 .. N \subseteq S
  <2>1. N \in Nat
    BY <1>1
  <2> HIDE DEF S, N
  <2> QED BY <1>4, <2>1, Downward
<1>6. 1 \in S
  BY <1>1, <1>5
<1> QED BY <1>2, <1>6

\* What does not hold the redaction and occurs in the scrubbed text occurred in
\* the text, and the scrubbed value occurs no more.
LEMMA ScrubbedClean ==
  ASSUME NEW W, Redacted \in W, NEW X, NEW text \in Seq(W), NEW v \in Seq(X), v # << >>,
         NEW Y, NEW u \in Seq(Y), u # << >>, Redacted \notin ToSet(u),
         Occurs(Scrubbed(text, v), u)
  PROVE  Occurs(text, u) /\ u # v
<1> DEFINE s == Scrubbed(text, v)
           k == Len(u)
<1>1. s \in Seq(W) /\ Traced(text, v, 1, s)
  BY ScrubbedTraced
<1> HIDE DEF s
<1>2. PICK p \in DOMAIN s : p + k - 1 <= Len(s) /\ SubSeq(s, p, p + k - 1) = u
  BY DEF Occurs, OccursAt, s
<1>3. k \in Nat /\ k >= 1 /\ p \in 1 .. Len(s) /\ k \in 1 .. Len(s)
  BY <1>1, <1>2
<1>4. \A x \in 0 .. (k - 1) : x + 1 \in 1 .. k /\ s[p + x] = u[x + 1]
  <2> SUFFICES ASSUME NEW x \in 0 .. (k - 1)
               PROVE  x + 1 \in 1 .. k /\ s[p + x] = u[x + 1]
    OBVIOUS
  <2>1. x + 1 \in 1 .. k /\ p + (x + 1) - 1 = p + x
    BY <1>3
  <2>2. SubSeq(s, p, p + k - 1)[x + 1] = s[p + (x + 1) - 1]
    BY <1>1, <1>2, <1>3, <2>1
  <2> QED BY <1>2, <2>1, <2>2
<1>5. \A x \in 0 .. (k - 1) : s[p + x] # Redacted
  <2>1. \A y \in 1 .. k : u[y] # Redacted
    BY DEF ToSet
  <2> QED BY <1>4, <2>1
<1>6. PICK q \in 1 .. Len(text) :
        /\ q + k - 1 <= Len(text)
        /\ \A x \in 0 .. (k - 1) : text[q + x] = s[p + x]
        /\ ~OccursAt(text, v, q)
  BY <1>1, <1>2, <1>3, <1>5 DEF Traced
<1>7. SubSeq(text, q, q + k - 1) = u
  <2> DEFINE w == SubSeq(text, q, q + k - 1)
  <2>1. w \in Seq(W) /\ Len(w) = k /\ \A y \in 1 .. k : w[y] = text[q + y - 1]
    BY <1>3, <1>6
  <2>2. \A y \in 1 .. k : y - 1 \in 0 .. (k - 1) /\ q + (y - 1) = q + y - 1 /\ (y - 1) + 1 = y
    BY <1>3
  <2>3. \A y \in 1 .. k : w[y] = u[y]
    BY <1>4, <1>6, <2>1, <2>2
  <2> HIDE DEF w
  <2>4. w = u
    BY <2>1, <2>3
  <2> QED BY <2>4 DEF w
<1>8. OccursAt(text, u, q)
  BY <1>6, <1>7 DEF OccursAt
<1> QED BY <1>6, <1>8 DEF Occurs

-----------------------------------------------------------------------------
(* The lines.                                                              *)

Words == {Redacted} \cup UNION {ToSet(l) : l \in Line}

\* A value that was registered when the scrub began is still to come, or is in the
\* line no more.
LinesInvariant ==
  \A c \in Caller : stage[c] = "scrub" =>
    \A v \in atStart[c] : v \in ToSet(rest[c]) \/ ~Occurs(line[c], v)

LEMMA ValueFacts ==
  ASSUME NEW v \in Value
  PROVE  /\ v \in Seq(UNION {ToSet(u) : u \in Value}) /\ v # << >>
         /\ Redacted \notin ToSet(v) /\ v \notin Short
BY ValueAssumption

LEMMA LineFacts == Line \subseteq Seq(Words)
<1> DEFINE U == UNION {ToSet(l) : l \in Line}
<1>1. Line \subseteq Seq(U)
  BY LineAssumption
<1> HIDE DEF U
<1>2. Line \subseteq Seq({Redacted} \cup U)
  BY <1>1
<1> QED BY <1>2 DEF U, Words

LEMMA JoinFacts ==
  ASSUME NEW S, NEW a \in Seq(S), NEW b \in Seq(S)
  PROVE  /\ a \o b \in Seq(S) /\ Len(a \o b) = Len(a) + Len(b)
         /\ \A x \in 1 .. Len(a) : (a \o b)[x] = a[x]
         /\ \A x \in (Len(a) + 1) .. (Len(a) + Len(b)) : (a \o b)[x] = b[x - Len(a)]
OBVIOUS

LEMMA AppendFacts ==
  ASSUME NEW S, NEW a \in Seq(S), NEW v \in S
  PROVE  /\ Append(a, v) \in Seq(S) /\ Len(Append(a, v)) = Len(a) + 1
         /\ \A x \in 1 .. Len(a) : Append(a, v)[x] = a[x]
         /\ Append(a, v)[Len(a) + 1] = v
OBVIOUS

\* A sequence that holds each value once.
Unique(s) == \A i, j \in DOMAIN s : s[i] = s[j] => i = j

LEMMA WithoutFacts ==
  ASSUME NEW S, NEW s \in Seq(S), NEW v, Unique(s)
  PROVE  /\ Without(s, v) \in Seq(S)
         /\ v \notin ToSet(s) => Without(s, v) = s
         /\ \A k \in DOMAIN s : s[k] = v =>
              /\ Len(Without(s, v)) = Len(s) - 1
              /\ \A x \in 1 .. (Len(s) - 1) :
                   Without(s, v)[x] = IF x < k THEN s[x] ELSE s[x + 1]
<1>1. CASE v \notin ToSet(s)
  <2>1. ~(\E i \in 1 .. Len(s) : s[i] = v) /\ \A k \in DOMAIN s : s[k] # v
    BY <1>1 DEF ToSet
  <2>2. Without(s, v) = s
    BY <2>1 DEF Without, RemoveFirst
  <2> QED BY <2>1, <2>2
<1>2. CASE v \in ToSet(s)
  <2>1. PICK k \in 1 .. Len(s) : s[k] = v
    BY <1>2 DEF ToSet
  <2> DEFINE I == {i \in 1 .. Len(s) : s[i] = v}
  <2>2. I = {k}
    BY <2>1 DEF Unique
  <2>3. Min(I) = k
    BY <2>2 DEF Min
  <2>4. SelectInSeq(s, LAMBDA u : u = v) = k
    BY <2>2, <2>3 DEF SelectInSeq
  <2>5. Without(s, v) = SubSeq(s, 1, k - 1) \o SubSeq(s, k + 1, Len(s))
    BY <2>1, <2>4 DEF Without, RemoveFirst, RemoveAt
  <2> DEFINE a == SubSeq(s, 1, k - 1)
             b == SubSeq(s, k + 1, Len(s))
  <2>6. /\ a \in Seq(S) /\ Len(a) = k - 1 /\ \A x \in 1 .. (k - 1) : a[x] = s[x]
    BY <2>1
  <2>7. /\ b \in Seq(S) /\ Len(b) = Len(s) - k /\ \A x \in 1 .. (Len(s) - k) : b[x] = s[x + k]
    BY <2>1
  <2>8. Without(s, v) = a \o b
    BY <2>5
  <2> HIDE DEF a, b, I
  <2>9. a \o b \in Seq(S) /\ Len(a \o b) = Len(s) - 1
    <3>1. a \o b \in Seq(S) /\ Len(a \o b) = Len(a) + Len(b)
      BY <2>6, <2>7, JoinFacts
    <3>2. Len(s) \in Nat /\ k \in Nat
      BY <2>1
    <3> QED BY <2>6, <2>7, <3>1, <3>2
  <2>10. ASSUME NEW x \in 1 .. (Len(s) - 1)
         PROVE  (a \o b)[x] = IF x < k THEN s[x] ELSE s[x + 1]
    <3>1. CASE x < k
      BY <2>1, <2>6, <2>7, <3>1, JoinFacts
    <3>2. CASE ~(x < k)
      <4>1. x - (k - 1) \in 1 .. (Len(s) - k) /\ (x - (k - 1)) + k = x + 1
        BY <2>1, <3>2
      <4>2. (a \o b)[x] = b[x - (k - 1)]
        BY <2>1, <2>6, <2>7, <3>2, JoinFacts
      <4>3. b[x - (k - 1)] = s[x + 1]
        BY <2>7, <4>1
      <4> QED BY <3>2, <4>2, <4>3
    <3> QED BY <3>1, <3>2
  <2>11. \A j \in DOMAIN s : s[j] = v => j = k
    BY <2>1 DEF Unique
  <2> QED BY <1>2, <2>8, <2>9, <2>10, <2>11
<1> QED BY <1>1, <1>2

\* The value of which there was one goes to the end.
LEMMA MovedFacts ==
  ASSUME NEW S, NEW s \in Seq(S), NEW k \in 1 .. Len(s), Unique(s),
         NEW r \in Seq(S), Len(r) = Len(s),
         \A x \in 1 .. Len(s) :
           r[x] = IF x < k THEN s[x] ELSE IF x < Len(s) THEN s[x + 1] ELSE s[k]
  PROVE  Unique(r) /\ ToSet(r) = ToSet(s)
<1> DEFINE at(x) == IF x < k THEN x ELSE IF x < Len(s) THEN x + 1 ELSE k
<1>1. Len(s) \in Nat /\ DOMAIN s = 1 .. Len(s) /\ DOMAIN r = 1 .. Len(s)
  OBVIOUS
<1>2. \A x \in 1 .. Len(s) : at(x) \in 1 .. Len(s) /\ r[x] = s[at(x)]
  BY <1>1
<1>3. \A x, y \in 1 .. Len(s) : at(x) = at(y) => x = y
  BY <1>1
<1>4. \A y \in 1 .. Len(s) : \E x \in 1 .. Len(s) : at(x) = y
  <2> TAKE y \in 1 .. Len(s)
  <2>1. CASE y < k
    BY <1>1, <2>1
  <2>2. CASE y = k
    <3>1. PICK n : n = Len(s)
      OBVIOUS
    <3>2. n \in 1 .. Len(s) /\ ~(n < k) /\ ~(n < Len(s))
      BY <1>1, <3>1
    <3>3. at(n) = y
      BY <2>2, <3>2
    <3> QED BY <3>2, <3>3
  <2>3. CASE y > k
    <3>1. y - 1 \in 1 .. Len(s) /\ at(y - 1) = y
      BY <1>1, <2>3
    <3> QED BY <3>1
  <2> QED BY <1>1, <2>1, <2>2, <2>3
<1> HIDE DEF at
<1>5. Unique(r)
  <2> SUFFICES ASSUME NEW i \in 1 .. Len(s), NEW j \in 1 .. Len(s), r[i] = r[j]
               PROVE  i = j
    BY <1>1 DEF Unique
  <2>1. s[at(i)] = s[at(j)] /\ at(i) \in DOMAIN s /\ at(j) \in DOMAIN s
    BY <1>1, <1>2
  <2>2. at(i) = at(j)
    BY <2>1 DEF Unique
  <2> QED BY <1>3, <2>2
<1>6. ToSet(r) = ToSet(s)
  <2>1. \A x : (\E i \in 1 .. Len(s) : x = r[i]) <=> (\E i \in 1 .. Len(s) : x = s[i])
    BY <1>2, <1>4
  <2> QED BY <1>1, <2>1 DEF ToSet
<1> QED BY <1>5, <1>6

ToTheEnd(s, v) == Append(Without(s, v), v)

LEMMA RenewedFacts ==
  ASSUME NEW S, NEW s \in Seq(S), NEW v \in S, Unique(s)
  PROVE  LET r == ToTheEnd(s, v) IN
         /\ r \in Seq(S) /\ Unique(r) /\ ToSet(r) = ToSet(s) \cup {v}
         /\ v \notin ToSet(s) => r = Append(s, v)
         /\ \A k \in 1 .. Len(s) : s[k] = v =>
              /\ Len(r) = Len(s)
              /\ \A x \in 1 .. Len(s) :
                   r[x] = IF x < k THEN s[x] ELSE IF x < Len(s) THEN s[x + 1] ELSE s[k]
<1> DEFINE w == Without(s, v)
           r == Append(w, v)
<1>1. /\ w \in Seq(S) /\ (v \notin ToSet(s) => w = s)
      /\ \A k \in DOMAIN s : s[k] = v =>
           /\ Len(w) = Len(s) - 1
           /\ \A x \in 1 .. (Len(s) - 1) : w[x] = IF x < k THEN s[x] ELSE s[x + 1]
  BY WithoutFacts
<1>2. Len(s) \in Nat /\ DOMAIN s = 1 .. Len(s)
  OBVIOUS
<1> HIDE DEF w
<1>3. /\ r \in Seq(S) /\ Len(r) = Len(w) + 1 /\ r[Len(w) + 1] = v
      /\ \A x \in 1 .. Len(w) : r[x] = w[x]
  BY <1>1, AppendFacts
<1>4. ASSUME v \notin ToSet(s)
      PROVE  r = Append(s, v) /\ Unique(r) /\ ToSet(r) = ToSet(s) \cup {v}
  <2>1. r = Append(s, v)
    BY <1>1, <1>4
  <2> HIDE DEF r
  <2>2. /\ Len(r) = Len(s) + 1 /\ r[Len(s) + 1] = v
        /\ \A x \in 1 .. Len(s) : r[x] = s[x]
        /\ DOMAIN r = 1 .. (Len(s) + 1)
    BY <1>1, <1>3, <1>4
  <2>3. \A k \in 1 .. Len(s) : s[k] # v
    BY <1>2, <1>4 DEF ToSet
  <2>4. Unique(r)
    <3> SUFFICES ASSUME NEW i \in 1 .. (Len(s) + 1), NEW j \in 1 .. (Len(s) + 1), r[i] = r[j]
                 PROVE  i = j
      BY <2>2 DEF Unique
    <3>1. CASE i \in 1 .. Len(s) /\ j \in 1 .. Len(s)
      BY <1>2, <2>2, <3>1 DEF Unique
    <3>2. CASE i \notin 1 .. Len(s) \/ j \notin 1 .. Len(s)
      BY <1>2, <2>2, <2>3, <3>2
    <3> QED BY <3>1, <3>2
  <2>5. ToSet(r) = ToSet(s) \cup {v}
    <3>1. \A x : (\E i \in 1 .. (Len(s) + 1) : x = r[i]) <=>
                   (\E i \in 1 .. Len(s) : x = s[i]) \/ x = v
      BY <1>2, <2>2
    <3> QED BY <1>2, <2>2, <3>1 DEF ToSet
  <2> QED BY <2>1, <2>4, <2>5
<1>5. ASSUME NEW k \in 1 .. Len(s), s[k] = v
      PROVE  /\ Len(r) = Len(s)
             /\ \A x \in 1 .. Len(s) :
                  r[x] = IF x < k THEN s[x] ELSE IF x < Len(s) THEN s[x + 1] ELSE s[k]
  <2>1. /\ Len(w) = Len(s) - 1
        /\ \A x \in 1 .. (Len(s) - 1) : w[x] = IF x < k THEN s[x] ELSE s[x + 1]
    BY <1>1, <1>2, <1>5
  <2> HIDE DEF r
  <2>2. Len(r) = Len(s) /\ r[Len(s)] = v
    BY <1>2, <1>3, <2>1
  <2>3. ASSUME NEW x \in 1 .. Len(s)
        PROVE  r[x] = IF x < k THEN s[x] ELSE IF x < Len(s) THEN s[x + 1] ELSE s[k]
    <3>1. CASE x = Len(s)
      BY <1>2, <1>5, <2>2, <3>1
    <3>2. CASE x # Len(s)
      <4>1. x \in 1 .. (Len(s) - 1) /\ x < Len(s)
        <5>1. PICK n \in Nat : n = Len(s)
          BY <1>2
        <5>2. x \in 1 .. n /\ x # n
          BY <3>2, <5>1
        <5>3. x \in 1 .. (n - 1) /\ x < n
          BY <5>2
        <5> QED BY <5>1, <5>3
      <4>2. r[x] = w[x]
        BY <1>3, <2>1, <4>1
      <4> QED BY <2>1, <4>1, <4>2
    <3> QED BY <3>1, <3>2
  <2> QED BY <2>2, <2>3
<1>6. ASSUME v \in ToSet(s)
      PROVE  Unique(r) /\ ToSet(r) = ToSet(s) \cup {v}
  <2>1. PICK k \in 1 .. Len(s) : s[k] = v
    BY <1>2, <1>6 DEF ToSet
  <2> HIDE DEF r
  <2>2. Unique(r) /\ ToSet(r) = ToSet(s)
    BY <1>3, <1>5, <2>1, MovedFacts
  <2> QED BY <1>6, <2>2
<1>7. /\ r \in Seq(S) /\ Unique(r) /\ ToSet(r) = ToSet(s) \cup {v}
      /\ v \notin ToSet(s) => r = Append(s, v)
      /\ \A k \in 1 .. Len(s) : s[k] = v =>
           /\ Len(r) = Len(s)
           /\ \A x \in 1 .. Len(s) :
                r[x] = IF x < k THEN s[x] ELSE IF x < Len(s) THEN s[x + 1] ELSE s[k]
  <2> HIDE DEF r
  <2> QED BY <1>3, <1>4, <1>5, <1>6
<1> QED BY <1>7 DEF w, ToTheEnd

LEMMA Updated ==
  ASSUME NEW A, NEW B, NEW f \in [A -> B], NEW a \in A, NEW b \in B
  PROVE  [f EXCEPT ![a] = b] \in [A -> B]
OBVIOUS

LocalsOK ==
  /\ stage \in [Caller -> {"idle", "touch", "insert", "bound", "evict", "scrub"}]
  /\ value \in [Caller -> Value \cup Short \cup {<< >>}]
  /\ line \in [Caller -> Seq(Words)]
  /\ rest \in [Caller -> Seq(Value)]
  /\ atStart \in [Caller -> SUBSET Value]

LEMMA LeaveTyped ==
  ASSUME LocalsOK, NEW c \in Caller, Leave(c)
  PROVE  LocalsOK'
<1>1. << >> \in Seq(Value) /\ << >> \in Seq(Words) /\ {} \in SUBSET Value
      /\ << >> \in Value \cup Short \cup {<< >>}
      /\ "idle" \in {"idle", "touch", "insert", "bound", "evict", "scrub"}
  OBVIOUS
<1>2. stage' \in [Caller -> {"idle", "touch", "insert", "bound", "evict", "scrub"}]
  BY <1>1, Updated DEF LocalsOK, Leave, Reach
<1>3. value' \in [Caller -> Value \cup Short \cup {<< >>}]
  BY <1>1, Updated DEF LocalsOK, Leave
<1>4. line' \in [Caller -> Seq(Words)]
  BY <1>1, Updated DEF LocalsOK, Leave
<1>5. rest' \in [Caller -> Seq(Value)]
  BY <1>1, Updated DEF LocalsOK, Leave
<1>6. atStart' \in [Caller -> SUBSET Value]
  BY <1>1, Updated DEF LocalsOK, Leave
<1> QED BY <1>2, <1>3, <1>4, <1>5, <1>6 DEF LocalsOK

LEMMA LocalsNext ==
  ASSUME LocalsOK, values \in Seq(Value), NEW c \in Caller, LogStep(c)
  PROVE  LocalsOK'
<1> DEFINE Stages == {"idle", "touch", "insert", "bound", "evict", "scrub"}
<1>1. CASE Leave(c)
  BY <1>1, LeaveTyped
<1>2. CASE Register(c)
  BY <1>2 DEF Register, Reach, LocalsOK
<1>3. CASE Insert(c)
  BY <1>3 DEF Insert, Reach, LocalsOK
<1>4. CASE CheckBound(c) /\ ~Leave(c)
  BY <1>4 DEF CheckBound, Reach, LocalsOK
<1>5. CASE Evict(c)
  BY <1>5 DEF Evict, Reach, LocalsOK
<1>6. CASE StartScrub(c)
  <2>1. PICK l \in Line : line' = [line EXCEPT ![c] = l]
    BY <1>6 DEF StartScrub
  <2>2. l \in Seq(Words) /\ ToSet(values) \in SUBSET Value
    BY LineFacts DEF ToSet
  <2>3. line' \in [Caller -> Seq(Words)]
    BY <2>1, <2>2, Updated DEF LocalsOK
  <2>4. rest' \in [Caller -> Seq(Value)]
    BY <1>6, Updated DEF LocalsOK, StartScrub
  <2>5. atStart' \in [Caller -> SUBSET Value]
    BY <1>6, <2>2, Updated DEF LocalsOK, StartScrub
  <2> QED BY <1>6, <2>3, <2>4, <2>5 DEF LocalsOK, StartScrub, Reach
<1>7. CASE ScrubNext(c)
  <2>1. PICK u : u = Head(rest[c])
    OBVIOUS
  <2>2. rest[c] \in Seq(Value) /\ rest[c] # << >> /\ line[c] \in Seq(Words)
    BY <1>7 DEF LocalsOK, ScrubNext
  <2>3. u \in Value /\ Tail(rest[c]) \in Seq(Value)
    BY <2>1, <2>2
  <2>4. Scrubbed(line[c], u) \in Seq(Words)
    <3>1. u \in Seq(UNION {ToSet(v) : v \in Value}) /\ u # << >> /\ Redacted \in Words
      BY <2>3, ValueFacts DEF Words
    <3> QED BY <2>2, <3>1, ScrubbedTraced
  <2>5. line' = [line EXCEPT ![c] = Scrubbed(line[c], u)]
        /\ rest' = [rest EXCEPT ![c] = Tail(rest[c])]
    BY <1>7, <2>1 DEF ScrubNext
  <2>6. line' \in [Caller -> Seq(Words)] /\ rest' \in [Caller -> Seq(Value)]
    BY <2>3, <2>4, <2>5, Updated DEF LocalsOK
  <2> QED BY <1>7, <2>6 DEF LocalsOK, ScrubNext
<1> QED
  BY <1>1, <1>2, <1>3, <1>4, <1>5, <1>6, <1>7 DEF LogStep, Touch, ScrubRaises, Emit

-----------------------------------------------------------------------------
(* The registry.                                                           *)

\* The registry is the end of the history.
Suffix(s, t) ==
  Len(s) <= Len(t) /\ \A i \in 1 .. Len(s) : s[i] = t[(Len(t) - Len(s)) + i]

LEMMA SuffixTail ==
  ASSUME NEW s \in Seq(Value), NEW t \in Seq(Value), s # << >>, Suffix(s, t)
  PROVE  Suffix(Tail(s), t) /\ Len(Tail(s)) = Len(s) - 1
<1>1. PICK n \in Nat, m \in Nat : n = Len(s) /\ m = Len(t) /\ n >= 1
  OBVIOUS
<1>2. Len(Tail(s)) = n - 1 /\ \A i \in 1 .. (n - 1) : Tail(s)[i] = s[i + 1]
  BY <1>1
<1>3. n <= m /\ \A i \in 1 .. n : s[i] = t[(m - n) + i]
  BY <1>1 DEF Suffix
<1>4. ASSUME NEW i \in 1 .. (n - 1) PROVE Tail(s)[i] = t[(m - (n - 1)) + i]
  <2>1. i + 1 \in 1 .. n /\ (m - n) + (i + 1) = (m - (n - 1)) + i
    BY <1>1
  <2> QED BY <1>2, <1>3, <2>1
<1>5. n - 1 <= m
  BY <1>1, <1>3
<1> QED BY <1>1, <1>2, <1>4, <1>5 DEF Suffix

\* A new value goes to the end of both.
LEMMA SuffixNew ==
  ASSUME NEW s \in Seq(Value), NEW t \in Seq(Value), Unique(t), Suffix(s, t),
         NEW v \in Value, v \notin ToSet(s)
  PROVE  LET r == ToTheEnd(t, v) IN
         /\ Suffix(Append(s, v), r)
         /\ Len(r) >= Len(t)
         /\ Len(s) = Len(t) => Len(r) = Len(t) + 1
<1> DEFINE r == ToTheEnd(t, v)
           a == Append(s, v)
<1>1. PICK n \in Nat, m \in Nat : n = Len(s) /\ m = Len(t)
  OBVIOUS
<1>2. n <= m /\ \A i \in 1 .. n : s[i] = t[(m - n) + i]
  BY <1>1 DEF Suffix
<1>3. \A i \in 1 .. n : s[i] # v
  BY <1>1 DEF ToSet
<1>4. /\ r \in Seq(Value) /\ (v \notin ToSet(t) => r = Append(t, v))
      /\ \A k \in 1 .. m : t[k] = v =>
           /\ Len(r) = m
           /\ \A x \in 1 .. m :
                r[x] = IF x < k THEN t[x] ELSE IF x < m THEN t[x + 1] ELSE t[k]
  <2>1. /\ r \in Seq(Value) /\ (v \notin ToSet(t) => r = Append(t, v))
        /\ \A k \in 1 .. Len(t) : t[k] = v =>
             /\ Len(r) = Len(t)
             /\ \A x \in 1 .. Len(t) :
                  r[x] = IF x < k THEN t[x] ELSE IF x < Len(t) THEN t[x + 1] ELSE t[k]
    BY RenewedFacts
  <2> HIDE DEF r
  <2> QED BY <1>1, <2>1
<1>5. Len(a) = n + 1 /\ a[n + 1] = v /\ \A i \in 1 .. n : a[i] = s[i]
  BY <1>1, AppendFacts
<1> HIDE DEF a, r
<1>6. CASE v \notin ToSet(t)
  <2>1. Len(r) = m + 1 /\ r[m + 1] = v /\ \A i \in 1 .. m : r[i] = t[i]
    BY <1>1, <1>4, <1>6, AppendFacts
  <2>2. ASSUME NEW i \in 1 .. (n + 1) PROVE a[i] = r[((m + 1) - (n + 1)) + i]
    <3>1. CASE i = n + 1
      <4>1. ((m + 1) - (n + 1)) + i = m + 1
        BY <1>1, <3>1
      <4> QED BY <1>5, <2>1, <3>1, <4>1
    <3>2. CASE i # n + 1
      <4>1. /\ i \in 1 .. n /\ (m - n) + i \in 1 .. m
            /\ ((m + 1) - (n + 1)) + i = (m - n) + i
        BY <1>1, <1>2, <3>2
      <4> QED BY <1>2, <1>5, <2>1, <4>1
    <3> QED BY <3>1, <3>2
  <2>3. Suffix(a, r)
    BY <1>1, <1>2, <1>5, <2>1, <2>2 DEF Suffix
  <2> QED BY <1>1, <2>1, <2>3 DEF a, r
<1>7. CASE v \in ToSet(t)
  <2>1. PICK k \in 1 .. m : t[k] = v
    BY <1>1, <1>7 DEF ToSet
  <2>2. k <= m - n
    <3> SUFFICES ASSUME k > m - n PROVE FALSE
      BY <1>1
    <3>1. k - (m - n) \in 1 .. n /\ (m - n) + (k - (m - n)) = k
      BY <1>1, <1>2
    <3> QED BY <1>2, <1>3, <2>1, <3>1
  <2>3. /\ Len(r) = m
        /\ \A x \in 1 .. m : r[x] = IF x < k THEN t[x] ELSE IF x < m THEN t[x + 1] ELSE t[k]
    BY <1>4, <2>1
  <2>4. ASSUME NEW i \in 1 .. (n + 1) PROVE a[i] = r[(m - (n + 1)) + i]
    <3>1. CASE i = n + 1
      <4>1. (m - (n + 1)) + i = m /\ m \in 1 .. m /\ ~(m < k) /\ ~(m < m)
        BY <1>1, <2>2, <3>1
      <4> QED BY <1>5, <2>1, <2>3, <3>1, <4>1
    <3>2. CASE i # n + 1
      <4>0. (m - (n + 1)) + i \in 1 .. m
        BY <1>1, <2>2, <3>2
      <4>1. PICK x \in 1 .. m : x = (m - (n + 1)) + i
        BY <4>0
      <4>2. ~(x < k) /\ x < m /\ i \in 1 .. n /\ (m - n) + i = x + 1
        BY <1>1, <2>2, <3>2, <4>1
      <4>3. r[x] = t[x + 1]
        BY <2>3, <4>2
      <4>4. a[i] = t[x + 1]
        BY <1>2, <1>5, <4>2
      <4> QED BY <4>1, <4>3, <4>4
    <3> QED BY <3>1, <3>2
  <2>5. n + 1 <= m
    BY <1>1, <2>2
  <2>6. Suffix(a, r)
    BY <1>1, <1>5, <2>3, <2>4, <2>5 DEF Suffix
  <2> QED BY <1>1, <2>3, <2>5, <2>6 DEF a, r
<1> QED BY <1>6, <1>7

\* A value that is moved to the end of the one is moved to the end of the other.
LEMMA SuffixMoved ==
  ASSUME NEW s \in Seq(Value), NEW t \in Seq(Value), Unique(s), Unique(t),
         Suffix(s, t), NEW v \in ToSet(s)
  PROVE  LET r == ToTheEnd(t, v)
             q == ToTheEnd(s, v) IN
         /\ Suffix(q, r) /\ Len(r) = Len(t) /\ Len(q) = Len(s)
         /\ Last(s) = v => r = t
<1> DEFINE r == ToTheEnd(t, v)
           q == ToTheEnd(s, v)
<1>1. PICK n \in Nat, m \in Nat : n = Len(s) /\ m = Len(t)
  OBVIOUS
<1>2. n <= m /\ \A i \in 1 .. n : s[i] = t[(m - n) + i]
  BY <1>1 DEF Suffix
<1>3. PICK k \in 1 .. n : s[k] = v
  BY <1>1 DEF ToSet
<1>4. PICK d \in Nat : d = m - n
  <2>1. m - n \in Nat
    BY <1>1, <1>2
  <2> QED BY <2>1
<1>5. d + k \in 1 .. m /\ t[d + k] = v /\ v \in Value
  BY <1>1, <1>2, <1>3, <1>4
<1>6. /\ r \in Seq(Value) /\ Len(r) = m
      /\ \A x \in 1 .. m :
           r[x] = IF x < d + k THEN t[x] ELSE IF x < m THEN t[x + 1] ELSE t[d + k]
  <2>1. /\ r \in Seq(Value)
        /\ \A k1 \in 1 .. Len(t) : t[k1] = v =>
             /\ Len(r) = Len(t)
             /\ \A x \in 1 .. Len(t) :
                  r[x] = IF x < k1 THEN t[x] ELSE IF x < Len(t) THEN t[x + 1] ELSE t[k1]
    BY <1>5, RenewedFacts
  <2>2. PICK b \in 1 .. m : b = d + k
    BY <1>5
  <2> HIDE DEF r
  <2>3. t[b] = v
    BY <1>5, <2>2
  <2>4. /\ Len(r) = m
        /\ \A x \in 1 .. m : r[x] = IF x < b THEN t[x] ELSE IF x < m THEN t[x + 1] ELSE t[b]
    BY <1>1, <2>1, <2>3
  <2> QED BY <2>1, <2>2, <2>4
<1>7. /\ q \in Seq(Value) /\ Len(q) = n
      /\ \A x \in 1 .. n :
           q[x] = IF x < k THEN s[x] ELSE IF x < n THEN s[x + 1] ELSE s[k]
  <2>1. /\ q \in Seq(Value)
        /\ \A k1 \in 1 .. Len(s) : s[k1] = v =>
             /\ Len(q) = Len(s)
             /\ \A x \in 1 .. Len(s) :
                  q[x] = IF x < k1 THEN s[x] ELSE IF x < Len(s) THEN s[x + 1] ELSE s[k1]
    BY <1>5, RenewedFacts
  <2> HIDE DEF q
  <2> QED BY <1>1, <1>3, <2>1
<1> HIDE DEF r, q
<1>8. ASSUME NEW i \in 1 .. n PROVE q[i] = r[(m - n) + i]
  <2>0. d + i \in 1 .. m
    BY <1>1, <1>2, <1>4
  <2>1. PICK x \in 1 .. m : x = d + i
    BY <2>0
  <2>2. (m - n) + i = x /\ (x < d + k <=> i < k) /\ (x < m <=> i < n)
    BY <1>1, <1>4, <2>1
  <2>3. s[i] = t[x]
    BY <1>2, <2>2
  <2>4. i < n => s[i + 1] = t[x + 1]
    <3>1. i < n => i + 1 \in 1 .. n /\ (m - n) + (i + 1) = x + 1
      BY <1>1, <1>4, <2>1
    <3> QED BY <1>2, <3>1
  <2> QED BY <1>3, <1>5, <1>6, <1>7, <2>2, <2>3, <2>4
<1>9. Suffix(q, r)
  BY <1>1, <1>2, <1>6, <1>7, <1>8 DEF Suffix
<1>10. ASSUME Last(s) = v PROVE r = t
  <2>1. k = n
    <3>1. n \in DOMAIN s /\ s[n] = v /\ k \in DOMAIN s
      BY <1>1, <1>3, <1>10 DEF Last
    <3> QED BY <1>3, <3>1 DEF Unique
  <2>2. d + k = m
    BY <1>1, <1>4, <2>1
  <2>3. \A x \in 1 .. m : r[x] = t[x]
    <3> TAKE x \in 1 .. m
    <3>1. x < m \/ x = m
      BY <1>1
    <3> QED BY <1>1, <1>6, <2>2, <3>1
  <2> QED BY <1>1, <1>6, <2>3
<1> QED BY <1>1, <1>6, <1>7, <1>9, <1>10 DEF r, q

In(stages) == {c \in Caller : stage[c] \in stages}

\* The registry ends the history and exceeds its bound by no more than there are
\* threads that will see to it; from where values have been forgotten on, the
\* evictions under way included, it is at most one value per thread short of
\* full.
Registry ==
  /\ values \in Seq(Value) /\ entered \in Seq(Value)
  /\ Unique(values) /\ Unique(entered) /\ Suffix(values, entered)
  /\ \A c \in Caller : stage[c] = "insert" => value[c] \in Value

Counted ==
  /\ Len(values) <= MaxTracked + Cardinality(In({"bound", "evict"}))
  /\ (In({"evict"}) # {} \/ Len(values) < Len(entered)) =>
       Len(values) >= (MaxTracked + 1 - Cardinality(Caller)) + Cardinality(In({"evict"}))

\* What a step does to the registry and the history.
LEMMA RegistryStep ==
  ASSUME LocalsOK, Registry, NEW c \in Caller, LogStep(c)
  PROVE  \/ UNCHANGED <<values, entered>>
         \/ \E v \in ToSet(values) :
                 /\ entered' = ToTheEnd(entered, v)
                 /\ \/ values' = ToTheEnd(values, v)
                    \/ UNCHANGED values /\ Last(values) = v
         \/ /\ stage[c] = "insert" /\ stage' = [stage EXCEPT ![c] = "bound"]
            /\ \E v \in Value \ ToSet(values) :
                 entered' = ToTheEnd(entered, v) /\ values' = Append(values, v)
         \/ Evict(c)
<1>1. CASE Touch(c)
  BY <1>1, Zenon DEF Touch, Reorder, Renewed, ToTheEnd
<1>2. CASE Insert(c)
  BY <1>2, Zenon DEF Insert, Reach, Reorder, Renewed, ToTheEnd, Registry
<1>3. CASE Register(c) \/ CheckBound(c) \/ StartScrub(c) \/ ScrubNext(c)
           \/ ScrubRaises(c) \/ Emit(c)
  BY <1>3 DEF Register, CheckBound, StartScrub, ScrubNext, ScrubRaises, Emit
<1> QED BY <1>1, <1>2, <1>3 DEF LogStep

\* What a step does to the threads at the bound.
LEMMA StageStep ==
  ASSUME LocalsOK, NEW c \in Caller, LogStep(c)
  PROVE  \/ /\ UNCHANGED <<In({"bound", "evict"}), In({"evict"})>>
            /\ ~Evict(c)
         \/ /\ stage[c] = "insert" /\ stage' = [stage EXCEPT ![c] = "bound"]
            /\ Insert(c)
         \/ /\ stage[c] = "bound" /\ stage' = [stage EXCEPT ![c] = "evict"]
            /\ CheckBound(c) /\ Len(values) > MaxTracked
         \/ /\ stage[c] = "bound" /\ stage' = [stage EXCEPT ![c] = "idle"]
            /\ CheckBound(c) /\ ~(Len(values) > MaxTracked)
         \/ /\ stage[c] = "evict" /\ stage' = [stage EXCEPT ![c] = "bound"]
            /\ Evict(c)
<1>1. CASE Insert(c)
  BY <1>1 DEF Insert, Reach
<1>2. CASE CheckBound(c)
  BY <1>2 DEF CheckBound, Leave, Reach
<1>3. CASE Evict(c)
  BY <1>3 DEF Evict, Reach
<1>4. CASE Register(c) \/ Touch(c) \/ StartScrub(c) \/ ScrubNext(c) \/ ScrubRaises(c)
           \/ Emit(c)
  <2>1. /\ stage[c] \in {"idle", "touch", "scrub"}
        /\ \/ UNCHANGED stage
           \/ \E to \in {"touch", "insert", "scrub", "idle"} :
                stage' = [stage EXCEPT ![c] = to]
    BY <1>4 DEF Register, Touch, StartScrub, ScrubNext, ScrubRaises, Emit, Leave, Reach
  <2>2. \A d \in Caller : /\ stage'[d] \in {"bound", "evict"} <=> stage[d] \in {"bound", "evict"}
                          /\ stage'[d] = "evict" <=> stage[d] = "evict"
    BY <2>1 DEF LocalsOK
  <2>3. UNCHANGED <<In({"bound", "evict"}), In({"evict"})>>
    BY <2>2 DEF In
  <2>4. ~Evict(c)
    BY <2>1 DEF Evict
  <2> QED BY <2>3, <2>4
<1> QED BY <1>1, <1>2, <1>3, <1>4 DEF LogStep

LEMMA CardinalityIn ==
  ASSUME NEW S, S \subseteq Caller
  PROVE  /\ IsFiniteSet(S) /\ Cardinality(S) \in Nat
         /\ Cardinality(S) <= Cardinality(Caller) /\ Cardinality(Caller) \in Nat
         /\ S # {} => Cardinality(S) > 0
         /\ \A c \in Caller \ S :
              /\ Cardinality(S \cup {c}) = Cardinality(S) + 1
              /\ Cardinality(S) + 1 <= Cardinality(Caller)
         /\ \A c \in S : Cardinality(S \ {c}) = Cardinality(S) - 1
<1>1. IsFiniteSet(Caller)
  BY TrackedAssumption
<1>2. IsFiniteSet(S) /\ Cardinality(S) <= Cardinality(Caller)
  BY <1>1, FS_Subset
<1>3. Cardinality(S) \in Nat /\ Cardinality(Caller) \in Nat
  BY <1>1, <1>2, FS_CardinalityType
<1>4. S # {} => Cardinality(S) > 0
  BY <1>2, <1>3, FS_EmptySet
<1>5. ASSUME NEW c \in Caller \ S
      PROVE  /\ Cardinality(S \cup {c}) = Cardinality(S) + 1
             /\ Cardinality(S) + 1 <= Cardinality(Caller)
  <2>1. Cardinality(S \cup {c}) = Cardinality(S) + 1
    BY <1>2, FS_AddElement
  <2>2. S \cup {c} \subseteq Caller
    OBVIOUS
  <2>3. Cardinality(S \cup {c}) <= Cardinality(Caller)
    BY <1>1, <2>2, FS_Subset
  <2> QED BY <2>1, <2>3
<1>6. ASSUME NEW c \in S PROVE Cardinality(S \ {c}) = Cardinality(S) - 1
  BY <1>2, FS_RemoveElement
<1> QED BY <1>2, <1>3, <1>4, <1>5, <1>6
LEMMA RegistryNext ==
  ASSUME LocalsOK, Registry, NEW c \in Caller, LogStep(c),
         Evict(c) => values # << >>
  PROVE  Registry'
<1>1. \A d \in Caller : stage'[d] = "insert" => value'[d] \in Value
  <2> SUFFICES ASSUME NEW d \in Caller, stage'[d] = "insert"
               PROVE  value'[d] \in Value
    OBVIOUS
  <2>1. CASE Register(c)
    BY <2>1 DEF Register, Reach, LocalsOK, Registry
  <2>2. CASE Leave(c)
    BY <2>2 DEF Leave, Reach, LocalsOK, Registry
  <2>3. CASE Insert(c) \/ Evict(c) \/ (CheckBound(c) /\ ~Leave(c)) \/ StartScrub(c) \/ ScrubNext(c)
    <3>1. UNCHANGED value /\ \/ UNCHANGED stage
                             \/ \E to \in {"bound", "evict", "scrub"} :
                                  stage' = [stage EXCEPT ![c] = to]
      BY <2>3 DEF Insert, Evict, CheckBound, StartScrub, ScrubNext, Reach
    <3> QED BY <3>1 DEF LocalsOK, Registry
  <2> QED BY <2>1, <2>2, <2>3 DEF LogStep, Touch, ScrubRaises, Emit
<1> DEFINE Kept == /\ values' \in Seq(Value) /\ entered' \in Seq(Value)
                   /\ Unique(values') /\ Unique(entered') /\ Suffix(values', entered')
<1>2. Kept
  <2> USE DEF Registry
  <2>1. CASE UNCHANGED <<values, entered>>
    BY <2>1
  <2>2. ASSUME NEW v \in ToSet(values), entered' = ToTheEnd(entered, v),
               values' = ToTheEnd(values, v) \/ (UNCHANGED values /\ Last(values) = v)
        PROVE  Kept
    <3>1. v \in Value
      BY DEF ToSet
    <3>2. /\ Suffix(ToTheEnd(values, v), ToTheEnd(entered, v))
          /\ Last(values) = v => ToTheEnd(entered, v) = entered
      BY SuffixMoved
    <3>3. /\ ToTheEnd(values, v) \in Seq(Value) /\ Unique(ToTheEnd(values, v))
          /\ ToTheEnd(entered, v) \in Seq(Value) /\ Unique(ToTheEnd(entered, v))
      BY <3>1, RenewedFacts
    <3> QED BY <2>2, <3>2, <3>3
  <2>3. ASSUME NEW v \in Value \ ToSet(values), entered' = ToTheEnd(entered, v),
               values' = Append(values, v)
        PROVE  Kept
    <3>1. Suffix(Append(values, v), ToTheEnd(entered, v))
      BY SuffixNew
    <3>2. ToTheEnd(entered, v) \in Seq(Value) /\ Unique(ToTheEnd(entered, v))
      BY RenewedFacts
    <3>3. Append(values, v) \in Seq(Value) /\ Unique(Append(values, v))
      <4>1. Append(values, v) = ToTheEnd(values, v)
        BY WithoutFacts DEF ToTheEnd
      <4> QED BY <4>1, RenewedFacts
    <3> QED BY <2>3, <3>1, <3>2, <3>3
  <2>4. CASE Evict(c)
    <3>1. values' = Tail(values) /\ entered' = entered /\ values # << >>
      BY <2>4 DEF Evict, Reorder
    <3>2. Suffix(Tail(values), entered)
      BY <3>1, SuffixTail
    <3>3. Tail(values) \in Seq(Value) /\ Unique(Tail(values))
      <4>1. /\ Tail(values) \in Seq(Value) /\ Len(Tail(values)) = Len(values) - 1
            /\ \A i \in 1 .. (Len(values) - 1) : Tail(values)[i] = values[i + 1]
        BY <3>1
      <4>2. ASSUME NEW i \in DOMAIN Tail(values), NEW j \in DOMAIN Tail(values),
                   Tail(values)[i] = Tail(values)[j]
            PROVE  i = j
        <5>1. /\ i \in 1 .. (Len(values) - 1) /\ j \in 1 .. (Len(values) - 1)
              /\ i + 1 \in DOMAIN values /\ j + 1 \in DOMAIN values
          BY <4>1
        <5>2. values[i + 1] = values[j + 1]
          BY <4>1, <4>2, <5>1
        <5>3. i + 1 = j + 1
          BY <5>1, <5>2 DEF Unique
        <5> QED BY <5>1, <5>3
      <4> QED BY <4>1, <4>2 DEF Unique
    <3> QED BY <3>1, <3>2, <3>3
  <2> HIDE DEF Kept, Registry
  <2> QED BY <2>1, <2>2, <2>3, <2>4, RegistryStep
<1> QED BY <1>1, <1>2 DEF Registry, Unique, Suffix

LEMMA CountedNext ==
  ASSUME LocalsOK, Registry, Counted, NEW c \in Caller, LogStep(c)
  PROVE  Counted' /\ (Evict(c) => values # << >>)
<1> DEFINE B == In({"bound", "evict"})
           E == In({"evict"})
<1>1. PICK n \in Nat, m \in Nat : n = Len(values) /\ m = Len(entered) /\ n <= m
  BY DEF Registry, Suffix
<1>2. B \subseteq Caller /\ E \subseteq Caller
  BY DEF In
<1>3. B' \subseteq Caller /\ E' \subseteq Caller
  BY DEF In
<1>4. PICK b \in Nat, e \in Nat, all \in Nat :
        /\ b = Cardinality(B) /\ e = Cardinality(E) /\ all = Cardinality(Caller)
        /\ e <= all /\ MaxTracked \in Nat /\ MaxTracked > all
  BY <1>2, CardinalityIn, TrackedAssumption
<1>5. n <= MaxTracked + b /\ ((E # {} \/ n < m) => n >= (MaxTracked + 1 - all) + e)
  BY <1>1, <1>4 DEF Counted
<1>6. \A d \in Caller : stage[d] \in {"idle", "touch", "insert", "bound", "evict", "scrub"}
  BY DEF LocalsOK
<1>7. \/ /\ values' = values /\ entered' = entered
      \/ Len(values') = n /\ Len(entered') = m
      \/ /\ stage[c] = "insert" /\ stage' = [stage EXCEPT ![c] = "bound"]
         /\ Len(values') = n + 1 /\ Len(entered') \in Nat /\ Len(entered') >= m
         /\ n = m => Len(entered') = m + 1
      \/ Evict(c)
  <2>1. ASSUME NEW v \in ToSet(values), entered' = ToTheEnd(entered, v),
               values' = ToTheEnd(values, v) \/ (UNCHANGED values /\ Last(values) = v)
        PROVE  Len(values') = n /\ Len(entered') = m
    BY <1>1, <2>1, SuffixMoved DEF Registry
  <2>2. ASSUME NEW v \in Value \ ToSet(values), entered' = ToTheEnd(entered, v),
               values' = Append(values, v)
        PROVE  /\ Len(values') = n + 1 /\ Len(entered') \in Nat /\ Len(entered') >= m
               /\ n = m => Len(entered') = m + 1
    <3>1. /\ Len(ToTheEnd(entered, v)) >= m
          /\ n = m => Len(ToTheEnd(entered, v)) = m + 1
      BY <1>1, SuffixNew DEF Registry
    <3>2. Len(Append(values, v)) = n + 1
      BY <1>1, AppendFacts DEF Registry
    <3>3. Len(ToTheEnd(entered, v)) \in Nat
      BY RenewedFacts DEF Registry
    <3> QED BY <2>2, <3>1, <3>2, <3>3
  <2> QED BY <2>1, <2>2, RegistryStep
<1> HIDE DEF B, E
<1>8. CASE UNCHANGED <<B, E>> /\ ~Evict(c)
  <2>1. ~(stage[c] = "insert" /\ stage' = [stage EXCEPT ![c] = "bound"])
    BY <1>8 DEF B, In, LocalsOK
  <2>2. Len(values') = n /\ Len(entered') = m
    BY <1>1, <1>7, <1>8, <2>1
  <2> QED BY <1>4, <1>5, <1>8, <2>2 DEF Counted, B, E
<1>9. CASE /\ stage[c] = "insert" /\ stage' = [stage EXCEPT ![c] = "bound"] /\ Insert(c)
  <2>1. c \notin B /\ B' = B \cup {c} /\ E' = E
    BY <1>9 DEF B, E, In, LocalsOK
  <2>2. Cardinality(B') = b + 1 /\ Cardinality(E') = e
    BY <1>2, <1>4, <2>1, CardinalityIn
  <2>3. ~Evict(c)
    BY <1>9 DEF Evict
  <2>4. \/ Len(values') = n /\ Len(entered') = m
        \/ /\ Len(values') = n + 1 /\ Len(entered') \in Nat /\ Len(entered') >= m
           /\ n = m => Len(entered') = m + 1
    BY <1>1, <1>7, <2>3
  <2>5. Len(values') <= MaxTracked + (b + 1)
    BY <1>1, <1>4, <1>5, <2>4
  <2>6. (E # {} \/ Len(values') < Len(entered')) => Len(values') >= (MaxTracked + 1 - all) + e
    <3>1. PICK x, y : x = Len(values') /\ y = Len(entered')
      OBVIOUS
    <3>2. x < y => n < m
      BY <1>1, <2>4, <3>1
    <3>3. x = n \/ x = n + 1
      BY <2>4, <3>1
    <3>4. (E # {} \/ x < y) => n >= (MaxTracked + 1 - all) + e
      BY <1>5, <3>2
    <3> QED BY <1>1, <1>4, <3>1, <3>3, <3>4
  <2> QED BY <1>4, <2>1, <2>2, <2>3, <2>5, <2>6 DEF Counted, B, E
<1>10. CASE /\ stage[c] = "bound" /\ stage' = [stage EXCEPT ![c] = "evict"]
            /\ CheckBound(c) /\ Len(values) > MaxTracked
  <2>1. c \notin E /\ E' = E \cup {c} /\ B' = B
    BY <1>10 DEF B, E, In, LocalsOK
  <2>2. Cardinality(E') = e + 1 /\ e + 1 <= all
    BY <1>2, <1>4, <2>1, CardinalityIn
  <2>3. UNCHANGED <<values, entered>> /\ ~Evict(c)
    BY <1>10 DEF CheckBound, Evict
  <2>4. n >= (MaxTracked + 1 - all) + (e + 1)
    BY <1>1, <1>4, <1>10, <2>2
  <2> QED BY <1>1, <1>4, <1>5, <2>1, <2>2, <2>3, <2>4 DEF Counted, B, E
<1>11. CASE /\ stage[c] = "bound" /\ stage' = [stage EXCEPT ![c] = "idle"]
            /\ CheckBound(c) /\ ~(Len(values) > MaxTracked)
  <2>1. E' = E
    BY <1>11 DEF E, In, LocalsOK
  <2>2. Cardinality(B') \in Nat
    BY <1>3, CardinalityIn
  <2>3. UNCHANGED <<values, entered>> /\ ~Evict(c)
    BY <1>11 DEF CheckBound, Evict
  <2>4. n <= MaxTracked + Cardinality(B')
    BY <1>1, <1>4, <1>11, <2>2
  <2> QED BY <1>1, <1>4, <1>5, <2>1, <2>3, <2>4 DEF Counted, B, E
<1>12. CASE stage[c] = "evict" /\ stage' = [stage EXCEPT ![c] = "bound"] /\ Evict(c)
  <2>1. c \in E /\ E' = E \ {c} /\ B' = B
    BY <1>12 DEF B, E, In, LocalsOK
  <2>2. Cardinality(E') = e - 1 /\ e > 0
    BY <1>2, <1>4, <2>1, CardinalityIn
  <2>3. n >= (MaxTracked + 1 - all) + e
    BY <1>5, <2>1
  <2>4. values # << >>
    BY <1>1, <1>4, <2>2, <2>3 DEF Registry
  <2>5. Len(values') = n - 1 /\ entered' = entered
    BY <1>1, <1>12, <2>4 DEF Evict, Reorder, Registry
  <2>6. n - 1 >= (MaxTracked + 1 - all) + (e - 1) /\ n - 1 <= MaxTracked + b
    BY <1>4, <1>5, <2>3
  <2> QED BY <1>4, <2>1, <2>2, <2>4, <2>5, <2>6 DEF Counted, B, E
<1> QED BY <1>8, <1>9, <1>10, <1>11, <1>12, StageStep DEF B, E
LogInvariant == LocalsOK /\ stale \in [Caller -> BOOLEAN] /\ Registry /\ Counted /\ LinesInvariant

LEMMA LogInvariantInit == LogInit => LogInvariant
<1> SUFFICES ASSUME LogInit PROVE LogInvariant
  OBVIOUS
<1>1. LocalsOK /\ stale \in [Caller -> BOOLEAN]
  BY DEF LogInit, LocalsOK
<1>2. Registry
  BY DEF LogInit, Registry, Unique, Suffix
<1>3. In({"evict"}) = {}
  BY DEF In, LogInit
<1>4. Cardinality(In({"bound", "evict"})) \in Nat /\ MaxTracked \in Nat
  <2>1. In({"bound", "evict"}) \subseteq Caller
    BY DEF In
  <2> QED BY <2>1, CardinalityIn, TrackedAssumption
<1>5. Len(values) = 0 /\ Len(entered) = 0
  BY DEF LogInit
<1>6. Counted
  BY <1>3, <1>4, <1>5 DEF Counted
<1>7. LinesInvariant
  BY DEF LinesInvariant, LogInit
<1> QED BY <1>1, <1>2, <1>6, <1>7 DEF LogInvariant

LEMMA LinesNext ==
  ASSUME LocalsOK, Registry, LinesInvariant, NEW c \in Caller, LogStep(c)
  PROVE  LinesInvariant'
<1> SUFFICES ASSUME NEW d \in Caller, stage'[d] = "scrub",
                    NEW v \in atStart'[d], v \notin ToSet(rest'[d])
             PROVE  ~Occurs(line'[d], v)
  BY DEF LinesInvariant
<1>1. CASE stage[d] = "scrub" /\ UNCHANGED <<atStart[d], rest[d], line[d]>>
  BY <1>1 DEF LinesInvariant
<1>2. CASE d # c
  <2>1. stage[d] = "scrub" /\ UNCHANGED <<atStart[d], rest[d], line[d]>>
    <3>1. /\ \/ UNCHANGED stage
             \/ \E to : stage' = [stage EXCEPT ![c] = to]
          /\ \/ UNCHANGED line
             \/ \E to : line' = [line EXCEPT ![c] = to]
          /\ \/ UNCHANGED rest
             \/ \E to : rest' = [rest EXCEPT ![c] = to]
          /\ \/ UNCHANGED atStart
             \/ \E to : atStart' = [atStart EXCEPT ![c] = to]
      BY DEF LogStep, Register, Touch, Insert, CheckBound, Evict, StartScrub, ScrubNext,
             ScrubRaises, Emit, Leave, Reach
    <3> QED BY <1>2, <3>1 DEF LocalsOK
  <2> QED BY <1>1, <2>1
<1>3. CASE d = c /\ StartScrub(c)
  <2>1. atStart'[c] = ToSet(values) /\ rest'[c] = values
    BY <1>3 DEF StartScrub, LocalsOK
  <2> QED BY <1>3, <2>1
<1>4. CASE d = c /\ ScrubNext(c)
  <2>1. /\ stage[c] = "scrub" /\ rest[c] # << >> /\ rest[c] \in Seq(Value)
        /\ rest'[c] = Tail(rest[c]) /\ atStart'[c] = atStart[c]
        /\ line'[c] = Scrubbed(line[c], Head(rest[c]))
        /\ line[c] \in Seq(Words) /\ atStart[c] \in SUBSET Value
    BY <1>4 DEF ScrubNext, LocalsOK
  <2>2. PICK u \in Value, r \in Seq(Value) : u = Head(rest[c]) /\ r = Tail(rest[c])
    <3>1. Head(rest[c]) \in Value /\ Tail(rest[c]) \in Seq(Value)
      BY <2>1
    <3> QED BY <3>1
  <2>3. ToSet(rest[c]) = {u} \cup ToSet(r)
    <3>1. PICK s \in Seq(Value) : s = rest[c]
      BY <2>1
    <3>2. /\ s[1] = u /\ Len(r) = Len(s) - 1 /\ \A i \in 1 .. Len(r) : r[i] = s[i + 1]
          /\ Len(s) >= 1
      BY <2>1, <2>2, <3>1
    <3>3. \A x : (\E i \in 1 .. Len(s) : x = s[i]) <=> x = u \/ \E i \in 1 .. Len(r) : x = r[i]
      <4> TAKE x
      <4>1. ASSUME NEW i \in 1 .. Len(s), x = s[i], x # u
            PROVE  \E j \in 1 .. Len(r) : x = r[j]
        <5>1. i - 1 \in 1 .. Len(r) /\ (i - 1) + 1 = i
          BY <3>2, <4>1
        <5> QED BY <3>2, <4>1, <5>1
      <4>2. ASSUME NEW j \in 1 .. Len(r), x = r[j]
            PROVE  \E i \in 1 .. Len(s) : x = s[i]
        <5>1. j + 1 \in 1 .. Len(s)
          BY <3>2
        <5> QED BY <3>2, <4>2, <5>1
      <4>3. 1 \in 1 .. Len(s)
        BY <3>2
      <4> QED BY <3>2, <4>1, <4>2, <4>3
    <3>4. DOMAIN s = 1 .. Len(s) /\ DOMAIN r = 1 .. Len(r)
      OBVIOUS
    <3>5. \A x : /\ x \in ToSet(s) <=> \E i \in 1 .. Len(s) : x = s[i]
                 /\ x \in ToSet(r) <=> \E i \in 1 .. Len(r) : x = r[i]
      BY <3>4, Zenon DEF ToSet
    <3>6. \A x : x \in ToSet(s) <=> (x = u \/ x \in ToSet(r))
      BY <3>3, <3>5, Zenon
    <3> QED BY <3>1, <3>6
  <2>4. v \in Value
    BY <1>4, <2>1
  <2>5. v = u \/ ~Occurs(line[c], v)
    BY <1>4, <2>1, <2>2, <2>3 DEF LinesInvariant
  <2> SUFFICES ASSUME Occurs(line'[c], v) PROVE FALSE
    BY <1>4
  <2>6. /\ u \in Seq(UNION {ToSet(w) : w \in Value}) /\ u # << >>
        /\ v \in Seq(UNION {ToSet(w) : w \in Value}) /\ v # << >> /\ Redacted \notin ToSet(v)
    BY <2>2, <2>4, ValueFacts
  <2>7. Redacted \in Words
    BY DEF Words
  <2>8. Occurs(line[c], v) /\ v # u
    BY <2>1, <2>2, <2>6, <2>7, ScrubbedClean
  <2> QED BY <2>5, <2>8
<1>5. CASE d = c /\ ~StartScrub(c) /\ ~ScrubNext(c)
  <2>1. FALSE
    BY <1>5 DEF LogStep, Register, Touch, Insert, CheckBound, Evict, ScrubRaises, Emit,
                Leave, Reach, LocalsOK
  <2> QED BY <2>1
<1> QED BY <1>2, <1>3, <1>4, <1>5

LEMMA LogInvariantNext ==
  LogInvariant /\ [\E c \in Caller : LogStep(c)]_logVars => LogInvariant'
<1> SUFFICES ASSUME LogInvariant, [\E c \in Caller : LogStep(c)]_logVars PROVE LogInvariant'
  OBVIOUS
<1>1. ASSUME NEW c \in Caller, LogStep(c) PROVE LogInvariant'
  <2>1. LocalsOK'
    BY <1>1, LocalsNext DEF LogInvariant, Registry
  <2>2. stale' \in [Caller -> BOOLEAN]
    BY <1>1 DEF LogInvariant, LogStep, Register, Touch, Insert, CheckBound, Evict,
                StartScrub, ScrubNext, ScrubRaises, Emit, Reorder
  <2>3. Counted' /\ (Evict(c) => values # << >>)
    BY <1>1, CountedNext DEF LogInvariant
  <2>4. Registry'
    BY <1>1, <2>3, RegistryNext DEF LogInvariant
  <2>5. LinesInvariant'
    BY <1>1, LinesNext DEF LogInvariant
  <2> QED BY <2>1, <2>2, <2>3, <2>4, <2>5 DEF LogInvariant
<1>2. CASE UNCHANGED logVars
  BY <1>2 DEF logVars, LogInvariant, LocalsOK, Registry, Unique, Suffix, Counted, In, LinesInvariant
<1> QED BY <1>1, <1>2

LEMMA LogInvariantHolds == LogSpec => []LogInvariant
BY LogInvariantInit, LogInvariantNext, PTL DEF LogSpec

\* The registry and every thread's view of it are well typed.
THEOREM LogTypeCorrect == LogSpec => []LogTypeOK
<1>1. LogInvariant => LogTypeOK
  BY DEF LogInvariant, LocalsOK, Registry, LogTypeOK, Words
<1> QED BY <1>1, LogInvariantHolds, PTL

\* However the values overlap and whatever the other threads do to the registry, a
\* line that is written holds no value that was registered when its scrub began
\* (app/logging.py: scrub).
THEOREM WrittenLinesClean == LogSpec => []LinesClean
<1>1. LogInvariant => LinesClean
  BY DEF LogInvariant, LinesInvariant, LinesClean, ToSet
<1> QED BY <1>1, LogInvariantHolds, PTL

\* For any number of threads below the bound of the registry, the values that were
\* last registered are in it: the evictions of a full registry take the oldest, at
\* most one per thread too many (app/logging.py: register).
THEOREM NewestRemembered == LogSpec => []NewestKept
<1>1. ASSUME LogInvariant PROVE NewestKept
  <2>1. PICK n \in Nat, m \in Nat : n = Len(values) /\ m = Len(entered) /\ n <= m
    BY <1>1 DEF LogInvariant, Registry, Suffix
  <2>2. \A i \in 1 .. n : values[i] = entered[(m - n) + i]
    BY <1>1, <2>1 DEF LogInvariant, Registry, Suffix
  <2>3. PICK e \in Nat, all \in Nat :
          /\ e = Cardinality(In({"evict"})) /\ all = Cardinality(Caller)
          /\ MaxTracked \in Nat /\ MaxTracked > all
    <3>1. In({"evict"}) \subseteq Caller
      BY DEF In
    <3> QED BY <3>1, CardinalityIn, TrackedAssumption
  <2>4. n < m => n >= (MaxTracked + 1 - all) + e
    BY <1>1, <2>1, <2>3 DEF LogInvariant, Counted
  <2>5. ASSUME NEW i \in DOMAIN entered, Len(entered) - i <= MaxTracked - Cardinality(Caller)
        PROVE  entered[i] \in ToSet(values)
    <3>1. i \in 1 .. m /\ m - i <= MaxTracked - all
      BY <1>1, <2>1, <2>3, <2>5 DEF LogInvariant, Registry
    <3>2. i > m - n
      BY <2>1, <2>3, <2>4, <3>1
    <3>3. i - (m - n) \in 1 .. n /\ (m - n) + (i - (m - n)) = i
      BY <2>1, <3>1, <3>2
    <3>4. entered[i] = values[i - (m - n)] /\ DOMAIN values = 1 .. n
      BY <1>1, <2>1, <2>2, <3>3 DEF LogInvariant, Registry
    <3> QED BY <3>3, <3>4 DEF ToSet
  <2>6. Len(values) <= MaxTracked + Cardinality({c \in Caller : stage[c] \in {"bound", "evict"}})
    BY <1>1 DEF LogInvariant, Counted, In
  <2> QED BY <2>5, <2>6 DEF NewestKept
<1> QED BY <1>1, LogInvariantHolds, PTL
=============================================================================
