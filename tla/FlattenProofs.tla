--------------------------- MODULE FlattenProofs ---------------------------
(***************************************************************************)
(* Induction over the numbers, without the library's theorems for it, and  *)
(* what FlattenSeq does to sequences of sequences: what the proofs about   *)
(* restored text rest on.                                                  *)
(***************************************************************************)
EXTENDS Integers, Sequences, SequencesExt, WellFoundedInduction, TLAPS

\* What holds of a number whenever it holds of all smaller ones holds of all.
LEMMA FromBelow ==
  ASSUME NEW S, \A n \in Nat : (\A m \in Nat : m < n => m \in S) => n \in S
  PROVE  Nat \subseteq S
<1> DEFINE R == {p \in Nat \X Nat : p[1] < p[2]}
           T == {k \in Nat : k \notin S}
<1>1. IsWellFoundedOn(R, Nat)
  BY NatLessThanWellFounded DEF OpToRel
<1>2. CASE T = {}
  BY <1>2
<1>3. CASE T # {}
  <2>1. PICK x \in T : \A y \in T : ~ (<<y, x>> \in R)
    <3>1. T \subseteq Nat /\ T # {}
      BY <1>3
    <3> HIDE DEF R, T
    <3> QED BY <1>1, <3>1, WFMin
  <2>2. ASSUME NEW y \in T PROVE ~ (y < x)
    <3>1. y \in Nat /\ x \in Nat
      OBVIOUS
    <3>2. y < x => <<y, x>> \in R
      BY <3>1
    <3> HIDE DEF R, T
    <3> QED BY <2>1, <3>2
  <2>3. \A m \in Nat : m < x => m \in S
    BY <2>2
  <2> QED BY <2>3
<1> QED BY <1>2, <1>3

\* What holds at an index whenever it holds at all earlier ones holds everywhere.
LEMMA Upward ==
  ASSUME NEW N \in Nat, NEW S,
         \A i \in 1 .. N : (\A j \in 1 .. N : j < i => j \in S) => i \in S
  PROVE  1 .. N \subseteq S
<1> DEFINE T == {k \in Nat : k \in 1 .. N => k \in S}
<1>1. ASSUME NEW n \in Nat, \A m \in Nat : m < n => m \in T PROVE n \in T
  <2>1. CASE n \in 1 .. N
    <3>1. \A j \in 1 .. N : j < n => j \in S
      BY <1>1
    <3> QED BY <2>1, <3>1
  <2> QED BY <2>1
<1>2. Nat \subseteq T
  <2> HIDE DEF T
  <2> QED BY <1>1, FromBelow
<1> QED BY <1>2

\* The first i of the sequences, one after the other.
Joined(s, f) == f = [i \in 1 .. Len(s) |-> IF i = 1 THEN s[i] ELSE f[i - 1] \o s[i]]

LEMMA JoinFacts ==
  ASSUME NEW W, NEW a \in Seq(W), NEW b \in Seq(W)
  PROVE  /\ a \o b \in Seq(W) /\ Len(a \o b) = Len(a) + Len(b)
         /\ Len(a) \in Nat /\ Len(b) \in Nat
         /\ \A i \in 1 .. Len(a) : (a \o b)[i] = a[i]
         /\ \A i \in 1 .. Len(b) : (a \o b)[Len(a) + i] = b[i]
OBVIOUS

LEMMA Regrouped ==
  ASSUME NEW W, NEW a \in Seq(W), NEW b \in Seq(W), NEW c \in Seq(W)
  PROVE  (a \o b) \o c = a \o (b \o c)
OBVIOUS

\* The same as one relation, so that it is matched as a whole.
Regroups(a, b, c) == (a \o b) \o c = a \o (b \o c)

LEMMA JoinedThree ==
  ASSUME NEW W, NEW a \in Seq(W), NEW b \in Seq(W), NEW c \in Seq(W)
  PROVE  Regroups(a, b, c)
BY Regrouped DEF Regroups

LEMMA FlattenRecurs ==
  ASSUME NEW S, NEW s \in Seq(S)
  PROVE  \E f : Joined(s, f) /\ FlattenSeq(s) = IF Len(s) = 0 THEN s ELSE f[Len(s)]
<1> DEFINE N == Len(s)
           Part(n, g) == g = [i \in 1 .. n |-> IF i = 1 THEN s[i] ELSE g[i - 1] \o s[i]]
           T == {n \in 1 .. N : \E g : Part(n, g)}
<1>1. N \in Nat
  OBVIOUS
<1>2. ASSUME NEW n \in 1 .. N, \A j \in 1 .. N : j < n => j \in T
      PROVE  n \in T
  <2>1. CASE n = 1
    <3> DEFINE g == [i \in 1 .. 1 |-> s[i]]
    <3>1. \A i \in 1 .. 1 : i = 1
      OBVIOUS
    <3>2. Part(1, g)
      BY <3>1
    <3> QED BY <2>1, <3>2
  <2>2. CASE n # 1
    <3>1. n - 1 \in 1 .. N /\ n - 1 < n
      BY <1>1, <2>2
    <3>2. PICK g : Part(n - 1, g)
      BY <1>2, <3>1
    <3> DEFINE h == [i \in 1 .. n |-> IF i = n THEN g[n - 1] \o s[n] ELSE g[i]]
    <3>3. \A i \in 1 .. (n - 1) : i \in 1 .. n /\ i # n /\ h[i] = g[i]
      BY <1>1
    <3>4. \A i \in 1 .. n : i # n => /\ g[i] = (IF i = 1 THEN s[i] ELSE g[i - 1] \o s[i])
                                     /\ i # 1 => h[i - 1] = g[i - 1]
      <4> TAKE i \in 1 .. n
      <4> HIDE DEF h
      <4>1. i # n => i \in 1 .. (n - 1) /\ (i # 1 => i - 1 \in 1 .. (n - 1))
        BY <1>1
      <4> QED BY <3>2, <3>3, <4>1
    <3>5. h[n - 1] = g[n - 1]
      <4>1. n - 1 \in 1 .. (n - 1)
        BY <2>2
      <4> HIDE DEF h
      <4> QED BY <3>3, <4>1
    <3>6. \A i \in 1 .. n : (IF i = n THEN g[n - 1] \o s[n] ELSE g[i]) =
                              (IF i = 1 THEN s[i] ELSE h[i - 1] \o s[i])
      <4> HIDE DEF h
      <4> QED BY <2>2, <3>4, <3>5
    <3>7. Part(n, h)
      BY <3>6
    <3> QED BY <3>7
  <2> QED BY <2>1, <2>2
<1>3. CASE N = 0
  <2> DEFINE g == [i \in 1 .. 0 |-> s[i]]
  <2>1. \A i \in 1 .. 0 : FALSE
    OBVIOUS
  <2>2. Joined(s, g)
    BY <1>3, <2>1 DEF Joined
  <2> QED BY <1>3, <2>2 DEF FlattenSeq
<1>4. CASE N # 0
  <2>1. 1 .. N \subseteq T
    <3> HIDE DEF T, N
    <3> QED BY <1>1, <1>2, Upward
  <2>2. PICK g : Part(N, g)
    <3>1. N \in T
      <4>1. N \in 1 .. N
        BY <1>1, <1>4
      <4> HIDE DEF T, N
      <4> QED BY <2>1, <4>1
    <3> HIDE DEF Part, N
    <3> QED BY <3>1
  <2>3. FlattenSeq(s) = (CHOOSE f : Part(N, f))[N]
    BY <1>4 DEF FlattenSeq
  <2>4. PICK f : Part(N, f) /\ FlattenSeq(s) = f[N]
    <3> HIDE DEF Part, N
    <3> QED BY <2>2, <2>3
  <2>5. Joined(s, f)
    BY <2>4 DEF Joined
  <2> QED BY <1>4, <2>4, <2>5
<1> QED BY <1>3, <1>4

LEMMA FlattenConcat ==
  ASSUME NEW W, NEW a \in Seq(Seq(W)), NEW b \in Seq(Seq(W))
  PROVE  /\ FlattenSeq(a) \in Seq(W)
         /\ FlattenSeq(a \o b) = FlattenSeq(a) \o FlattenSeq(b)
<1> DEFINE n == Len(a)
           m == Len(b)
<1>1. /\ n \in Nat /\ m \in Nat /\ a \o b \in Seq(Seq(W)) /\ Len(a \o b) = n + m
      /\ \A i \in 1 .. n : (a \o b)[i] = a[i] /\ a[i] \in Seq(W)
      /\ \A i \in 1 .. m : (a \o b)[n + i] = b[i] /\ b[i] \in Seq(W)
  OBVIOUS
<1>2. PICK f : Joined(a, f) /\ FlattenSeq(a) = IF n = 0 THEN a ELSE f[n]
  BY FlattenRecurs
<1>3. PICK g : Joined(b, g) /\ FlattenSeq(b) = IF m = 0 THEN b ELSE g[m]
  BY FlattenRecurs
<1>4. PICK h : Joined(a \o b, h)
               /\ FlattenSeq(a \o b) = IF Len(a \o b) = 0 THEN a \o b ELSE h[Len(a \o b)]
  BY <1>1, FlattenRecurs
<1> HIDE DEF n, m
<1>5. \A i \in 1 .. n : f[i] = IF i = 1 THEN a[i] ELSE f[i - 1] \o a[i]
  BY <1>2 DEF Joined, n
<1>6. \A i \in 1 .. m : g[i] = IF i = 1 THEN b[i] ELSE g[i - 1] \o b[i]
  BY <1>3 DEF Joined, m
<1>7. \A i \in 1 .. (n + m) : h[i] = IF i = 1 THEN (a \o b)[i] ELSE h[i - 1] \o (a \o b)[i]
  BY <1>1, <1>4 DEF Joined
<1>8. \A i \in 1 .. n : f[i] \in Seq(W) /\ h[i] = f[i]
  <2> DEFINE S == {i \in 1 .. n : f[i] \in Seq(W) /\ h[i] = f[i]}
  <2>1. ASSUME NEW i \in 1 .. n, \A j \in 1 .. n : j < i => j \in S
        PROVE  i \in S
    <3>1. i \in 1 .. (n + m)
      BY <1>1
    <3>2. CASE i = 1
      BY <1>1, <1>5, <1>7, <3>1, <3>2
    <3>3. CASE i # 1
      <4>1. i - 1 \in 1 .. n /\ i - 1 < i
        BY <1>1, <3>3
      <4>2. f[i - 1] \in Seq(W) /\ h[i - 1] = f[i - 1]
        BY <2>1, <4>1
      <4>3. f[i] = f[i - 1] \o a[i] /\ h[i] = h[i - 1] \o a[i]
        BY <1>1, <1>5, <1>7, <3>1, <3>3
      <4>4. f[i] \in Seq(W)
        BY <1>1, <4>2, <4>3
      <4> QED BY <4>2, <4>3, <4>4
    <3> QED BY <3>2, <3>3
  <2>2. 1 .. n \subseteq S
    <3> HIDE DEF S
    <3> QED BY <1>1, <2>1, Upward
  <2> QED BY <2>2
<1>9. FlattenSeq(a) \in Seq(W)
  <2>1. CASE n = 0
    BY <1>2, <2>1 DEF n
  <2>2. CASE n # 0
    <3>1. n \in 1 .. n
      BY <1>1, <2>2
    <3> QED BY <1>2, <1>8, <2>2, <3>1
  <2> QED BY <2>1, <2>2
<1> DEFINE A == FlattenSeq(a)
<1>10. \A i \in 1 .. m : g[i] \in Seq(W) /\ h[n + i] = A \o g[i]
  <2> DEFINE S == {i \in 1 .. m : g[i] \in Seq(W) /\ h[n + i] = A \o g[i]}
  <2>1. ASSUME NEW i \in 1 .. m, \A j \in 1 .. m : j < i => j \in S
        PROVE  i \in S
    <3>1. n + i \in 1 .. (n + m) /\ (a \o b)[n + i] = b[i] /\ b[i] \in Seq(W)
      BY <1>1
    <3>2. CASE i = 1
      <4>1. g[i] = b[i]
        BY <1>6, <3>2
      <4>2. CASE n = 0
        <5>1. n + i = 1 /\ A = << >>
          <6>1. A = a
            BY <1>2, <4>2
          <6> QED BY <1>1, <3>2, <4>2, <6>1 DEF n
        <5>2. h[n + i] = b[i]
          BY <1>7, <3>1, <5>1
        <5>3. << >> \o b[i] = b[i]
          BY <3>1
        <5> QED BY <3>1, <4>1, <5>1, <5>2, <5>3
      <4>3. CASE n # 0
        <5>1. n + i # 1 /\ (n + i) - 1 = n /\ n \in 1 .. n
          BY <1>1, <3>2, <4>3
        <5>2. h[n + i] = h[n] \o b[i]
          BY <1>7, <3>1, <5>1
        <5>3. h[n] = A
          BY <1>2, <1>8, <4>3, <5>1
        <5> QED BY <3>1, <4>1, <5>2, <5>3
      <4> QED BY <4>2, <4>3
    <3>3. CASE i # 1
      <4>1. i - 1 \in 1 .. m /\ i - 1 < i /\ n + i # 1 /\ (n + i) - 1 = n + (i - 1)
        BY <1>1, <3>3
      <4>2. g[i - 1] \in Seq(W) /\ h[n + (i - 1)] = A \o g[i - 1]
        BY <2>1, <4>1
      <4>3. g[i] = g[i - 1] \o b[i] /\ h[n + i] = h[n + (i - 1)] \o b[i]
        BY <1>6, <1>7, <3>1, <3>3, <4>1
      <4>4. (A \o g[i - 1]) \o b[i] = A \o (g[i - 1] \o b[i]) /\ g[i - 1] \o b[i] \in Seq(W)
        <5>1. A \in Seq(W) /\ g[i - 1] \in Seq(W) /\ b[i] \in Seq(W)
          BY <1>9, <3>1, <4>2
        <5> HIDE DEF A, S
        <5>2. Regroups(A, g[i - 1], b[i])
          BY <5>1, JoinedThree
        <5>3. g[i - 1] \o b[i] \in Seq(W)
          BY ONLY <5>1, JoinFacts
        <5> QED BY <5>2, <5>3 DEF Regroups
      <4> QED BY <4>2, <4>3, <4>4
    <3> QED BY <3>2, <3>3
  <2>2. 1 .. m \subseteq S
    <3> HIDE DEF S
    <3> QED BY <1>1, <2>1, Upward
  <2> QED BY <2>2
<1>11. FlattenSeq(a \o b) = A \o FlattenSeq(b)
  <2>1. CASE m # 0
    <3>1. m \in 1 .. m /\ n + m # 0
      BY <1>1, <2>1
    <3> QED BY <1>1, <1>3, <1>4, <1>10, <2>1, <3>1
  <2>2. CASE m = 0
    <3>1. b = << >> /\ FlattenSeq(b) = << >> /\ n + m = n
      BY <1>1, <1>3, <2>2 DEF m
    <3>2. A \o << >> = A /\ a \o b = a
      BY <1>9, <3>1
    <3> QED BY <3>1, <3>2
  <2> QED BY <2>1, <2>2
<1> QED BY <1>9, <1>11

LEMMA JoinedUp ==
  ASSUME NEW W, NEW a \in Seq(W), NEW b \in Seq(W), NEW c \in Seq(W),
         Len(c) = Len(a) + Len(b),
         \A i \in 1 .. Len(a) : c[i] = a[i],
         \A i \in 1 .. Len(b) : c[Len(a) + i] = b[i]
  PROVE  c = a \o b
<1>1. /\ a \o b \in Seq(W) /\ Len(a \o b) = Len(c) /\ Len(a) \in Nat /\ Len(b) \in Nat
      /\ \A i \in 1 .. Len(a) : (a \o b)[i] = a[i]
      /\ \A i \in 1 .. Len(b) : (a \o b)[Len(a) + i] = b[i]
  BY JoinFacts
<1>2. ASSUME NEW i \in 1 .. Len(c) PROVE c[i] = (a \o b)[i]
  <2>1. CASE i <= Len(a)
    <3>1. i \in 1 .. Len(a)
      BY <1>1, <2>1
    <3> QED BY <1>1, <3>1
  <2>2. CASE i > Len(a)
    <3>1. PICK j \in 1 .. Len(b) : i = Len(a) + j
      <4>1. i - Len(a) \in 1 .. Len(b) /\ i = Len(a) + (i - Len(a))
        BY <1>1, <2>2
      <4> QED BY <4>1
    <3> QED BY <1>1, <3>1
  <2> QED BY <2>1, <2>2
<1> DEFINE d == a \o b
<1>3. d \in Seq(W) /\ Len(d) = Len(c) /\ \A i \in 1 .. Len(c) : c[i] = d[i]
  BY <1>1, <1>2
<1> HIDE DEF d
<1>4. c = d
  BY <1>3
<1> QED BY <1>4 DEF d

\* A sequence that is not empty ends in an element.
LEMMA LastApart ==
  ASSUME NEW W, NEW s \in Seq(W), s # << >>
  PROVE  \E b \in Seq(W), x \in W : s = b \o <<x>> /\ Len(s) = Len(b) + 1
<1> DEFINE n == Len(s)
           b == [i \in 1 .. (n - 1) |-> s[i]]
           e == <<s[n]>>
<1>1. n \in Nat /\ n - 1 \in Nat /\ n \in 1 .. n /\ s[n] \in W
  OBVIOUS
<1>2. /\ b \in Seq(W) /\ Len(b) = n - 1 /\ e \in Seq(W) /\ Len(e) = 1 /\ e[1] = s[n]
      /\ \A i \in 1 .. (n - 1) : s[i] = b[i]
  BY <1>1
<1> HIDE DEF b, e
<1>3. /\ Len(s) = Len(b) + Len(e) /\ \A i \in 1 .. Len(b) : s[i] = b[i]
      /\ \A i \in 1 .. Len(e) : s[Len(b) + i] = e[i]
  BY <1>1, <1>2
<1>4. s = b \o e
  BY <1>2, <1>3, JoinedUp
<1> QED BY <1>1, <1>2, <1>3, <1>4 DEF e

LEMMA FlattenEmpty == FlattenSeq(<< >>) = << >>
BY DEF FlattenSeq

LEMMA FlattenSingle ==
  ASSUME NEW W, NEW x \in Seq(W)
  PROVE  FlattenSeq(<<x>>) = x
<1>1. <<x>> \in Seq(Seq(W)) /\ Len(<<x>>) = 1
  OBVIOUS
<1>2. PICK f : /\ Joined(<<x>>, f)
               /\ FlattenSeq(<<x>>) = IF Len(<<x>>) = 0 THEN <<x>> ELSE f[Len(<<x>>)]
  <2> DEFINE s == <<x>>
  <2>1. s \in Seq(Seq(W))
    BY <1>1
  <2> HIDE DEF s
  <2>2. \E f : Joined(s, f) /\ FlattenSeq(s) = IF Len(s) = 0 THEN s ELSE f[Len(s)]
    BY <2>1, FlattenRecurs
  <2> QED BY <2>2 DEF s
<1> QED BY <1>1, <1>2 DEF Joined

\* Another sequence behind the others.
LEMMA FlattenAppend ==
  ASSUME NEW W, NEW a \in Seq(Seq(W)), NEW x \in Seq(W)
  PROVE  FlattenSeq(a \o <<x>>) = FlattenSeq(a) \o x
<1> DEFINE b == <<x>>
<1>1. b \in Seq(Seq(W)) /\ FlattenSeq(b) = x
  BY FlattenSingle
<1> HIDE DEF b
<1>2. FlattenSeq(a \o b) = FlattenSeq(a) \o x
  BY <1>1, FlattenConcat
<1> QED BY <1>2 DEF b

LEMMA FlattenGlued ==
  ASSUME NEW W, NEW a, NEW b, NEW c,
         a \in Seq(Seq(W)) /\ b \in Seq(Seq(W)) /\ c \in Seq(Seq(W)),
         Len(c) = Len(a) + Len(b),
         \A i \in 1 .. Len(a) : c[i] = a[i],
         \A i \in 1 .. Len(b) : c[Len(a) + i] = b[i]
  PROVE  FlattenSeq(a) \in Seq(W) /\ FlattenSeq(c) = FlattenSeq(a) \o FlattenSeq(b)
<1>1. c = a \o b
  BY JoinedUp
<1>2. FlattenSeq(a) \in Seq(W) /\ FlattenSeq(a \o b) = FlattenSeq(a) \o FlattenSeq(b)
  BY FlattenConcat
<1> QED BY <1>1, <1>2

LEMMA FlattenNothing ==
  ASSUME NEW n \in Nat, NEW a, a = [i \in 1 .. n |-> << >>]
  PROVE  FlattenSeq(a) = << >>
<1>1. a \in Seq(Seq({})) /\ FlattenSeq(a) \in Seq({})
  <2>1. a \in Seq(Seq({}))
    OBVIOUS
  <2> QED BY <2>1, FlattenConcat
<1>2. ASSUME NEW s \in Seq({}) PROVE s = << >>
  OBVIOUS
<1> QED BY <1>1, <1>2

\* All of it comes from one place.
LEMMA FlattenOnce ==
  ASSUME NEW W, NEW s \in Seq(Seq(W)), NEW k \in 1 .. Len(s),
         \A i \in 1 .. Len(s) : i # k => s[i] = << >>
  PROVE  FlattenSeq(s) = s[k]
<1> DEFINE a == [i \in 1 .. (k - 1) |-> << >>]
           b == [i \in 1 .. (Len(s) - k) |-> << >>]
           e == <<s[k]>>
<1>1. /\ Len(s) \in Nat /\ k - 1 \in Nat /\ Len(s) - k \in Nat /\ s[k] \in Seq(W)
      /\ << >> \in Seq(W)
  OBVIOUS
<1>2. /\ a \in Seq(Seq(W)) /\ Len(a) = k - 1 /\ \A i \in 1 .. (k - 1) : a[i] = << >>
      /\ b \in Seq(Seq(W)) /\ Len(b) = Len(s) - k /\ \A i \in 1 .. (Len(s) - k) : b[i] = << >>
      /\ e \in Seq(Seq(W)) /\ Len(e) = 1 /\ e[1] = s[k]
  <2>1. ASSUME NEW n \in Nat, NEW f, f = [i \in 1 .. n |-> << >>]
        PROVE  f \in Seq(Seq(W)) /\ Len(f) = n /\ \A i \in 1 .. n : f[i] = << >>
    BY <1>1, <2>1
  <2>2. a \in Seq(Seq(W)) /\ Len(a) = k - 1 /\ \A i \in 1 .. (k - 1) : a[i] = << >>
    <3> HIDE DEF e
    <3> QED BY <1>1, <2>1
  <2>3. b \in Seq(Seq(W)) /\ Len(b) = Len(s) - k /\ \A i \in 1 .. (Len(s) - k) : b[i] = << >>
    BY <1>1, <2>1
  <2>4. e \in Seq(Seq(W)) /\ Len(e) = 1 /\ e[1] = s[k]
    BY <1>1
  <2> QED BY <2>2, <2>3, <2>4
<1>3. FlattenSeq(a) = << >> /\ FlattenSeq(b) = << >> /\ FlattenSeq(e) = s[k]
  BY <1>1, FlattenNothing, FlattenSingle
<1> HIDE DEF a, b, e
<1> DEFINE d == a \o e
           c == d \o b
<1>4. /\ d \in Seq(Seq(W)) /\ Len(d) = k /\ d[k] = s[k]
      /\ \A i \in 1 .. (k - 1) : d[i] = << >>
  <2>1. /\ d \in Seq(Seq(W)) /\ Len(d) = Len(a) + Len(e)
        /\ \A i \in 1 .. Len(a) : d[i] = a[i]
        /\ \A i \in 1 .. Len(e) : d[Len(a) + i] = e[i]
    <3>1. a \in Seq(Seq(W)) /\ e \in Seq(Seq(W))
      BY <1>2
    <3>2. /\ a \o e \in Seq(Seq(W)) /\ Len(a \o e) = Len(a) + Len(e)
          /\ \A i \in 1 .. Len(a) : (a \o e)[i] = a[i]
          /\ \A i \in 1 .. Len(e) : (a \o e)[Len(a) + i] = e[i]
      BY <3>1, JoinFacts
    <3> QED BY <3>2
  <2>2. d[(k - 1) + 1] = e[1] /\ (k - 1) + 1 = k
    BY <1>1, <1>2, <2>1
  <2> QED BY <1>1, <1>2, <2>1, <2>2
<1>5. FlattenSeq(d) = << >> \o s[k]
  <2>1. FlattenSeq(a \o e) = FlattenSeq(a) \o FlattenSeq(e)
    BY <1>2, FlattenConcat
  <2> QED BY <1>3, <2>1
<1>6. << >> \o s[k] = s[k] /\ s[k] \o << >> = s[k]
  BY <1>1
<1> HIDE DEF d
<1>7. FlattenSeq(c) = s[k]
  <2>1. FlattenSeq(d \o b) = FlattenSeq(d) \o FlattenSeq(b)
    BY <1>2, <1>4, FlattenConcat
  <2> QED BY <1>3, <1>5, <1>6, <2>1
<1>8. s = c
  <2>1. Len(s) = Len(d) + Len(b)
    BY <1>1, <1>2, <1>4
  <2>2. ASSUME NEW i \in 1 .. Len(d) PROVE s[i] = d[i]
    <3>1. i \in 1 .. Len(s) /\ (i = k \/ (i # k /\ i \in 1 .. (k - 1)))
      BY <1>1, <1>4
    <3> QED BY <1>4, <3>1
  <2>3. ASSUME NEW i \in 1 .. Len(b) PROVE s[Len(d) + i] = b[i]
    <3>1. k + i \in 1 .. Len(s) /\ k + i # k /\ i \in 1 .. (Len(s) - k)
      BY <1>1, <1>2
    <3> QED BY <1>2, <1>4, <3>1
  <2> QED BY <1>2, <1>4, <2>1, <2>2, <2>3, JoinedUp
<1> HIDE DEF c
<1> QED BY <1>7, <1>8
=============================================================================
