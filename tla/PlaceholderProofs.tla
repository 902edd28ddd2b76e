------------------------- MODULE PlaceholderProofs -------------------------
(***************************************************************************)
(* Placeholders, for any catalogue, pieces and name.  Their names: the     *)
(* n-th entity's placeholder carries the n-th suffix of the documented     *)
(* order, is read back as what it was made of and fits the room that the   *)
(* hold-back leaves for it.  The hold-back of a streamed answer: as long   *)
(* as a placeholder fits what may be held back, the client reads what it   *)
(* would have read had the answer come in one piece.                       *)
(***************************************************************************)
EXTENDS HoldBack, Placeholder, FlattenProofs

-----------------------------------------------------------------------------
(* The letters of a suffix.                                                *)

LEMMA Quotient ==
  ASSUME NEW k \in Nat, k > 0
  PROVE  /\ (k - 1) \div 26 \in Nat /\ (k - 1) \div 26 < k /\ (k - 1) % 26 \in 0 .. 25
         /\ k - 1 = (26 * ((k - 1) \div 26)) + ((k - 1) % 26)
  OBVIOUS

\* A part of _letters' recursion, up to n.
Spelled(n, g) ==
  g = [k \in 0 .. n |->
        IF k = 0 THEN << >> ELSE Append(g[(k - 1) \div 26], 65 + ((k - 1) % 26))]

LEMMA SpelledExists == \A n \in Nat : \E g : Spelled(n, g)
<1> DEFINE S == {n \in Nat : \E g : Spelled(n, g)}
<1>1. ASSUME NEW n \in Nat, \A m \in Nat : m < n => m \in S PROVE n \in S
  <2>1. CASE n = 0
    <3> DEFINE g == [k \in 0 .. 0 |-> << >>]
    <3>1. \A k \in 0 .. 0 : k = 0
      OBVIOUS
    <3>2. Spelled(0, g)
      BY <3>1 DEF Spelled
    <3> QED BY <2>1, <3>2
  <2>2. CASE n > 0
    <3>1. n - 1 \in Nat /\ n - 1 < n
      BY <2>2
    <3>2. PICK g : Spelled(n - 1, g)
      BY <1>1, <3>1
    <3> DEFINE h == [k \in 0 .. n |->
                      IF k < n THEN g[k] ELSE Append(g[(n - 1) \div 26], 65 + ((n - 1) % 26))]
    <3>3. ASSUME NEW k \in 0 .. n
          PROVE  h[k] = IF k = 0 THEN << >> ELSE Append(h[(k - 1) \div 26], 65 + ((k - 1) % 26))
      <4>1. CASE k = 0
        <5>1. 0 \in 0 .. (n - 1) /\ h[k] = g[0]
          BY <2>2, <4>1
        <5>2. g[0] = << >>
          BY <3>2, <5>1 DEF Spelled
        <5> QED BY <4>1, <5>1, <5>2
      <4>2. CASE k > 0
        <5>1. (k - 1) \div 26 \in 0 .. (k - 1)
          BY <4>2, Quotient
        <5>2. h[(k - 1) \div 26] = g[(k - 1) \div 26]
          BY <4>2, <5>1
        <5>3. h[k] = Append(g[(k - 1) \div 26], 65 + ((k - 1) % 26))
          <6>1. CASE k < n
            <7>1. k \in 0 .. (n - 1) /\ k # 0 /\ h[k] = g[k]
              BY <4>2, <6>1
            <7> QED BY <3>2, <7>1 DEF Spelled
          <6>2. CASE k = n
            BY <6>2
          <6> QED BY <6>1, <6>2
        <5> HIDE DEF h
        <5> QED BY <4>2, <5>2, <5>3
      <4> QED BY <4>1, <4>2
    <3>4. h = [k \in 0 .. n |->
                IF k = 0 THEN << >> ELSE Append(h[(k - 1) \div 26], 65 + ((k - 1) % 26))]
      BY <3>3
    <3> HIDE DEF h
    <3>5. Spelled(n, h)
      BY <3>4 DEF Spelled
    <3> QED BY <3>5
  <2> QED BY <2>1, <2>2
<1>2. Nat \subseteq S
  <2> HIDE DEF S
  <2> QED BY <1>1, FromBelow
<1> QED BY <1>2

LEMMA SpelledAgree ==
  ASSUME NEW n \in Nat, NEW m \in Nat, NEW g, NEW h, Spelled(n, g), Spelled(m, h)
  PROVE  \A k \in Nat : k <= n /\ k <= m => g[k] = h[k]
<1> DEFINE S == {k \in Nat : k <= n /\ k <= m => g[k] = h[k]}
<1>1. ASSUME NEW k \in Nat, \A j \in Nat : j < k => j \in S PROVE k \in S
  <2> SUFFICES ASSUME k <= n, k <= m PROVE g[k] = h[k]
    OBVIOUS
  <2>1. k \in 0 .. n /\ k \in 0 .. m
    OBVIOUS
  <2>2. CASE k = 0
    BY <2>1, <2>2 DEF Spelled
  <2>3. CASE k > 0
    <3>1. PICK q \in Nat : q = (k - 1) \div 26 /\ q < k
      BY <2>3, Quotient
    <3>2. g[q] = h[q]
      BY <1>1, <3>1
    <3>3. k # 0 /\ g[k] = Append(g[q], 65 + ((k - 1) % 26))
      <4>1. g[k] = IF k = 0 THEN << >> ELSE Append(g[(k - 1) \div 26], 65 + ((k - 1) % 26))
        BY <2>1, Zenon DEF Spelled
      <4> QED BY <2>3, <3>1, <4>1
    <3>4. h[k] = Append(h[q], 65 + ((k - 1) % 26))
      <4>1. h[k] = IF k = 0 THEN << >> ELSE Append(h[(k - 1) \div 26], 65 + ((k - 1) % 26))
        BY <2>1, Zenon DEF Spelled
      <4> QED BY <2>3, <3>1, <4>1
    <3> QED BY <3>2, <3>3, <3>4
  <2> QED BY <2>2, <2>3
<1>2. Nat \subseteq S
  <2> HIDE DEF S
  <2> QED BY <1>1, FromBelow
<1> QED BY <1>2

\* _letters, one letter at a time.
LEMMA LettersAre ==
  /\ Letters(0) = << >>
  /\ \A k \in Nat \ {0} : Letters(k) = Append(Letters((k - 1) \div 26), 65 + ((k - 1) % 26))
<1> DEFINE G(n) == CHOOSE g : Spelled(n, g)
           f == [k \in Nat |-> G(k)[k]]
           Right(x) == x = [k \in Nat |->
                 IF k = 0 THEN << >> ELSE Append(x[(k - 1) \div 26], 65 + ((k - 1) % 26))]
<1>1. \A n \in Nat : Spelled(n, G(n))
  BY SpelledExists
<1> HIDE DEF G
<1>2. ASSUME NEW k \in Nat
      PROVE  f[k] = IF k = 0 THEN << >> ELSE Append(f[(k - 1) \div 26], 65 + ((k - 1) % 26))
  <2>0. k \in 0 .. k /\ f[k] = G(k)[k] /\ Spelled(k, G(k))
    BY <1>1
  <2>1. CASE k = 0
    BY <2>0, <2>1 DEF Spelled
  <2>2. CASE k > 0
    <3>1. PICK q \in Nat : q = (k - 1) \div 26 /\ q < k
      BY <2>2, Quotient
    <3>2. f[q] = G(q)[q] /\ Spelled(q, G(q))
      BY <1>1
    <3>3. G(k)[q] = G(q)[q]
      BY <2>0, <3>1, <3>2, SpelledAgree
    <3>4. G(k)[k] = Append(G(k)[q], 65 + ((k - 1) % 26))
      <4>1. G(k)[k] = IF k = 0 THEN << >>
                      ELSE Append(G(k)[(k - 1) \div 26], 65 + ((k - 1) % 26))
        BY <2>0, Zenon DEF Spelled
      <4> QED BY <2>2, <3>1, <4>1
    <3>5. f[k] = Append(f[q], 65 + ((k - 1) % 26))
      BY <2>0, <3>2, <3>3, <3>4
    <3> HIDE DEF f
    <3> QED BY <2>2, <3>1, <3>5
  <2> QED BY <2>1, <2>2
<1>3. Right(f)
  BY <1>2
<1> DEFINE c == CHOOSE x : Right(x)
<1>4. Right(c)
  <2> HIDE DEF Right, f
  <2> QED BY <1>3
<1>5. \A n : Letters(n) = c[n]
  BY DEF Letters
<1> HIDE DEF c
<1>6. c[0] = << >>
  BY <1>4
<1>7. ASSUME NEW k \in Nat \ {0} PROVE c[k] = Append(c[(k - 1) \div 26], 65 + ((k - 1) % 26))
  BY <1>4
<1> QED BY <1>5, <1>6, <1>7

\* The last letter of a word and the number of the word before it.
LEMMA LastLetter ==
  ASSUME NEW n \in Nat, n > 0
  PROVE  \E q \in Nat, r \in 0 .. 25 :
           /\ q < n /\ n = (26 * q) + r + 1
           /\ Letters(n) = Append(Letters(q), 65 + r)
<1>1. PICK q \in Nat : q = (n - 1) \div 26 /\ q < n
  BY Quotient
<1>2. PICK r \in 0 .. 25 : r = (n - 1) % 26
  BY Quotient
<1>3. n - 1 = (26 * q) + r
  <2>1. n - 1 = (26 * ((n - 1) \div 26)) + ((n - 1) % 26)
    BY Quotient
  <2> QED BY <1>1, <1>2, <2>1
<1>4. Letters(n) = Append(Letters((n - 1) \div 26), 65 + ((n - 1) % 26))
  <2>1. n \in Nat \ {0}
    OBVIOUS
  <2> QED BY <2>1, LettersAre
<1>5. Letters(n) = Append(Letters(q), 65 + r)
  BY ONLY <1>1, <1>2, <1>4, Zenon
<1> QED BY <1>1, <1>3, <1>5

LEMMA LettersOf ==
  ASSUME NEW q \in Nat, NEW r \in 0 .. 25, NEW n, n = (26 * q) + r + 1
  PROVE  Letters(n) = Append(Letters(q), 65 + r)
<1>1. n \in Nat /\ n > 0
  OBVIOUS
<1>2. PICK p \in Nat, t \in 0 .. 25 :
        /\ p < n /\ n = (26 * p) + t + 1
        /\ Letters(n) = Append(Letters(p), 65 + t)
  BY ONLY <1>1, LastLetter, Zenon
<1>3. p = q /\ t = r
  BY <1>2
<1> QED BY <1>2, <1>3

LEMMA LettersSeq == \A n \in Nat : Letters(n) \in Seq(Capital)
<1> DEFINE S == {n \in Nat : Letters(n) \in Seq(Capital)}
<1>1. ASSUME NEW n \in Nat, \A m \in Nat : m < n => m \in S PROVE n \in S
  <2>1. CASE n = 0
    <3>1. << >> \in Seq(Capital)
      OBVIOUS
    <3>2. Letters(n) = << >>
      BY <2>1, LettersAre
    <3> QED BY <3>1, <3>2
  <2>2. CASE n > 0
    <3>1. PICK q \in Nat, r \in 0 .. 25 :
            /\ q < n /\ n = (26 * q) + r + 1
            /\ Letters(n) = Append(Letters(q), 65 + r)
      BY ONLY n \in Nat, <2>2, LastLetter, Zenon
    <3>2. Letters(q) \in Seq(Capital)
      BY <1>1, <3>1
    <3>3. 65 + r \in Capital
      BY DEF Capital
    <3>4. Append(Letters(q), 65 + r) \in Seq(Capital)
      BY <3>2, <3>3
    <3> QED BY <3>1, <3>4
  <2> QED BY <2>1, <2>2
<1>2. Nat \subseteq S
  <2> HIDE DEF S
  <2> QED BY <1>1, FromBelow
<1> QED BY <1>2

\* A word whose beginning has at most m letters has at most one more.
LEMMA LettersOneMore ==
  ASSUME NEW b \in Nat, NEW m \in Nat,
         \A q \in Nat : q < b => Len(Letters(q)) <= m
  PROVE  \A n \in Nat : n <= 26 * b => Len(Letters(n)) <= m + 1
<1> SUFFICES ASSUME NEW n \in Nat, n <= 26 * b PROVE Len(Letters(n)) <= m + 1
  OBVIOUS
<1>1. CASE n = 0
  <2>1. Len(Letters(n)) = 0
    BY <1>1, LettersAre
  <2> QED BY <2>1
<1>2. CASE n > 0
  <2>1. PICK q \in Nat, r \in 0 .. 25 :
          /\ q < n /\ n = (26 * q) + r + 1
          /\ Letters(n) = Append(Letters(q), 65 + r)
    <3> n \in Nat
      OBVIOUS
    <3> QED BY ONLY n \in Nat, <1>2, LastLetter, Zenon
  <2>2. q < b
    BY <2>1
  <2>3. PICK w \in Seq(Capital) : w = Letters(q) /\ Len(w) <= m
    BY <2>2, LettersSeq
  <2>4. Len(Append(w, 65 + r)) = Len(w) + 1
    BY <2>3
  <2>5. Letters(n) = Append(w, 65 + r)
    BY <2>1, <2>3
  <2>6. PICK l \in Nat : l = Len(w) /\ l <= m
    BY <2>3
  <2> QED BY <2>4, <2>5, <2>6
<1> QED BY <1>1, <1>2

LEMMA SevenLetters ==
  ASSUME NEW n \in Nat, NEW b \in Nat, b = 26 * 26 * 26 * 26, n <= (26 * 26 * 26) * b
  PROVE  Len(Letters(n)) <= 7
<1> DEFINE AtMost(m, c) == \A q \in Nat : q < c => Len(Letters(q)) <= m
<1>1. ASSUME NEW c \in Nat, NEW m \in Nat, AtMost(m, c)
      PROVE  \E d \in Nat : d = 26 * c /\ AtMost(m + 1, d)
  <2>1. \A q \in Nat : q <= 26 * c => Len(Letters(q)) <= m + 1
    BY <1>1, LettersOneMore
  <2>2. PICK d \in Nat : d = 26 * c
    OBVIOUS
  <2> QED BY <2>1, <2>2
<1>2. AtMost(0, 1)
  <2> SUFFICES ASSUME NEW q \in Nat, q < 1 PROVE Len(Letters(q)) <= 0
    OBVIOUS
  <2>1. q = 0
    OBVIOUS
  <2>2. Len(Letters(q)) = 0
    BY <2>1, LettersAre
  <2> QED BY <2>2
<1> HIDE DEF AtMost
<1>3. PICK b1 \in Nat : b1 = 26 /\ AtMost(1, b1)
  BY <1>1, <1>2
<1>4. PICK b2 \in Nat : b2 = 26 * b1 /\ AtMost(2, b2)
  BY <1>1, <1>3
<1>5. PICK b3 \in Nat : b3 = 26 * b2 /\ AtMost(3, b3)
  BY <1>1, <1>4
<1>6. PICK b4 \in Nat : b4 = 26 * b3 /\ AtMost(4, b4)
  BY <1>1, <1>5
<1>7. PICK b5 \in Nat : b5 = 26 * b4 /\ AtMost(5, b5)
  BY <1>1, <1>6
<1>8. PICK b6 \in Nat : b6 = 26 * b5 /\ AtMost(6, b6)
  BY <1>1, <1>7
<1>9. b4 = b
  BY <1>3, <1>4, <1>5, <1>6
<1>10. n <= 26 * b6
  BY <1>7, <1>8, <1>9
<1>11. Len(Letters(n)) <= 6 + 1
  BY <1>8, <1>10, LettersOneMore DEF AtMost
<1> QED BY <1>11

-----------------------------------------------------------------------------
(* Carrying.                                                               *)

LEMMA MaxFacts ==
  ASSUME NEW n \in Nat, NEW S \in SUBSET (0 .. n), S # {}
  PROVE  /\ Max(S) \in S /\ \A x \in S : x <= Max(S)
         /\ \A x \in S : (\A y \in S : y <= x) => x = Max(S)
<1> DEFINE T == {k \in 0 .. n : n - k \in S}
           Down == {k \in Nat : k \notin T}
<1>1. \E x \in S : \A y \in S : x >= y
  <2> SUFFICES ASSUME \A x \in S : \E y \in S : ~(x >= y) PROVE FALSE
    OBVIOUS
  <2>1. ASSUME NEW k \in Nat, \A j \in Nat : j < k => j \in Down PROVE k \in Down
    <3> SUFFICES ASSUME k \in T PROVE FALSE
      OBVIOUS
    <3>1. k \in 0 .. n /\ n - k \in S
      OBVIOUS
    <3>2. PICK y \in S : ~(n - k >= y)
      BY <3>1
    <3>3. y \in 0 .. n /\ n - y \in Nat /\ n - y < k /\ n - (n - y) = y /\ n - y \in 0 .. n
      BY <3>1, <3>2
    <3>4. n - y \in T
      BY <3>2, <3>3
    <3> QED BY <2>1, <3>3, <3>4
  <2>2. Nat \subseteq Down
    <3> HIDE DEF Down
    <3> QED BY <2>1, FromBelow
  <2>3. PICK x \in S : TRUE
    OBVIOUS
  <2>4. n - x \in 0 .. n /\ n - x \in Nat /\ n - (n - x) = x
    BY <2>3
  <2>5. n - x \in T
    BY <2>3, <2>4
  <2> QED BY <2>2, <2>4, <2>5
<1>2. Max(S) \in S /\ \A y \in S : Max(S) >= y
  BY <1>1 DEF Max
<1>3. \A x \in S : x \in Nat
  OBVIOUS
<1>4. PICK mx \in S : mx = Max(S) /\ \A y \in S : mx >= y
  BY <1>2
<1> QED BY <1>3, <1>4

LEMMA AppendIs ==
  ASSUME NEW s \in Seq(Nat), NEW c \in Nat, NEW l \in Nat, l = Len(s)
  PROVE  Append(s, c) = [i \in 1 .. l + 1 |-> IF i < l + 1 THEN s[i] ELSE c]
<1> DEFINE t == Append(s, c)
<1>1. t \in Seq(Nat) /\ Len(t) = l + 1
  OBVIOUS
<1>2. \A i \in 1 .. l + 1 : t[i] = IF i < l + 1 THEN s[i] ELSE c
  OBVIOUS
<1> HIDE DEF t
<1>3. t = [i \in 1 .. l + 1 |-> t[i]]
  BY <1>1
<1>4. t = [i \in 1 .. l + 1 |-> IF i < l + 1 THEN s[i] ELSE c]
  BY <1>2, <1>3
<1> QED BY <1>4 DEF t

LEMMA NextWithoutCarry ==
  ASSUME NEW v \in Seq(Capital), NEW c \in Capital, c < 90
  PROVE  NextWord(Append(v, c)) = Append(v, c + 1)
<1>1. PICK l \in Nat : l = Len(v)
  OBVIOUS
<1> DEFINE s == Append(v, c)
           S == {0} \cup {i \in DOMAIN s : s[i] # 90}
<1>2. /\ Len(s) = l + 1 /\ DOMAIN s = 1 .. l + 1 /\ s[l + 1] = c
      /\ \A i \in 1 .. l : s[i] = v[i]
  BY <1>1 DEF Capital
<1>3. S \in SUBSET (0 .. l + 1) /\ l + 1 \in S
  BY <1>2 DEF Capital
<1>4. Max(S) = l + 1
  <2> HIDE DEF S
  <2>0. l + 1 \in Nat /\ S # {}
    BY <1>3
  <2>1. PICK m \in S : m = Max(S) /\ \A y \in S : y <= m
    BY ONLY <1>3, <2>0, MaxFacts, Zenon
  <2>2. m \in Nat /\ m <= l + 1 /\ l + 1 <= m
    BY <1>3, <2>1
  <2> QED BY <2>1, <2>2
<1>5. NextWord(s) = [i \in 1 .. l + 1 |-> IF i < l + 1 THEN s[i] ELSE c + 1]
  <2>1. NextWord(s) = IF Max(S) = 0 THEN [i \in 1 .. Len(s) + 1 |-> 65]
          ELSE [i \in DOMAIN s |->
                 IF i < Max(S) THEN s[i] ELSE IF i = Max(S) THEN s[i] + 1 ELSE 65]
    BY DEF NextWord
  <2> HIDE DEF s, S
  <2>2. l + 1 # 0
    OBVIOUS
  <2>3. NextWord(s) = [i \in 1 .. l + 1 |->
          IF i < l + 1 THEN s[i] ELSE IF i = l + 1 THEN s[i] + 1 ELSE 65]
    BY ONLY <1>2, <1>4, <2>1, <2>2, Zenon
  <2> QED BY <1>2, <2>3
<1>6. Append(v, c + 1) = [i \in 1 .. l + 1 |-> IF i < l + 1 THEN v[i] ELSE c + 1]
  BY <1>1 DEF Capital
<1> HIDE DEF s
<1>7. \A i \in 1 .. l + 1 : i < l + 1 => s[i] = v[i]
  BY <1>2
<1>8. NextWord(s) = Append(v, c + 1)
  BY <1>5, <1>6, <1>7
<1> QED BY <1>8 DEF s

LEMMA NextWithCarry ==
  ASSUME NEW v \in Seq(Capital)
  PROVE  NextWord(Append(v, 90)) = Append(NextWord(v), 65)
<1>1. PICK l \in Nat : l = Len(v)
  OBVIOUS
<1> DEFINE s == Append(v, 90)
           S == {0} \cup {i \in DOMAIN s : s[i] # 90}
           V == {0} \cup {i \in DOMAIN v : v[i] # 90}
<1>2. /\ Len(s) = l + 1 /\ DOMAIN s = 1 .. l + 1 /\ s[l + 1] = 90
      /\ DOMAIN v = 1 .. l /\ \A i \in 1 .. l : s[i] = v[i]
  BY <1>1
<1>3. S = V
  <2> HIDE DEF s
  <2> QED BY <1>2
<1>4. PICK m \in 0 .. l : m = Max(V)
  <2>1. V \in SUBSET (0 .. l) /\ V # {}
    BY <1>2
  <2> HIDE DEF V
  <2> QED BY <2>1, MaxFacts
<1>5. NextWord(s) = IF m = 0 THEN [i \in 1 .. l + 2 |-> 65]
          ELSE [i \in 1 .. l + 1 |-> IF i < m THEN s[i] ELSE IF i = m THEN s[i] + 1 ELSE 65]
  <2>1. NextWord(s) = IF Max(S) = 0 THEN [i \in 1 .. Len(s) + 1 |-> 65]
          ELSE [i \in DOMAIN s |->
                 IF i < Max(S) THEN s[i] ELSE IF i = Max(S) THEN s[i] + 1 ELSE 65]
    BY DEF NextWord
  <2> HIDE DEF s, S, V
  <2>2. (l + 1) + 1 = l + 2
    OBVIOUS
  <2> QED BY ONLY <1>2, <1>3, <1>4, <2>1, <2>2, Zenon
<1>6. NextWord(v) = IF m = 0 THEN [i \in 1 .. l + 1 |-> 65]
          ELSE [i \in 1 .. l |-> IF i < m THEN v[i] ELSE IF i = m THEN v[i] + 1 ELSE 65]
  <2>1. NextWord(v) = IF Max(V) = 0 THEN [i \in 1 .. Len(v) + 1 |-> 65]
          ELSE [i \in DOMAIN v |->
                 IF i < Max(V) THEN v[i] ELSE IF i = Max(V) THEN v[i] + 1 ELSE 65]
    BY DEF NextWord
  <2> HIDE DEF V
  <2> QED BY ONLY <1>1, <1>2, <1>4, <2>1, Zenon
<1> HIDE DEF s
<1>7. CASE m = 0
  <2>1. Append([i \in 1 .. l + 1 |-> 65], 65) = [i \in 1 .. l + 2 |-> 65]
    OBVIOUS
  <2> QED BY <1>5, <1>6, <1>7, <2>1 DEF s
<1>8. CASE m > 0
  <2> DEFINE u == [i \in 1 .. l |-> IF i < m THEN v[i] ELSE IF i = m THEN v[i] + 1 ELSE 65]
  <2>1. ASSUME NEW i \in 1 .. l PROVE v[i] \in Nat
    <3>1. v[i] \in Capital
      BY <1>1
    <3>2. \A x \in Capital : x \in Nat
      BY DEF Capital
    <3> QED BY <3>1, <3>2
  <2>2. u \in Seq(Nat) /\ Len(u) = l
    BY <2>1
  <2>3. Append(u, 65) = [i \in 1 .. l + 1 |-> IF i < l + 1 THEN u[i] ELSE 65]
    <3> HIDE DEF u
    <3> QED BY <2>2, AppendIs
  <2>4. ASSUME NEW i \in 1 .. l + 1
        PROVE  (IF i < l + 1 THEN u[i] ELSE 65)
                 = IF i < m THEN s[i] ELSE IF i = m THEN s[i] + 1 ELSE 65
    BY <1>2, <1>4
  <2>5. NextWord(s) = [i \in 1 .. l + 1 |-> IF i < m THEN s[i] ELSE IF i = m THEN s[i] + 1 ELSE 65]
    BY <1>5, <1>8
  <2>6. NextWord(v) = u
    BY <1>6, <1>8
  <2> HIDE DEF u
  <2>7. NextWord(s) = Append(u, 65)
    BY <2>3, <2>4, <2>5
  <2> QED BY <2>6, <2>7 DEF s
<1> QED BY <1>4, <1>7, <1>8

\* The words are met in the order the docstring gives them.
LEMMA WordsInOrder == \A n \in Nat : NextWord(Letters(n)) = Letters(n + 1)
<1> DEFINE S == {n \in Nat : NextWord(Letters(n)) = Letters(n + 1)}
<1>1. ASSUME NEW n \in Nat, \A m \in Nat : m < n => m \in S PROVE n \in S
  <2>1. CASE n = 0
    <3>1. Letters(0) = << >>
      BY LettersAre
    <3>2. Letters(1) = Append(Letters(0), 65 + 0)
      <4>1. 0 \in 0 .. 25 /\ 1 = (26 * 0) + 0 + 1 /\ 0 \in Nat
        OBVIOUS
      <4> QED BY <4>1, LettersOf
    <3>3. NextWord(<< >>) = [i \in 1 .. 1 |-> 65]
      <4> DEFINE S0 == {0} \cup {i \in DOMAIN << >> : << >>[i] # 90}
      <4>1. S0 = {0} /\ S0 \in SUBSET (0 .. 0)
        OBVIOUS
      <4>2. NextWord(<< >>) = IF Max(S0) = 0 THEN [i \in 1 .. Len(<< >>) + 1 |-> 65]
             ELSE [i \in DOMAIN << >> |->
                 IF i < Max(S0) THEN << >>[i] ELSE IF i = Max(S0) THEN << >>[i] + 1 ELSE 65]
        BY DEF NextWord
      <4> HIDE DEF S0
      <4>3. Max(S0) = 0
        BY <4>1, MaxFacts
      <4>4. Len(<< >>) + 1 = 1
        OBVIOUS
      <4> QED BY ONLY <4>2, <4>3, <4>4, Zenon
    <3>4. Append(<< >>, 65 + 0) = [i \in 1 .. 1 |-> 65]
      OBVIOUS
    <3>5. NextWord(Letters(0)) = Letters(1)
      BY ONLY <3>1, <3>2, <3>3, <3>4, Zenon
    <3> QED BY <2>1, <3>5
  <2>2. CASE n > 0
    <3>1. PICK q \in Nat, r \in 0 .. 25 :
            /\ q < n /\ n = (26 * q) + r + 1
            /\ Letters(n) = Append(Letters(q), 65 + r)
      BY ONLY n \in Nat, <2>2, LastLetter, Zenon
    <3>2. Letters(q) \in Seq(Capital)
      BY LettersSeq
    <3>3. CASE r < 25
      <4>1. PICK t \in 0 .. 25 : t = r + 1
        BY <3>3
      <4>2. n + 1 = (26 * q) + t + 1
        BY <3>1, <4>1
      <4>3. Letters(n + 1) = Append(Letters(q), 65 + t)
        BY <4>2, LettersOf
      <4>4. 65 + r \in Capital /\ 65 + r < 90 /\ (65 + r) + 1 = 65 + t
        BY <3>3, <4>1 DEF Capital
      <4>5. NextWord(Append(Letters(q), 65 + r)) = Append(Letters(q), (65 + r) + 1)
        BY <3>2, <4>4, NextWithoutCarry
      <4>6. NextWord(Letters(n)) = Letters(n + 1)
        BY ONLY <3>1, <4>3, <4>4, <4>5, Zenon
      <4> QED BY <4>6
    <3>4. CASE r = 25
      <4>1. q + 1 \in Nat /\ 0 \in 0 .. 25 /\ n + 1 = (26 * (q + 1)) + 0 + 1
        BY <3>1, <3>4
      <4>2. Letters(n + 1) = Append(Letters(q + 1), 65 + 0)
        BY <4>1, LettersOf
      <4>3. NextWord(Letters(q)) = Letters(q + 1)
        BY <1>1, <3>1
      <4>4. NextWord(Append(Letters(q), 90)) = Append(NextWord(Letters(q)), 65)
        BY <3>2, NextWithCarry
      <4>5. 65 + r = 90 /\ 65 + 0 = 65
        BY <3>4
      <4>6. NextWord(Letters(n)) = Letters(n + 1)
        BY ONLY <3>1, <4>2, <4>3, <4>4, <4>5, Zenon
      <4> QED BY <4>6
    <3> QED BY <3>3, <3>4
  <2> QED BY <2>1, <2>2
<1>2. Nat \subseteq S
  <2> HIDE DEF S
  <2> QED BY <1>1, FromBelow
<1> QED BY <1>2

-----------------------------------------------------------------------------
(* The suffixes.                                                           *)

LEMMA SuffixParts ==
  ASSUME NEW i \in Nat
  PROVE  \E a \in Nat, d \in 0 .. 8 :
           i = (9 * a) + d /\ EncodeSuffix(i) = Append(Letters(a + 1), 49 + d)
<1>1. PICK a \in Nat : a = i \div 9
  OBVIOUS
<1>2. PICK d \in 0 .. 8 : d = i % 9
  OBVIOUS
<1>3. i = (9 * a) + d
  BY <1>1, <1>2
<1>4. EncodeSuffix(i) = Append(Letters(a + 1), 49 + d)
  BY ONLY <1>1, <1>2, Zenon DEF EncodeSuffix
<1> QED BY <1>3, <1>4

LEMMA SuffixOf ==
  ASSUME NEW a \in Nat, NEW d \in 0 .. 8, NEW i, i = (9 * a) + d
  PROVE  EncodeSuffix(i) = Append(Letters(a + 1), 49 + d)
<1>1. i \in Nat
  OBVIOUS
<1>2. PICK b \in Nat, e \in 0 .. 8 :
        i = (9 * b) + e /\ EncodeSuffix(i) = Append(Letters(b + 1), 49 + e)
  BY ONLY <1>1, SuffixParts, Zenon
<1>3. a = b /\ d = e
  BY <1>2
<1> QED BY <1>2, <1>3

LEMMA UpToLast ==
  ASSUME NEW w \in Seq(Nat), NEW c \in Nat
  PROVE  /\ Len(Append(w, c)) = Len(w) + 1
         /\ UpTo(Append(w, c), Len(w)) = w
         /\ Append(w, c)[Len(w) + 1] = c
<1>1. PICK l \in Nat : l = Len(w)
  OBVIOUS
<1> DEFINE t == Append(w, c)
<1>2. t \in Seq(Nat) /\ Len(t) = l + 1 /\ t[l + 1] = c /\ \A i \in 1 .. l : t[i] = w[i]
  BY <1>1
<1> HIDE DEF t
<1>3. SubSeq(t, 1, l) = w
  <2>1. SubSeq(t, 1, l) \in Seq(Nat) /\ Len(SubSeq(t, 1, l)) = l
    BY <1>2
  <2>2. \A i \in 1 .. l : SubSeq(t, 1, l)[i] = t[i]
    BY <1>2
  <2> DEFINE u == SubSeq(t, 1, l)
  <2> HIDE DEF u
  <2>3. u \in Seq(Nat) /\ Len(u) = l /\ \A i \in 1 .. l : u[i] = w[i]
    BY <1>2, <2>1, <2>2 DEF u
  <2>4. u = w
    BY <1>1, <2>3
  <2> QED BY <2>4 DEF u
<1>4. UpTo(t, l) = w
  BY <1>3 DEF UpTo
<1>5. Len(t) = Len(w) + 1 /\ UpTo(t, Len(w)) = w /\ t[Len(w) + 1] = c
  BY ONLY <1>1, <1>2, <1>4, Zenon
<1> QED BY <1>5 DEF t

LEMMA WordInNat == \A n \in Nat : Letters(n) \in Seq(Nat)
<1> SUFFICES ASSUME NEW n \in Nat PROVE Letters(n) \in Seq(Nat)
  OBVIOUS
<1>1. \A x \in Capital : x \in Nat
  BY DEF Capital
<1>2. PICK w \in Seq(Capital) : w = Letters(n)
  BY LettersSeq
<1>3. \A i \in 1 .. Len(w) : w[i] \in Capital
  OBVIOUS
<1>4. w = [i \in 1 .. Len(w) |-> w[i]] /\ Len(w) \in Nat
  OBVIOUS
<1>5. \A i \in 1 .. Len(w) : w[i] \in Nat
  BY <1>1, <1>3
<1>6. w \in Seq(Nat)
  BY <1>4, <1>5
<1> QED BY <1>2, <1>6

\* The docstring's order: each suffix is what comes after the one before.
LEMMA SuffixesInOrder ==
  ASSUME NEW i \in Nat
  PROVE  NextSuffix(EncodeSuffix(i)) = EncodeSuffix(i + 1)
<1>1. PICK a \in Nat, d \in 0 .. 8 :
        i = (9 * a) + d /\ EncodeSuffix(i) = Append(Letters(a + 1), 49 + d)
  BY SuffixParts
<1> DEFINE w == Letters(a + 1)
           s == Append(w, 49 + d)
<1>2. w \in Seq(Nat) /\ 49 + d \in Nat
  BY WordInNat
<1>3. PICK l \in Nat : l = Len(w)
  BY <1>2
<1> HIDE DEF w
<1>4. Len(s) = l + 1 /\ UpTo(s, l) = w /\ s[l + 1] = 49 + d
  BY ONLY <1>2, <1>3, UpToLast, Zenon DEF s
<1> HIDE DEF s
<1>5. NextSuffix(s) = IF 49 + d < 57 THEN Append(w, (49 + d) + 1) ELSE Append(NextWord(w), 49)
  <2>1. (l + 1) - 1 = l
    OBVIOUS
  <2> QED BY ONLY <1>4, <2>1, Zenon DEF NextSuffix
<1>6. CASE d < 8
  <2>1. PICK e \in 0 .. 8 : e = d + 1
    BY <1>6
  <2>2. i + 1 = (9 * a) + e
    BY <1>1, <2>1
  <2>3. EncodeSuffix(i + 1) = Append(Letters(a + 1), 49 + e)
    BY <2>2, SuffixOf
  <2>4. (49 + d) + 1 = 49 + e /\ 49 + d < 57
    BY <1>6, <2>1
  <2> QED BY ONLY <1>1, <1>5, <2>3, <2>4, Zenon DEF s, w
<1>7. CASE d = 8
  <2>1. a + 1 \in Nat /\ 0 \in 0 .. 8 /\ i + 1 = (9 * (a + 1)) + 0
    BY <1>1, <1>7
  <2>2. EncodeSuffix(i + 1) = Append(Letters((a + 1) + 1), 49 + 0)
    BY <2>1, SuffixOf
  <2>3. NextWord(Letters(a + 1)) = Letters((a + 1) + 1)
    BY <2>1, WordsInOrder
  <2>4. 49 + 0 = 49 /\ ~ (49 + d < 57)
    BY <1>7
  <2> QED BY ONLY <1>1, <1>5, <2>2, <2>3, <2>4, Zenon DEF s, w
<1> QED BY <1>6, <1>7

\* A suffix is a word and a digit, and fits into eight characters.
LEMMA SuffixShape ==
  ASSUME NEW i \in 0 .. LastIndex
  PROVE  \E w \in Seq(Capital), c \in Digit :
           /\ EncodeSuffix(i) = Append(w, c)
           /\ 1 <= Len(w) /\ Len(w) <= 7
<1>1. PICK a \in Nat, d \in 0 .. 8 :
        i = (9 * a) + d /\ EncodeSuffix(i) = Append(Letters(a + 1), 49 + d)
  BY SuffixParts
<1>2. PICK w \in Seq(Capital) : w = Letters(a + 1)
  BY LettersSeq
<1>3. 49 + d \in Digit
  BY DEF Digit
<1>4. PICK b \in Nat : b = 26 * 26 * 26 * 26
  OBVIOUS
<1>5. a + 1 <= (26 * 26 * 26) * b
  <2>1. LastIndex \in Nat
    BY IndexAssumption
  <2>2. PICK q \in Nat : q = LastIndex \div (9 * 26 * 26 * 26) /\ q < b
    BY <1>4, <2>1, IndexAssumption
  <2>3. LastIndex < (9 * 26 * 26 * 26) * (q + 1)
    BY <2>1, <2>2
  <2>4. LastIndex < (9 * 26 * 26 * 26) * b
    BY <2>1, <2>2, <2>3
  <2>5. i <= LastIndex
    BY <2>1
  <2> QED BY <1>1, <2>1, <2>4, <2>5
<1>6. Len(w) <= 7
  BY <1>2, <1>4, <1>5, SevenLetters
<1>7. 1 <= Len(w)
  <2>1. a + 1 \in Nat /\ a + 1 > 0
    OBVIOUS
  <2>2. PICK q \in Nat, r \in 0 .. 25 :
          /\ q < a + 1 /\ a + 1 = (26 * q) + r + 1
          /\ Letters(a + 1) = Append(Letters(q), 65 + r)
    BY ONLY <2>1, LastLetter, Zenon
  <2>3. Letters(q) \in Seq(Nat) /\ 65 + r \in Nat
    BY WordInNat
  <2>4. Len(Append(Letters(q), 65 + r)) = Len(Letters(q)) + 1 /\ Len(Letters(q)) \in Nat
    BY <2>3
  <2>5. PICK l \in Nat : l = Len(Letters(q))
    BY <2>4
  <2>6. Len(w) = l + 1
    BY <1>2, <2>2, <2>4, <2>5
  <2> QED BY <2>6
<1>8. EncodeSuffix(i) = Append(w, 49 + d)
  BY <1>1, <1>2
<1> QED BY <1>3, <1>6, <1>7, <1>8

-----------------------------------------------------------------------------
(* Reading a placeholder.                                                  *)

Glyph == Capital \cup Digit \cup {Underscore}

\* A sequence that stands behind l others, taken off again.
LEMMA TailOf ==
  ASSUME NEW S, NEW s \in Seq(S), NEW t \in Seq(S), NEW l \in Nat,
         Len(s) = l + Len(t), \A i \in 1 .. Len(t) : s[l + i] = t[i]
  PROVE  After(s, l) = t
<1>1. PICK m \in Nat : m = Len(t)
  OBVIOUS
<1> DEFINE u == SubSeq(s, l + 1, l + m)
<1>2. u \in Seq(S) /\ Len(u) = m
  <2>1. \A i \in (l + 1) .. (l + m) : s[i] \in S
    BY <1>1
  <2>2. \A i \in 1 .. m : (i + (l + 1)) - 1 \in (l + 1) .. (l + m)
    OBVIOUS
  <2>3. Len(s) = l + m
    BY <1>1
  <2> QED BY <1>1, <2>1, <2>2, <2>3
<1>3. ASSUME NEW i \in 1 .. m PROVE u[i] = t[i]
  <2>1. u[i] = s[l + i]
    BY <1>1
  <2> QED BY <1>1, <2>1
<1> HIDE DEF u
<1>4. u = t
  BY <1>1, <1>2, <1>3
<1>5. Len(s) = l + m
  BY <1>1
<1> QED BY ONLY <1>4, <1>5, Zenon DEF u, After

LEMMA HeadOf ==
  ASSUME NEW S, NEW s \in Seq(S), NEW t \in Seq(S),
         Len(t) <= Len(s), \A i \in 1 .. Len(t) : s[i] = t[i]
  PROVE  UpTo(s, Len(t)) = t
<1>1. PICK m \in Nat, n \in Nat : m = Len(t) /\ n = Len(s) /\ m <= n
  OBVIOUS
<1> DEFINE u == SubSeq(s, 1, m)
<1>2. u \in Seq(S) /\ Len(u) = m
  BY <1>1
<1>3. ASSUME NEW i \in 1 .. m PROVE u[i] = t[i]
  <2>1. u[i] = s[i]
    BY <1>1
  <2> QED BY <1>1, <2>1
<1> HIDE DEF u
<1>4. u = t
  BY <1>1, <1>2, <1>3
<1> QED BY ONLY <1>1, <1>4, Zenon DEF u, UpTo

LEMMA OneBehindOther ==
  ASSUME NEW s \in Seq(Glyph), NEW t \in Seq(Glyph)
  PROVE  /\ s \o t \in Seq(Glyph) /\ Len(s \o t) = Len(s) + Len(t)
         /\ \A i \in 1 .. Len(s) : (s \o t)[i] = s[i]
         /\ \A i \in 1 .. Len(t) : (s \o t)[Len(s) + i] = t[i]
<1> DEFINE u == s \o t
<1>0. PICK l \in Nat, m \in Nat : l = Len(s) /\ m = Len(t)
  OBVIOUS
<1>1. u \in Seq(Glyph) /\ Len(u) = l + m
  BY <1>0
<1>2. ASSUME NEW i \in 1 .. l PROVE u[i] = s[i]
  BY <1>0
<1>3. ASSUME NEW i \in 1 .. m PROVE u[l + i] = t[i]
  <2>1. l + i \in 1 .. l + m /\ l + i > l /\ (l + i) - l = i
    OBVIOUS
  <2> QED BY <1>0, <2>1
<1> HIDE DEF u
<1>4. /\ u \in Seq(Glyph) /\ Len(u) = Len(s) + Len(t)
      /\ \A i \in 1 .. Len(s) : u[i] = s[i]
      /\ \A i \in 1 .. Len(t) : u[Len(s) + i] = t[i]
  BY ONLY <1>0, <1>1, <1>2, <1>3, Zenon
<1> QED BY <1>4 DEF u

LEMMA RenderedSplits ==
  ASSUME NEW name \in TypeNames, NEW w \in Seq(Capital), NEW c \in Digit, 1 <= Len(w),
         NEW s, s = Render(name, Append(w, c))
  PROVE  /\ Len(s) = Len(name) + 1 + (Len(w) + 1)
         /\ ReadPlaceholder(s) = [type |-> name, suffix |-> Append(w, c)]
<1>1. name \in Seq(Glyph) /\ IsTypeName(name)
  BY NameAssumption DEF Glyph
<1>2. PICK n \in Nat, l \in Nat : n = Len(name) /\ l = Len(w) /\ l >= 1
  BY <1>1
<1> DEFINE t == Append(w, c)
<1>3. /\ t \in Seq(Glyph) /\ Len(t) = l + 1 /\ t[l + 1] = c
      /\ \A i \in 1 .. l : t[i] = w[i] /\ t[i] \in Capital
  <2>1. w \in Seq(Glyph) /\ c \in Glyph
    <3>1. \A x \in Capital : x \in Glyph
      BY DEF Glyph
    <3>2. \A i \in 1 .. l : w[i] \in Glyph
      BY <1>2, <3>1
    <3>3. w = [i \in 1 .. l |-> w[i]]
      BY <1>2
    <3> QED BY <3>2, <3>3 DEF Glyph
  <2>2. \A i \in 1 .. l : w[i] \in Capital
    BY <1>2
  <2> QED BY <1>2, <2>1, <2>2
<1> HIDE DEF t
<1>4. /\ s \in Seq(Glyph) /\ Len(s) = n + 1 + (l + 1)
      /\ \A i \in 1 .. n : s[i] = name[i]
      /\ s[n + 1] = Underscore
      /\ \A i \in 1 .. l + 1 : s[(n + 1) + i] = t[i]
  <2> DEFINE bar == <<Underscore>>
             head == name \o bar
  <2>1. bar \in Seq(Glyph) /\ Len(bar) = 1 /\ bar[1] = Underscore
    BY DEF Glyph
  <2> HIDE DEF bar
  <2>2. /\ head \in Seq(Glyph) /\ Len(head) = n + 1 /\ head[n + 1] = Underscore
        /\ \A i \in 1 .. n : head[i] = name[i]
    <3>1. /\ head \in Seq(Glyph) /\ Len(head) = n + 1
          /\ \A i \in 1 .. n : head[i] = name[i]
          /\ \A i \in 1 .. 1 : head[n + i] = bar[i]
      <4>1. /\ name \o bar \in Seq(Glyph) /\ Len(name \o bar) = Len(name) + Len(bar)
            /\ \A i \in 1 .. Len(name) : (name \o bar)[i] = name[i]
            /\ \A i \in 1 .. Len(bar) : (name \o bar)[Len(name) + i] = bar[i]
        <5>1. name \in Seq(Glyph) /\ bar \in Seq(Glyph)
          BY <1>1, <2>1
        <5> HIDE DEF head
        <5> QED BY ONLY <5>1, OneBehindOther, Zenon
      <4>2. n = Len(name) /\ Len(bar) = 1
        BY <1>2, <2>1
      <4> QED BY ONLY <4>1, <4>2, Zenon
    <3>2. 1 \in 1 .. 1
      OBVIOUS
    <3> HIDE DEF head
    <3> QED BY <2>1, <3>1, <3>2
  <2>3. s = head \o t
    BY DEF Render, bar, t
  <2> HIDE DEF head
  <2>4. /\ s \in Seq(Glyph) /\ Len(s) = (n + 1) + (l + 1)
        /\ \A i \in 1 .. n + 1 : s[i] = head[i]
        /\ \A i \in 1 .. l + 1 : s[(n + 1) + i] = t[i]
    <3>1. /\ head \o t \in Seq(Glyph) /\ Len(head \o t) = Len(head) + Len(t)
          /\ \A i \in 1 .. Len(head) : (head \o t)[i] = head[i]
          /\ \A i \in 1 .. Len(t) : (head \o t)[Len(head) + i] = t[i]
      <4>1. head \in Seq(Glyph) /\ t \in Seq(Glyph)
        BY <1>3, <2>2
      <4> QED BY ONLY <4>1, OneBehindOther, Zenon
    <3>2. Len(head) = n + 1 /\ Len(t) = l + 1
      BY <1>3, <2>2
    <3> QED BY ONLY <2>3, <3>1, <3>2, Zenon
  <2>5. n + 1 \in 1 .. n + 1 /\ \A i \in 1 .. n : i \in 1 .. n + 1
    OBVIOUS
  <2> QED BY <2>2, <2>4, <2>5
<1>5. UpTo(s, n) = name
  <2>1. \A i \in 1 .. Len(name) : s[i] = name[i]
    BY <1>2, <1>4
  <2>2. Len(name) <= Len(s)
    BY <1>2, <1>4
  <2> QED BY ONLY <1>1, <1>2, <1>4, <2>1, <2>2, HeadOf, Zenon
<1>6. After(s, n + 1) = t
  <2>1. Len(s) = (n + 1) + Len(t) /\ n + 1 \in Nat
    BY <1>3, <1>4
  <2>2. \A i \in 1 .. Len(t) : s[(n + 1) + i] = t[i]
    BY <1>3, <1>4
  <2> QED BY ONLY <1>3, <1>4, <2>1, <2>2, TailOf, Zenon
<1>7. IsSuffixGroup(t)
  <2>1. l \in 1 .. Len(t) - 1
    BY <1>2, <1>3
  <2>2. UpTo(t, l) = w
    <3>1. w \in Seq(Glyph)
      <4>1. \A x \in Capital : x \in Glyph
        BY DEF Glyph
      <4>2. \A i \in 1 .. l : w[i] \in Glyph
        BY <1>2, <4>1
      <4>3. w = [i \in 1 .. l |-> w[i]]
        BY <1>2
      <4> QED BY <4>2, <4>3
    <3>2. Len(w) <= Len(t) /\ \A i \in 1 .. Len(w) : t[i] = w[i]
      BY <1>2, <1>3
    <3> QED BY ONLY <1>2, <1>3, <3>1, <3>2, HeadOf, Zenon
  <2>3. AllIn(w, Capital)
    BY <1>2 DEF AllIn
  <2>4. After(t, l) = <<c>>
    <3> DEFINE one == <<c>>
    <3>1. one \in Seq(Glyph) /\ Len(one) = 1 /\ one[1] = c
      BY DEF Glyph
    <3> HIDE DEF one
    <3>2. Len(t) = l + Len(one) /\ \A i \in 1 .. Len(one) : t[l + i] = one[i]
      BY <1>3, <3>1
    <3>3. After(t, l) = one
      BY ONLY <1>3, l \in Nat, <3>1, <3>2, TailOf, Zenon
    <3> QED BY <3>3 DEF one
  <2>5. AllIn(<<c>>, Digit)
    BY DEF AllIn
  <2> QED BY <2>1, <2>2, <2>3, <2>4, <2>5 DEF IsSuffixGroup
<1>8. n + 1 \in Splits(s)
  <2>1. (n + 1) - 1 = n /\ n + 1 \in DOMAIN s
    BY <1>4
  <2> QED BY <1>1, <1>4, <1>5, <1>6, <1>7, <2>1, Zenon DEF Splits
\* Nothing behind the name's own underscore is one.
<1>9. ASSUME NEW j \in Splits(s) PROVE j \in 0 .. n + 1
  <2>1. j \in 1 .. n + 1 + (l + 1) /\ s[j] = Underscore
    BY <1>4 DEF Splits
  <2>2. ASSUME j > n + 1 PROVE FALSE
    <3>1. PICK i \in 1 .. l + 1 : j = (n + 1) + i
      <4>1. j - (n + 1) \in 1 .. l + 1 /\ j = (n + 1) + (j - (n + 1))
        BY <2>1, <2>2
      <4> QED BY <4>1
    <3>2. s[j] = t[i]
      BY <1>4, <3>1
    <3>3. t[i] \in Capital \cup Digit
      <4>1. CASE i = l + 1
        BY <1>3, <4>1
      <4>2. CASE i \in 1 .. l
        BY <1>3, <4>2
      <4> QED BY <4>1, <4>2
    <3>4. Underscore \notin Capital \cup Digit
      BY DEF Capital, Digit, Underscore
    <3> QED BY ONLY <2>1, <3>2, <3>3, <3>4, Zenon
  <2> QED BY <2>1, <2>2
<1>10. Max(Splits(s)) = n + 1
  <2>1. Splits(s) \in SUBSET (0 .. n + 1) /\ n + 1 \in Nat /\ Splits(s) # {}
    BY <1>8, <1>9
  <2>2. \A j \in Splits(s) : j <= n + 1
    BY <1>9
  <2> QED BY ONLY <1>8, <2>1, <2>2, MaxFacts, Zenon
<1>11. ReadPlaceholder(s) = [type |-> name, suffix |-> t]
  <2>1. (n + 1) - 1 = n /\ Splits(s) # {}
    BY <1>8
  <2> QED BY ONLY <1>5, <1>6, <1>10, <2>1, Zenon DEF ReadPlaceholder
<1> QED BY <1>2, <1>4, <1>11 DEF t

\* What the vault has handed out so far.
Counted == index \in 0 .. LastIndex /\ written = EncodeSuffix(index)

LEMMA CountedAlways == CountSpec => []Counted
<1>1. CountInit => Counted
  <2> SUFFICES ASSUME CountInit PROVE Counted
    OBVIOUS
  <2>1. 0 \in 0 .. LastIndex
    BY IndexAssumption
  <2>2. EncodeSuffix(0) = Append(Letters(0 + 1), 49 + 0)
    <3>1. 0 \in Nat /\ 0 \in 0 .. 8 /\ 0 = (9 * 0) + 0
      OBVIOUS
    <3> QED BY <3>1, SuffixOf
  <2>3. Letters(1) = Append(Letters(0), 65 + 0)
    <3>1. 0 \in Nat /\ 0 \in 0 .. 25 /\ 1 = (26 * 0) + 0 + 1
      OBVIOUS
    <3> QED BY <3>1, LettersOf
  <2>4. Letters(0) = << >> /\ 0 + 1 = 1 /\ 65 + 0 = 65 /\ 49 + 0 = 49
    BY LettersAre
  <2>5. Append(<< >>, 65) = <<65>>
    OBVIOUS
  <2>6. Append(<<65>>, 49) = <<65, 49>>
    <3>1. [i \in 1 .. 1 |-> 65] \in Seq(Nat) /\ 1 = Len([i \in 1 .. 1 |-> 65])
      OBVIOUS
    <3> DEFINE one == [i \in 1 .. 1 |-> 65]
               two == Append(one, 49)
    <3>2. two \in Seq(Nat) /\ Len(two) = 2 /\ two[1] = 65 /\ two[2] = 49
      BY <3>1
    <3>3. one = <<65>>
      OBVIOUS
    <3> HIDE DEF one, two
    <3>4. two = <<65, 49>>
      BY <3>2
    <3>5. Append(one, 49) = <<65, 49>>
      BY <3>4 DEF two
    <3> QED BY ONLY <3>3, <3>5, Zenon
  <2>7. EncodeSuffix(0) = Append(Letters(1), 49)
    <3>1. Letters(0 + 1) = Letters(1)
      BY <2>4
    <3> QED BY ONLY <2>2, <2>4, <3>1, Zenon
  <2>8. Letters(1) = <<65>>
    BY ONLY <2>3, <2>4, <2>5, Zenon
  <2>9. EncodeSuffix(0) = <<65, 49>>
    BY ONLY <2>6, <2>7, <2>8, Zenon
  <2> QED BY <2>1, <2>9 DEF CountInit, Counted
<1>2. Counted /\ [Count]_<<index, written>> => Counted'
  <2> SUFFICES ASSUME Counted, [Count]_<<index, written>> PROVE Counted'
    OBVIOUS
  <2>1. CASE Count
    <3>1. index \in Nat /\ index' = index + 1 /\ index' \in 0 .. LastIndex
      BY <2>1, IndexAssumption DEF Count, Counted
    <3>2. NextSuffix(EncodeSuffix(index)) = EncodeSuffix(index + 1)
      BY <3>1, SuffixesInOrder
    <3>3. written' = EncodeSuffix(index')
      BY ONLY <2>1, <3>1, <3>2, Counted, Zenon DEF Count, Counted
    <3> QED BY <3>1, <3>3 DEF Counted
  <2>2. CASE UNCHANGED <<index, written>>
    BY <2>2 DEF Counted
  <2> QED BY <2>1, <2>2
<1> QED BY <1>1, <1>2, PTL DEF CountSpec

\* Every placeholder the vault hands out is read back as its own type and suffix and
\* fits the room the hold-back leaves for it: encode_suffix, format_placeholder and
\* PLACEHOLDER_RE agree on all of them, for any catalogue and any number of entities
\* that seven letters can name.
THEOREM NamesReadBack == CountSpec => []ReadsBack
<1>1. Counted => ReadsBack
  <2> SUFFICES ASSUME Counted, NEW name \in TypeNames,
                      NEW s, s = Render(name, EncodeSuffix(index))
               PROVE  /\ ReadPlaceholder(s) = [type |-> name, suffix |-> written]
                      /\ Len(s) <= Len(name) + 1 + 8
    BY DEF ReadsBack
  <2>1. index \in 0 .. LastIndex /\ written = EncodeSuffix(index)
    BY DEF Counted
  <2>2. PICK w \in Seq(Capital), c \in Digit :
          EncodeSuffix(index) = Append(w, c) /\ 1 <= Len(w) /\ Len(w) <= 7
    BY <2>1, SuffixShape
  <2>3. /\ Len(s) = Len(name) + 1 + (Len(w) + 1)
        /\ ReadPlaceholder(s) = [type |-> name, suffix |-> Append(w, c)]
    BY <2>2, RenderedSplits
  <2>4. Len(name) \in Nat /\ Len(w) \in Nat
    BY NameAssumption
  <2>5. Len(s) <= Len(name) + 1 + 8
    BY <2>2, <2>3, <2>4
  <2> QED BY <2>1, <2>2, <2>3, <2>5
<1> QED BY <1>1, CountedAlways, PTL

-----------------------------------------------------------------------------
(* The hold-back of a stream.                                              *)

Character == {"[", "]", "N", "x"}
Shown == Character \cup {"v"}

-----------------------------------------------------------------------------
(* Restoring a text piece by piece.                                        *)

Size == NameLength + 4

LEMMA RenderedFacts ==
  /\ Rendered \in Seq(Character) /\ Len(Rendered) = Size /\ Size \in Nat /\ Size >= 5
  /\ \A k \in 1 .. Size :
       Rendered[k] = IF k <= 2 THEN "[" ELSE IF k <= Size - 2 THEN "N" ELSE "]"
<1> DEFINE open == <<"[", "[">>
           name == [i \in 1 .. NameLength |-> "N"]
           shut == <<"]", "]">>
<1>1. NameLength \in Nat /\ NameLength >= 1
  BY LengthAssumption
<1>2. /\ open \in Seq(Character) /\ Len(open) = 2 /\ open[1] = "[" /\ open[2] = "["
      /\ shut \in Seq(Character) /\ Len(shut) = 2 /\ shut[1] = "]" /\ shut[2] = "]"
  BY DEF Character
<1>3. /\ name \in Seq(Character) /\ Len(name) = NameLength
      /\ \A i \in 1 .. NameLength : name[i] = "N"
  BY <1>1 DEF Character
<1>4. PICK o \in Seq(Character), n \in Seq(Character), c \in Seq(Character) :
        o = open /\ n = name /\ c = shut
  BY <1>2, <1>3
<1>5. Rendered = (o \o n) \o c
  BY <1>4 DEF Rendered
<1>6. /\ Len(o) = 2 /\ o[1] = "[" /\ o[2] = "["
      /\ Len(c) = 2 /\ c[1] = "]" /\ c[2] = "]"
      /\ Len(n) = NameLength /\ \A i \in 1 .. NameLength : n[i] = "N"
  <2> HIDE DEF open, name, shut
  <2> QED BY <1>2, <1>3, <1>4
<1> HIDE DEF open, name, shut
<1>7. /\ Rendered \in Seq(Character) /\ Len(Rendered) = (2 + NameLength) + 2
      /\ \A i \in 1 .. 2 : Rendered[i] = o[i]
      /\ \A i \in 1 .. NameLength : Rendered[2 + i] = n[i]
      /\ \A i \in 1 .. 2 : Rendered[(2 + NameLength) + i] = c[i]
  <2>1. PICK head \in Seq(Character) :
          /\ head = o \o n /\ Len(head) = 2 + NameLength
          /\ \A i \in 1 .. 2 : head[i] = o[i]
          /\ \A i \in 1 .. NameLength : head[2 + i] = n[i]
    <3>1. /\ o \o n \in Seq(Character) /\ Len(o \o n) = Len(o) + Len(n)
          /\ \A i \in 1 .. Len(o) : (o \o n)[i] = o[i]
          /\ \A i \in 1 .. Len(n) : (o \o n)[Len(o) + i] = n[i]
      OBVIOUS
    <3>2. /\ Len(o \o n) = 2 + NameLength
          /\ \A i \in 1 .. 2 : (o \o n)[i] = o[i]
          /\ \A i \in 1 .. NameLength : (o \o n)[2 + i] = n[i]
      BY <1>6, <3>1
    <3> QED BY <3>1, <3>2
  <2>2. /\ head \o c \in Seq(Character) /\ Len(head \o c) = (2 + NameLength) + 2
        /\ \A i \in 1 .. (2 + NameLength) : (head \o c)[i] = head[i]
        /\ \A i \in 1 .. 2 : (head \o c)[(2 + NameLength) + i] = c[i]
    BY <1>1, <1>6, <2>1
  <2>3. /\ \A i \in 1 .. 2 : i \in 1 .. (2 + NameLength)
        /\ \A i \in 1 .. NameLength : 2 + i \in 1 .. (2 + NameLength)
    BY <1>1
  <2> QED BY <1>5, <2>1, <2>2, <2>3
<1>8. ASSUME NEW k \in 1 .. Size
      PROVE  Rendered[k] = IF k <= 2 THEN "[" ELSE IF k <= Size - 2 THEN "N" ELSE "]"
  <2>1. CASE k <= 2
    <3>1. k \in 1 .. 2 /\ (k = 1 \/ k = 2)
      BY <1>1, <2>1 DEF Size
    <3> QED BY <1>6, <1>7, <2>1, <3>1
  <2>2. CASE k > 2 /\ k <= Size - 2
    <3>1. k - 2 \in 1 .. NameLength /\ 2 + (k - 2) = k
      BY <1>1, <2>2 DEF Size
    <3>2. Rendered[k] = n[k - 2] /\ n[k - 2] = "N"
      BY <1>6, <1>7, <3>1
    <3> QED BY <1>1, <1>7, <2>2, <3>1, <3>2
  <2>3. CASE k > Size - 2
    <3>1. k - (2 + NameLength) \in 1 .. 2 /\ (2 + NameLength) + (k - (2 + NameLength)) = k
      BY <1>1, <2>3 DEF Size
    <3>2. \A i \in 1 .. 2 : c[i] = "]"
      BY <1>6
    <3>3. Rendered[k] = "]"
      BY <1>7, <3>1, <3>2
    <3>4. ~(k <= 2) /\ ~(k <= Size - 2)
      BY <1>1, <2>3 DEF Size
    <3> QED BY <3>3, <3>4
  <2> QED BY <1>1, <2>1, <2>2, <2>3 DEF Size
<1> QED BY <1>1, <1>7, <1>8 DEF Size

LEMMA IssuedIs ==
  ASSUME NEW s \in Seq(Character), NEW i \in Nat, i >= 1
  PROVE  IssuedAt(s, i) <=>
           i + Size - 1 <= Len(s) /\ \A k \in 1 .. Size : s[i + k - 1] = Rendered[k]
<1>1. /\ Len(Rendered) = Size /\ Size \in Nat /\ Size >= 5 /\ Rendered \in Seq(Character)
  BY RenderedFacts
<1>2. CASE i + Size - 1 <= Len(s)
  <2> DEFINE w == SubSeq(s, i, i + Size - 1)
  <2>1. \A k \in i .. (i + Size - 1) : k \in 1 .. Len(s)
    BY <1>1, <1>2
  <2>2. w \in Seq(Character) /\ Len(w) = Size /\ \A k \in 1 .. Size : w[k] = s[i + k - 1]
    BY <1>1, <1>2, <2>1
  <2> HIDE DEF w
  <2>3. w = Rendered <=> \A k \in 1 .. Size : w[k] = Rendered[k]
    BY <1>1, <2>2
  <2> QED BY <1>1, <1>2, <2>2, <2>3 DEF IssuedAt, w
<1>3. CASE ~(i + Size - 1 <= Len(s))
  BY <1>1, <1>3 DEF IssuedAt
<1> QED BY <1>2, <1>3

\* What one character becomes.
Piece(s, i) ==
  IF IssuedAt(s, i) THEN <<"v">>
  ELSE IF \E j \in DOMAIN s : j < i /\ i < j + Size /\ IssuedAt(s, j) THEN << >>
  ELSE <<s[i]>>

PiecesOf(s) == [i \in DOMAIN s |-> Piece(s, i)]

LEMMA PiecesTyped ==
  ASSUME NEW s \in Seq(Character)
  PROVE  PiecesOf(s) \in Seq(Seq(Shown)) /\ Len(PiecesOf(s)) = Len(s)
<1>1. DOMAIN s = 1 .. Len(s) /\ Len(s) \in Nat
  OBVIOUS
<1>2. ASSUME NEW i \in 1 .. Len(s) PROVE Piece(s, i) \in Seq(Shown)
  <2>1. s[i] \in Shown /\ "v" \in Shown
    BY DEF Shown
  <2> QED BY <2>1 DEF Piece
<1> QED BY <1>1, <1>2 DEF PiecesOf

LEMMA RestoredIs ==
  ASSUME NEW s \in Seq(Character)
  PROVE  ExactRestored(s) = FlattenSeq(PiecesOf(s))
BY RenderedFacts DEF ExactRestored, PiecesOf, Piece

\* A text is restored in two parts if no placeholder lies across the cut.
LEMMA RestoredApart ==
  ASSUME NEW p \in Seq(Character), NEW x \in Seq(Character),
         \A j \in 1 .. Len(p) : IssuedAt(p \o x, j) => j + Size - 1 <= Len(p)
  PROVE  /\ ExactRestored(p \o x) = ExactRestored(p) \o ExactRestored(x)
         /\ ExactRestored(p) \in Seq(Shown)
<1> DEFINE n == Len(p)
           m == Len(x)
           s == p \o x
<1>1. /\ n \in Nat /\ m \in Nat /\ s \in Seq(Character) /\ Len(s) = n + m
      /\ \A i \in 1 .. n : s[i] = p[i]
      /\ \A i \in 1 .. m : s[n + i] = x[i]
      /\ Size \in Nat /\ Size >= 5
      /\ DOMAIN s = 1 .. (n + m) /\ DOMAIN p = 1 .. n /\ DOMAIN x = 1 .. m
  BY RenderedFacts
<1> HIDE DEF n, m, s
<1>2. ASSUME NEW i \in 1 .. n PROVE IssuedAt(s, i) <=> IssuedAt(p, i)
  <2>1. i \in Nat /\ i >= 1
    BY <1>1
  <2>2. IssuedAt(s, i) => i + Size - 1 <= n
    BY DEF n, s
  <2>3. i + Size - 1 <= n => \A k \in 1 .. Size : s[i + k - 1] = p[i + k - 1]
    <3>1. i + Size - 1 <= n => \A k \in 1 .. Size : i + k - 1 \in 1 .. n
      BY <1>1
    <3> QED BY <1>1, <3>1
  <2>4. IssuedAt(s, i) <=> i + Size - 1 <= n + m /\ \A k \in 1 .. Size : s[i + k - 1] = Rendered[k]
    BY <1>1, <2>1, IssuedIs
  <2>5. IssuedAt(p, i) <=> i + Size - 1 <= n /\ \A k \in 1 .. Size : p[i + k - 1] = Rendered[k]
    BY <2>1, IssuedIs DEF n
  <2>6. i + Size - 1 <= n => i + Size - 1 <= n + m
    BY <1>1
  <2> QED BY <2>2, <2>3, <2>4, <2>5, <2>6
<1>3. ASSUME NEW i \in 1 .. m PROVE IssuedAt(s, n + i) <=> IssuedAt(x, i)
  <2>1. i \in Nat /\ i >= 1 /\ n + i \in Nat /\ n + i >= 1
    BY <1>1
  <2>2. i + Size - 1 <= m => \A k \in 1 .. Size : s[(n + i) + k - 1] = x[i + k - 1]
    <3>1. i + Size - 1 <= m => \A k \in 1 .. Size : /\ i + k - 1 \in 1 .. m
                                                   /\ (n + i) + k - 1 = n + (i + k - 1)
      BY <1>1
    <3> QED BY <1>1, <3>1
  <2>3. IssuedAt(s, n + i) <=>
          (n + i) + Size - 1 <= n + m /\ \A k \in 1 .. Size : s[(n + i) + k - 1] = Rendered[k]
    BY <1>1, <2>1, IssuedIs
  <2>4. IssuedAt(x, i) <=> i + Size - 1 <= m /\ \A k \in 1 .. Size : x[i + k - 1] = Rendered[k]
    BY <2>1, IssuedIs DEF m
  <2>5. (n + i) + Size - 1 <= n + m <=> i + Size - 1 <= m
    BY <1>1
  <2> QED BY <2>2, <2>3, <2>4, <2>5
<1>4. ASSUME NEW i \in 1 .. n PROVE Piece(s, i) = Piece(p, i)
  <2>1. (\E j \in 1 .. (n + m) : j < i /\ i < j + Size /\ IssuedAt(s, j)) <=>
          (\E j \in 1 .. n : j < i /\ i < j + Size /\ IssuedAt(p, j))
    <3>1. \A j \in 1 .. (n + m) : j < i => j \in 1 .. n
      BY <1>1
    <3>2. \A j \in 1 .. n : j \in 1 .. (n + m)
      BY <1>1
    <3> QED BY <1>2, <3>1, <3>2
  <2> QED BY <1>1, <1>2, <2>1, Zenon DEF Piece
<1>5. ASSUME NEW i \in 1 .. m PROVE Piece(s, n + i) = Piece(x, i)
  <2>1. (\E j \in 1 .. (n + m) : j < n + i /\ n + i < j + Size /\ IssuedAt(s, j)) <=>
          (\E j \in 1 .. m : j < i /\ i < j + Size /\ IssuedAt(x, j))
    <3>1. ASSUME NEW j \in 1 .. (n + m), j < n + i, n + i < j + Size, IssuedAt(s, j)
          PROVE  \E k \in 1 .. m : k < i /\ i < k + Size /\ IssuedAt(x, k)
      <4>1. CASE j <= n
        <5>1. j \in 1 .. n
          BY <1>1, <4>1
        <5>2. j + Size - 1 <= n
          BY <3>1, <5>1 DEF n, s
        <5> QED BY <1>1, <3>1, <5>2
      <4>2. CASE j > n
        <5>1. j - n \in 1 .. m /\ n + (j - n) = j /\ j - n < i /\ i < (j - n) + Size
          BY <1>1, <3>1, <4>2
        <5>2. IssuedAt(x, j - n)
          BY <1>3, <3>1, <5>1
        <5> QED BY <5>1, <5>2
      <4> QED BY <1>1, <4>1, <4>2
    <3>2. ASSUME NEW k \in 1 .. m, k < i, i < k + Size, IssuedAt(x, k)
          PROVE  \E j \in 1 .. (n + m) : j < n + i /\ n + i < j + Size /\ IssuedAt(s, j)
      <4>1. n + k \in 1 .. (n + m) /\ n + k < n + i /\ n + i < (n + k) + Size
        BY <1>1, <3>2
      <4> QED BY <1>3, <3>2, <4>1
    <3> QED BY <3>1, <3>2
  <2> QED BY <1>1, <1>3, <2>1, Zenon DEF Piece
<1>6. PiecesOf(s) = PiecesOf(p) \o PiecesOf(x)
  <2>1. PICK a \in Seq(Seq(Shown)), b \in Seq(Seq(Shown)), c \in Seq(Seq(Shown)) :
          /\ a = PiecesOf(s) /\ b = PiecesOf(p) /\ c = PiecesOf(x)
          /\ Len(a) = n + m /\ Len(b) = n /\ Len(c) = m
    BY <1>1, PiecesTyped DEF n, m
  <2>2. /\ \A i \in 1 .. n : a[i] = b[i]
        /\ \A i \in 1 .. m : a[n + i] = c[i]
    <3>1. \A i \in 1 .. n : i \in 1 .. (n + m)
      BY <1>1
    <3>2. \A i \in 1 .. m : n + i \in 1 .. (n + m)
      BY <1>1
    <3> QED BY <1>1, <1>4, <1>5, <2>1, <3>1, <3>2 DEF PiecesOf
  <2>3. PICK d \in Seq(Seq(Shown)) :
          /\ d = b \o c /\ Len(d) = n + m
          /\ \A i \in 1 .. n : d[i] = b[i]
          /\ \A i \in 1 .. m : d[n + i] = c[i]
    <3>1. /\ b \o c \in Seq(Seq(Shown)) /\ Len(b \o c) = Len(b) + Len(c)
          /\ \A i \in 1 .. Len(b) : (b \o c)[i] = b[i]
          /\ \A i \in 1 .. Len(c) : (b \o c)[Len(b) + i] = c[i]
      OBVIOUS
    <3>2. /\ Len(b \o c) = n + m
          /\ \A i \in 1 .. n : (b \o c)[i] = b[i]
          /\ \A i \in 1 .. m : (b \o c)[n + i] = c[i]
      BY <2>1, <3>1
    <3> QED BY <3>1, <3>2
  <2>4. ASSUME NEW i \in 1 .. (n + m) PROVE a[i] = d[i]
    <3>1. CASE i <= n
      <4>1. i \in 1 .. n
        BY <1>1, <3>1
      <4> QED BY <2>2, <2>3, <4>1
    <3>2. CASE i > n
      <4>1. i - n \in 1 .. m /\ n + (i - n) = i
        BY <1>1, <3>2
      <4>2. a[n + (i - n)] = c[i - n] /\ d[n + (i - n)] = c[i - n]
        BY <2>2, <2>3, <4>1
      <4> QED BY <4>1, <4>2
    <3>3. i <= n \/ i > n
      BY <1>1
    <3> QED BY <3>1, <3>2, <3>3
  <2>5. a = d
    <3>1. a = [i \in 1 .. (n + m) |-> a[i]]
      BY <2>1
    <3>2. d = [i \in 1 .. (n + m) |-> d[i]]
      <4>1. Len(d) = n + m
        BY <2>3
      <4> QED BY <4>1
    <3>3. [i \in 1 .. (n + m) |-> a[i]] = [i \in 1 .. (n + m) |-> d[i]]
      BY <2>4
    <3> QED BY <3>1, <3>2, <3>3, Zenon
  <2> QED BY <2>1, <2>3, <2>5
<1>7. PiecesOf(p) \in Seq(Seq(Shown)) /\ PiecesOf(x) \in Seq(Seq(Shown))
  BY PiecesTyped
<1>8. /\ FlattenSeq(PiecesOf(p)) \in Seq(Shown)
      /\ FlattenSeq(PiecesOf(s)) = FlattenSeq(PiecesOf(p)) \o FlattenSeq(PiecesOf(x))
  BY <1>6, <1>7, FlattenConcat
<1> QED BY <1>1, <1>8, RestoredIs DEF s

-----------------------------------------------------------------------------
(* Where a buffer is cut.                                                  *)

\* The text may go on to have the placeholder at j.
Could(s, j) == \A k \in 1 .. Size : j + k - 1 <= Len(s) => s[j + k - 1] = Rendered[k]

LEMMA TailTwice ==
  ASSUME NEW W, NEW s \in Seq(W), Len(s) > 1
  PROVE  /\ Tail(Tail(s)) \in Seq(W) /\ Len(Tail(Tail(s))) = Len(s) - 2
         /\ \A i \in 1 .. (Len(s) - 2) : Tail(Tail(s))[i] = s[i + 2]
<1>1. PICK u \in Seq(W) : /\ u = Tail(s) /\ Len(u) = Len(s) - 1
                          /\ \A i \in 1 .. (Len(s) - 1) : u[i] = s[i + 1]
  <2>1. /\ Tail(s) \in Seq(W) /\ Len(Tail(s)) = Len(s) - 1
        /\ \A i \in 1 .. (Len(s) - 1) : Tail(s)[i] = s[i + 1]
    OBVIOUS
  <2> QED BY <2>1
<1>2. u # << >> /\ Len(s) \in Nat
  BY <1>1
<1>3. /\ Tail(u) \in Seq(W) /\ Len(Tail(u)) = Len(u) - 1
      /\ \A i \in 1 .. (Len(u) - 1) : Tail(u)[i] = u[i + 1]
  BY <1>2
<1>4. ASSUME NEW i \in 1 .. (Len(s) - 2) PROVE Tail(u)[i] = s[i + 2]
  <2>1. i \in 1 .. (Len(u) - 1) /\ i + 1 \in 1 .. (Len(s) - 1) /\ (i + 1) + 1 = i + 2
    BY <1>1, <1>2
  <2> QED BY <1>1, <1>3, <2>1
<1> QED BY <1>1, <1>2, <1>3, <1>4

\* What a strict tail looks like: two brackets at the most, at its start.
LEMMA TailShape ==
  ASSUME NEW s \in Seq(Character), StrictTail(s)
  PROVE  /\ Len(s) >= 1 /\ s[1] = "["
         /\ Len(s) >= 2 => s[2] = "["
         /\ \A i \in 3 .. Len(s) : s[i] # "["
<1>1. Len(s) \in Nat /\ Len(s) >= 1 /\ s[1] = "["
  BY DEF StrictTail
<1>2. CASE Len(s) = 1
  BY <1>1, <1>2
<1>3. CASE Len(s) > 1
  <2> DEFINE t == Tail(Tail(s))
  <2>1. s[2] = "[" /\ NameTail(t)
    BY <1>3 DEF StrictTail
  <2>2. /\ t \in Seq(Character) /\ Len(t) = Len(s) - 2
        /\ \A i \in 1 .. (Len(s) - 2) : t[i] = s[i + 2]
    BY <1>3, TailTwice
  <2> HIDE DEF t
  <2>3. \A i \in 1 .. Len(t) : t[i] # "["
    <3>1. CASE Names(t)
      BY <2>2, <3>1 DEF Names
    <3>2. CASE Len(t) > 1 /\ Names(Front(t)) /\ Last(t) = "]"
      <4>1. /\ \A i \in 1 .. (Len(t) - 1) : Front(t)[i] = t[i]
            /\ DOMAIN Front(t) = 1 .. (Len(t) - 1)
        BY <2>2, <3>2 DEF Front
      <4>2. t[Len(t)] = "]"
        BY <3>2 DEF Last
      <4>3. \A i \in 1 .. (Len(t) - 1) : t[i] = "N"
        BY <3>2, <4>1 DEF Names
      <4>4. \A i \in 1 .. Len(t) : i = Len(t) \/ i \in 1 .. (Len(t) - 1)
        BY <2>2
      <4> QED BY <4>2, <4>3, <4>4
    <3> QED BY <2>1, <3>1, <3>2 DEF NameTail
  <2>4. ASSUME NEW i \in 3 .. Len(s) PROVE s[i] # "["
    <3>1. i - 2 \in 1 .. Len(t) /\ (i - 2) + 2 = i /\ i - 2 \in 1 .. (Len(s) - 2)
      BY <1>1, <2>2
    <3> QED BY <2>2, <2>3, <3>1
  <2> QED BY <1>1, <1>3, <2>1, <2>4
<1> QED BY <1>1, <1>2, <1>3

\* A placeholder of which the end is missing is a strict tail.
LEMMA PrefixIsTail ==
  ASSUME NEW s \in Seq(Character), Len(s) >= 1, Len(s) < Size,
         \A k \in 1 .. Len(s) : s[k] = Rendered[k]
  PROVE  StrictTail(s)
<1>1. /\ Len(s) \in Nat /\ Size \in Nat /\ Size >= 5
      /\ \A k \in 1 .. Size :
           Rendered[k] = IF k <= 2 THEN "[" ELSE IF k <= Size - 2 THEN "N" ELSE "]"
  BY RenderedFacts
<1>2. \A k \in 1 .. Len(s) :
        /\ k <= 2 => s[k] = "["
        /\ k > 2 /\ k <= Size - 2 => s[k] = "N"
        /\ k > Size - 2 => s[k] = "]"
  <2> TAKE k \in 1 .. Len(s)
  <2>1. k \in 1 .. Size
    BY <1>1
  <2>2. s[k] = IF k <= 2 THEN "[" ELSE IF k <= Size - 2 THEN "N" ELSE "]"
    BY <1>1, <2>1
  <2> QED BY <1>1, <2>1, <2>2
<1>3. s # << >> /\ s[1] = "["
  <2>1. 1 \in 1 .. Len(s)
    BY <1>1
  <2> QED BY <1>2, <2>1
<1>4. ASSUME Len(s) > 1 PROVE s[2] = "[" /\ NameTail(Tail(Tail(s)))
  <2>1. s[2] = "["
    <3>1. 2 \in 1 .. Len(s)
      BY <1>1, <1>4
    <3> QED BY <1>2, <3>1
  <2> DEFINE t == Tail(Tail(s))
  <2>2. /\ t \in Seq(Character) /\ Len(t) = Len(s) - 2
        /\ \A i \in 1 .. (Len(s) - 2) : t[i] = s[i + 2]
    BY <1>4, TailTwice
  <2> HIDE DEF t
  <2>3. \A i \in 1 .. Len(t) : /\ i + 2 \in 1 .. Len(s) /\ i + 2 > 2 /\ t[i] = s[i + 2]
    BY <1>1, <1>4, <2>2
  <2>4. CASE Len(s) <= Size - 2
    <3>1. \A i \in 1 .. Len(t) : t[i] = "N"
      BY <1>1, <1>2, <2>3, <2>4
    <3>2. Names(t)
      BY <2>2, <3>1 DEF Names
    <3> QED BY <2>1, <3>2 DEF NameTail, t
  <2>5. CASE Len(s) > Size - 2
    <3>1. Len(s) = Size - 1 /\ Len(t) = Size - 3 /\ Len(t) > 1
      BY <1>1, <2>2, <2>5
    <3>2. Last(t) = "]"
      <4>1. Len(t) \in 1 .. Len(t) /\ Len(t) + 2 > Size - 2
        BY <1>1, <3>1
      <4>2. t[Len(t)] = s[Len(t) + 2] /\ s[Len(t) + 2] = "]"
        BY <1>2, <2>3, <4>1
      <4> QED BY <4>2 DEF Last
    <3>3. Names(Front(t))
      <4>1. /\ \A i \in 1 .. (Len(t) - 1) : Front(t)[i] = t[i]
            /\ DOMAIN Front(t) = 1 .. (Len(t) - 1)
        BY <1>1, <2>2, <3>1 DEF Front
      <4>2. ASSUME NEW i \in 1 .. (Len(t) - 1) PROVE t[i] = "N"
        <5>1. i \in 1 .. Len(t) /\ i + 2 <= Size - 2
          BY <1>1, <3>1
        <5> QED BY <1>2, <2>3, <5>1
      <4> QED BY <4>1, <4>2 DEF Names
    <3> QED BY <2>1, <3>1, <3>2, <3>3 DEF NameTail, t
  <2> QED BY <1>1, <2>4, <2>5
<1> QED BY <1>3, <1>4 DEF StrictTail

LEMMA FromFacts ==
  ASSUME NEW s \in Seq(Character), NEW i \in 1 .. (Len(s) + 1)
  PROVE  /\ From(s, i) \in Seq(Character) /\ Len(From(s, i)) = (Len(s) - i) + 1
         /\ \A x \in 1 .. ((Len(s) - i) + 1) : From(s, i)[x] = s[i + x - 1]
<1>1. PICK n \in Nat : n = Len(s)
  OBVIOUS
<1>2. \A k \in i .. n : k \in 1 .. Len(s)
  BY <1>1
<1> QED BY <1>1, <1>2 DEF From

LEMMA HoldFromFacts ==
  ASSUME NEW s \in Seq(Character)
  PROVE  /\ HoldFrom(s) \in 1 .. (Len(s) + 1)
         /\ HoldFrom(s) <= Len(s) => IsTail(From(s, HoldFrom(s)))
         /\ \A j \in 1 .. Len(s) : IsTail(From(s, j)) => HoldFrom(s) <= j
<1> DEFINE starts == {i \in DOMAIN s : IsTail(From(s, i))}
           First(i) == i \in starts /\ \A j \in starts : i <= j
<1>1. Len(s) \in Nat /\ DOMAIN s = 1 .. Len(s)
  OBVIOUS
<1>2. CASE starts = {}
  BY <1>1, <1>2 DEF HoldFrom
<1>3. CASE starts # {}
  <2>1. \E i : First(i)
    <3> SUFFICES ASSUME \A i : ~First(i) PROVE FALSE
      OBVIOUS
    <3> DEFINE S == {i \in 1 .. Len(s) : i \notin starts}
    <3>1. ASSUME NEW i \in 1 .. Len(s), \A j \in 1 .. Len(s) : j < i => j \in S
          PROVE  i \in S
      <4> SUFFICES ASSUME i \in starts PROVE FALSE
        OBVIOUS
      <4>1. ASSUME NEW j \in starts PROVE i <= j
        <5>1. j \in 1 .. Len(s) /\ j \notin S
          BY <1>1
        <5> QED BY <1>1, <3>1, <5>1
      <4> QED BY <4>1
    <3>2. 1 .. Len(s) \subseteq S
      <4> HIDE DEF S
      <4> QED BY <1>1, <3>1, Upward
    <3> QED BY <1>1, <1>3, <3>2
  <2>2. HoldFrom(s) = CHOOSE i \in starts : \A j \in starts : i <= j
    BY <1>3 DEF HoldFrom
  <2>3. First(HoldFrom(s))
    <3> HIDE DEF starts
    <3> QED BY <2>1, <2>2
  <2> QED BY <1>1, <2>3
<1> QED BY <1>2, <1>3

LEMMA KeepFacts ==
  ASSUME NEW s \in Seq(Character)
  PROVE  /\ Keep(s) \in Seq(Character) /\ Len(Keep(s)) <= Len(s) /\ Len(Keep(s)) <= MaxHold
         /\ \/ Keep(s) = From(s, HoldFrom(s)) /\ Len(Keep(s)) = (Len(s) - HoldFrom(s)) + 1
            \/ /\ Keep(s) = << >> /\ Len(Keep(s)) = 0
               /\ (Len(s) - HoldFrom(s)) + 1 > MaxHold
<1>1. Len(s) \in Nat /\ HoldFrom(s) \in 1 .. (Len(s) + 1)
  BY HoldFromFacts
<1>2. PICK h \in 1 .. (Len(s) + 1) : h = HoldFrom(s)
  BY <1>1
<1>3. From(s, h) \in Seq(Character) /\ Len(From(s, h)) = (Len(s) - h) + 1
  BY FromFacts
<1>4. CASE Len(From(s, h)) > MaxHold
  <2>1. Keep(s) = << >>
    BY <1>2, <1>4 DEF Keep
  <2> QED BY <1>1, <1>2, <1>3, <1>4, <2>1, LengthAssumption
<1>5. CASE ~(Len(From(s, h)) > MaxHold)
  <2>1. Keep(s) = From(s, h)
    BY <1>2, <1>5 DEF Keep
  <2> QED BY <1>1, <1>2, <1>3, <1>5, <2>1, LengthAssumption
<1> QED BY <1>4, <1>5

\* No placeholder that the text may go on to have lies across the cut.
LEMMA KeepClear ==
  ASSUME ~lenient, NEW s \in Seq(Character), NEW c, c = Len(s) - Len(Keep(s)),
         NEW i \in 1 .. c, i + Size - 1 > c
  PROVE  ~Could(s, i)
<1> SUFFICES ASSUME Could(s, i) PROVE FALSE
  OBVIOUS
<1>0. PICK n \in Nat : n = Len(s)
  OBVIOUS
<1>1. PICK h \in 1 .. (n + 1) : n = Len(s) /\ h = HoldFrom(s)
  BY <1>0, HoldFromFacts
<1>2. PICK k \in Nat : /\ k = Len(Keep(s)) /\ k <= n /\ c = n - k /\ k <= MaxHold
                       /\ (k = (n - h) + 1) \/ (k = 0 /\ (n - h) + 1 > MaxHold)
  <2>1. Len(Keep(s)) \in Nat /\ Len(Keep(s)) <= n /\ Len(Keep(s)) <= MaxHold
    BY <1>1, KeepFacts
  <2>2. (Len(Keep(s)) = (n - h) + 1) \/ (Len(Keep(s)) = 0 /\ (n - h) + 1 > MaxHold)
    BY <1>1, KeepFacts
  <2> QED BY <1>0, <2>1, <2>2
<1>3. /\ Size \in Nat /\ Size >= 5 /\ MaxHold \in Nat /\ Size <= MaxHold
      /\ \A x \in 1 .. Size :
           Rendered[x] = IF x <= 2 THEN "[" ELSE IF x <= Size - 2 THEN "N" ELSE "]"
  BY RenderedFacts, LengthAssumption DEF Size
<1>4. i \in 1 .. n
  BY <1>1, <1>2
<1>5. \A x \in 1 .. Size : i + x - 1 <= n => s[i + x - 1] = Rendered[x]
  BY <1>1 DEF Could
<1>6. s[i] = "["
  <2>1. 1 \in 1 .. Size /\ i + 1 - 1 = i /\ i <= n
    BY <1>3, <1>4
  <2>2. s[i] = Rendered[1] /\ Rendered[1] = "["
    BY <1>3, <1>5, <2>1
  <2> QED BY <2>2
<1>7. h <= n => /\ s[h] = "["
                /\ h + 1 <= n => s[h + 1] = "["
                /\ \A x \in (h + 2) .. n : s[x] # "["
  <2> SUFFICES ASSUME h <= n
               PROVE  /\ s[h] = "["
                      /\ h + 1 <= n => s[h + 1] = "["
                      /\ \A x \in (h + 2) .. n : s[x] # "["
    OBVIOUS
  <2>1. PICK t \in Seq(Character) :
          /\ t = From(s, h) /\ Len(t) = (n - h) + 1
          /\ \A x \in 1 .. ((n - h) + 1) : t[x] = s[h + x - 1]
    <3>1. /\ From(s, h) \in Seq(Character) /\ Len(From(s, h)) = (n - h) + 1
          /\ \A x \in 1 .. ((n - h) + 1) : From(s, h)[x] = s[h + x - 1]
      BY <1>1, FromFacts
    <3> QED BY <3>1
  <2>2. StrictTail(t)
    BY <1>1, <2>1, HoldFromFacts DEF IsTail
  <2>3. t[1] = "[" /\ (Len(t) >= 2 => t[2] = "[") /\ \A x \in 3 .. Len(t) : t[x] # "["
    BY <2>2, TailShape
  <2>4. t[1] = s[h]
    <3>1. 1 \in 1 .. ((n - h) + 1) /\ h + 1 - 1 = h
      BY <1>1
    <3> QED BY <2>1, <3>1
  <2>5. h + 1 <= n => Len(t) >= 2 /\ t[2] = s[h + 1]
    <3>1. h + 1 <= n => 2 \in 1 .. ((n - h) + 1) /\ h + 2 - 1 = h + 1 /\ (n - h) + 1 >= 2
      BY <1>1
    <3> QED BY <2>1, <3>1
  <2>6. ASSUME NEW x \in (h + 2) .. n PROVE s[x] # "["
    <3>1. /\ (x - h) + 1 \in 3 .. ((n - h) + 1) /\ (x - h) + 1 \in 1 .. ((n - h) + 1)
          /\ h + ((x - h) + 1) - 1 = x
      BY <1>1
    <3> QED BY <2>1, <2>3, <3>1
  <2> QED BY <2>3, <2>4, <2>5, <2>6
<1>8. CASE i + Size - 1 > n
  <2>1. h <= i
    <3>1. PICK t \in Seq(Character) :
            /\ t = From(s, i) /\ Len(t) = (n - i) + 1
            /\ \A x \in 1 .. ((n - i) + 1) : t[x] = s[i + x - 1]
      <4>1. i \in 1 .. (n + 1)
        BY <1>4
      <4>2. /\ From(s, i) \in Seq(Character) /\ Len(From(s, i)) = (n - i) + 1
            /\ \A x \in 1 .. ((n - i) + 1) : From(s, i)[x] = s[i + x - 1]
        BY <1>1, <4>1, FromFacts
      <4> QED BY <4>2
    <3>2. Len(t) >= 1 /\ Len(t) < Size
      BY <1>3, <1>4, <1>8, <3>1
    <3>3. ASSUME NEW x \in 1 .. Len(t) PROVE t[x] = Rendered[x]
      <4>1. x \in 1 .. ((n - i) + 1) /\ x \in 1 .. Size /\ i + x - 1 <= n
        BY <1>3, <1>4, <1>8, <3>1
      <4> QED BY <1>5, <3>1, <4>1
    <3>4. StrictTail(t)
      BY <3>2, <3>3, PrefixIsTail
    <3> QED BY <1>1, <1>4, <3>1, <3>4, HoldFromFacts DEF IsTail
  <2>2. (n - h) + 1 > MaxHold
    BY <1>1, <1>2, <1>4, <2>1
  <2>3. i > h + 1
    BY <1>1, <1>3, <1>4, <1>8, <2>2
  <2>4. i \in (h + 2) .. n /\ h <= n
    BY <1>1, <1>4, <2>3
  <2> QED BY <1>6, <1>7, <2>4
<1>9. CASE i + Size - 1 <= n
  <2>1. k = (n - h) + 1 /\ h > i /\ h <= i + Size - 1 /\ h <= n
    BY <1>1, <1>2, <1>3, <1>4, <1>9
  <2>2. (h - i) + 1 \in 1 .. Size /\ i + ((h - i) + 1) - 1 = h
    BY <1>1, <1>3, <1>4, <2>1
  <2>3. Rendered[(h - i) + 1] = "["
    BY <1>5, <1>7, <2>1, <2>2
  <2>4. h = i + 1
    <3>1. PICK x \in 1 .. Size : x = (h - i) + 1
      BY <2>2
    <3>2. x <= 2
      BY <1>3, <2>3, <3>1
    <3>3. h \in Nat /\ i \in Nat /\ h > i
      BY <1>1, <1>4, <2>1
    <3> QED BY ONLY <3>1, <3>2, <3>3, x \in Nat
  <2>5. 3 \in 1 .. Size /\ i + 3 - 1 = h + 1 /\ h + 1 <= n /\ ~(3 <= 2) /\ 3 <= Size - 2
    BY <1>1, <1>3, <1>4, <1>9, <2>4
  <2>6. s[h + 1] = Rendered[3] /\ Rendered[3] = "N"
    BY <1>3, <1>5, <2>5
  <2> QED BY <1>7, <2>1, <2>5, <2>6
<1> QED BY <1>3, <1>4, <1>8, <1>9

LEMMA CouldLess ==
  ASSUME NEW a \in Seq(Character), NEW b \in Seq(Character),
         NEW j \in 1 .. Len(a), Could(a \o b, j)
  PROVE  Could(a, j)
<1>1. /\ Len(a) \in Nat /\ Len(b) \in Nat /\ Len(a \o b) = Len(a) + Len(b)
      /\ \A i \in 1 .. Len(a) : (a \o b)[i] = a[i]
  BY JoinFacts
<1>2. Size \in Nat
  BY RenderedFacts
<1>3. ASSUME NEW k \in 1 .. Size, j + k - 1 <= Len(a) PROVE a[j + k - 1] = Rendered[k]
  <2>1. j + k - 1 \in 1 .. Len(a) /\ j + k - 1 <= Len(a \o b)
    BY <1>1, <1>2, <1>3
  <2> QED BY <1>1, <2>1 DEF Could
<1> QED BY <1>3 DEF Could

LEMMA CouldShift ==
  ASSUME NEW a \in Seq(Character), NEW b \in Seq(Character),
         NEW i \in 1 .. Len(b), Could(a \o b, Len(a) + i)
  PROVE  Could(b, i)
<1>1. /\ Len(a) \in Nat /\ Len(b) \in Nat /\ Len(a \o b) = Len(a) + Len(b)
      /\ \A x \in 1 .. Len(b) : (a \o b)[Len(a) + x] = b[x]
  BY JoinFacts
<1>2. Size \in Nat
  BY RenderedFacts
<1>3. ASSUME NEW k \in 1 .. Size, i + k - 1 <= Len(b) PROVE b[i + k - 1] = Rendered[k]
  <2>1. /\ i + k - 1 \in 1 .. Len(b) /\ (Len(a) + i) + k - 1 <= Len(a \o b)
        /\ (Len(a) + i) + k - 1 = Len(a) + (i + k - 1)
    BY <1>1, <1>2, <1>3
  <2>2. (a \o b)[(Len(a) + i) + k - 1] = Rendered[k]
    BY <2>1 DEF Could
  <2> QED BY <1>1, <2>1, <2>2
<1> QED BY <1>3 DEF Could

LEMMA IssuedCould ==
  ASSUME NEW a \in Seq(Character), NEW b \in Seq(Character),
         NEW j \in 1 .. Len(a), IssuedAt(a, j)
  PROVE  Could(a \o b, j)
<1>1. /\ Len(a) \in Nat /\ Size \in Nat
      /\ \A i \in 1 .. Len(a) : (a \o b)[i] = a[i]
  BY JoinFacts, RenderedFacts
<1>2. j + Size - 1 <= Len(a) /\ \A k \in 1 .. Size : a[j + k - 1] = Rendered[k]
  BY <1>1, IssuedIs
<1>3. ASSUME NEW k \in 1 .. Size PROVE (a \o b)[j + k - 1] = Rendered[k]
  <2>1. j + k - 1 \in 1 .. Len(a)
    BY <1>1, <1>2
  <2> QED BY <1>1, <1>2, <2>1
<1> QED BY <1>3 DEF Could

LEMMA CutInTwo ==
  ASSUME NEW s \in Seq(Character)
  PROVE  LET x == SubSeq(s, 1, Len(s) - Len(Keep(s)))
         IN  x \in Seq(Character) /\ Len(x) = Len(s) - Len(Keep(s)) /\ s = x \o Keep(s)
<1> DEFINE x == SubSeq(s, 1, Len(s) - Len(Keep(s)))
<1>1. PICK n \in Nat : n = Len(s)
  OBVIOUS
<1>2. PICK h \in 1 .. (n + 1) : h = HoldFrom(s)
  BY <1>1, HoldFromFacts
<1>3. PICK t \in Seq(Character) : t = Keep(s)
  BY KeepFacts
<1>4. PICK k \in 0 .. n : k = Len(t)
  BY <1>1, <1>3, KeepFacts
<1>5. /\ x \in Seq(Character) /\ Len(x) = n - k
      /\ \A i \in 1 .. (n - k) : x[i] = s[i]
  BY <1>1, <1>3, <1>4
<1>6. \A i \in 1 .. k : t[i] = s[(n - k) + i]
  <2>1. CASE t = << >> /\ k = 0
    BY <2>1
  <2>2. CASE t = From(s, h) /\ k = (n - h) + 1
    <3>1. \A i \in 1 .. ((n - h) + 1) : From(s, h)[i] = s[h + i - 1]
      BY <1>1, FromFacts
    <3>2. ASSUME NEW i \in 1 .. k PROVE t[i] = s[(n - k) + i]
      <4>1. i \in 1 .. ((n - h) + 1) /\ h + i - 1 = (n - k) + i
        BY <2>2
      <4> QED BY <2>2, <3>1, <4>1
    <3> QED BY <3>2
  <2> QED BY <1>1, <1>2, <1>3, <1>4, <2>1, <2>2, KeepFacts
<1> HIDE DEF x
<1>7. PICK y \in Seq(Character) : y = x /\ Len(y) = n - k
  BY <1>5
<1>8. PICK z \in Seq(Character) :
        /\ z = y \o t /\ Len(z) = (n - k) + k
        /\ \A i \in 1 .. (n - k) : z[i] = y[i]
        /\ \A i \in 1 .. k : z[(n - k) + i] = t[i]
  <2>1. /\ y \o t \in Seq(Character) /\ Len(y \o t) = Len(y) + Len(t)
        /\ \A i \in 1 .. Len(y) : (y \o t)[i] = y[i]
        /\ \A i \in 1 .. Len(t) : (y \o t)[Len(y) + i] = t[i]
    BY JoinFacts
  <2>2. Len(y) = n - k /\ Len(t) = k
    BY <1>4, <1>7
  <2>3. /\ y \o t \in Seq(Character) /\ Len(y \o t) = (n - k) + k
        /\ \A i \in 1 .. (n - k) : (y \o t)[i] = y[i]
        /\ \A i \in 1 .. k : (y \o t)[(n - k) + i] = t[i]
    BY ONLY <2>1, <2>2
  <2> QED BY ONLY <2>3
<1>9. ASSUME NEW i \in 1 .. n PROVE z[i] = s[i]
  <2>1. CASE i <= n - k
    <3>1. i \in 1 .. (n - k)
      BY <2>1
    <3> QED BY <1>5, <1>7, <1>8, <3>1
  <2>2. CASE ~(i <= n - k)
    <3>1. i - (n - k) \in 1 .. k /\ (n - k) + (i - (n - k)) = i
      BY <2>2
    <3> QED BY <1>6, <1>8, <3>1
  <2> QED BY <2>1, <2>2
<1>10. z = s
  <2>1. Len(z) = n
    BY <1>8
  <2> QED BY <1>1, <1>9, <2>1
<1> QED BY <1>1, <1>3, <1>4, <1>5, <1>7, <1>8, <1>10 DEF x

-----------------------------------------------------------------------------
(* The whole stream.                                                       *)

\* No placeholder that s may go on to have lies across its first n characters.
Clear(n, s) == \A j \in 1 .. n : j + Size - 1 > n => ~Could(s, j)

HoldInvariant ==
  /\ lenient \in BOOLEAN /\ closed \in BOOLEAN
  /\ fed \in Seq(Character) /\ held \in Seq(Character) /\ Len(held) <= MaxHold
  /\ ~lenient /\ closed => shown = ExactRestored(fed)
  /\ ~lenient /\ ~closed =>
       \E given \in Seq(Character) :
         fed = given \o held /\ shown = ExactRestored(given) /\ Clear(Len(given), fed)

LEMMA RestoredOn ==
  ASSUME NEW p \in Seq(Character), NEW x \in Seq(Character), NEW y \in Seq(Character),
         Clear(Len(p), (p \o x) \o y)
  PROVE  ExactRestored(p \o x) = ExactRestored(p) \o ExactRestored(x)
<1>1. /\ Len(p) \in Nat /\ Size \in Nat /\ p \o x \in Seq(Character)
      /\ Len(p \o x) = Len(p) + Len(x) /\ Len(x) \in Nat
  BY JoinFacts, RenderedFacts
<1>2. ASSUME NEW j \in 1 .. Len(p), IssuedAt(p \o x, j) PROVE j + Size - 1 <= Len(p)
  <2>1. j \in 1 .. Len(p \o x)
    BY <1>1
  <2>2. Could((p \o x) \o y, j)
    BY <1>1, <1>2, <2>1, IssuedCould
  <2> QED BY <1>1, <2>2 DEF Clear
<1> QED BY <1>2, RestoredApart

LEMMA NothingRestored == ExactRestored(<< >>) = << >>
<1>1. /\ << >> \in Seq(Character) /\ Len(PiecesOf(<< >>)) = 0
      /\ PiecesOf(<< >>) \in Seq(Seq(Shown))
  <2>1. << >> \in Seq(Character) /\ Len(<< >>) = 0
    OBVIOUS
  <2> QED BY <2>1, PiecesTyped
<1>2. FlattenSeq(PiecesOf(<< >>)) = PiecesOf(<< >>)
  BY <1>1, FlattenRecurs
<1>3. PiecesOf(<< >>) = << >>
  BY <1>1
<1> QED BY <1>1, <1>2, <1>3, RestoredIs

LEMMA HoldInit == Init => HoldInvariant
<1> SUFFICES ASSUME Init PROVE HoldInvariant
  OBVIOUS
<1>1. << >> \in Seq(Character) /\ << >> = << >> \o << >> /\ Len(<< >>) = 0 /\ 0 <= MaxHold
  BY LengthAssumption
<1>2. Clear(Len(<< >>), << >>)
  BY DEF Clear
<1> QED BY <1>1, <1>2, NothingRestored DEF Init, HoldInvariant

LEMMA HoldFeed ==
  ASSUME HoldInvariant, Feed
  PROVE  HoldInvariant'
<1> USE DEF HoldInvariant
<1>1. PICK piece \in Pieces :
        /\ fed' = fed \o piece
        /\ held' = Keep(held \o piece)
        /\ shown' = shown \o Restored(SubSeq(held \o piece, 1,
                                             Len(held \o piece) - Len(held')))
  BY DEF Feed
<1>2. ~closed /\ ~closed' /\ lenient' = lenient
  BY DEF Feed
<1>3. piece \in Seq(Character)
  BY PieceAssumption DEF Character
<1>4. PICK b \in Seq(Character) : b = held \o piece
  BY <1>3, JoinFacts
<1>5. fed' \in Seq(Character) /\ held' \in Seq(Character) /\ Len(held') <= MaxHold
  <2>1. fed \o piece \in Seq(Character)
    BY <1>3, JoinFacts
  <2>2. Keep(b) \in Seq(Character) /\ Len(Keep(b)) <= MaxHold
    BY KeepFacts
  <2> QED BY <1>1, <1>4, <2>1, <2>2
<1>6. ASSUME ~lenient
      PROVE  \E given \in Seq(Character) :
               /\ fed' = given \o held' /\ shown' = ExactRestored(given)
               /\ Clear(Len(given), fed')
  <2>1. PICK p \in Seq(Character) :
          fed = p \o held /\ shown = ExactRestored(p) /\ Clear(Len(p), fed)
    BY <1>2, <1>6
  <2>2. PICK x \in Seq(Character) :
          /\ x = SubSeq(b, 1, Len(b) - Len(Keep(b)))
          /\ Len(x) = Len(b) - Len(Keep(b)) /\ b = x \o Keep(b)
    BY CutInTwo
  <2>3. PICK k \in Seq(Character) : k = Keep(b) /\ k = held'
    BY <1>1, <1>4, KeepFacts
  <2>4. p \o x \in Seq(Character) /\ Len(p \o x) = Len(p) + Len(x)
        /\ Len(p) \in Nat /\ Len(x) \in Nat /\ Size \in Nat
    BY JoinFacts, RenderedFacts
  <2>5. fed' = p \o b
    <3>1. (p \o held) \o piece = p \o (held \o piece)
      BY <1>3
    <3> QED BY <1>1, <1>4, <2>1, <3>1
  <2>6. fed' = (p \o x) \o k
    <3>1. (p \o x) \o k = p \o (x \o k)
      OBVIOUS
    <3> QED BY <2>2, <2>3, <2>5, <3>1
  <2>7. Clear(Len(p), fed')
    <3> SUFFICES ASSUME NEW j \in 1 .. Len(p), j + Size - 1 > Len(p), Could(fed', j)
                 PROVE  FALSE
      BY DEF Clear
    <3>1. j \in 1 .. Len(fed)
      <4>1. Len(fed) = Len(p) + Len(held) /\ Len(held) \in Nat
        BY <2>1, JoinFacts
      <4> QED BY <2>4, <4>1
    <3>2. Could(fed, j)
      BY <1>1, <1>3, <3>1, CouldLess
    <3> QED BY <2>1, <3>2 DEF Clear
  <2>8. shown' = ExactRestored(p \o x)
    <3>1. shown' = shown \o ExactRestored(x)
      BY <1>1, <1>4, <1>6, <2>2, <2>3 DEF Restored
    <3>2. ExactRestored(p \o x) = ExactRestored(p) \o ExactRestored(x)
      BY <2>6, <2>7, RestoredOn
    <3> QED BY <2>1, <3>1, <3>2
  <2>9. Clear(Len(p \o x), fed')
    <3> SUFFICES ASSUME NEW j \in 1 .. Len(p \o x), j + Size - 1 > Len(p \o x),
                        Could(fed', j)
                 PROVE  FALSE
      BY DEF Clear
    <3>1. CASE j <= Len(p)
      <4>1. j \in 1 .. Len(p) /\ j + Size - 1 > Len(p)
        BY <2>4, <3>1
      <4> QED BY <2>7, <4>1 DEF Clear
    <3>2. CASE j > Len(p)
      <4>1. PICK i \in 1 .. Len(x) : j = Len(p) + i
        <5>1. j - Len(p) \in 1 .. Len(x) /\ j = Len(p) + (j - Len(p))
          BY <2>4, <3>2
        <5> QED BY <5>1
      <4>2. i + Size - 1 > Len(x)
        BY <2>4, <4>1
      <4>3. i \in 1 .. Len(b)
        <5>1. Len(b) = Len(x) + Len(k) /\ Len(k) \in Nat
          BY <2>2, <2>3, JoinFacts
        <5> QED BY <2>4, <5>1
      <4>4. Could(b, i)
        BY <2>5, <4>1, <4>3, CouldShift
      <4> QED BY <1>6, <2>2, <4>2, <4>4, KeepClear
    <3> QED BY <2>4, <3>1, <3>2
  <2> QED BY <2>3, <2>4, <2>6, <2>8, <2>9
<1>7. lenient' \in BOOLEAN /\ closed' \in BOOLEAN
  BY <1>2 DEF Feed
<1> QED BY <1>2, <1>5, <1>6, <1>7

LEMMA HoldFlush ==
  ASSUME HoldInvariant, Flush
  PROVE  HoldInvariant'
<1> USE DEF HoldInvariant
<1>1. /\ ~closed /\ closed' /\ lenient' = lenient /\ fed' = fed
      /\ held' = << >> /\ shown' = shown \o Restored(held)
  BY DEF Flush
<1>2. closed' \in BOOLEAN /\ held' \in Seq(Character) /\ Len(held') <= MaxHold
  BY <1>1, LengthAssumption DEF Flush
<1>3. ASSUME ~lenient PROVE shown' = ExactRestored(fed')
  <2>1. PICK p \in Seq(Character) :
          fed = p \o held /\ shown = ExactRestored(p) /\ Clear(Len(p), fed)
    BY <1>1, <1>3
  <2>2. << >> \in Seq(Character) /\ (p \o held) \o << >> = p \o held
    OBVIOUS
  <2>3. ExactRestored(p \o held) = ExactRestored(p) \o ExactRestored(held)
    BY <2>1, <2>2, RestoredOn
  <2> QED BY <1>1, <1>3, <2>1, <2>3 DEF Restored
<1> QED BY <1>1, <1>2, <1>3

\* However a stream is cut into pieces, and whatever name was issued: at its end
\* the client has read the answer as reverse_text restores it in one piece, and
\* HoldBack.feed never withholds more than a placeholder is long.
THEOREM ReadAsIfWhole == Spec => []AsIfWhole
<1>1. HoldInvariant /\ [Next]_vars => HoldInvariant'
  <2> SUFFICES ASSUME HoldInvariant, [Next]_vars PROVE HoldInvariant'
    OBVIOUS
  <2>1. CASE UNCHANGED vars
    BY <2>1 DEF vars, HoldInvariant
  <2> QED BY <2>1, HoldFeed, HoldFlush DEF Next
<1>2. HoldInvariant => AsIfWhole
  BY DEF HoldInvariant, AsIfWhole, Restored
<1> QED BY <1>1, <1>2, HoldInit, PTL DEF Spec
=============================================================================
