---------------------------- MODULE StreamProofs ----------------------------
(***************************************************************************)
(* What the stream of a chat completion tells its client, for any number   *)
(* of choices and calls and any texts, wherever it stops.  First the text  *)
(* itself: what restoring a part of it may do to the rest, and what one    *)
(* delta or a flush adds to what the client has.  Then ChatInvariant, one  *)
(* lemma for each thing an event does.                                     *)
(***************************************************************************)
EXTENDS Streams, FlattenProofs, FiniteSetTheorems

-----------------------------------------------------------------------------
(* Restoring, and what it undoes.                                          *)

Shown == Fragment \cup {"v"}

EndsIn(s, x) == s # << >> /\ s[Len(s)] = x
StartsWith(s, x) == s # << >> /\ s[1] = x

\* A placeholder lies across the place where a ends and b begins.
Joint(a, b) == EndsIn(a, "p1") /\ StartsWith(b, "p2")

RestoredAt(s, i) ==
  IF s[i] = "p1" /\ i < Len(s) /\ s[i + 1] = "p2" THEN <<"v">>
  ELSE IF s[i] = "p2" /\ i > 1 /\ s[i - 1] = "p1" THEN << >>
  ELSE <<s[i]>>
UnrestoredAt(s, i) == IF s[i] = "v" THEN <<"p1", "p2">> ELSE <<s[i]>>

RestoredCut(s) == [i \in DOMAIN s |-> RestoredAt(s, i)]
UnrestoredCut(s) == [i \in DOMAIN s |-> UnrestoredAt(s, i)]

LEMMA RestoredCutFacts ==
  ASSUME NEW s \in Seq(Shown)
  PROVE  /\ RestoredCut(s) \in Seq(Seq(Shown)) /\ Len(RestoredCut(s)) = Len(s)
         /\ \A i \in 1 .. Len(s) : RestoredCut(s)[i] = RestoredAt(s, i)
         /\ Restored(s) = FlattenSeq(RestoredCut(s))
<1>1. ASSUME NEW i \in 1 .. Len(s) PROVE RestoredAt(s, i) \in Seq(Shown)
  <2>1. s[i] \in Shown /\ "v" \in Shown
    BY DEF Shown
  <2>2. << >> \in Seq(Shown) /\ \A x \in Shown : <<x>> \in Seq(Shown)
    OBVIOUS
  <2> QED BY <2>1, <2>2 DEF RestoredAt
<1>2. DOMAIN s = 1 .. Len(s) /\ Len(s) \in Nat
  OBVIOUS
<1>3. Restored(s) = FlattenSeq(RestoredCut(s))
  BY DEF Restored, RestoredCut, RestoredAt
<1> QED BY <1>1, <1>2, <1>3 DEF RestoredCut

LEMMA RestoredJoin ==
  ASSUME NEW a \in Seq(Shown), NEW b \in Seq(Shown), ~Joint(a, b)
  PROVE  /\ Restored(a) \in Seq(Shown)
         /\ Restored(a \o b) = Restored(a) \o Restored(b)
<1>1. PICK c \in Seq(Shown) : c = a \o b
  BY JoinFacts
<1>2. PICK n \in Nat, m \in Nat : n = Len(a) /\ m = Len(b) /\ n + m = Len(c)
  BY <1>1, JoinFacts
<1>3. /\ \A i \in 1 .. n : c[i] = a[i]
      /\ \A i \in 1 .. m : c[n + i] = b[i]
  BY <1>1, <1>2, JoinFacts
<1>4. ASSUME NEW i \in 1 .. n PROVE RestoredAt(c, i) = RestoredAt(a, i)
  <2>1. i > 1 => c[i - 1] = a[i - 1]
    BY <1>2, <1>3
  <2>2. i < n => c[i + 1] = a[i + 1]
    BY <1>2, <1>3
  <2>3. i = n /\ i < n + m => c[i + 1] = b[1] /\ m # 0
    BY <1>2, <1>3
  <2>4. m # 0 /\ a[n] = "p1" => b[1] # "p2"
    BY <1>2 DEF Joint, EndsIn, StartsWith
  <2> QED BY <1>2, <1>3, <2>1, <2>2, <2>3, <2>4 DEF RestoredAt
<1>5. ASSUME NEW i \in 1 .. m PROVE RestoredAt(c, n + i) = RestoredAt(b, i)
  <2>1. i > 1 => c[(n + i) - 1] = b[i - 1]
    <3>1. i > 1 => i - 1 \in 1 .. m /\ n + (i - 1) = (n + i) - 1
      BY <1>2
    <3> QED BY <1>3, <3>1
  <2>2. i < m => c[(n + i) + 1] = b[i + 1]
    <3>1. i < m => i + 1 \in 1 .. m /\ n + (i + 1) = (n + i) + 1
      BY <1>2
    <3> QED BY <1>3, <3>1
  <2>3. i = 1 /\ n + i > 1 => c[(n + i) - 1] = a[n] /\ n # 0
    BY <1>2, <1>3
  <2>4. n # 0 /\ b[1] = "p2" => a[n] # "p1"
    BY <1>2 DEF Joint, EndsIn, StartsWith
  <2> QED BY <1>2, <1>3, <2>1, <2>2, <2>3, <2>4 DEF RestoredAt
<1>6. RestoredCut(c) = RestoredCut(a) \o RestoredCut(b)
  <2> DEFINE A == RestoredCut(a)
             B == RestoredCut(b)
             C == RestoredCut(c)
  <2>1. /\ A \in Seq(Seq(Shown)) /\ Len(A) = n
        /\ B \in Seq(Seq(Shown)) /\ Len(B) = m
        /\ C \in Seq(Seq(Shown)) /\ Len(C) = n + m
    BY <1>2, RestoredCutFacts
  <2>2. /\ \A i \in 1 .. n : C[i] = A[i]
        /\ \A i \in 1 .. m : C[n + i] = B[i]
    <3>1. /\ \A i \in 1 .. n : A[i] = RestoredAt(a, i)
          /\ \A i \in 1 .. m : B[i] = RestoredAt(b, i)
          /\ \A i \in 1 .. (n + m) : C[i] = RestoredAt(c, i)
      BY <1>1, <1>2, RestoredCutFacts
    <3>2. /\ \A i \in 1 .. n : i \in 1 .. (n + m)
          /\ \A i \in 1 .. m : n + i \in 1 .. (n + m)
      BY <1>2
    <3> QED BY <1>4, <1>5, <3>1, <3>2
  <2> HIDE DEF A, B, C
  <2>3. /\ Len(C) = Len(A) + Len(B) /\ \A i \in 1 .. Len(A) : C[i] = A[i]
        /\ \A i \in 1 .. Len(B) : C[Len(A) + i] = B[i]
    BY <2>1, <2>2
  <2>4. C = A \o B
    BY <2>1, <2>3, JoinedUp
  <2> QED BY <2>4 DEF A, B, C
<1>7. /\ FlattenSeq(RestoredCut(a)) \in Seq(Shown)
      /\ FlattenSeq(RestoredCut(a) \o RestoredCut(b)) = FlattenSeq(RestoredCut(a)) \o FlattenSeq(RestoredCut(b))
  BY RestoredCutFacts, FlattenConcat
<1> QED BY <1>1, <1>6, <1>7, RestoredCutFacts

LEMMA UnrestoredTyped ==
  \A x \in Shown : (IF x = "v" THEN <<"p1", "p2">> ELSE <<x>>) \in Seq(Fragment)
<1>1. \A x \in Shown : x # "v" => x \in Fragment
  BY DEF Shown
<1>2. \A x, y \in Fragment : <<x>> \in Seq(Fragment) /\ <<x, y>> \in Seq(Fragment)
  OBVIOUS
<1>3. "p1" \in Fragment /\ "p2" \in Fragment
  BY DEF Fragment
<1> QED BY <1>1, <1>2, <1>3

LEMMA UnrestoredCutFacts ==
  ASSUME NEW s \in Seq(Shown)
  PROVE  /\ UnrestoredCut(s) \in Seq(Seq(Fragment)) /\ Len(UnrestoredCut(s)) = Len(s)
         /\ \A i \in 1 .. Len(s) : UnrestoredCut(s)[i] = UnrestoredAt(s, i)
         /\ Unrestored(s) = FlattenSeq(UnrestoredCut(s))
<1>1. ASSUME NEW i \in 1 .. Len(s) PROVE UnrestoredAt(s, i) \in Seq(Fragment)
  BY UnrestoredTyped DEF UnrestoredAt
<1>2. DOMAIN s = 1 .. Len(s) /\ Len(s) \in Nat
  OBVIOUS
<1>3. Unrestored(s) = FlattenSeq(UnrestoredCut(s))
  BY DEF Unrestored, UnrestoredCut, UnrestoredAt
<1> QED BY <1>1, <1>2, <1>3 DEF UnrestoredCut

LEMMA UnrestoredJoin ==
  ASSUME NEW a \in Seq(Shown), NEW b \in Seq(Shown)
  PROVE  /\ Unrestored(a) \in Seq(Fragment)
         /\ Unrestored(a \o b) = Unrestored(a) \o Unrestored(b)
<1>1. PICK c \in Seq(Shown) : c = a \o b
  BY JoinFacts
<1>2. PICK n \in Nat, m \in Nat : n = Len(a) /\ m = Len(b) /\ n + m = Len(c)
  BY <1>1, JoinFacts
<1>3. /\ \A i \in 1 .. n : c[i] = a[i]
      /\ \A i \in 1 .. m : c[n + i] = b[i]
  BY <1>1, <1>2, JoinFacts
<1>4. ASSUME NEW i \in 1 .. n PROVE UnrestoredAt(c, i) = UnrestoredAt(a, i)
  BY <1>3 DEF UnrestoredAt
<1>5. ASSUME NEW i \in 1 .. m PROVE UnrestoredAt(c, n + i) = UnrestoredAt(b, i)
  BY <1>3 DEF UnrestoredAt
<1>6. UnrestoredCut(c) = UnrestoredCut(a) \o UnrestoredCut(b)
  <2> DEFINE A == UnrestoredCut(a)
             B == UnrestoredCut(b)
             C == UnrestoredCut(c)
  <2>1. /\ A \in Seq(Seq(Fragment)) /\ Len(A) = n
        /\ B \in Seq(Seq(Fragment)) /\ Len(B) = m
        /\ C \in Seq(Seq(Fragment)) /\ Len(C) = n + m
    BY <1>2, UnrestoredCutFacts
  <2>2. /\ \A i \in 1 .. n : C[i] = A[i]
        /\ \A i \in 1 .. m : C[n + i] = B[i]
    <3>1. /\ \A i \in 1 .. n : A[i] = UnrestoredAt(a, i)
          /\ \A i \in 1 .. m : B[i] = UnrestoredAt(b, i)
          /\ \A i \in 1 .. (n + m) : C[i] = UnrestoredAt(c, i)
      BY <1>1, <1>2, UnrestoredCutFacts
    <3>2. /\ \A i \in 1 .. n : i \in 1 .. (n + m)
          /\ \A i \in 1 .. m : n + i \in 1 .. (n + m)
      BY <1>2
    <3> QED BY <1>4, <1>5, <3>1, <3>2
  <2> HIDE DEF A, B, C
  <2>3. /\ Len(C) = Len(A) + Len(B) /\ \A i \in 1 .. Len(A) : C[i] = A[i]
        /\ \A i \in 1 .. Len(B) : C[Len(A) + i] = B[i]
    BY <2>1, <2>2
  <2>4. C = A \o B
    BY <2>1, <2>3, JoinedUp
  <2> QED BY <2>4 DEF A, B, C
<1>7. /\ FlattenSeq(UnrestoredCut(a)) \in Seq(Fragment)
      /\ FlattenSeq(UnrestoredCut(a) \o UnrestoredCut(b)) = FlattenSeq(UnrestoredCut(a)) \o FlattenSeq(UnrestoredCut(b))
  BY UnrestoredCutFacts, FlattenConcat
<1> QED BY <1>1, <1>6, <1>7, UnrestoredCutFacts

LEMMA Shortest ==
  /\ Restored(<< >>) = << >> /\ Unrestored(<< >>) = << >>
  /\ \A x \in Shown : Restored(<<x>>) = <<x>>
  /\ \A x \in Fragment : Unrestored(<<x>>) = <<x>>
  /\ Restored(<<"p1", "p2">>) = <<"v">> /\ Unrestored(<<"v">>) = <<"p1", "p2">>
<1>1. Restored(<< >>) = << >> /\ Unrestored(<< >>) = << >>
  <2>1. \A s : s = << >> => [i \in DOMAIN s |-> RestoredAt(s, i)] = << >>
    OBVIOUS
  <2>2. \A s : s = << >> => [i \in DOMAIN s |-> UnrestoredAt(s, i)] = << >>
    OBVIOUS
  <2>3. /\ \A s : Restored(s) = FlattenSeq([i \in DOMAIN s |-> RestoredAt(s, i)])
        /\ \A s : Unrestored(s) = FlattenSeq([i \in DOMAIN s |-> UnrestoredAt(s, i)])
    BY DEF Restored, Unrestored, RestoredAt, UnrestoredAt
  <2> QED BY <2>1, <2>2, <2>3, FlattenEmpty
<1>2. ASSUME NEW x \in Shown PROVE Restored(<<x>>) = <<x>>
  <2> DEFINE s == <<x>>
             A == [i \in DOMAIN s |-> RestoredAt(s, i)]
  <2>1. Restored(s) = FlattenSeq(A)
    BY DEF Restored, RestoredAt
  <2>2. A = <<s>>
    BY DEF RestoredAt
  <2>3. s \in Seq(Shown)
    OBVIOUS
  <2> HIDE DEF s, A
  <2> QED BY <2>1, <2>2, <2>3, FlattenSingle DEF s
<1>3. ASSUME NEW x \in Shown PROVE Unrestored(<<x>>) = UnrestoredAt(<<x>>, 1)
  <2> DEFINE s == <<x>>
             u == UnrestoredAt(s, 1)
             A == [i \in DOMAIN s |-> UnrestoredAt(s, i)]
  <2>1. Unrestored(s) = FlattenSeq(A)
    BY DEF Unrestored, UnrestoredAt
  <2>2. A = <<u>>
    OBVIOUS
  <2>3. u \in Seq(Fragment)
    BY UnrestoredTyped DEF UnrestoredAt
  <2> HIDE DEF s, u, A
  <2>4. Unrestored(s) = u
    BY <2>1, <2>2, <2>3, FlattenSingle
  <2> QED BY <2>4 DEF s, u
<1>4. Restored(<<"p1", "p2">>) = <<"v">>
  <2> DEFINE s == <<"p1", "p2">>
             A == [i \in DOMAIN s |-> RestoredAt(s, i)]
             v == <<"v">>
             e == << >>
  <2>1. Restored(s) = FlattenSeq(A)
    BY DEF Restored, RestoredAt
  <2>2. A = <<v, e>>
    BY DEF RestoredAt
  <2>3. A = <<v>> \o <<e>> /\ <<v>> \in Seq(Seq(Shown)) /\ e \in Seq(Shown)
    BY <2>2 DEF Shown
  <2>4. v \in Seq(Shown) /\ v \o e = v
    BY DEF Shown
  <2> HIDE DEF s, A, v, e
  <2>5. FlattenSeq(A) = FlattenSeq(<<v>>) \o e
    BY <2>3, FlattenAppend
  <2>6. FlattenSeq(<<v>>) = v
    BY <2>4, FlattenSingle
  <2>7. Restored(s) = v
    BY <2>1, <2>4, <2>5, <2>6
  <2> QED BY <2>7 DEF s, v
<1>5. \A x \in Fragment : x \in Shown /\ x # "v"
  BY DEF Fragment, Shown
<1> QED BY <1>1, <1>2, <1>3, <1>4, <1>5 DEF UnrestoredAt, Shown

LEMMA WholeJoin ==
  ASSUME NEW r \in Seq(Shown), NEW y \in Shown, Whole(r \o <<y>>)
  PROVE  Whole(r) \/ (EndsIn(r, "p1") /\ y = "p2")
<1>1. PICK n \in Nat : n = Len(r) /\ Len(r \o <<y>>) = n + 1
  OBVIOUS
<1>2. (\A i \in 1 .. n : (r \o <<y>>)[i] = r[i]) /\ (r \o <<y>>)[n + 1] = y
  BY <1>1
<1>3. PICK i \in 1 .. n : (r \o <<y>>)[i] = "p1" /\ (r \o <<y>>)[i + 1] = "p2"
  BY <1>1 DEF Whole
<1>4. CASE i = n
  BY <1>1, <1>2, <1>3, <1>4 DEF EndsIn
<1>5. CASE i # n
  <2>1. i \in 1 .. (n - 1) /\ i + 1 \in 1 .. n
    BY <1>3, <1>5
  <2> QED BY <1>1, <1>2, <1>3, <2>1 DEF Whole
<1> QED BY <1>4, <1>5

\* What a text of the provider becomes, when it is restored in one piece.
Faithful(s) ==
  /\ Restored(s) \in Seq(Shown) /\ ~Whole(Restored(s))
  /\ Unrestored(Restored(s)) = s /\ Unrestored(s) = s
  /\ EndsIn(Restored(s), "p1") => EndsIn(s, "p1")

LEMMA FaithfulNext ==
  ASSUME NEW b \in Seq(Fragment), NEW x \in Fragment, Faithful(b), ~Joint(b, <<x>>)
  PROVE  Faithful(b \o <<x>>)
<1>1. x \in Shown /\ b \in Seq(Shown) /\ <<x>> \in Seq(Shown)
  BY DEF Shown
<1> DEFINE r == Restored(b)
           e == <<x>>
           s == b \o e
<1>2. r \in Seq(Shown) /\ Unrestored(r) = b
  BY DEF Faithful
<1>3. e \in Seq(Shown) /\ Restored(e) = e /\ Unrestored(e) = e
  BY <1>1, Shortest
<1>4. Restored(s) = r \o e
  BY <1>1, <1>3, RestoredJoin, ZenonT(60)
<1>5. Unrestored(s) = s /\ Unrestored(r \o e) = s
  BY <1>1, <1>2, <1>3, UnrestoredJoin, ZenonT(60) DEF Faithful
<1>6. r \o e \in Seq(Shown) /\ s # << >> /\ s[Len(s)] = x
      /\ (r \o e)[Len(r \o e)] = x
  BY <1>1, <1>2
<1>7. ~Whole(r \o e)
  BY <1>1, <1>2, WholeJoin DEF Faithful, Joint, StartsWith
<1> QED BY <1>4, <1>5, <1>6, <1>7 DEF Faithful, EndsIn

LEMMA FaithfulWhole ==
  ASSUME NEW b \in Seq(Fragment), Faithful(b)
  PROVE  Faithful(b \o <<"p1", "p2">>)
<1> DEFINE r == Restored(b)
           e == <<"p1", "p2">>
           v == <<"v">>
           s == b \o e
<1>1. b \in Seq(Shown) /\ e \in Seq(Shown) /\ v \in Seq(Shown) /\ "v" \in Shown
  BY DEF Shown, Fragment
<1>2. r \in Seq(Shown) /\ Unrestored(r) = b
  BY DEF Faithful
<1>3. Restored(e) = v /\ Unrestored(v) = e
  BY Shortest
<1>4. Restored(s) = r \o v
  <2>1. ~Joint(b, e)
    BY DEF Joint, StartsWith
  <2> HIDE DEF e, v
  <2> QED BY <1>1, <1>3, <2>1, RestoredJoin
<1>5. Unrestored(r \o v) = s
  BY <1>1, <1>2, <1>3, UnrestoredJoin
<1>6. Unrestored(s) = s
  <2> DEFINE p == <<"p1">>
             q == <<"p2">>
  <2>1. /\ p \in Seq(Shown) /\ q \in Seq(Shown) /\ e = p \o q
        /\ Unrestored(p) = p /\ Unrestored(q) = q
    BY Shortest DEF Shown, Fragment
  <2> HIDE DEF p, q, e
  <2>2. Unrestored(e) = e
    BY <2>1, UnrestoredJoin
  <2>3. Unrestored(b) = b
    BY DEF Faithful
  <2> QED BY <1>1, <2>2, <2>3, UnrestoredJoin, ZenonT(60)
<1>7. r \o v \in Seq(Shown) /\ (r \o v)[Len(r \o v)] = "v"
  BY <1>1, <1>2
<1>8. ~Whole(r \o v)
  BY <1>1, <1>2, WholeJoin DEF Faithful
<1> QED BY <1>4, <1>5, <1>6, <1>7, <1>8 DEF Faithful, EndsIn

LEMMA AllFaithful == \A s \in Seq(Fragment) : Faithful(s)
<1> DEFINE S == {n \in Nat : \A s \in Seq(Fragment) : Len(s) = n => Faithful(s)}
<1>1. ASSUME NEW n \in Nat, \A m \in Nat : m < n => m \in S, NEW s \in Seq(Fragment), Len(s) = n
      PROVE  Faithful(s)
  <2>1. CASE s = << >>
    <3>1. << >> \in Seq(Shown) /\ ~Whole(<< >>) /\ ~EndsIn(<< >>, "p1")
      BY DEF Whole, EndsIn
    <3> QED BY <2>1, <3>1, Shortest DEF Faithful
  <2>2. CASE s # << >>
    <3>1. PICK b \in Seq(Fragment), x \in Fragment : s = b \o <<x>> /\ Len(s) = Len(b) + 1
      BY <2>2, LastApart
    <3>2. Faithful(b)
      BY <1>1, <3>1
    <3>3. CASE ~Joint(b, <<x>>)
      BY <3>1, <3>2, <3>3, FaithfulNext
    <3>4. CASE Joint(b, <<x>>)
      <4>1. b # << >> /\ b[Len(b)] = "p1" /\ x = "p2"
        BY <3>4 DEF Joint, EndsIn, StartsWith
      <4>2. PICK d \in Seq(Fragment), y \in Fragment : b = d \o <<y>> /\ Len(b) = Len(d) + 1
        BY <3>1, <4>1, LastApart
      <4>3. y = "p1"
        BY <4>1, <4>2
      <4>4. Faithful(d)
        BY <1>1, <3>1, <4>2
      <4>5. s = d \o <<"p1", "p2">>
        BY <3>1, <4>1, <4>2, <4>3
      <4> QED BY <4>2, <4>4, <4>5, FaithfulWhole
    <3> QED BY <3>3, <3>4
  <2> QED BY <2>1, <2>2
<1>2. \A n \in Nat : (\A m \in Nat : m < n => m \in S) => n \in S
  BY <1>1
<1>3. Nat \subseteq S
  <2> HIDE DEF S
  <2> QED BY <1>2, FromBelow
<1> QED BY <1>3

-----------------------------------------------------------------------------
(* One value on its way to the client: what the provider said of it, what  *)
(* is kept back, and what the client got.                                  *)

\* The client has got what was released, restored unless a lookup failed.
Delivered(said, got, lost) ==
  /\ got \in Seq(Shown) /\ Unrestored(got) = said
  /\ ~lost => got = Restored(said)

\* All but what is kept back was delivered, and no placeholder was cut by that.
Relayed(said, kept, got, lost) ==
  /\ kept \in {<< >>, <<"p1">>}
  /\ \E released \in Seq(Fragment) :
       /\ said = released \o kept
       /\ EndsIn(released, "p1") => kept = <<"p1">>
       /\ Delivered(released, got, lost)

LEMMA GuardedFacts ==
  ASSUME NEW s \in Seq(Fragment), NEW ok \in BOOLEAN
  PROVE  /\ Guarded(s, ok) \in Seq(Shown) /\ Unrestored(Guarded(s, ok)) = s
         /\ ok => Guarded(s, ok) = Restored(s)
<1>1. Faithful(s) /\ s \in Seq(Shown)
  BY AllFaithful DEF Shown
<1> QED BY <1>1 DEF Faithful, Guarded

LEMMA FragmentsShown == Seq(Fragment) \subseteq Seq(Shown)
BY DEF Shown

\* Text behind what was delivered, at a place no placeholder lies across.
LEMMA MoreDelivered ==
  ASSUME NEW s \in Seq(Fragment), NEW x \in Seq(Fragment), NEW got, NEW lost \in BOOLEAN,
         NEW ok \in BOOLEAN, Delivered(s, got, lost), ~Joint(s, x)
  PROVE  Delivered(s \o x, got \o Guarded(x, ok), lost \/ ~ok)
<1> DEFINE g == Guarded(x, ok)
<1>1. g \in Seq(Shown) /\ Unrestored(g) = x /\ (ok => g = Restored(x))
  BY GuardedFacts
<1>2. got \in Seq(Shown) /\ Unrestored(got) = s /\ (~lost => got = Restored(s))
  BY DEF Delivered
<1> HIDE DEF g
<1>3. got \o g \in Seq(Shown) /\ Unrestored(got \o g) = s \o x
  BY <1>1, <1>2, UnrestoredJoin, JoinFacts
<1>4. Restored(s \o x) = Restored(s) \o Restored(x)
  BY FragmentsShown, RestoredJoin
<1>5. Delivered(s \o x, got \o g, lost \/ ~ok)
  BY <1>1, <1>2, <1>3, <1>4 DEF Delivered
<1> QED BY <1>5 DEF g

LEMMA KeptTyped == << >> \in Seq(Fragment) /\ <<"p1">> \in Seq(Fragment)
<1>1. \A x \in Fragment : <<x>> \in Seq(Fragment)
  OBVIOUS
<1> QED BY <1>1 DEF Fragment

LEMMA HeldFacts ==
  ASSUME NEW b \in Seq(Fragment)
  PROVE  /\ Held(b) \in {<< >>, <<"p1">>} /\ Released(b) \in Seq(Fragment)
         /\ b = Released(b) \o Held(b)
         /\ EndsIn(Released(b), "p1") => Held(b) = <<"p1">>
         /\ StartsWith(b, "p1") => ~StartsWith(Released(b), "p2")
<1>1. CASE b = << >>
  BY <1>1 DEF Held, Released, EndsIn, StartsWith
<1>2. CASE b # << >>
  <2>1. PICK d \in Seq(Fragment), x \in Fragment : b = d \o <<x>> /\ Len(b) = Len(d) + 1
    BY <1>2, LastApart
  <2>2. Last(b) = x /\ Front(b) = d /\ b[Len(b)] = x
    BY <2>1 DEF Last, Front
  <2>3. d # << >> => b[1] = d[1]
    BY <2>1
  <2>4. CASE x = "p1"
    BY <1>2, <2>1, <2>2, <2>3, <2>4 DEF Held, Released, StartsWith
  <2>5. CASE x # "p1"
    <3>1. Held(b) = << >> /\ Released(b) = b
      BY <1>2, <2>2, <2>5 DEF Held, Released
    <3>2. b = b \o << >>
      OBVIOUS
    <3>3. ~EndsIn(b, "p1")
      BY <2>2, <2>5 DEF EndsIn
    <3> QED BY <3>1, <3>2, <3>3 DEF StartsWith
  <2> QED BY <2>4, <2>5
<1> QED BY <1>1, <1>2

\* What starts behind what was delivered is no second half of its placeholder.
LEMMA KeptInFront ==
  ASSUME NEW r \in Seq(Fragment), NEW kept \in {<< >>, <<"p1">>}, NEW piece \in Seq(Fragment),
         EndsIn(r, "p1") => kept = <<"p1">>
  PROVE  /\ kept \o piece \in Seq(Fragment)
         /\ ~Joint(r, kept \o piece) /\ ~Joint(r, Released(kept \o piece))
<1>1. kept \in Seq(Fragment)
  BY KeptTyped
<1>2. kept \o piece \in Seq(Fragment)
  BY <1>1, JoinFacts
<1>3. kept = <<"p1">> => StartsWith(kept \o piece, "p1")
  <2>1. ASSUME kept = <<"p1">>
        PROVE  Len(kept) = 1 /\ kept[1] = "p1" /\ (kept \o piece)[1] = kept[1] /\ kept \o piece # << >>
    <3>1. Len(kept) = 1 /\ kept[1] = "p1"
      BY <2>1
    <3>2. Len(kept \o piece) = Len(kept) + Len(piece) /\ (kept \o piece)[1] = kept[1]
      <4>1. 1 \in 1 .. Len(kept)
        BY <3>1
      <4>2. \A i \in 1 .. Len(kept) : (kept \o piece)[i] = kept[i]
        BY <1>1, JoinFacts
      <4> QED BY <1>1, <4>1, <4>2, JoinFacts
    <3>3. Len(piece) \in Nat /\ Len(<< >>) = 0
      OBVIOUS
    <3> QED BY <3>1, <3>2, <3>3
  <2> QED BY <2>1 DEF StartsWith
<1> DEFINE b == kept \o piece
<1>4. kept = <<"p1">> => ~StartsWith(b, "p2") /\ ~StartsWith(Released(b), "p2")
  <2>1. b \in Seq(Fragment) /\ (kept = <<"p1">> => StartsWith(b, "p1"))
    BY <1>2, <1>3
  <2> HIDE DEF b
  <2> QED BY <2>1, HeldFacts DEF StartsWith
<1> HIDE DEF b
<1>5. ~Joint(r, b) /\ ~Joint(r, Released(b))
  BY <1>4 DEF Joint
<1> QED BY <1>2, <1>5 DEF b

LEMMA DeltaRelays ==
  ASSUME NEW said, NEW kept, NEW got, NEW lost \in BOOLEAN, NEW ok \in BOOLEAN,
         NEW piece \in Seq(Fragment), Relayed(said, kept, got, lost)
  PROVE  Relayed(said \o piece, Held(kept \o piece),
                 got \o Guarded(Released(kept \o piece), ok), lost \/ ~ok)
<1> DEFINE b == kept \o piece
<1>1. kept \in {<< >>, <<"p1">>}
  BY DEF Relayed
<1>2. PICK r \in Seq(Fragment) :
        said = r \o kept /\ (EndsIn(r, "p1") => kept = <<"p1">>) /\ Delivered(r, got, lost)
  BY DEF Relayed
<1>3. b \in Seq(Fragment) /\ ~Joint(r, Released(b))
  BY <1>1, <1>2, KeptInFront
<1>4. kept \in Seq(Fragment)
  BY <1>1, KeptTyped
<1>5. said \o piece = r \o b
  <2>1. Regroups(r, kept, piece)
    BY <1>4, JoinedThree
  <2> QED BY <1>2, <2>1 DEF Regroups
<1> HIDE DEF b
<1>6. /\ Held(b) \in {<< >>, <<"p1">>} /\ Released(b) \in Seq(Fragment)
      /\ b = Released(b) \o Held(b) /\ (EndsIn(Released(b), "p1") => Held(b) = <<"p1">>)
  BY <1>3, HeldFacts
<1>7. Held(b) \in Seq(Fragment)
  BY <1>6, KeptTyped
<1> DEFINE x == Released(b)
           s == r \o x
<1>8. s \in Seq(Fragment) /\ said \o piece = s \o Held(b)
  <2>1. s \in Seq(Fragment)
    BY <1>2, <1>6, JoinFacts
  <2>2. Regroups(r, x, Held(b))
    <3>1. r \in Seq(Fragment) /\ x \in Seq(Fragment) /\ Held(b) \in Seq(Fragment)
      BY <1>6, <1>7
    <3> HIDE DEF x
    <3> QED BY ONLY <3>1, JoinedThree
  <2> QED BY <1>5, <1>6, <2>1, <2>2 DEF Regroups
<1>9. Delivered(s, got \o Guarded(x, ok), lost \/ ~ok)
  BY <1>2, <1>3, <1>6, MoreDelivered
<1>10. EndsIn(s, "p1") => Held(b) = <<"p1">>
  <2>1. CASE x = << >>
    <3>1. s = r
      BY <1>2, <2>1
    <3>2. b = Held(b)
      BY <1>6, <1>7, <2>1
    <3>3. CASE kept = << >>
      BY <1>2, <3>1, <3>3
    <3>4. CASE kept = <<"p1">>
      <4>1. b # << >>
        BY <3>4 DEF b
      <4> QED BY <1>6, <3>2, <4>1
    <3> QED BY <1>1, <3>3, <3>4
  <2>2. CASE x # << >>
    <3>1. s # << >> /\ s[Len(s)] = x[Len(x)]
      BY <1>2, <1>6, <2>2
    <3> QED BY <1>6, <2>2, <3>1 DEF EndsIn
  <2> QED BY <2>1, <2>2
<1> HIDE DEF s
<1>11. Relayed(said \o piece, Held(b), got \o Guarded(x, ok), lost \/ ~ok)
  BY <1>6, <1>8, <1>9, <1>10 DEF Relayed
<1> QED BY <1>11 DEF b

LEMMA RestDelivers ==
  ASSUME NEW said, NEW kept, NEW got, NEW lost \in BOOLEAN, NEW ok \in BOOLEAN,
         NEW piece \in Seq(Fragment), Relayed(said, kept, got, lost)
  PROVE  Delivered(said \o piece, got \o Guarded(kept \o piece, ok), lost \/ ~ok)
<1>1. kept \in {<< >>, <<"p1">>}
  BY DEF Relayed
<1>2. PICK r \in Seq(Fragment) :
        said = r \o kept /\ (EndsIn(r, "p1") => kept = <<"p1">>) /\ Delivered(r, got, lost)
  BY DEF Relayed
<1> DEFINE b == kept \o piece
<1>3. b \in Seq(Fragment) /\ ~Joint(r, b)
  BY <1>1, <1>2, KeptInFront
<1>4. kept \in Seq(Fragment)
  BY <1>1, KeptTyped
<1>5. said \o piece = r \o b
  <2>1. Regroups(r, kept, piece)
    BY <1>4, JoinedThree
  <2> QED BY <1>2, <2>1 DEF Regroups
<1> HIDE DEF b
<1>6. Delivered(r \o b, got \o Guarded(b, ok), lost \/ ~ok)
  BY <1>2, <1>3, MoreDelivered
<1> QED BY <1>5, <1>6 DEF b

LEMMA DeliveredWhole ==
  ASSUME NEW said, NEW got, NEW lost \in BOOLEAN, Delivered(said, got, lost), ~lost
  PROVE  ~Whole(got) /\ got = Restored(said) /\ said \in Seq(Fragment)
<1>1. said \in Seq(Fragment)
  BY UnrestoredJoin DEF Delivered
<1> QED BY <1>1, AllFaithful DEF Delivered, Faithful

LEMMA RelayedWhole ==
  ASSUME NEW said, NEW kept, NEW got, NEW lost \in BOOLEAN, Relayed(said, kept, got, lost), ~lost
  PROVE  ~Whole(got)
BY DeliveredWhole DEF Relayed

\* A lookup that failed meanwhile takes nothing back.
LEMMA StillRelayed ==
  ASSUME NEW said, NEW kept, NEW got, NEW lost \in BOOLEAN, NEW ok \in BOOLEAN
  PROVE  /\ Relayed(said, kept, got, lost) => Relayed(said, kept, got, lost \/ ~ok)
         /\ Delivered(said, got, lost) => Delivered(said, got, lost \/ ~ok)
BY DEF Relayed, Delivered

LEMMA NothingYet ==
  ASSUME NEW lost \in BOOLEAN
  PROVE  /\ Relayed(<< >>, << >>, << >>, lost) /\ Delivered(<< >>, << >>, lost)
<1>1. << >> \in Seq(Fragment) /\ << >> \in Seq(Shown) /\ << >> \o << >> = << >> /\ ~EndsIn(<< >>, "p1")
  BY DEF EndsIn
<1> QED BY <1>1, Shortest DEF Relayed, Delivered

-----------------------------------------------------------------------------
(* The blocks of a stream, and the items a client gets.  What they say of  *)
(* one value is a function of the block, and of the item.                  *)

Told(blocks, g) == FlattenSeq([i \in DOMAIN blocks |-> g[blocks[i]]])

\* The items of which a client can parse an event.
Legible(items) ==
  {i \in DOMAIN items : items[i].sent = "event" /\ (i = 1 \/ items[i - 1].sent # "raw")}
Heard(items, g) ==
  FlattenSeq([i \in DOMAIN items |-> IF i \in Legible(items) THEN g[items[i]] ELSE << >>])

NoRaw(items) == \A i \in DOMAIN items : items[i].sent # "raw"

LEMMA ToldTyped ==
  ASSUME NEW I, NEW W, NEW g \in [I -> Seq(W)], NEW b \in Seq(I)
  PROVE  Told(b, g) \in Seq(W)
<1> DEFINE A == [i \in DOMAIN b |-> g[b[i]]]
<1>1. Len(b) \in Nat /\ DOMAIN b = 1 .. Len(b) /\ \A i \in 1 .. Len(b) : b[i] \in I
  OBVIOUS
<1>2. A \in Seq(Seq(W))
  BY <1>1
<1> HIDE DEF A
<1>3. FlattenSeq(A) \in Seq(W)
  BY <1>2, FlattenConcat
<1> QED BY <1>3 DEF Told, A

LEMMA ToldJoin ==
  ASSUME NEW I, NEW W, NEW g \in [I -> Seq(W)], NEW b \in Seq(I), NEW y \in I
  PROVE  Told(Append(b, y), g) = Told(b, g) \o g[y]
<1> DEFINE A == [i \in DOMAIN b |-> g[b[i]]]
           c == Append(b, y)
           C == [i \in DOMAIN c |-> g[c[i]]]
           e == g[y]
<1>1. /\ Len(b) \in Nat /\ DOMAIN b = 1 .. Len(b) /\ DOMAIN c = 1 .. (Len(b) + 1)
      /\ c[Len(b) + 1] = y /\ e \in Seq(W)
      /\ \A i \in 1 .. Len(b) : c[i] = b[i] /\ b[i] \in I
  OBVIOUS
<1>2. A \in Seq(Seq(W)) /\ Len(A) = Len(b)
  BY <1>1
<1>3. \A i \in 1 .. (Len(b) + 1) : c[i] \in I
  BY <1>1
<1>4. C \in Seq(Seq(W)) /\ Len(C) = Len(b) + 1
  BY <1>1, <1>3
<1>5. (\A i \in 1 .. Len(b) : C[i] = A[i]) /\ C[Len(b) + 1] = e
  BY <1>1
<1> HIDE DEF A, C, e
<1>6. <<e>> \in Seq(Seq(W)) /\ Len(<<e>>) = 1 /\ <<e>>[1] = e
  BY <1>1
<1> DEFINE E == <<e>>
<1>7. /\ Len(C) = Len(A) + Len(E) /\ \A i \in 1 .. Len(A) : C[i] = A[i]
      /\ \A i \in 1 .. Len(E) : C[Len(A) + i] = E[i]
  BY <1>1, <1>2, <1>4, <1>5
<1>8. E \in Seq(Seq(W)) /\ FlattenSeq(E) = e
  BY <1>1, <1>6, FlattenSingle
<1> HIDE DEF E
<1>9. FlattenSeq(C) = FlattenSeq(A) \o FlattenSeq(E)
  BY <1>2, <1>4, <1>7, <1>8, FlattenGlued, ZenonT(60)
<1> QED BY <1>8, <1>9 DEF Told, A, C, e

LEMMA LegibleJoin ==
  ASSUME NEW I, NEW o \in Seq(I), NEW x \in Seq(I), NoRaw(o)
  PROVE  /\ \A i \in 1 .. Len(o) : i \in Legible(o \o x) <=> i \in Legible(o)
         /\ \A i \in 1 .. Len(x) : Len(o) + i \in Legible(o \o x) <=> i \in Legible(x)
<1>0. PICK c \in Seq(I) : c = o \o x /\ Len(c) = Len(o) + Len(x)
  BY JoinFacts
<1>1. PICK n \in Nat, m \in Nat :
        c = o \o x /\ n = Len(o) /\ m = Len(x) /\ n + m = Len(c)
  BY <1>0
<1>2. (\A i \in 1 .. n : c[i] = o[i]) /\ \A i \in 1 .. m : c[n + i] = x[i]
  BY <1>1, JoinFacts
<1>3. DOMAIN o = 1 .. n /\ DOMAIN x = 1 .. m /\ DOMAIN c = 1 .. (n + m)
  BY <1>1
<1>4. ASSUME NEW i \in 1 .. n PROVE i \in Legible(c) <=> i \in Legible(o)
  <2>1. i \in DOMAIN c /\ i \in DOMAIN o /\ c[i] = o[i] /\ (i # 1 => c[i - 1] = o[i - 1])
    BY <1>1, <1>2, <1>3
  <2> QED BY <2>1 DEF Legible
<1>5. ASSUME NEW i \in 1 .. m PROVE n + i \in Legible(c) <=> i \in Legible(x)
  <2>1. n + i \in DOMAIN c /\ i \in DOMAIN x /\ c[n + i] = x[i]
    BY <1>1, <1>2, <1>3
  <2>2. CASE i = 1
    <3>1. n # 0 => c[(n + i) - 1].sent # "raw"
      BY <1>1, <1>2, <1>3, <2>2 DEF NoRaw
    <3> QED BY <1>1, <2>1, <2>2, <3>1 DEF Legible
  <2>3. CASE i # 1
    <3>1. (n + i) - 1 = n + (i - 1) /\ i - 1 \in 1 .. m /\ n + i # 1
      BY <1>1, <2>3
    <3>2. c[(n + i) - 1] = x[i - 1]
      BY <1>2, <3>1
    <3> QED BY <2>1, <2>3, <3>1, <3>2 DEF Legible
  <2> QED BY <2>2, <2>3
<1> QED BY <1>1, <1>4, <1>5

LEMMA HeardJoin ==
  ASSUME NEW I, NEW W, NEW g \in [I -> Seq(W)], NEW o \in Seq(I), NEW x \in Seq(I), NoRaw(o)
  PROVE  Heard(o \o x, g) = Heard(o, g) \o Heard(x, g)
<1> DEFINE S(s) == [i \in DOMAIN s |-> IF i \in Legible(s) THEN g[s[i]] ELSE << >>]
<1>1. ASSUME NEW s \in Seq(I)
      PROVE  /\ S(s) \in Seq(Seq(W)) /\ Len(S(s)) = Len(s)
             /\ \A i \in 1 .. Len(s) : S(s)[i] = IF i \in Legible(s) THEN g[s[i]] ELSE << >>
             /\ Heard(s, g) = FlattenSeq(S(s))
  <2>1. DOMAIN s = 1 .. Len(s) /\ Len(s) \in Nat
    OBVIOUS
  <2>2. \A i \in 1 .. Len(s) : (IF i \in Legible(s) THEN g[s[i]] ELSE << >>) \in Seq(W)
    OBVIOUS
  <2> QED BY <2>1, <2>2 DEF Heard
<1>2. PICK c \in Seq(I) : c = o \o x /\ Len(c) = Len(o) + Len(x)
  BY JoinFacts
<1> HIDE DEF S
<1>3. Len(o) \in Nat /\ Len(x) \in Nat
  OBVIOUS
<1>4. ASSUME NEW i \in 1 .. Len(o) PROVE S(c)[i] = S(o)[i]
  <2>1. i \in 1 .. Len(c) /\ c[i] = o[i] /\ (i \in Legible(c) <=> i \in Legible(o))
    BY <1>2, <1>3, JoinFacts, LegibleJoin
  <2> QED BY <1>1, <1>2, <2>1
<1>5. ASSUME NEW i \in 1 .. Len(x) PROVE S(c)[Len(o) + i] = S(x)[i]
  <2>1. Len(o) + i \in 1 .. Len(c) /\ c[Len(o) + i] = x[i]
    BY <1>2, <1>3, JoinFacts
  <2>2. Len(o) + i \in Legible(c) <=> i \in Legible(x)
    BY <1>2, LegibleJoin
  <2> QED BY <1>1, <1>2, <2>1, <2>2
<1> DEFINE A == S(o)
           B == S(x)
           C == S(c)
<1>6. /\ A \in Seq(Seq(W)) /\ B \in Seq(Seq(W)) /\ C \in Seq(Seq(W))
      /\ Len(C) = Len(A) + Len(B) /\ \A i \in 1 .. Len(A) : C[i] = A[i]
      /\ \A i \in 1 .. Len(B) : C[Len(A) + i] = B[i]
  BY <1>1, <1>2, <1>4, <1>5
<1>7. Heard(o, g) = FlattenSeq(A) /\ Heard(x, g) = FlattenSeq(B) /\ Heard(c, g) = FlattenSeq(C)
  BY <1>1, <1>2
<1> HIDE DEF A, B, C
<1>8. FlattenSeq(A) \in Seq(W) /\ FlattenSeq(C) = FlattenSeq(A) \o FlattenSeq(B)
  BY <1>6, FlattenGlued, ZenonT(60)
<1> QED BY <1>2, <1>7, <1>8

\* What an item says is heard once, or not at all.
LEMMA HeardOnce ==
  ASSUME NEW I, NEW W, NEW g \in [I -> Seq(W)], NEW x \in Seq(I), NEW k \in 1 .. Len(x),
         \A i \in 1 .. Len(x) : i # k => g[x[i]] = << >>
  PROVE  Heard(x, g) = IF k \in Legible(x) THEN g[x[k]] ELSE << >>
<1> DEFINE s == [i \in DOMAIN x |-> IF i \in Legible(x) THEN g[x[i]] ELSE << >>]
<1>1. DOMAIN x = 1 .. Len(x) /\ Len(x) \in Nat /\ \A i \in 1 .. Len(x) : g[x[i]] \in Seq(W)
  OBVIOUS
<1>2. \A i \in 1 .. Len(x) : (IF i \in Legible(x) THEN g[x[i]] ELSE << >>) \in Seq(W)
  BY <1>1
<1>3. /\ s \in Seq(Seq(W)) /\ Len(s) = Len(x)
      /\ \A i \in 1 .. Len(x) : s[i] = IF i \in Legible(x) THEN g[x[i]] ELSE << >>
  BY <1>1, <1>2
<1> HIDE DEF s
<1>4. \A i \in 1 .. Len(s) : i # k => s[i] = << >>
  BY <1>3
<1>5. FlattenSeq(s) = s[k]
  BY <1>3, <1>4, FlattenOnce
<1>6. Heard(x, g) = s[k]
  BY <1>5 DEF Heard, s
<1> QED BY <1>3, <1>6

LEMMA HeardNothing ==
  ASSUME NEW I, NEW g, NEW x \in Seq(I), \A i \in 1 .. Len(x) : g[x[i]] = << >>
  PROVE  Heard(x, g) = << >>
<1> DEFINE s == [i \in DOMAIN x |-> IF i \in Legible(x) THEN g[x[i]] ELSE << >>]
<1>1. DOMAIN x = 1 .. Len(x) /\ Len(x) \in Nat
  OBVIOUS
<1>2. s = [i \in 1 .. Len(x) |-> << >>]
  BY <1>1
<1> HIDE DEF s
<1>3. FlattenSeq(s) = << >>
  BY <1>1, <1>2, FlattenNothing
<1> QED BY <1>3 DEF Heard, s

LEMMA HeardOne ==
  ASSUME NEW I, NEW W, NEW g \in [I -> Seq(W)], NEW y \in I
  PROVE  Heard(<<y>>, g) = IF y.sent = "event" THEN g[y] ELSE << >>
<1> DEFINE x == <<y>>
<1>1. x \in Seq(I) /\ Len(x) = 1 /\ x[1] = y /\ DOMAIN x = 1 .. 1 /\ 1 \in 1 .. Len(x)
      /\ \A i \in 1 .. Len(x) : i = 1
  OBVIOUS
<1> HIDE DEF x
<1>2. Heard(x, g) = IF 1 \in Legible(x) THEN g[x[1]] ELSE << >>
  BY <1>1, HeardOnce
<1>3. 1 \in Legible(x) <=> y.sent = "event"
  BY <1>1 DEF Legible
<1> QED BY <1>1, <1>2, <1>3 DEF x

\* The order in which a flush addresses what it owes.
LEMMA OrderFacts ==
  ASSUME NEW S, IsFiniteSet(S)
  PROVE  /\ SetToSeq(S) \in Seq(S)
         /\ \A i, j \in 1 .. Len(SetToSeq(S)) : SetToSeq(S)[i] = SetToSeq(S)[j] => i = j
         /\ \A e \in S : \E i \in 1 .. Len(SetToSeq(S)) : SetToSeq(S)[i] = e
<1> DEFINE f == SetToSeq(S)
           n == Cardinality(S)
<1>1. n \in Nat /\ ExistsBijection(1 .. n, S)
  BY FS_CardinalityType
<1>2. PICK b \in Bijection(1 .. n, S) : TRUE
  BY <1>1 DEF ExistsBijection
<1>3. b \in [1 .. n -> S] /\ IsInjective(b)
  BY <1>2 DEF Bijection, Injection, IsInjective
<1>4. f \in [1 .. n -> S] /\ IsInjective(f)
  BY <1>3 DEF SetToSeq
<1> HIDE DEF f
<1>5. f \in Injection(1 .. n, S)
  BY <1>4 DEF Injection, IsInjective
<1>6. IsFiniteSet(1 .. n) /\ Cardinality(1 .. n) = n
  BY <1>1, FS_Interval
<1>7. f \in Surjection(1 .. n, S)
  BY <1>5, <1>6, FS_Injection
<1>8. f \in Seq(S) /\ Len(f) = n
  BY <1>1, <1>4
<1>9. \A e \in S : \E i \in 1 .. n : f[i] = e
  BY <1>7 DEF Surjection
<1> QED BY <1>4, <1>8, <1>9 DEF IsInjective, f

-----------------------------------------------------------------------------
(* Chat Completions.                                                       *)

ChatBlock == {Chat!Done, Chat!Other} \cup [block : {"event"}, payload : Chat!Chunk]
ChatBody == [choice : Indices, delta : BOOLEAN, content : Seq(Shown), call : Seq(Shown),
             finish : BOOLEAN]
ChatItem == [sent : {"other", "done", "raw"}] \cup [sent : {"event"}, body : ChatBody]
ChatState == [holds : [Indices -> Seq(Fragment)], calls : [Indices -> Seq(Fragment)],
              skeleton : BOOLEAN]

SentBy(c, field) ==
  [b \in ChatBlock |->
     IF b.block = "event" /\ b.payload.choice = c THEN b.payload[field] ELSE << >>]
GotBy(c, field) ==
  [t \in ChatItem |-> IF t.sent = "event" /\ t.body.choice = c THEN t.body[field] ELSE << >>]
Sent(c, field) == Told(received, SentBy(c, field))
Got(c, field) == Heard(out, GotBy(c, field))

\* The provider has said its last word on the choice.
Over(blocks, c) ==
  \E i \in DOMAIN blocks :
    blocks[i].block = "event" /\ blocks[i].payload.finish /\ blocks[i].payload.choice = c

ChatTyped ==
  /\ received \in Seq(ChatBlock) /\ out \in Seq(ChatItem) /\ state \in ChatState
  /\ status \in {"open", "closed", "raised"} /\ cut \in {"none", "event", "char"}
  /\ missed \in BOOLEAN

\* More blocks may come, and the flush is still to come.
Streaming == status = "open" /\ \A i \in DOMAIN received : received[i] # Chat!Done

\* What the relay keeps of a choice, and what the client lacks of it.
ChoiceOK(c) ==
  IF Over(received, c)
  THEN /\ state.holds[c] = << >> /\ state.calls[c] = << >>
       /\ Delivered(Sent(c, "content"), Got(c, "content"), missed)
       /\ Delivered(Sent(c, "call"), Got(c, "call"), missed)
  ELSE /\ Relayed(Sent(c, "content"), state.holds[c], Got(c, "content"), missed)
       /\ state.calls[c] = Sent(c, "call") /\ Got(c, "call") = << >>
       /\ state.skeleton \/ (state.holds[c] = << >> /\ state.calls[c] = << >>)

\* A choice has its call, or its finish, only when it is over.
LastChunks(items, blocks) ==
  \A i \in DOMAIN items :
    (items[i].sent = "event" /\ (items[i].body.finish \/ items[i].body.call # << >>)) =>
      Over(blocks, items[i].body.choice)

ChatOpen ==
  /\ NoRaw(out) /\ \A i \in DOMAIN out : out[i].sent # "done"
  /\ LastChunks(out, received)
  /\ \A c \in Indices : ChoiceOK(c)

ChatEnded ==
  /\ status = "open" =>
       /\ cut = "none"
       /\ \A c \in Indices : state.holds[c] = << >> /\ state.calls[c] = << >>
  /\ cut = "none" \/ (status = "raised" /\ cut # "char") =>
       \A c \in Indices :
         /\ Delivered(Sent(c, "content"), Got(c, "content"), missed)
         /\ Delivered(Sent(c, "call"), Got(c, "call"), missed)
  /\ ~missed => \A c \in Indices : ~Whole(Got(c, "content")) /\ ~Whole(Got(c, "call"))

\* Behind a choice's finish comes nothing for it, its call comes once, and nothing
\* is said behind [DONE].
ChatOrder(items) ==
  /\ \A i, j \in Legible(items) :
       (i < j /\ items[i].body.choice = items[j].body.choice) =>
         /\ items[i].body.finish => items[j].body.content = << >> /\ items[j].body.call = << >>
         /\ items[i].body.call = << >> \/ items[j].body.call = << >>
  /\ \A i, j \in DOMAIN items : (i < j /\ items[i].sent = "done") => items[j].sent # "event"

ChatInvariant ==
  /\ ChatTyped /\ ChatOrder(out)
  /\ IF Streaming THEN ChatOpen ELSE ChatEnded

LEMMA ChatText ==
  /\ \A s : Chat!FlattenSeq(s) = FlattenSeq(s)
  /\ \A s : Chat!Restored(s) = Restored(s)
  /\ \A s, ok : Chat!Guarded(s, ok) = Guarded(s, ok)
  /\ \A s, ok : Chat!RestoredArguments(s, ok) = Guarded(s, ok)
  /\ \A s : Chat!Unrestored(s) = Unrestored(s)
  /\ \A s : Chat!Whole(s) = Whole(s)
  /\ \A s : Chat!Held(s) = Held(s)
  /\ \A s : Chat!Released(s) = Released(s)
  /\ \A S : Chat!SetToSeq(S) = SetToSeq(S)
<1>1. \A s : Chat!FlattenSeq(s) = FlattenSeq(s)
  BY DEF Chat!FlattenSeq, FlattenSeq
<1>2. \A s : Chat!Restored(s) = Restored(s)
  BY <1>1 DEF Chat!Restored, Restored
<1>3. \A s, ok : Chat!Guarded(s, ok) = Guarded(s, ok) /\ Chat!RestoredArguments(s, ok) = Guarded(s, ok)
  BY <1>2 DEF Chat!Guarded, Guarded, Chat!RestoredArguments
<1>4. \A s : Chat!Unrestored(s) = Unrestored(s)
  BY <1>1 DEF Chat!Unrestored, Unrestored
<1>5. \A s : Chat!Whole(s) = Whole(s)
  BY DEF Chat!Whole, Whole
<1>6. \A s : Chat!Held(s) = Held(s)
  BY DEF Chat!Held, Held, Last, Chat!Last
<1>7. \A s : Chat!Released(s) = Released(s)
  BY <1>6 DEF Chat!Released, Released, Front, Chat!Front
<1>8. \A S : Chat!SetToSeq(S) = SetToSeq(S)
  BY DEF Chat!SetToSeq, SetToSeq, IsInjective, Chat!IsInjective, Cardinality, Chat!Cardinality
<1> QED BY <1>1, <1>2, <1>3, <1>4, <1>5, <1>6, <1>7, <1>8

LEMMA ChatReadings ==
  ASSUME NEW c \in Indices, NEW field \in {"content", "call"}
  PROVE  /\ SentBy(c, field) \in [ChatBlock -> Seq(Fragment)]
         /\ GotBy(c, field) \in [ChatItem -> Seq(Shown)]
<1>1. << >> \in Seq(Fragment) /\ << >> \in Seq(Shown)
  OBVIOUS
<1>2. ASSUME NEW b \in ChatBlock, b.block = "event"
      PROVE  b.payload[field] \in Seq(Fragment)
  <2>1. b.payload \in Chat!Chunk
    BY <1>2 DEF ChatBlock, Chat!Done, Chat!Other
  <2>2. b.payload.content \in Contents /\ b.payload.call \in Fragments
    BY <2>1 DEF Chat!Chunk
  <2> QED BY <2>2, TextAssumption
<1>3. ASSUME NEW t \in ChatItem, t.sent = "event"
      PROVE  t.body[field] \in Seq(Shown)
  <2>1. t.body \in ChatBody
    BY <1>3 DEF ChatItem
  <2> QED BY <2>1 DEF ChatBody
<1> QED BY <1>1, <1>2, <1>3 DEF SentBy, GotBy

\* What the items of one step say to a client behind those it has.
LEMMA ChatOrderJoin ==
  ASSUME NEW o \in Seq(ChatItem), NEW x \in Seq(ChatItem), NoRaw(o), ChatOrder(o), ChatOrder(x),
         \A i \in DOMAIN o : o[i].sent # "done",
         \A i \in Legible(o), j \in Legible(x) :
           o[i].body.choice = x[j].body.choice => ~o[i].body.finish /\ o[i].body.call = << >>
  PROVE  ChatOrder(o \o x)
<1>0. o \o x \in Seq(ChatItem) /\ Len(o \o x) = Len(o) + Len(x)
  BY JoinFacts
<1>1. PICK z \in Seq(ChatItem) : z = o \o x /\ Len(z) = Len(o) + Len(x)
  BY <1>0
<1>2. /\ Len(o) \in Nat /\ Len(x) \in Nat
      /\ DOMAIN o = 1 .. Len(o) /\ DOMAIN x = 1 .. Len(x) /\ DOMAIN z = 1 .. Len(z)
  OBVIOUS
<1>3. ASSUME NEW i \in DOMAIN z
      PROVE  \/ i \in 1 .. Len(o) /\ z[i] = o[i] /\ (i \in Legible(z) => i \in Legible(o))
             \/ \E k \in 1 .. Len(x) :
                  i = Len(o) + k /\ z[i] = x[k] /\ (i \in Legible(z) => k \in Legible(x))
  <2>1. CASE i \in 1 .. Len(o)
    BY <1>1, <2>1, JoinFacts, LegibleJoin
  <2>2. CASE i \notin 1 .. Len(o)
    <3>1. PICK k \in 1 .. Len(x) : i = Len(o) + k
      <4>1. i - Len(o) \in 1 .. Len(x) /\ i = Len(o) + (i - Len(o))
        BY <1>1, <1>2, <2>2
      <4> QED BY <4>1
    <3>2. z[i] = x[k]
      BY <1>1, <3>1, JoinFacts
    <3>3. i \in Legible(z) => k \in Legible(x)
      BY <1>1, <3>1, LegibleJoin
    <3> QED BY <3>1, <3>2, <3>3
  <2> QED BY <2>1, <2>2
<1>4. ASSUME NEW i \in Legible(z), NEW j \in Legible(z), i < j,
             z[i].body.choice = z[j].body.choice
      PROVE  /\ z[i].body.finish => z[j].body.content = << >> /\ z[j].body.call = << >>
             /\ z[i].body.call = << >> \/ z[j].body.call = << >>
  <2>1. i \in DOMAIN z /\ j \in DOMAIN z
    BY DEF Legible
  <2>2. CASE i \in 1 .. Len(o) /\ j \in 1 .. Len(o)
    <3>1. i \in Legible(o) /\ j \in Legible(o) /\ z[i] = o[i] /\ z[j] = o[j]
      BY <1>1, <2>2, JoinFacts, LegibleJoin
    <3> QED BY <1>4, <3>1 DEF ChatOrder
  <2>3. CASE i \in 1 .. Len(o) /\ j \notin 1 .. Len(o)
    <3>1. i \in Legible(o) /\ z[i] = o[i]
      BY <1>1, <2>3, JoinFacts, LegibleJoin
    <3>2. PICK k \in 1 .. Len(x) : j = Len(o) + k /\ z[j] = x[k] /\ k \in Legible(x)
      BY <1>3, <2>1, <2>3
    <3> QED BY <1>4, <3>1, <3>2
  <2>4. CASE i \notin 1 .. Len(o)
    <3>1. j \notin 1 .. Len(o)
      BY <1>1, <1>2, <1>4, <2>1, <2>4
    <3>2. PICK k \in 1 .. Len(x) : i = Len(o) + k /\ z[i] = x[k] /\ k \in Legible(x)
      BY <1>3, <2>1, <2>4
    <3>3. PICK m \in 1 .. Len(x) : j = Len(o) + m /\ z[j] = x[m] /\ m \in Legible(x)
      BY <1>3, <2>1, <3>1
    <3>4. k < m
      BY <1>2, <1>4, <3>2, <3>3
    <3> QED BY <1>4, <3>2, <3>3, <3>4 DEF ChatOrder
  <2> QED BY <2>2, <2>3, <2>4
<1>5. ASSUME NEW i \in DOMAIN z, NEW j \in DOMAIN z, i < j, z[i].sent = "done"
      PROVE  z[j].sent # "event"
  <2>1. i \notin 1 .. Len(o)
    <3>1. \A k \in 1 .. Len(o) : z[k] = o[k] /\ o[k].sent # "done"
      BY <1>1, <1>2, JoinFacts, ZenonT(60)
    <3> QED BY <1>5, <3>1
  <2>2. j \notin 1 .. Len(o)
    BY <1>1, <1>2, <1>5, <2>1
  <2>3. PICK k \in 1 .. Len(x) : i = Len(o) + k /\ z[i] = x[k]
    BY <1>3, <2>1
  <2>4. PICK m \in 1 .. Len(x) : j = Len(o) + m /\ z[j] = x[m]
    BY <1>3, <2>2
  <2>5. k < m
    BY <1>2, <1>5, <2>3, <2>4
  <2> QED BY <1>2, <1>5, <2>3, <2>4, <2>5 DEF ChatOrder
<1> QED BY <1>1, <1>4, <1>5 DEF ChatOrder

\* What a flush of the state s writes: one chunk for each choice it owes something,
\* and [DONE] behind them; or raw bytes in front of them, unless it is whole.
Owed(s) == {c \in Indices : s.skeleton /\ (s.holds[c] # << >> \/ s.calls[c] # << >>)}
ChatFlush(x, s, ok, whole) ==
  /\ x \in Seq(ChatItem)
  /\ \A i \in DOMAIN x : x[i].sent = "event" =>
       /\ ~x[i].body.finish /\ x[i].body.choice \in Owed(s)
       /\ x[i].body.content = Guarded(s.holds[x[i].body.choice], ok)
       /\ x[i].body.call = Guarded(s.calls[x[i].body.choice], ok)
  /\ \A i, j \in DOMAIN x :
       (x[i].sent = "event" /\ x[j].sent = "event" /\ x[i].body.choice = x[j].body.choice) => i = j
  /\ \A c \in Owed(s) : \E i \in DOMAIN x : x[i].sent = "event" /\ x[i].body.choice = c
  /\ \A i \in DOMAIN x : x[i].sent = "done" => i = Len(x)
  /\ whole => NoRaw(x)

Other(kind) == [sent |-> kind]

LEMMA OtherItem ==
  ASSUME NEW kind \in {"other", "done", "raw"}
  PROVE  Other(kind) \in ChatItem /\ Other(kind).sent = kind /\ Other(kind).sent # "event"
BY DEF Other, ChatItem

LEMMA OwedFlush ==
  ASSUME NEW s \in ChatState, NEW ok \in BOOLEAN
  PROVE  /\ ChatFlush(Chat!Sent(Chat!OwedChunks(s, ok)), s, ok, TRUE)
         /\ \A i \in DOMAIN Chat!Sent(Chat!OwedChunks(s, ok)) :
              Chat!Sent(Chat!OwedChunks(s, ok))[i].sent = "event"
<1> DEFINE order == SetToSeq(Owed(s))
           x == Chat!Sent(Chat!OwedChunks(s, ok))
           body(i) == [choice |-> order[i], delta |-> TRUE, content |-> Guarded(s.holds[order[i]], ok),
                       call |-> Guarded(s.calls[order[i]], ok), finish |-> FALSE]
<1>1. IsFiniteSet(Owed(s))
  BY FiniteAssumption, FS_Subset DEF Owed
<1>2. /\ order \in Seq(Owed(s))
      /\ \A i, j \in 1 .. Len(order) : order[i] = order[j] => i = j
      /\ \A c \in Owed(s) : \E i \in 1 .. Len(order) : order[i] = c
  BY <1>1, OrderFacts
<1>3. Chat!OwedChunks(s, ok) = [i \in DOMAIN order |-> body(i)]
  BY ChatText DEF Chat!OwedChunks, Chat!Assembled, Owed
<1> HIDE DEF order
<1>4. DOMAIN order = 1 .. Len(order) /\ Len(order) \in Nat
  BY <1>2
<1>5. x = [i \in 1 .. Len(order) |-> [sent |-> "event", body |-> body(i)]]
  BY <1>3, <1>4 DEF Chat!Sent
<1>6. ASSUME NEW i \in 1 .. Len(order)
      PROVE  [sent |-> "event", body |-> body(i)] \in ChatItem
  <2>1. order[i] \in Owed(s) /\ order[i] \in Indices
    BY <1>2 DEF Owed
  <2>2. s.holds[order[i]] \in Seq(Fragment) /\ s.calls[order[i]] \in Seq(Fragment)
    BY <2>1 DEF ChatState
  <2>3. Guarded(s.holds[order[i]], ok) \in Seq(Shown) /\ Guarded(s.calls[order[i]], ok) \in Seq(Shown)
    BY <2>2, GuardedFacts
  <2> QED BY <2>1, <2>3 DEF ChatItem, ChatBody
<1> HIDE DEF x
<1>7. x \in Seq(ChatItem) /\ DOMAIN x = 1 .. Len(order) /\ Len(x) = Len(order)
  BY <1>4, <1>5, <1>6
<1>8. ASSUME NEW i \in 1 .. Len(order)
      PROVE  /\ x[i].sent = "event" /\ ~x[i].body.finish /\ x[i].body.choice = order[i]
             /\ x[i].body.content = Guarded(s.holds[order[i]], ok)
             /\ x[i].body.call = Guarded(s.calls[order[i]], ok)
  BY <1>5
<1>9. \A i \in 1 .. Len(order) : order[i] \in Owed(s)
  BY <1>2
<1>10. ChatFlush(x, s, ok, TRUE)
  BY <1>2, <1>7, <1>8, <1>9, SMTT(30) DEF ChatFlush, NoRaw
<1> QED BY <1>7, <1>8, <1>10 DEF x

LEMMA FlushFramed ==
  ASSUME NEW x, NEW s \in ChatState, NEW ok \in BOOLEAN, ChatFlush(x, s, ok, TRUE),
         \A i \in DOMAIN x : x[i].sent = "event"
  PROVE  /\ ChatFlush(x \o <<Other("done")>>, s, ok, TRUE)
         /\ ChatFlush(<<Other("raw")>> \o x, s, ok, FALSE)
<1> USE DEF ChatFlush
<1> DEFINE n == Len(x)
           d == <<Other("done")>>
           r == <<Other("raw")>>
           xd == x \o d
           rx == r \o x
<1>1. x \in Seq(ChatItem) /\ n \in Nat /\ DOMAIN x = 1 .. n
  OBVIOUS
<1>2. /\ d \in Seq(ChatItem) /\ Len(d) = 1 /\ d[1] = Other("done")
      /\ r \in Seq(ChatItem) /\ Len(r) = 1 /\ r[1] = Other("raw")
  BY OtherItem
<1> HIDE DEF d, r
<1>3. /\ xd \in Seq(ChatItem) /\ Len(xd) = n + 1 /\ DOMAIN xd = 1 .. (n + 1)
      /\ (\A i \in 1 .. n : xd[i] = x[i]) /\ xd[n + 1] = Other("done")
  <2>1. /\ x \o d \in Seq(ChatItem) /\ Len(x \o d) = Len(x) + Len(d)
        /\ \A i \in 1 .. Len(x) : (x \o d)[i] = x[i]
        /\ \A i \in 1 .. Len(d) : (x \o d)[Len(x) + i] = d[i]
    BY <1>1, <1>2, JoinFacts
  <2> QED BY <1>1, <1>2, <2>1
<1>4. /\ rx \in Seq(ChatItem) /\ Len(rx) = n + 1 /\ DOMAIN rx = 1 .. (n + 1)
      /\ (\A i \in 1 .. n : rx[1 + i] = x[i]) /\ rx[1] = Other("raw")
  <2>1. /\ r \o x \in Seq(ChatItem) /\ Len(r \o x) = Len(r) + Len(x)
        /\ \A i \in 1 .. Len(r) : (r \o x)[i] = r[i]
        /\ \A i \in 1 .. Len(x) : (r \o x)[Len(r) + i] = x[i]
    <3>1. r \in Seq(ChatItem) /\ x \in Seq(ChatItem)
      BY <1>1, <1>2
    <3> QED BY ONLY <3>1, JoinFacts
  <2> QED BY <1>1, <1>2, <2>1
<1> HIDE DEF xd, rx, n
<1>5. \A i \in 1 .. (n + 1) : i # n + 1 => i \in 1 .. n
  BY <1>1
<1>6. \A i \in 1 .. (n + 1) : i # 1 => i - 1 \in 1 .. n /\ i = 1 + (i - 1)
  BY <1>1
<1>7. \A i \in 1 .. n : 1 + i \in 1 .. (n + 1) /\ i \in 1 .. (n + 1) /\ (1 + i) - 1 = i
  BY <1>1
<1>8. ChatFlush(xd, s, ok, TRUE)
  <2>1. \A i \in DOMAIN xd : xd[i].sent = "event" => i \in 1 .. n /\ xd[i] = x[i]
    BY <1>3, <1>5, OtherItem
  <2>2. \A i \in DOMAIN xd : xd[i].sent = "done" => i = Len(xd)
    BY <1>1, <1>3, <1>5
  <2>3. NoRaw(xd)
    BY <1>1, <1>3, <1>5, OtherItem DEF NoRaw
  <2>4. \A c \in Owed(s) : \E i \in DOMAIN xd : xd[i].sent = "event" /\ xd[i].body.choice = c
    BY <1>1, <1>3, <1>7
  <2> QED BY <1>1, <1>3, <2>1, <2>2, <2>3, <2>4
<1>9. ChatFlush(rx, s, ok, FALSE)
  <2>1. ASSUME NEW i \in DOMAIN rx, i # 1
        PROVE  \E k \in 1 .. n : i = 1 + k /\ rx[i] = x[k]
    <3>1. PICK k \in 1 .. n : i = 1 + k
      BY <1>4, <1>6, <2>1
    <3> QED BY <1>4, <3>1
  <2>2. ASSUME NEW i \in DOMAIN rx, rx[i].sent = "event"
        PROVE  \E k \in 1 .. n : i = 1 + k /\ rx[i] = x[k]
    BY <1>4, <2>1, <2>2, OtherItem
  <2>3. ASSUME NEW i \in DOMAIN rx PROVE rx[i].sent # "done"
    <3>1. CASE i = 1
      BY <1>4, <3>1, OtherItem
    <3>2. CASE i # 1
      BY <1>1, <2>1, <3>2
    <3> QED BY <3>1, <3>2
  <2>4. \A c \in Owed(s) : \E i \in DOMAIN rx : rx[i].sent = "event" /\ rx[i].body.choice = c
    <3> TAKE c \in Owed(s)
    <3>1. PICK i \in 1 .. n : x[i].sent = "event" /\ x[i].body.choice = c
      BY <1>1
    <3>2. 1 + i \in DOMAIN rx /\ rx[1 + i] = x[i]
      BY <1>4, <1>7
    <3> QED BY <3>1, <3>2
  <2>5. ASSUME NEW i \in DOMAIN rx, NEW j \in DOMAIN rx, rx[i].sent = "event", rx[j].sent = "event",
               rx[i].body.choice = rx[j].body.choice
        PROVE  i = j
    <3>1. PICK k \in 1 .. n : i = 1 + k /\ rx[i] = x[k]
      BY <2>2, <2>5
    <3>2. PICK m \in 1 .. n : j = 1 + m /\ rx[j] = x[m]
      BY <2>2, <2>5
    <3> QED BY <1>1, <2>5, <3>1, <3>2
  <2>6. ASSUME NEW i \in DOMAIN rx, rx[i].sent = "event"
        PROVE  /\ ~rx[i].body.finish /\ rx[i].body.choice \in Owed(s)
               /\ rx[i].body.content = Guarded(s.holds[rx[i].body.choice], ok)
               /\ rx[i].body.call = Guarded(s.calls[rx[i].body.choice], ok)
    <3>1. PICK k \in DOMAIN x : rx[i] = x[k]
      BY <1>1, <2>2, <2>6
    <3> QED BY <2>6, <3>1
  <2> QED BY <1>4, <2>3, <2>4, <2>5, <2>6
<1> QED BY <1>8, <1>9 DEF xd, rx, d, r

\* What the flush says of each choice.
HeardOf(kept, ok, whole, heard) ==
  heard \in {<< >>, Guarded(kept, ok)} /\ (whole => heard = Guarded(kept, ok))

LEMMA FlushHeard ==
  ASSUME NEW x, NEW s \in ChatState, NEW ok \in BOOLEAN, NEW whole \in BOOLEAN,
         ChatFlush(x, s, ok, whole), NEW c \in Indices,
         s.skeleton \/ (s.holds[c] = << >> /\ s.calls[c] = << >>)
  PROVE  /\ HeardOf(s.holds[c], ok, whole, Heard(x, GotBy(c, "content")))
         /\ HeardOf(s.calls[c], ok, whole, Heard(x, GotBy(c, "call")))
<1>1. x \in Seq(ChatItem) /\ DOMAIN x = 1 .. Len(x)
  BY DEF ChatFlush
<1>2. /\ GotBy(c, "content") \in [ChatItem -> Seq(Shown)]
      /\ GotBy(c, "call") \in [ChatItem -> Seq(Shown)]
  BY ChatReadings
<1>3. ASSUME NEW i \in 1 .. Len(x)
      PROVE  /\ x[i] \in ChatItem
             /\ GotBy(c, "content")[x[i]] =
                  IF x[i].sent = "event" /\ x[i].body.choice = c THEN x[i].body.content ELSE << >>
             /\ GotBy(c, "call")[x[i]] =
                  IF x[i].sent = "event" /\ x[i].body.choice = c THEN x[i].body.call ELSE << >>
  BY <1>1 DEF GotBy
<1>4. CASE c \in Owed(s)
  <2>1. PICK k \in 1 .. Len(x) : x[k].sent = "event" /\ x[k].body.choice = c
    BY <1>1, <1>4 DEF ChatFlush
  <2>2. \A i \in 1 .. Len(x) : i # k => ~(x[i].sent = "event" /\ x[i].body.choice = c)
    BY <1>1, <2>1 DEF ChatFlush
  <2>3. /\ GotBy(c, "content")[x[k]] = Guarded(s.holds[c], ok)
        /\ GotBy(c, "call")[x[k]] = Guarded(s.calls[c], ok)
    BY <1>1, <1>3, <2>1 DEF ChatFlush
  <2>4. /\ \A i \in 1 .. Len(x) : i # k => GotBy(c, "content")[x[i]] = << >>
        /\ \A i \in 1 .. Len(x) : i # k => GotBy(c, "call")[x[i]] = << >>
    BY <1>3, <2>2
  <2>5. /\ Heard(x, GotBy(c, "content")) =
             IF k \in Legible(x) THEN GotBy(c, "content")[x[k]] ELSE << >>
        /\ Heard(x, GotBy(c, "call")) =
             IF k \in Legible(x) THEN GotBy(c, "call")[x[k]] ELSE << >>
    BY <1>1, <1>2, <2>4, HeardOnce
  <2>6. whole => k \in Legible(x)
    <3>1. k # 1 => k - 1 \in 1 .. Len(x)
      BY <1>1
    <3> QED BY <1>1, <2>1, <3>1 DEF ChatFlush, NoRaw, Legible
  <2> QED BY <2>3, <2>5, <2>6 DEF HeardOf
<1>5. CASE c \notin Owed(s)
  <2>1. s.holds[c] = << >> /\ s.calls[c] = << >>
    BY <1>5 DEF Owed
  <2>2. \A i \in 1 .. Len(x) : GotBy(c, "content")[x[i]] = << >> /\ GotBy(c, "call")[x[i]] = << >>
    BY <1>1, <1>3, <1>5 DEF ChatFlush
  <2>3. Heard(x, GotBy(c, "content")) = << >> /\ Heard(x, GotBy(c, "call")) = << >>
    BY <1>1, <2>2, HeardNothing
  <2>4. Guarded(<< >>, ok) = << >>
    BY Shortest DEF Guarded
  <2> QED BY <2>1, <2>3, <2>4 DEF HeardOf
<1> QED BY <1>4, <1>5

LEMMA FlushOrder ==
  ASSUME NEW x, NEW s \in ChatState, NEW ok \in BOOLEAN, NEW whole \in BOOLEAN,
         ChatFlush(x, s, ok, whole)
  PROVE  ChatOrder(x)
<1>1. x \in Seq(ChatItem) /\ DOMAIN x = 1 .. Len(x) /\ Len(x) \in Nat
  BY DEF ChatFlush
<1>2. ASSUME NEW i \in Legible(x), NEW j \in Legible(x), i < j PROVE x[i].body.choice # x[j].body.choice
  <2>1. i \in DOMAIN x /\ j \in DOMAIN x /\ x[i].sent = "event" /\ x[j].sent = "event" /\ i # j
    BY <1>1, <1>2 DEF Legible
  <2> QED BY <2>1 DEF ChatFlush
<1>3. ASSUME NEW i \in DOMAIN x, NEW j \in DOMAIN x, i < j PROVE x[i].sent # "done"
  <2>1. i # Len(x)
    BY <1>1, <1>3
  <2> QED BY <2>1 DEF ChatFlush
<1> QED BY <1>2, <1>3 DEF ChatOrder

LEMMA ChatReceives ==
  ASSUME ChatTyped, NEW b \in ChatBlock, received' = Append(received, b)
  PROVE  /\ received' \in Seq(ChatBlock)
         /\ \A c \in Indices, field \in {"content", "call"} :
              Sent(c, field)' = Sent(c, field) \o SentBy(c, field)[b]
         /\ \A c : Over(received', c) <=>
                     (Over(received, c) \/ (b.block = "event" /\ b.payload.finish /\ b.payload.choice = c))
         /\ (\A i \in DOMAIN received' : received'[i] # Chat!Done) <=>
              (b # Chat!Done /\ \A i \in DOMAIN received : received[i] # Chat!Done)
<1>1. received \in Seq(ChatBlock) /\ received' \in Seq(ChatBlock)
  BY DEF ChatTyped
<1>2. PICK n \in Nat : n = Len(received)
  BY <1>1
<1>3. /\ DOMAIN received = 1 .. n /\ DOMAIN received' = 1 .. (n + 1)
      /\ (\A i \in 1 .. n : received'[i] = received[i]) /\ received'[n + 1] = b
  BY <1>1, <1>2
<1>4. \A i \in 1 .. (n + 1) : i \in 1 .. n \/ i = n + 1
  BY <1>2
<1>5. \A i \in 1 .. n : i \in 1 .. (n + 1)
  BY <1>2
<1>6. n + 1 \in 1 .. (n + 1)
  BY <1>2
<1>7. ASSUME NEW c \in Indices, NEW field \in {"content", "call"}
      PROVE  Sent(c, field)' = Sent(c, field) \o SentBy(c, field)[b]
  <2> DEFINE g == SentBy(c, field)
  <2>1. g \in [ChatBlock -> Seq(Fragment)]
    BY ChatReadings
  <2> HIDE DEF g
  <2>2. Told(Append(received, b), g) = Told(received, g) \o g[b]
    BY ONLY <1>1, <2>1, b \in ChatBlock, ToldJoin
  <2> QED BY <2>2 DEF Sent, g
<1>8. ASSUME NEW c
      PROVE  Over(received', c) <=>
               (Over(received, c) \/ (b.block = "event" /\ b.payload.finish /\ b.payload.choice = c))
  BY <1>3, <1>4, <1>5, <1>6, ZenonT(60) DEF Over
<1>9. (\A i \in DOMAIN received' : received'[i] # Chat!Done) <=>
        (b # Chat!Done /\ \A i \in DOMAIN received : received[i] # Chat!Done)
  BY <1>3, <1>4, <1>5, <1>6
<1> QED BY <1>1, <1>7, <1>8, <1>9

LEMMA ChatSends ==
  ASSUME ChatTyped, NoRaw(out), NEW x \in Seq(ChatItem), out' = out \o x
  PROVE  /\ out' \in Seq(ChatItem)
         /\ \A c \in Indices, field \in {"content", "call"} :
              Got(c, field)' = Got(c, field) \o Heard(x, GotBy(c, field))
         /\ \A i \in DOMAIN out' : (\E j \in DOMAIN out : out'[i] = out[j])
                                     \/ (\E j \in DOMAIN x : out'[i] = x[j])
<1>1. out \in Seq(ChatItem) /\ x \in Seq(ChatItem)
  BY DEF ChatTyped
<1>2. out' \in Seq(ChatItem) /\ Len(out') = Len(out) + Len(x)
  BY ONLY <1>1, JoinFacts, out' = out \o x
<1>3. ASSUME NEW c \in Indices, NEW field \in {"content", "call"}
      PROVE  Got(c, field)' = Got(c, field) \o Heard(x, GotBy(c, field))
  <2> DEFINE g == GotBy(c, field)
  <2>1. g \in [ChatItem -> Seq(Shown)]
    BY ChatReadings
  <2> HIDE DEF g
  <2>2. Heard(out \o x, g) = Heard(out, g) \o Heard(x, g)
    BY <1>1, <2>1, HeardJoin
  <2> QED BY <2>2 DEF Got, g
<1>4. ASSUME NEW i \in DOMAIN out'
      PROVE  (\E j \in DOMAIN out : out'[i] = out[j]) \/ (\E j \in DOMAIN x : out'[i] = x[j])
  <2>1. /\ \A k \in 1 .. Len(out) : out'[k] = out[k]
        /\ \A k \in 1 .. Len(x) : out'[Len(out) + k] = x[k]
    BY ONLY <1>1, JoinFacts, out' = out \o x
  <2>2. /\ DOMAIN out = 1 .. Len(out) /\ DOMAIN x = 1 .. Len(x) /\ DOMAIN out' = 1 .. (Len(out) + Len(x))
        /\ Len(out) \in Nat /\ Len(x) \in Nat
    BY <1>1, <1>2
  <2>3. CASE i \in 1 .. Len(out)
    BY <2>1, <2>2, <2>3
  <2>4. CASE i \notin 1 .. Len(out)
    <3>1. i - Len(out) \in 1 .. Len(x) /\ i = Len(out) + (i - Len(out))
      BY <2>2, <2>4
    <3> QED BY <2>1, <2>2, <3>1
  <2> QED BY <2>3, <2>4
<1> QED BY <1>2, <1>3, <1>4

LEMMA ChatInit == ASSUME Chat!RelayInit PROVE ChatInvariant
<1>1. /\ received = << >> /\ cut = "none" /\ out = << >> /\ status = "open" /\ missed = FALSE
      /\ state = Chat!Start
  BY DEF Chat!RelayInit
<1>2. << >> \in Seq(ChatBlock) /\ << >> \in Seq(ChatItem) /\ << >> \in Seq(Fragment)
  OBVIOUS
<1>3. state \in ChatState /\ \A c \in Indices : state.holds[c] = << >> /\ state.calls[c] = << >>
  BY <1>1, <1>2 DEF ChatState, Chat!Start
<1>4. ChatTyped
  BY <1>1, <1>2, <1>3 DEF ChatTyped
<1>5. DOMAIN received = {} /\ DOMAIN out = {}
  BY <1>1
<1>6. ChatOrder(out) /\ NoRaw(out) /\ LastChunks(out, received) /\ Streaming
      /\ \A i \in DOMAIN out : out[i].sent # "done"
  BY <1>1, <1>5 DEF ChatOrder, Legible, NoRaw, LastChunks, Streaming
<1>7. ASSUME NEW c \in Indices PROVE ChoiceOK(c)
  <2>1. ~Over(received, c)
    BY <1>5 DEF Over
  <2>2. [i \in DOMAIN received |-> SentBy(c, "content")[received[i]]] = << >>
        /\ [i \in DOMAIN received |-> SentBy(c, "call")[received[i]]] = << >>
    BY <1>1, <1>5
  <2>3. Sent(c, "content") = << >> /\ Sent(c, "call") = << >>
    BY <2>2, FlattenEmpty DEF Sent, Told
  <2>4. Got(c, "content") = << >> /\ Got(c, "call") = << >>
    <3>1. ASSUME NEW g PROVE Heard(out, g) = << >>
      <4>1. out \in Seq(ChatItem) /\ \A i \in 1 .. Len(out) : g[out[i]] = << >>
        BY <1>1, <1>2
      <4> QED BY ONLY <4>1, HeardNothing
    <3> QED BY <3>1 DEF Got
  <2> QED BY <1>1, <1>3, <2>1, <2>3, <2>4, NothingYet DEF ChoiceOK
<1> QED BY <1>4, <1>6, <1>7 DEF ChatInvariant, ChatOpen

\* A choice's call, or what is left of its text, behind what the client has.
LEMMA LastDelivers ==
  ASSUME NEW said, NEW kept, NEW got, NEW lost \in BOOLEAN, NEW ok \in BOOLEAN
  PROVE  /\ Relayed(said, kept, got, lost) => Delivered(said, got \o Guarded(kept, ok), lost \/ ~ok)
         /\ said \in Seq(Fragment) => Delivered(said, Guarded(said, ok), lost \/ ~ok)
<1>1. ASSUME Relayed(said, kept, got, lost)
      PROVE  Delivered(said, got \o Guarded(kept, ok), lost \/ ~ok)
  <2> DEFINE e == << >>
  <2>1. e \in Seq(Fragment)
    OBVIOUS
  <2>2. kept \in Seq(Fragment) /\ said \in Seq(Fragment)
    <3>1. PICK r \in Seq(Fragment) : said = r \o kept /\ kept \in {<< >>, <<"p1">>}
      BY <1>1 DEF Relayed
    <3>2. kept \in Seq(Fragment)
      BY <3>1, KeptTyped
    <3> QED BY <3>1, <3>2, JoinFacts
  <2>3. said \o e = said /\ kept \o e = kept
    BY <2>2
  <2> HIDE DEF e
  <2>4. Delivered(said \o e, got \o Guarded(kept \o e, ok), lost \/ ~ok)
    BY <1>1, <2>1, RestDelivers
  <2> QED BY <2>3, <2>4
<1>2. ASSUME said \in Seq(Fragment) PROVE Delivered(said, Guarded(said, ok), lost \/ ~ok)
  BY <1>2, GuardedFacts DEF Delivered
<1> QED BY <1>1, <1>2

LEMMA NothingWhole == ~Whole(<< >>) /\ \A ok : Guarded(<< >>, ok) = << >>
BY Shortest DEF Whole, Guarded

LEMMA HeardTyped ==
  ASSUME NEW c \in Indices, NEW field \in {"content", "call"}, NEW x \in Seq(ChatItem)
  PROVE  Heard(x, GotBy(c, field)) \in Seq(Shown)
<1> DEFINE g == GotBy(c, field)
           s == [i \in DOMAIN x |-> IF i \in Legible(x) THEN g[x[i]] ELSE << >>]
<1>1. g \in [ChatItem -> Seq(Shown)]
  BY ChatReadings
<1> HIDE DEF g
<1>2. DOMAIN x = 1 .. Len(x) /\ Len(x) \in Nat /\ \A i \in 1 .. Len(x) : g[x[i]] \in Seq(Shown)
  BY <1>1
<1>3. \A i \in 1 .. Len(x) : (IF i \in Legible(x) THEN g[x[i]] ELSE << >>) \in Seq(Shown)
  BY <1>2
<1>4. s \in Seq(Seq(Shown))
  BY <1>2, <1>3
<1> HIDE DEF s
<1>5. FlattenSeq(s) \in Seq(Shown)
  BY <1>4, FlattenConcat
<1> QED BY <1>5 DEF Heard, s, g

\* What the client has of a choice is text, and cuts no placeholder.
LEMMA ChoiceGot ==
  ASSUME ChatTyped, NEW c \in Indices, ChoiceOK(c)
  PROVE  /\ Got(c, "content") \in Seq(Shown) /\ Got(c, "call") \in Seq(Shown)
         /\ ~missed => ~Whole(Got(c, "content")) /\ ~Whole(Got(c, "call"))
<1>1. Got(c, "content") \in Seq(Shown) /\ Got(c, "call") \in Seq(Shown)
  BY HeardTyped DEF ChatTyped, Got
<1>2. CASE Over(received, c)
  <2>1. /\ Delivered(Sent(c, "content"), Got(c, "content"), missed)
        /\ Delivered(Sent(c, "call"), Got(c, "call"), missed) /\ missed \in BOOLEAN
    BY <1>2 DEF ChoiceOK, ChatTyped
  <2> QED BY <1>1, <2>1, DeliveredWhole
<1>3. CASE ~Over(received, c)
  <2>1. /\ Relayed(Sent(c, "content"), state.holds[c], Got(c, "content"), missed)
        /\ Got(c, "call") = << >> /\ missed \in BOOLEAN
    BY <1>3 DEF ChoiceOK, ChatTyped
  <2>2. ~missed => ~Whole(Got(c, "content"))
    BY <2>1, RelayedWhole
  <2> QED BY <1>1, <2>1, <2>2, NothingWhole
<1> QED BY <1>2, <1>3

LEMMA ChatFlushed ==
  ASSUME ChatInvariant, Streaming, NEW ok \in BOOLEAN, NEW whole \in BOOLEAN, NEW x,
         ChatFlush(x, state, ok, whole), out' = out \o x, missed' = (missed \/ ~ok),
         state' = [state EXCEPT !.holds = Chat!Start.holds, !.calls = Chat!Start.calls],
         \A c \in Indices, field \in {"content", "call"} : Sent(c, field)' = Sent(c, field)
  PROVE  /\ out' \in Seq(ChatItem) /\ state' \in ChatState /\ missed' \in BOOLEAN
         /\ \A c \in Indices : state'.holds[c] = << >> /\ state'.calls[c] = << >>
         /\ ChatOrder(out')
         /\ whole => \A c \in Indices :
              /\ Delivered(Sent(c, "content"), Got(c, "content"), missed)'
              /\ Delivered(Sent(c, "call"), Got(c, "call"), missed)'
         /\ ~missed' => \A c \in Indices : ~Whole(Got(c, "content")') /\ ~Whole(Got(c, "call")')
<1>1. ChatTyped /\ ChatOrder(out) /\ ChatOpen
  BY DEF ChatInvariant
<1>2. /\ NoRaw(out) /\ (\A i \in DOMAIN out : out[i].sent # "done")
      /\ LastChunks(out, received) /\ \A c \in Indices : ChoiceOK(c)
  BY <1>1 DEF ChatOpen
<1>3. x \in Seq(ChatItem) /\ out \in Seq(ChatItem) /\ state \in ChatState /\ missed \in BOOLEAN
  BY <1>1 DEF ChatFlush, ChatTyped
<1>4. /\ out' \in Seq(ChatItem)
      /\ \A c \in Indices, field \in {"content", "call"} :
           Got(c, field)' = Got(c, field) \o Heard(x, GotBy(c, field))
  BY <1>1, <1>2, <1>3, ChatSends
<1>5. /\ state' \in ChatState /\ missed' \in BOOLEAN
      /\ \A c \in Indices : state'.holds[c] = << >> /\ state'.calls[c] = << >>
  <2>1. << >> \in Seq(Fragment)
    OBVIOUS
  <2> QED BY <1>3, <2>1 DEF ChatState, Chat!Start
<1>6. ChatOrder(out')
  <2>1. ChatOrder(x)
    BY <1>3, FlushOrder
  <2>2. ASSUME NEW i \in Legible(out), NEW j \in Legible(x), out[i].body.choice = x[j].body.choice
        PROVE  ~out[i].body.finish /\ out[i].body.call = << >>
    <3>1. i \in DOMAIN out /\ out[i].sent = "event" /\ j \in DOMAIN x /\ x[j].sent = "event"
      BY DEF Legible
    <3>2. x[j].body.choice \in Owed(state)
      BY <3>1 DEF ChatFlush
    <3>3. ~Over(received, x[j].body.choice)
      BY <1>2, <3>2 DEF Owed, ChoiceOK
    <3> QED BY <1>2, <2>2, <3>1, <3>3 DEF LastChunks
  <2>3. ChatOrder(out \o x)
    BY <1>1, <1>2, <1>3, <2>1, <2>2, ChatOrderJoin
  <2> QED BY <2>3
<1>7. ASSUME NEW c \in Indices
      PROVE  /\ whole => /\ Delivered(Sent(c, "content"), Got(c, "content"), missed)'
                         /\ Delivered(Sent(c, "call"), Got(c, "call"), missed)'
             /\ ~missed' => ~Whole(Got(c, "content")') /\ ~Whole(Got(c, "call")')
  <2>1. /\ Got(c, "content") \in Seq(Shown) /\ Got(c, "call") \in Seq(Shown)
        /\ ~missed => ~Whole(Got(c, "content")) /\ ~Whole(Got(c, "call"))
    BY <1>1, <1>2, ChoiceGot
  <2>2. state.skeleton \/ (state.holds[c] = << >> /\ state.calls[c] = << >>)
    BY <1>2 DEF ChoiceOK
  <2>3. /\ Heard(x, GotBy(c, "content")) \in {<< >>, Guarded(state.holds[c], ok)}
        /\ Heard(x, GotBy(c, "call")) \in {<< >>, Guarded(state.calls[c], ok)}
        /\ whole => /\ Heard(x, GotBy(c, "content")) = Guarded(state.holds[c], ok)
                    /\ Heard(x, GotBy(c, "call")) = Guarded(state.calls[c], ok)
    <3>1. /\ HeardOf(state.holds[c], ok, whole, Heard(x, GotBy(c, "content")))
          /\ HeardOf(state.calls[c], ok, whole, Heard(x, GotBy(c, "call")))
      BY <1>3, <2>2, FlushHeard
    <3> QED BY <3>1 DEF HeardOf
  <2>4. /\ Delivered(Sent(c, "content"), Got(c, "content") \o Guarded(state.holds[c], ok), missed \/ ~ok)
        /\ Delivered(Sent(c, "call"), Got(c, "call") \o Guarded(state.calls[c], ok), missed \/ ~ok)
    <3>1. CASE Over(received, c)
      <4>1. /\ state.holds[c] = << >> /\ state.calls[c] = << >>
            /\ Delivered(Sent(c, "content"), Got(c, "content"), missed)
            /\ Delivered(Sent(c, "call"), Got(c, "call"), missed)
        BY <1>2, <3>1 DEF ChoiceOK
      <4>2. Got(c, "content") \o << >> = Got(c, "content") /\ Got(c, "call") \o << >> = Got(c, "call")
        BY <2>1
      <4> QED BY <1>3, <4>1, <4>2, NothingWhole, StillRelayed
    <3>2. CASE ~Over(received, c)
      <4>1. /\ Relayed(Sent(c, "content"), state.holds[c], Got(c, "content"), missed)
            /\ state.calls[c] = Sent(c, "call") /\ Got(c, "call") = << >>
        BY <1>2, <3>2 DEF ChoiceOK
      <4>2. Sent(c, "call") \in Seq(Fragment)
        BY <1>3, <4>1 DEF ChatState
      <4>3. Guarded(Sent(c, "call"), ok) \in Seq(Shown)
        BY <4>2, GuardedFacts
      <4>4. << >> \o Guarded(Sent(c, "call"), ok) = Guarded(Sent(c, "call"), ok)
        BY <4>3
      <4> QED BY <1>3, <4>1, <4>2, <4>4, LastDelivers
    <3> QED BY <3>1, <3>2
  <2>5. /\ Got(c, "content")' = Got(c, "content") \o Heard(x, GotBy(c, "content"))
        /\ Got(c, "call")' = Got(c, "call") \o Heard(x, GotBy(c, "call"))
    BY <1>4
  <2>6. Sent(c, "content")' = Sent(c, "content") /\ Sent(c, "call")' = Sent(c, "call")
    OBVIOUS
  <2>7. Got(c, "content") \o << >> = Got(c, "content") /\ Got(c, "call") \o << >> = Got(c, "call")
    BY <2>1
  <2>8. ~missed' => /\ ~Whole(Got(c, "content") \o Guarded(state.holds[c], ok))
                    /\ ~Whole(Got(c, "call") \o Guarded(state.calls[c], ok))
    BY <1>3, <2>4, DeliveredWhole
  <2>9. ~missed' => ~missed
    OBVIOUS
  <2>10. whole => /\ Delivered(Sent(c, "content"), Got(c, "content"), missed)'
                  /\ Delivered(Sent(c, "call"), Got(c, "call"), missed)'
    BY <2>3, <2>4, <2>5, <2>6
  <2>11. ~missed' => ~Whole(Got(c, "content")') /\ ~Whole(Got(c, "call")')
    BY <2>1, <2>3, <2>5, <2>7, <2>8, <2>9
  <2> QED BY <2>10, <2>11
<1> QED BY <1>4, <1>5, <1>6, <1>7

LEMMA ChatStreams ==
  /\ Chat!MayArrive => Streaming
  /\ Streaming => status = "open"
  /\ (~Streaming /\ status = "open" /\ ChatInvariant) => cut = "none"
<1>1. Chat!MayArrive => Streaming
  <2>1. ASSUME NEW i \in DOMAIN received, received[i] = Chat!Done
        PROVE  Chat!Contains(received, Chat!Done)
    BY <2>1 DEF Chat!Contains
  <2> QED BY <2>1 DEF Chat!MayArrive, Streaming
<1>2. (~Streaming /\ status = "open" /\ ChatInvariant) => cut = "none"
  BY DEF ChatInvariant, ChatEnded
<1> QED BY <1>1, <1>2 DEF Streaming

\* One block in, one item out: no choice is spoken of behind its last chunk.
LEMMA ChatContinues ==
  ASSUME ChatInvariant, Streaming, NEW b \in ChatBlock, b # Chat!Done,
         received' = Append(received, b), NEW y \in ChatItem, y.sent \notin {"raw", "done"},
         out' = out \o <<y>>,
         y.sent = "event" =>
           /\ ~Over(received, y.body.choice)
           /\ y.body.finish \/ y.body.call # << >> => Over(received', y.body.choice),
         state' \in ChatState, status' = status, cut' = "none", missed' \in BOOLEAN,
         \A c \in Indices : ChoiceOK(c)'
  PROVE  ChatInvariant'
<1>1. ChatTyped /\ ChatOrder(out) /\ NoRaw(out) /\ (\A i \in DOMAIN out : out[i].sent # "done")
      /\ LastChunks(out, received)
  BY DEF ChatInvariant, ChatOpen
<1> DEFINE x == <<y>>
<1>2. x \in Seq(ChatItem) /\ DOMAIN x = {1} /\ x[1] = y
  OBVIOUS
<1>3. out' = out \o x
  OBVIOUS
<1> HIDE DEF x
<1>4. /\ out' \in Seq(ChatItem)
      /\ \A i \in DOMAIN out' : (\E j \in DOMAIN out : out'[i] = out[j]) \/ out'[i] = y
  <2>1. /\ out' \in Seq(ChatItem)
        /\ \A i \in DOMAIN out' : (\E j \in DOMAIN out : out'[i] = out[j])
                                    \/ (\E j \in DOMAIN x : out'[i] = x[j])
    BY <1>1, <1>2, <1>3, ChatSends
  <2> QED BY <1>2, <2>1
<1>5. /\ received' \in Seq(ChatBlock)
      /\ \A c : Over(received, c) => Over(received', c)
      /\ \A i \in DOMAIN received' : received'[i] # Chat!Done
  BY <1>1, ChatReceives DEF Streaming
<1>6. ChatTyped'
  BY <1>1, <1>4, <1>5 DEF ChatTyped
<1>7. NoRaw(out') /\ \A i \in DOMAIN out' : out'[i].sent # "done"
  BY <1>1, <1>4 DEF NoRaw
<1>8. LastChunks(out', received')
  BY <1>1, <1>4, <1>5 DEF LastChunks
<1>9. ChatOrder(out')
  <2>1. ChatOrder(x)
    BY <1>2 DEF ChatOrder, Legible
  <2>2. ASSUME NEW i \in Legible(out), NEW j \in Legible(x), out[i].body.choice = x[j].body.choice
        PROVE  ~out[i].body.finish /\ out[i].body.call = << >>
    <3>1. i \in DOMAIN out /\ out[i].sent = "event" /\ x[j] = y /\ y.sent = "event"
      BY <1>2 DEF Legible
    <3>2. ~Over(received, out[i].body.choice)
      BY <2>2, <3>1
    <3> QED BY <1>1, <3>1, <3>2 DEF LastChunks
  <2>3. out \in Seq(ChatItem)
    BY <1>1 DEF ChatTyped
  <2> QED BY <1>1, <1>2, <1>3, <2>1, <2>2, <2>3, ChatOrderJoin
<1>10. Streaming'
  BY <1>5 DEF Streaming
<1> QED BY <1>6, <1>7, <1>8, <1>9, <1>10 DEF ChatInvariant, ChatOpen

LEMMA ChatOther == ASSUME ChatInvariant, Chat!RelayOther PROVE ChatInvariant'
<1> DEFINE y == Other("other")
           b == Chat!Other
<1>1. Streaming /\ received' = Append(received, b) /\ status' = status /\ cut' = "none"
  BY ChatStreams DEF Chat!RelayOther, Chat!Receive
<1>2. out' = out \o <<y>> /\ state' = state /\ missed' = missed
  BY DEF Chat!RelayOther, Chat!Verbatim, Other
<1>3. b \in ChatBlock /\ b # Chat!Done /\ b.block # "event"
  BY DEF ChatBlock, Chat!Other, Chat!Done
<1>4. y \in ChatItem /\ y.sent = "other" /\ y.sent \notin {"raw", "done"} /\ y.sent # "event"
  BY OtherItem DEF Other
<1> HIDE DEF y, b
<1>5. ChatTyped /\ NoRaw(out) /\ \A c \in Indices : ChoiceOK(c)
  BY <1>1 DEF ChatInvariant, ChatOpen
<1>6. state' \in ChatState /\ missed' \in BOOLEAN
  BY <1>2, <1>5 DEF ChatTyped
<1>7. ASSUME NEW c \in Indices, NEW field \in {"content", "call"}
      PROVE  Sent(c, field)' = Sent(c, field) /\ Got(c, field)' = Got(c, field)
  <2>1. Sent(c, field)' = Sent(c, field) \o SentBy(c, field)[b]
    BY <1>1, <1>3, <1>5, ChatReceives
  <2>2. SentBy(c, field)[b] = << >>
    BY <1>3 DEF SentBy
  <2> DEFINE x == <<y>>
             g == GotBy(c, field)
             h == SentBy(c, field)
  <2>3. x \in Seq(ChatItem) /\ out' = out \o x
    BY <1>2, <1>4
  <2>4. g \in [ChatItem -> Seq(Shown)] /\ h \in [ChatBlock -> Seq(Fragment)]
    BY ChatReadings
  <2> HIDE DEF g, h
  <2>5. Heard(<<y>>, g) = << >>
    BY <1>4, <2>4, HeardOne
  <2> HIDE DEF x
  <2>6. Got(c, field)' = Got(c, field) \o Heard(x, g)
    BY <1>5, <2>3, ChatSends DEF g
  <2>7. Got(c, field) \in Seq(Shown)
    BY <1>5, HeardTyped DEF Got, ChatTyped
  <2>8. Told(received, h) \in Seq(Fragment)
    BY <1>3, <1>5, <2>4, ToldTyped DEF ChatTyped
  <2> QED BY <2>1, <2>2, <2>5, <2>6, <2>7, <2>8 DEF Sent, h, x
<1>8. \A c : Over(received', c) <=> Over(received, c)
  BY <1>1, <1>3, <1>5, ChatReceives
<1>9. ASSUME NEW c \in Indices PROVE ChoiceOK(c)'
  BY <1>2, <1>5, <1>7, <1>8 DEF ChoiceOK
<1> QED BY <1>1, <1>2, <1>3, <1>4, <1>6, <1>9, ChatContinues

LEMMA ChatQuiet ==
  ASSUME ChatInvariant, Chat!ArrivePart \/ Chat!DecoderRaises
  PROVE  ChatInvariant'
<1>1. CASE Chat!ArrivePart
  <2>1. Streaming /\ cut' \in {"event", "char"} /\ UNCHANGED <<received, state, out, status, missed>>
    BY <1>1, ChatStreams DEF Chat!ArrivePart
  <2>2. ChatTyped' /\ ChatOrder(out)' /\ Streaming'
    BY <2>1 DEF ChatInvariant, ChatTyped, Streaming
  <2>3. ChatOpen'
    BY <2>1 DEF ChatInvariant, ChatOpen, ChoiceOK, Sent, Got
  <2> QED BY <2>2, <2>3 DEF ChatInvariant
<1>2. CASE Chat!DecoderRaises
  <2>1. /\ status = "open" /\ cut = "char" /\ status' = "raised"
        /\ UNCHANGED <<received, cut, state, out, missed>>
    BY <1>2 DEF Chat!DecoderRaises
  <2>2. Streaming /\ ~Streaming'
    BY <2>1, ChatStreams DEF Streaming
  <2>3. ChatTyped' /\ ChatOrder(out)'
    BY <2>1 DEF ChatInvariant, ChatTyped
  <2>4. ASSUME ~missed, NEW c \in Indices
        PROVE  ~Whole(Got(c, "content")) /\ ~Whole(Got(c, "call"))
    BY <2>2, <2>4, ChoiceGot DEF ChatInvariant, ChatOpen
  <2>5. ChatEnded'
    BY <2>1, <2>4 DEF ChatEnded, Got
  <2> QED BY <2>2, <2>3, <2>5 DEF ChatInvariant
<1> QED BY <1>1, <1>2

\* A flush that ends the stream, or comes behind its [DONE] and owes nothing.
LEMMA ChatEnds ==
  ASSUME ChatInvariant, Streaming, NEW ok \in BOOLEAN, NEW whole \in BOOLEAN, NEW x,
         ChatFlush(x, state, ok, whole), out' = out \o x, missed' = (missed \/ ~ok),
         state' = [state EXCEPT !.holds = Chat!Start.holds, !.calls = Chat!Start.calls],
         \A c \in Indices, field \in {"content", "call"} : Sent(c, field)' = Sent(c, field),
         received' \in Seq(ChatBlock), ~Streaming', status' \in {"open", "closed", "raised"},
         cut' \in {"none", "event", "char"}, status' = "open" => cut' = "none",
         cut' = "none" \/ (status' = "raised" /\ cut' # "char") => whole
  PROVE  ChatInvariant'
<1>1. /\ out' \in Seq(ChatItem) /\ state' \in ChatState /\ missed' \in BOOLEAN
      /\ \A c \in Indices : state'.holds[c] = << >> /\ state'.calls[c] = << >>
      /\ ChatOrder(out')
      /\ whole => \A c \in Indices :
           /\ Delivered(Sent(c, "content"), Got(c, "content"), missed)'
           /\ Delivered(Sent(c, "call"), Got(c, "call"), missed)'
      /\ ~missed' => \A c \in Indices : ~Whole(Got(c, "content")') /\ ~Whole(Got(c, "call")')
  BY ChatFlushed
<1>2. ChatTyped'
  BY <1>1 DEF ChatTyped
<1>3. ChatEnded'
  BY <1>1 DEF ChatEnded
<1> QED BY <1>1, <1>2, <1>3 DEF ChatInvariant

LEMMA ChatDone == ASSUME ChatInvariant, Chat!RelayDone PROVE ChatInvariant'
<1>1. Streaming /\ received' = Append(received, Chat!Done) /\ status' = status /\ cut' = "none"
  BY ChatStreams DEF Chat!RelayDone, Chat!Receive
<1>2. ChatTyped /\ NoRaw(out) /\ state \in ChatState
  BY <1>1 DEF ChatInvariant, ChatOpen, ChatTyped
<1>3. PICK ok \in BOOLEAN :
        /\ state' = Chat!FlushHeld(state, ok).state
        /\ out' = out \o Chat!Sent(Chat!FlushHeld(state, ok).out) \o Chat!Verbatim("done")
        /\ missed' = (missed \/ ~ok)
  BY DEF Chat!RelayDone
<1> DEFINE flushed == Chat!Sent(Chat!OwedChunks(state, ok))
           d == <<Other("done")>>
           x == flushed \o d
<1>4. /\ state' = [state EXCEPT !.holds = Chat!Start.holds, !.calls = Chat!Start.calls]
      /\ out' = (out \o flushed) \o d
  BY <1>3 DEF Chat!FlushHeld, Chat!Verbatim, Other
<1>5. ChatFlush(flushed, state, ok, TRUE) /\ \A i \in DOMAIN flushed : flushed[i].sent = "event"
  BY <1>2, OwedFlush
<1> HIDE DEF flushed
<1>6. ChatFlush(x, state, ok, TRUE)
  BY <1>2, <1>5, FlushFramed
<1>7. out' = out \o x
  <2>1. flushed \in Seq(ChatItem) /\ out \in Seq(ChatItem)
    BY <1>2, <1>5 DEF ChatFlush, ChatTyped
  <2>2. d \in Seq(ChatItem)
    BY OtherItem
  <2> HIDE DEF d
  <2>3. Regroups(out, flushed, d)
    BY <2>1, <2>2, JoinedThree
  <2> QED BY <1>4, <2>3 DEF Regroups
<1> HIDE DEF x
<1>8. Chat!Done \in ChatBlock /\ Chat!Done.block # "event"
  BY DEF ChatBlock, Chat!Done
<1>9. ASSUME NEW c \in Indices, NEW field \in {"content", "call"}
      PROVE  Sent(c, field)' = Sent(c, field)
  <2>1. Sent(c, field)' = Sent(c, field) \o SentBy(c, field)[Chat!Done]
    BY <1>1, <1>2, <1>8, ChatReceives
  <2>2. SentBy(c, field)[Chat!Done] = << >>
    BY <1>8 DEF SentBy
  <2> DEFINE h == SentBy(c, field)
  <2>3. h \in [ChatBlock -> Seq(Fragment)]
    BY ChatReadings
  <2> HIDE DEF h
  <2>4. Told(received, h) \in Seq(Fragment)
    BY <1>2, <1>8, <2>3, ToldTyped DEF ChatTyped
  <2> QED BY <2>1, <2>2, <2>4 DEF Sent, h
<1>10. received' \in Seq(ChatBlock) /\ ~Streaming'
  BY <1>1, <1>2, <1>8, ChatReceives DEF Streaming
<1>11. status' \in {"open", "closed", "raised"}
  BY <1>1, <1>2 DEF ChatTyped
<1> QED BY <1>1, <1>3, <1>4, <1>6, <1>7, <1>9, <1>10, <1>11, ChatEnds

\* Behind [DONE] there is nothing left to hand over.
LEMMA ChatStops ==
  ASSUME ChatInvariant, ~Streaming, status = "open", NEW ok \in BOOLEAN,
         state' = Chat!FlushHeld(state, ok).state, missed' = (missed \/ ~ok),
         out' = out \o Chat!Sent(Chat!FlushHeld(state, ok).out),
         status' \in {"closed", "raised"}, UNCHANGED <<received, cut>>
  PROVE  ChatInvariant'
<1>1. ChatTyped /\ ChatOrder(out) /\ ChatEnded /\ cut = "none" /\ state \in ChatState
      /\ missed \in BOOLEAN /\ out \in Seq(ChatItem)
      /\ \A c \in Indices : state.holds[c] = << >> /\ state.calls[c] = << >>
  BY DEF ChatInvariant, ChatEnded, ChatTyped
<1> DEFINE x == Chat!Sent(Chat!OwedChunks(state, ok))
<1>2. ChatFlush(x, state, ok, TRUE) /\ \A i \in DOMAIN x : x[i].sent = "event"
  BY <1>1, OwedFlush
<1>3. /\ state' = [state EXCEPT !.holds = Chat!Start.holds, !.calls = Chat!Start.calls]
      /\ out' = out \o x
  BY DEF Chat!FlushHeld
<1> HIDE DEF x
<1>4. Owed(state) = {}
  BY <1>1 DEF Owed
<1>5. x = << >>
  <2>1. x \in Seq(ChatItem) /\ DOMAIN x = {}
    BY <1>2, <1>4 DEF ChatFlush
  <2> QED BY <2>1
<1>6. out' = out
  BY <1>1, <1>3, <1>5
<1>7. state' \in ChatState
  <2>1. << >> \in Seq(Fragment)
    OBVIOUS
  <2>2. /\ state \in ChatState
        /\ state' = [state EXCEPT !.holds = Chat!Start.holds, !.calls = Chat!Start.calls]
    BY <1>1, <1>3
  <2> QED BY ONLY <2>1, <2>2 DEF ChatState, Chat!Start
<1>8. ChatTyped' /\ ChatOrder(out') /\ ~Streaming'
  BY <1>1, <1>6, <1>7 DEF ChatTyped, Streaming
<1>9. ASSUME NEW c \in Indices
      PROVE  /\ Delivered(Sent(c, "content"), Got(c, "content"), missed)'
             /\ Delivered(Sent(c, "call"), Got(c, "call"), missed)'
             /\ ~missed' => ~Whole(Got(c, "content")') /\ ~Whole(Got(c, "call")')
  <2>1. /\ Delivered(Sent(c, "content"), Got(c, "content"), missed)
        /\ Delivered(Sent(c, "call"), Got(c, "call"), missed)
        /\ ~missed => ~Whole(Got(c, "content")) /\ ~Whole(Got(c, "call"))
    BY <1>1 DEF ChatEnded
  <2>2. /\ Delivered(Sent(c, "content"), Got(c, "content"), missed \/ ~ok)
        /\ Delivered(Sent(c, "call"), Got(c, "call"), missed \/ ~ok)
    BY <1>1, <2>1, StillRelayed
  <2>3. /\ Sent(c, "content")' = Sent(c, "content") /\ Sent(c, "call")' = Sent(c, "call")
        /\ Got(c, "content")' = Got(c, "content") /\ Got(c, "call")' = Got(c, "call")
    BY <1>6 DEF Sent, Got
  <2> QED BY <2>1, <2>2, <2>3
<1>10. ChatEnded'
  BY <1>9 DEF ChatEnded
<1> QED BY <1>8, <1>10 DEF ChatInvariant

LEMMA ChatDrops == ASSUME ChatInvariant, Chat!ConnectionDrops PROVE ChatInvariant'
<1>1. PICK ok \in BOOLEAN :
        /\ state' = Chat!FlushHeld(state, ok).state
        /\ out' = out \o Chat!Sent(Chat!FlushHeld(state, ok).out)
        /\ missed' = (missed \/ ~ok)
  BY DEF Chat!ConnectionDrops
<1>2. status = "open" /\ status' = "raised" /\ received' = received /\ cut' = cut
  BY DEF Chat!ConnectionDrops
<1>3. CASE ~Streaming
  BY <1>1, <1>2, <1>3, ChatStops
<1>4. CASE Streaming
  <2> DEFINE x == Chat!Sent(Chat!OwedChunks(state, ok))
  <2>1. ChatTyped /\ state \in ChatState
    BY DEF ChatInvariant, ChatTyped
  <2>2. ChatFlush(x, state, ok, TRUE)
    BY <2>1, OwedFlush
  <2>3. /\ state' = [state EXCEPT !.holds = Chat!Start.holds, !.calls = Chat!Start.calls]
        /\ out' = out \o x
    BY <1>1 DEF Chat!FlushHeld
  <2> HIDE DEF x
  <2>4. \A c \in Indices, field \in {"content", "call"} : Sent(c, field)' = Sent(c, field)
    BY <1>2 DEF Sent
  <2>5. received' \in Seq(ChatBlock) /\ ~Streaming' /\ cut' \in {"none", "event", "char"}
    BY <1>2, <2>1 DEF ChatTyped, Streaming
  <2> QED BY <1>1, <1>2, <1>4, <2>2, <2>3, <2>4, <2>5, ChatEnds
<1> QED BY <1>3, <1>4

LEMMA ChatRunsOut == ASSUME ChatInvariant, Chat!BytesRunOut PROVE ChatInvariant'
<1>1. PICK ok \in BOOLEAN :
        /\ state' = Chat!FlushHeld(state, ok).state
        /\ out' = out \o (IF cut = "event" THEN Chat!Verbatim("raw") ELSE << >>)
                      \o Chat!Sent(Chat!FlushHeld(state, ok).out)
        /\ missed' = (missed \/ ~ok)
  BY DEF Chat!BytesRunOut
<1>2. status = "open" /\ status' = "closed" /\ received' = received /\ cut' = cut /\ cut # "char"
  BY DEF Chat!BytesRunOut
<1>3. ChatTyped /\ state \in ChatState /\ out \in Seq(ChatItem) /\ cut \in {"none", "event"}
      /\ (~Streaming => cut = "none")
  BY <1>2, ChatStreams DEF ChatInvariant, ChatTyped
<1> DEFINE flushed == Chat!Sent(Chat!OwedChunks(state, ok))
<1>4. /\ state' = [state EXCEPT !.holds = Chat!Start.holds, !.calls = Chat!Start.calls]
      /\ out' = out \o (IF cut = "event" THEN <<Other("raw")>> ELSE << >>) \o flushed
      /\ flushed = Chat!Sent(Chat!FlushHeld(state, ok).out)
  BY <1>1 DEF Chat!FlushHeld, Chat!Verbatim, Other
<1>5. ChatFlush(flushed, state, ok, TRUE) /\ \A i \in DOMAIN flushed : flushed[i].sent = "event"
  BY <1>3, OwedFlush
<1> HIDE DEF flushed
<1>6. flushed \in Seq(ChatItem)
  BY <1>5 DEF ChatFlush
<1>7. \A c \in Indices, field \in {"content", "call"} : Sent(c, field)' = Sent(c, field)
  BY <1>2 DEF Sent
<1>8. received' \in Seq(ChatBlock) /\ ~Streaming' /\ cut' \in {"none", "event", "char"}
  BY <1>2, <1>3 DEF ChatTyped, Streaming
<1>9. CASE cut = "none"
  <2>1. out' = out \o flushed
    BY <1>3, <1>4, <1>9
  <2>2. CASE Streaming
    BY <1>1, <1>2, <1>4, <1>5, <1>7, <1>8, <2>1, <2>2, ChatEnds
  <2>3. CASE ~Streaming
    BY <1>1, <1>2, <1>4, <2>1, <2>3, ChatStops
  <2> QED BY <2>2, <2>3
<1>10. CASE cut = "event"
  <2> DEFINE r == <<Other("raw")>>
             x == r \o flushed
  <2>1. ChatFlush(x, state, ok, FALSE)
    BY <1>3, <1>5, FlushFramed
  <2>2. out' = out \o x
    <3>1. r \in Seq(ChatItem) /\ out' = (out \o r) \o flushed
      BY <1>4, <1>10, OtherItem
    <3> HIDE DEF r
    <3>2. Regroups(out, r, flushed)
      BY <1>3, <1>6, <3>1, JoinedThree
    <3> QED BY <3>1, <3>2 DEF Regroups
  <2> HIDE DEF x
  <2> QED BY <1>1, <1>2, <1>3, <1>4, <1>7, <1>8, <1>10, <2>1, <2>2, ChatEnds
<1> QED BY <1>3, <1>9, <1>10

\* What an event and the chunk written for it say.
LEMMA ChatSpeaks ==
  ASSUME ChatTyped, NoRaw(out), NEW p \in Chat!Chunk, NEW y \in ChatItem, y.sent = "event",
         y.body.choice = p.choice, received' = Append(received, Chat!EventOf(p)), out' = out \o <<y>>,
         NEW c \in Indices
  PROVE  /\ c = p.choice =>
              /\ Sent(c, "content")' = Sent(c, "content") \o p.content
              /\ Sent(c, "call")' = Sent(c, "call") \o p.call
              /\ Got(c, "content")' = Got(c, "content") \o y.body.content
              /\ Got(c, "call")' = Got(c, "call") \o y.body.call
         /\ c # p.choice =>
              \A field \in {"content", "call"} :
                Sent(c, field)' = Sent(c, field) /\ Got(c, field)' = Got(c, field)
         /\ Over(received', c) <=> (Over(received, c) \/ (p.finish /\ p.choice = c))
<1> DEFINE b == Chat!EventOf(p)
<1>1. b \in ChatBlock /\ b.block = "event" /\ b.payload = p
  BY DEF ChatBlock, Chat!EventOf
<1>2. received' = Append(received, b)
  OBVIOUS
<1> HIDE DEF b
<1>3. Over(received', c) <=> (Over(received, c) \/ (p.finish /\ p.choice = c))
  BY <1>1, <1>2, ChatReceives
<1>4. ASSUME NEW field \in {"content", "call"}
      PROVE  /\ Sent(c, field)' = Sent(c, field) \o (IF p.choice = c THEN p[field] ELSE << >>)
             /\ Got(c, field)' = Got(c, field) \o (IF p.choice = c THEN y.body[field] ELSE << >>)
             /\ Sent(c, field) \o << >> = Sent(c, field) /\ Got(c, field) \o << >> = Got(c, field)
  <2> DEFINE x == <<y>>
             g == GotBy(c, field)
             h == SentBy(c, field)
  <2>1. x \in Seq(ChatItem) /\ out' = out \o x
    OBVIOUS
  <2>2. g \in [ChatItem -> Seq(Shown)] /\ h \in [ChatBlock -> Seq(Fragment)]
    BY ChatReadings
  <2>3. g[y] = (IF p.choice = c THEN y.body[field] ELSE << >>)
    BY DEF GotBy
  <2>4. h[b] = (IF p.choice = c THEN p[field] ELSE << >>)
    BY <1>1 DEF SentBy
  <2> HIDE DEF g, h
  <2>5. Heard(<<y>>, g) = g[y]
    BY <2>2, HeardOne
  <2>6. Sent(c, field)' = Sent(c, field) \o h[b]
    BY <1>1, <1>2, ChatReceives DEF h
  <2> HIDE DEF x
  <2>7. Got(c, field)' = Got(c, field) \o Heard(x, g)
    BY <2>1, ChatSends DEF g
  <2>8. Got(c, field) \in Seq(Shown)
    BY HeardTyped DEF Got, ChatTyped
  <2>9. Told(received, h) \in Seq(Fragment)
    BY <1>1, <2>2, ToldTyped DEF ChatTyped
  <2>10. Sent(c, field) \o << >> = Sent(c, field) /\ Got(c, field) \o << >> = Got(c, field)
    BY <2>8, <2>9 DEF Sent, h
  <2> QED BY <2>3, <2>4, <2>5, <2>6, <2>7, <2>10 DEF x
<1>5. /\ "content" \in {"content", "call"} /\ "call" \in {"content", "call"}
      /\ p["content"] = p.content /\ p["call"] = p.call
      /\ y.body["content"] = y.body.content /\ y.body["call"] = y.body.call
  OBVIOUS
<1>6. CASE c = p.choice
  <2>1. /\ Sent(c, "content")' = Sent(c, "content") \o p["content"]
        /\ Got(c, "content")' = Got(c, "content") \o y.body["content"]
    BY <1>4, <1>6
  <2>2. /\ Sent(c, "call")' = Sent(c, "call") \o p["call"]
        /\ Got(c, "call")' = Got(c, "call") \o y.body["call"]
    BY <1>4, <1>6
  <2> QED BY <1>3, <1>5, <1>6, <2>1, <2>2
<1>7. CASE c # p.choice
  <2>1. ASSUME NEW field \in {"content", "call"}
        PROVE  Sent(c, field)' = Sent(c, field) /\ Got(c, field)' = Got(c, field)
    BY <1>4, <1>7
  <2> QED BY <1>3, <1>7, <2>1
<1> QED BY <1>6, <1>7

LEMMA ChatSays ==
  /\ Chat!Sent(<< >>) = << >>
  /\ \A m : Chat!Sent(<<m>>) = <<[sent |-> "event", body |-> m]>>
<1>1. Chat!Sent(<< >>) = << >>
  BY DEF Chat!Sent
<1>2. ASSUME NEW m PROVE Chat!Sent(<<m>>) = <<[sent |-> "event", body |-> m]>>
  BY DEF Chat!Sent
<1> QED BY <1>1, <1>2

\* A chunk that has a delta.
LEMMA ChatDelta ==
  ASSUME ChatInvariant, Streaming, NEW p \in Chat!Chunk, NEW ok \in BOOLEAN, p.delta,
         ~Over(received, p.choice), received' = Append(received, Chat!EventOf(p)),
         state' = Chat!RewriteDelta(state, p, ok).state,
         out' = out \o Chat!Sent(Chat!RewriteDelta(state, p, ok).out),
         missed' = (missed \/ ~ok), status' = status, cut' = "none"
  PROVE  ChatInvariant'
<1> DEFINE d == p.choice
           buffer == state.holds[d] \o p.content
           collected == state.calls[d] \o p.call
           content == Guarded(IF p.finish THEN buffer ELSE Released(buffer), ok)
           call == IF p.finish THEN Guarded(collected, ok) ELSE << >>
           y == [sent |-> "event", body |-> [p EXCEPT !.content = content, !.call = call]]
<1>1. /\ ChatTyped /\ NoRaw(out) /\ \A c \in Indices : ChoiceOK(c)
      /\ state \in ChatState /\ missed \in BOOLEAN
  BY DEF ChatInvariant, ChatOpen, ChatTyped
<1>2. /\ d \in Indices /\ p.content \in Seq(Fragment) /\ p.call \in Seq(Fragment)
      /\ p.finish \in BOOLEAN /\ p.delta \in BOOLEAN
  <2>1. d \in Indices /\ p.content \in Contents /\ p.call \in Fragments /\ p.finish \in BOOLEAN
        /\ p.delta \in BOOLEAN
    BY DEF Chat!Chunk
  <2> QED BY <2>1, TextAssumption
<1>3. state.holds[d] \in Seq(Fragment) /\ state.calls[d] \in Seq(Fragment)
  BY <1>1, <1>2 DEF ChatState
<1>4. buffer \in Seq(Fragment) /\ collected \in Seq(Fragment)
  BY <1>2, <1>3, JoinFacts
<1>5. /\ state' = [holds |-> [state.holds EXCEPT ![d] = IF p.finish THEN << >> ELSE Held(buffer)],
                   calls |-> [state.calls EXCEPT ![d] = IF p.finish THEN << >> ELSE collected],
                   skeleton |-> TRUE]
      /\ out' = out \o <<y>>
  BY ChatText, ChatSays
  DEF Chat!RewriteDelta, Chat!KeptBack, Chat!Ready, Chat!Assembled, Chat!Collected
<1>6. /\ y.sent = "event" /\ y.body.choice = d /\ y.body.content = content /\ y.body.call = call
      /\ y.body.finish = p.finish /\ y.body.delta = p.delta
      /\ y.body = [choice |-> d, delta |-> p.delta, content |-> content, call |-> call, finish |-> p.finish]
  BY DEF Chat!Chunk
<1> HIDE DEF y, d
<1>7. Held(buffer) \in Seq(Fragment) /\ Released(buffer) \in Seq(Fragment)
  <2> HIDE DEF buffer
  <2> QED BY <1>4, HeldFacts, KeptTyped
<1>8. content \in Seq(Shown) /\ call \in Seq(Shown)
  <2>1. (IF p.finish THEN buffer ELSE Released(buffer)) \in Seq(Fragment)
    BY <1>4, <1>7
  <2>2. << >> \in Seq(Shown)
    OBVIOUS
  <2> HIDE DEF buffer, collected
  <2>3. Guarded(collected, ok) \in Seq(Shown)
    BY <1>4, GuardedFacts
  <2> QED BY <2>1, <2>2, <2>3, GuardedFacts
<1> HIDE DEF content, call, buffer, collected
<1>9. y \in ChatItem
  BY <1>2, <1>6, <1>8 DEF ChatItem, ChatBody, y
<1>10. state' \in ChatState /\ missed' \in BOOLEAN
  <2>1. << >> \in Seq(Fragment)
    OBVIOUS
  <2>2. (IF p.finish THEN << >> ELSE Held(buffer)) \in Seq(Fragment)
        /\ (IF p.finish THEN << >> ELSE collected) \in Seq(Fragment)
    BY <1>4, <1>7, <2>1
  <2>3. state' \in ChatState
    <3>1. state \in ChatState /\ state' = [holds |-> [state.holds EXCEPT ![d] = IF p.finish THEN << >> ELSE Held(buffer)],
                   calls |-> [state.calls EXCEPT ![d] = IF p.finish THEN << >> ELSE collected],
                   skeleton |-> TRUE]
      BY <1>1, <1>5
    <3> QED BY ONLY <2>2, <3>1 DEF ChatState
  <2> QED BY <1>1, <2>3
<1>11. ASSUME NEW c \in Indices
       PROVE  /\ c = d =>
                   /\ Sent(c, "content")' = Sent(c, "content") \o p.content
                   /\ Sent(c, "call")' = Sent(c, "call") \o p.call
                   /\ Got(c, "content")' = Got(c, "content") \o content
                   /\ Got(c, "call")' = Got(c, "call") \o call
              /\ c # d =>
                   \A field \in {"content", "call"} :
                     Sent(c, field)' = Sent(c, field) /\ Got(c, field)' = Got(c, field)
              /\ Over(received', c) <=> (Over(received, c) \/ (p.finish /\ d = c))
  <2>1. y.sent = "event" /\ y.body.choice = p.choice /\ out' = out \o <<y>>
    BY <1>5, <1>6 DEF d
  <2>2. /\ c = p.choice =>
             /\ Sent(c, "content")' = Sent(c, "content") \o p.content
             /\ Sent(c, "call")' = Sent(c, "call") \o p.call
             /\ Got(c, "content")' = Got(c, "content") \o y.body.content
             /\ Got(c, "call")' = Got(c, "call") \o y.body.call
        /\ c # p.choice =>
             \A field \in {"content", "call"} :
               Sent(c, field)' = Sent(c, field) /\ Got(c, field)' = Got(c, field)
        /\ Over(received', c) <=> (Over(received, c) \/ (p.finish /\ p.choice = c))
    BY <1>1, <1>9, <2>1, ChatSpeaks
  <2> QED BY <1>6, <2>2 DEF d
<1>12. ~Over(received, d) /\ ChoiceOK(d)
  BY <1>1, <1>2 DEF d
<1>13. /\ Relayed(Sent(d, "content"), state.holds[d], Got(d, "content"), missed)
       /\ state.calls[d] = Sent(d, "call") /\ Got(d, "call") = << >>
  BY <1>12 DEF ChoiceOK
<1>14. ChoiceOK(d)'
  <2>1. CASE p.finish
    <3>1. Delivered(Sent(d, "content") \o p.content, Got(d, "content") \o Guarded(buffer, ok), missed \/ ~ok)
      BY <1>1, <1>2, <1>13, RestDelivers DEF buffer
    <3>2. Delivered(collected, Guarded(collected, ok), missed \/ ~ok)
      BY <1>1, <1>4, LastDelivers
    <3>3. content = Guarded(buffer, ok) /\ call = Guarded(collected, ok)
      BY <2>1 DEF content, call
    <3>4. << >> \o call = call
      BY <1>8
    <3>5. /\ Sent(d, "content")' = Sent(d, "content") \o p.content
          /\ Got(d, "content")' = Got(d, "content") \o content
          /\ Sent(d, "call")' = collected /\ Got(d, "call")' = call
          /\ Over(received', d)
      BY <1>2, <1>11, <1>13, <2>1, <3>4 DEF collected
    <3>6. state'.holds[d] = << >> /\ state'.calls[d] = << >>
      BY <1>1, <1>2, <1>5, <2>1 DEF ChatState
    <3> QED BY <3>1, <3>2, <3>3, <3>5, <3>6 DEF ChoiceOK, d
  <2>2. CASE ~p.finish
    <3>1. Relayed(Sent(d, "content") \o p.content, Held(buffer), Got(d, "content") \o content, missed \/ ~ok)
      <4>1. content = Guarded(Released(buffer), ok)
        BY <2>2 DEF content
      <4>2. Relayed(Sent(d, "content") \o p.content, Held(buffer),
                    Got(d, "content") \o Guarded(Released(buffer), ok), missed \/ ~ok)
        BY <1>1, <1>2, <1>13, DeltaRelays DEF buffer
      <4> QED BY <4>1, <4>2
    <3>2. call = << >> /\ << >> \o << >> = << >>
      BY <2>2 DEF call
    <3>3. /\ Sent(d, "content")' = Sent(d, "content") \o p.content
          /\ Got(d, "content")' = Got(d, "content") \o content
          /\ Sent(d, "call")' = collected /\ Got(d, "call")' = << >>
          /\ ~Over(received', d)
      BY <1>2, <1>11, <1>12, <1>13, <2>2, <3>2 DEF collected
    <3>4. state'.holds[d] = Held(buffer) /\ state'.calls[d] = collected /\ state'.skeleton
      BY <1>1, <1>2, <1>5, <2>2 DEF ChatState
    <3> QED BY <3>1, <3>3, <3>4 DEF ChoiceOK, d
  <2> QED BY <2>1, <2>2
<1>15. ASSUME NEW c \in Indices, c # d PROVE ChoiceOK(c)'
  <2>1. /\ state'.holds[c] = state.holds[c] /\ state'.calls[c] = state.calls[c] /\ state'.skeleton
    BY <1>1, <1>2, <1>5, <1>15 DEF ChatState
  <2>2. /\ Sent(c, "content")' = Sent(c, "content") /\ Got(c, "content")' = Got(c, "content")
        /\ Sent(c, "call")' = Sent(c, "call") /\ Got(c, "call")' = Got(c, "call")
        /\ Over(received', c) <=> Over(received, c)
    BY <1>11, <1>15
  <2>3. CASE Over(received, c)
    <3>1. /\ state.holds[c] = << >> /\ state.calls[c] = << >>
          /\ Delivered(Sent(c, "content"), Got(c, "content"), missed)
          /\ Delivered(Sent(c, "call"), Got(c, "call"), missed)
      BY <1>1, <2>3 DEF ChoiceOK
    <3>2. /\ Delivered(Sent(c, "content"), Got(c, "content"), missed \/ ~ok)
          /\ Delivered(Sent(c, "call"), Got(c, "call"), missed \/ ~ok)
      BY <1>1, <3>1, StillRelayed
    <3> QED BY <2>1, <2>2, <2>3, <3>1, <3>2 DEF ChoiceOK
  <2>4. CASE ~Over(received, c)
    <3>1. /\ Relayed(Sent(c, "content"), state.holds[c], Got(c, "content"), missed)
          /\ state.calls[c] = Sent(c, "call") /\ Got(c, "call") = << >>
      BY <1>1, <2>4 DEF ChoiceOK
    <3>2. Relayed(Sent(c, "content"), state.holds[c], Got(c, "content"), missed \/ ~ok)
      BY <1>1, <3>1, StillRelayed
    <3> QED BY <2>1, <2>2, <2>4, <3>1, <3>2 DEF ChoiceOK
  <2> QED BY <2>3, <2>4
<1>16. Chat!EventOf(p) \in ChatBlock /\ Chat!EventOf(p) # Chat!Done
  BY DEF ChatBlock, Chat!EventOf, Chat!Done
<1>17. y.body.finish \/ y.body.call # << >> => Over(received', y.body.choice)
  <2>1. call # << >> => p.finish
    BY DEF call
  <2> QED BY <1>2, <1>6, <1>11, <2>1
<1>18. y.sent \notin {"raw", "done"}
  BY <1>6
<1> QED BY <1>5, <1>6, <1>9, <1>10, <1>12, <1>14, <1>15, <1>16, <1>17, <1>18, ChatContinues

\* A chunk without one: it says nothing, and is relayed as it is.
LEMMA ChatSkipped ==
  ASSUME ChatInvariant, Streaming, NEW p \in Chat!Chunk, NEW ok \in BOOLEAN, ~p.delta, ~p.finish,
         ~Over(received, p.choice), received' = Append(received, Chat!EventOf(p)),
         state' = [state EXCEPT !.skeleton = TRUE], out' = out \o Chat!Sent(<<p>>),
         missed' = (missed \/ ~ok), status' = status, cut' = "none"
  PROVE  ChatInvariant'
<1> DEFINE y == [sent |-> "event", body |-> p]
<1>1. /\ ChatTyped /\ NoRaw(out) /\ \A c \in Indices : ChoiceOK(c)
      /\ state \in ChatState /\ missed \in BOOLEAN
  BY DEF ChatInvariant, ChatOpen, ChatTyped
<1>2. p.content = << >> /\ p.call = << >>
  BY DEF Chat!Chunk
<1>3. y.sent = "event" /\ y.body = p /\ out' = out \o <<y>>
  BY ChatSays
<1>4. y \in ChatItem
  <2>1. p \in ChatBody
    <3>1. Contents \subseteq Seq(Fragment) /\ Fragments \subseteq Seq(Fragment)
      BY TextAssumption
    <3>2. Contents \subseteq Seq(Shown) /\ Fragments \subseteq Seq(Shown)
      BY <3>1, FragmentsShown
    <3> QED BY <3>2 DEF Chat!Chunk, ChatBody
  <2> QED BY <2>1 DEF ChatItem
<1> HIDE DEF y
<1>5. /\ state'.holds = state.holds /\ state'.calls = state.calls /\ state'.skeleton = TRUE
      /\ state' \in ChatState /\ missed' \in BOOLEAN
  <2>1. state \in ChatState /\ state' = [state EXCEPT !.skeleton = TRUE]
    BY <1>1
  <2>2. state'.holds = state.holds /\ state'.calls = state.calls /\ state'.skeleton = TRUE
        /\ state' \in ChatState
    BY ONLY <2>1 DEF ChatState
  <2> QED BY <1>1, <2>2
<1>6. ASSUME NEW c \in Indices
      PROVE  /\ Sent(c, "content")' = Sent(c, "content") /\ Got(c, "content")' = Got(c, "content")
             /\ Sent(c, "call")' = Sent(c, "call") /\ Got(c, "call")' = Got(c, "call")
             /\ Over(received', c) <=> Over(received, c)
  <2>1. /\ y.sent = "event" /\ y.body.choice = p.choice /\ out' = out \o <<y>>
        /\ received' = Append(received, Chat!EventOf(p)) /\ ChatTyped /\ NoRaw(out)
    BY <1>1, <1>3
  <2>2. /\ c = p.choice =>
             /\ Sent(c, "content")' = Sent(c, "content") \o p.content
             /\ Sent(c, "call")' = Sent(c, "call") \o p.call
             /\ Got(c, "content")' = Got(c, "content") \o y.body.content
             /\ Got(c, "call")' = Got(c, "call") \o y.body.call
        /\ c # p.choice =>
             \A field \in {"content", "call"} :
               Sent(c, field)' = Sent(c, field) /\ Got(c, field)' = Got(c, field)
        /\ Over(received', c) <=> (Over(received, c) \/ (p.finish /\ p.choice = c))
    BY ONLY <1>4, <1>6, <2>1, p \in Chat!Chunk, ChatSpeaks
  <2>3. /\ Got(c, "content") \o << >> = Got(c, "content")
        /\ Got(c, "call") \o << >> = Got(c, "call")
    <3>1. Got(c, "content") \in Seq(Shown) /\ Got(c, "call") \in Seq(Shown)
      BY <1>1, ChoiceGot
    <3> QED BY <3>1
  <2>4. /\ Sent(c, "content") \o << >> = Sent(c, "content")
        /\ Sent(c, "call") \o << >> = Sent(c, "call")
    <3>1. ASSUME NEW field \in {"content", "call"} PROVE Sent(c, field) \o << >> = Sent(c, field)
      <4> DEFINE h == SentBy(c, field)
      <4>1. h \in [ChatBlock -> Seq(Fragment)] /\ Chat!Other \in ChatBlock
        BY ChatReadings DEF ChatBlock
      <4> HIDE DEF h
      <4>2. Told(received, h) \in Seq(Fragment)
        BY <1>1, <4>1, ToldTyped DEF ChatTyped
      <4> QED BY <4>2 DEF Sent, h
    <3> QED BY <3>1
  <2>5. CASE c = p.choice
    BY <1>2, <1>3, <2>2, <2>3, <2>4, <2>5
  <2>6. CASE c # p.choice
    BY <2>2, <2>6
  <2> QED BY <2>5, <2>6
<1>7. ASSUME NEW c \in Indices PROVE ChoiceOK(c)'
  <2>1. CASE Over(received, c)
    <3>1. /\ state.holds[c] = << >> /\ state.calls[c] = << >>
          /\ Delivered(Sent(c, "content"), Got(c, "content"), missed)
          /\ Delivered(Sent(c, "call"), Got(c, "call"), missed)
      BY <1>1, <2>1 DEF ChoiceOK
    <3>2. /\ Delivered(Sent(c, "content"), Got(c, "content"), missed \/ ~ok)
          /\ Delivered(Sent(c, "call"), Got(c, "call"), missed \/ ~ok)
      BY <1>1, <3>1, StillRelayed
    <3> QED BY <1>5, <1>6, <2>1, <3>1, <3>2 DEF ChoiceOK
  <2>2. CASE ~Over(received, c)
    <3>1. /\ Relayed(Sent(c, "content"), state.holds[c], Got(c, "content"), missed)
          /\ state.calls[c] = Sent(c, "call") /\ Got(c, "call") = << >>
      BY <1>1, <2>2 DEF ChoiceOK
    <3>2. Relayed(Sent(c, "content"), state.holds[c], Got(c, "content"), missed \/ ~ok)
      BY <1>1, <3>1, StillRelayed
    <3> QED BY <1>5, <1>6, <2>2, <3>1, <3>2 DEF ChoiceOK
  <2> QED BY <2>1, <2>2
<1>8. Chat!EventOf(p) \in ChatBlock /\ Chat!EventOf(p) # Chat!Done
  BY DEF ChatBlock, Chat!EventOf, Chat!Done
<1>9. /\ y.sent \notin {"raw", "done"} /\ ~Over(received, y.body.choice)
      /\ y.body.finish \/ y.body.call # << >> => Over(received', y.body.choice)
  BY <1>2, <1>3
<1> QED BY <1>3, <1>4, <1>5, <1>7, <1>8, <1>9, ChatContinues

LEMMA ChatEvent == ASSUME ChatInvariant, Chat!RelayEvent PROVE ChatInvariant'
<1>1. PICK p \in Chat!NextPayloads(received), ok \in BOOLEAN :
        LET flushed == IF Chat!Ends(p) THEN Chat!FlushHeld(state, ok) ELSE [state |-> state, out |-> << >>]
            written == Chat!Rewrite(flushed.state, p, ok)
        IN  /\ Chat!Receive(Chat!EventOf(p))
            /\ state' = written.state
            /\ out' = out \o Chat!Sent(flushed.out) \o Chat!Sent(written.out)
            /\ missed' = (missed \/ ~ok)
  BY DEF Chat!RelayEvent
<1>2. /\ Streaming /\ received' = Append(received, Chat!EventOf(p)) /\ status' = status /\ cut' = "none"
      /\ missed' = (missed \/ ~ok) /\ out \in Seq(ChatItem)
  BY <1>1, ChatStreams DEF Chat!Receive, ChatInvariant, ChatTyped
<1>3. /\ state' = Chat!Rewrite(state, p, ok).state
      /\ out' = out \o Chat!Sent(Chat!Rewrite(state, p, ok).out)
  <2>1. /\ state' = Chat!Rewrite(state, p, ok).state
        /\ out' = out \o << >> \o Chat!Sent(Chat!Rewrite(state, p, ok).out)
    BY <1>1, ChatSays DEF Chat!Ends
  <2>2. out \o << >> = out
    BY <1>2
  <2> QED BY <2>1, <2>2
<1>4. p \in Chat!Chunk /\ (p.finish => p.delta) /\ ~Over(received, p.choice)
  BY DEF Chat!NextPayloads, Over
<1>5. CASE p.delta
  <2>1. Chat!Rewrite(state, p, ok) = Chat!RewriteDelta(state, p, ok)
    BY <1>5 DEF Chat!Rewrite
  <2> QED BY <1>2, <1>3, <1>4, <1>5, <2>1, ChatDelta
<1>6. CASE ~p.delta
  <2>1. /\ Chat!Rewrite(state, p, ok).state = [state EXCEPT !.skeleton = TRUE]
        /\ Chat!Rewrite(state, p, ok).out = <<p>>
    BY <1>6 DEF Chat!Rewrite
  <2> QED BY <1>2, <1>3, <1>4, <1>6, <2>1, ChatSkipped
<1> QED BY <1>5, <1>6

LEMMA ChatStep == ASSUME ChatInvariant, Chat!RelayNext PROVE ChatInvariant'
BY ChatQuiet, ChatOther, ChatDone, ChatEvent, ChatDrops, ChatRunsOut DEF Chat!RelayNext

\* What the invariant says in the words of the model.
LEMMA ChatWords ==
  ASSUME ChatTyped
  PROVE  /\ Chat!Readable = Legible(out)
         /\ \A c \in Indices, field \in {"content", "call"} :
              Chat!ProviderSent(c, field) = Sent(c, field) /\ Chat!ClientGot(c, field) = Got(c, field)
<1>1. Chat!Readable = Legible(out)
  BY DEF Chat!Readable, Legible
<1>2. received \in Seq(ChatBlock) /\ out \in Seq(ChatItem)
  BY DEF ChatTyped
<1>3. ASSUME NEW c \in Indices, NEW field \in {"content", "call"}
      PROVE  Chat!ProviderSent(c, field) = Sent(c, field)
  <2>1. \A i \in DOMAIN received : received[i] \in ChatBlock
    BY <1>2
  <2>2. [i \in DOMAIN received |-> SentBy(c, field)[received[i]]]
          = [i \in DOMAIN received |->
              IF received[i].block = "event" /\ received[i].payload.choice = c
              THEN received[i].payload[field] ELSE << >>]
    BY <2>1 DEF SentBy
  <2> QED BY <2>2, ChatText DEF Chat!ProviderSent, Sent, Told
<1>4. ASSUME NEW c \in Indices, NEW field \in {"content", "call"}
      PROVE  Chat!ClientGot(c, field) = Got(c, field)
  <2>1. \A i \in DOMAIN out : out[i] \in ChatItem
    BY <1>2
  <2>2. [i \in DOMAIN out |-> IF i \in Legible(out) THEN GotBy(c, field)[out[i]] ELSE << >>]
          = [i \in DOMAIN out |->
              IF i \in Chat!Readable /\ out[i].body.choice = c THEN out[i].body[field] ELSE << >>]
    <3>1. \A i \in Legible(out) : out[i].sent = "event"
      BY DEF Legible
    <3> QED BY <1>1, <2>1, <3>1 DEF GotBy
  <2> QED BY <2>2, ChatText DEF Chat!ClientGot, Got, Heard
<1> QED BY <1>1, <1>3, <1>4

LEMMA ChatSafe ==
  ASSUME ChatInvariant
  PROVE  /\ Chat!NothingLost /\ Chat!HeldBeforeFinish /\ Chat!WholeIsRestored
         /\ Chat!CallsInOnePiece
<1>1. ChatTyped /\ ChatOrder(out)
  BY DEF ChatInvariant
<1>2. /\ Chat!Readable = Legible(out)
      /\ \A c \in Indices, field \in {"content", "call"} :
           Chat!ProviderSent(c, field) = Sent(c, field) /\ Chat!ClientGot(c, field) = Got(c, field)
  BY <1>1, ChatWords
<1>3. Chat!HeldBeforeFinish
  BY <1>1, <1>2 DEF ChatOrder, Chat!HeldBeforeFinish
<1>4. Chat!CallsInOnePiece
  BY <1>1, <1>2 DEF ChatOrder, Chat!CallsInOnePiece
<1>5. Chat!NothingLost
  <2>1. ASSUME (status = "closed" /\ cut = "none") \/ (status = "raised" /\ cut # "char"),
               NEW c \in Indices
        PROVE  Chat!Complete(c)
    <3>1. /\ Delivered(Sent(c, "content"), Got(c, "content"), missed)
          /\ Delivered(Sent(c, "call"), Got(c, "call"), missed)
      BY <2>1 DEF ChatInvariant, ChatEnded, Streaming
    <3>2. ASSUME NEW field \in {"content", "call"}
          PROVE  Chat!Unrestored(Chat!ClientGot(c, field)) = Chat!ProviderSent(c, field)
      BY <1>2, <3>1, ChatText DEF Delivered
    <3> QED BY <3>2 DEF Chat!Complete
  <2> QED BY <2>1 DEF Chat!NothingLost
<1>6. Chat!WholeIsRestored
  <2>1. ASSUME ~missed, NEW c \in Indices
        PROVE  ~Whole(Got(c, "content")) /\ ~Whole(Got(c, "call"))
    <3>1. CASE Streaming
      BY <1>1, <2>1, <3>1, ChoiceGot DEF ChatInvariant, ChatOpen
    <3>2. CASE ~Streaming
      BY <2>1, <3>2 DEF ChatInvariant, ChatEnded
    <3> QED BY <3>1, <3>2
  <2> QED BY <1>2, <2>1, ChatText DEF Chat!WholeIsRestored
<1> QED BY <1>3, <1>4, <1>5, <1>6

=============================================================================
