-------------------------- MODULE DetectionProofs --------------------------
(***************************************************************************)
(* Detection, from the chunks of a text to the cache in front of it:       *)
(*                                                                         *)
(*   the chunks, for any window and overlap: every short range of a text   *)
(*     lies whole in one, and the loop moves on by more than a quarter of  *)
(*     the window;                                                         *)
(*   the spans of a pass, for every document, catalogue and choice of the  *)
(*     model: they do not overlap, say what the document says, leave code  *)
(*     alone, and the sweep has only added to them;                        *)
(*   their resolution: the greedy choice loses nothing it has no better    *)
(*     span for, a proven boundary stands, and the sweep leaves no         *)
(*     repetition of a replaced word in the clear;                         *)
(*   the cache, which any number of threads share without a lock: it stays *)
(*     within its capacity but for the entries being put, and a hit is     *)
(*     always the entry of the block that was asked for.                   *)
(***************************************************************************)
EXTENDS Detection, DetectionCache, WellFoundedInduction, FiniteSetTheorems, TLAPS

\* A set of offsets has a last one.
LEMMA LastExists ==
  ASSUME NEW n \in Nat, NEW S \in SUBSET (0 .. n), S # {}
  PROVE  \E e \in S : \A f \in S : f <= e
<1> DEFINE R == {p \in Nat \X Nat : p[1] < p[2]}
           T == {k \in Nat : \E s \in S : k = n - s}
<1>1. IsWellFoundedOn(R, Nat)
  BY NatLessThanWellFounded DEF OpToRel
<1>2. PICK s \in S : TRUE
  OBVIOUS
<1>3. \A f \in S : f \in Nat /\ f <= n
  OBVIOUS
<1>4. \A f \in S : n - f \in T
  BY <1>3
<1>5. PICK x \in T : \A y \in T : ~ (<<y, x>> \in R)
  <2>1. T \subseteq Nat /\ T # {}
    BY <1>2, <1>4
  <2> HIDE DEF R, T
  <2> QED BY <1>1, <2>1, WFMin
<1>6. \A y \in T : ~ (y < x)
  BY <1>5
<1>7. PICK e \in S : x = n - e
  OBVIOUS
<1>8. ASSUME NEW f \in S PROVE f <= e
  BY <1>3, <1>4, <1>6, <1>7
<1> QED BY <1>8

LEMMA OverlapSmall == Overlap \in Nat /\ Overlap <= MaxChars \div 4
BY ChunkAssumption DEF Overlap, Least

\* A cut falls in the second half of the window and not beyond it.
LEMMA SplitBounds ==
  ASSUME NEW t \in Seq(Chars), NEW from \in Nat, NEW to \in Nat,
         from < to, to <= Len(t)
  PROVE  /\ SplitPoint(t, from, to) \in Nat
         /\ from + ((to - from) \div 2) < SplitPoint(t, from, to)
         /\ SplitPoint(t, from, to) <= to
<1> DEFINE half == from + ((to - from) \div 2)
           Cuts(k) == CutsAfter(t, Separators[k], half, to)
           LastCut(k) == CHOOSE e \in Cuts(k) : \A f \in Cuts(k) : f <= e
<1>1. half \in Nat /\ half < to
  OBVIOUS
<1>2. ASSUME NEW k \in 1 .. 3, Cuts(k) # {}
      PROVE  LastCut(k) \in Nat /\ half < LastCut(k) /\ LastCut(k) <= to
  <2>1. Len(Separators[k]) \in Nat \ {0}
    <3>1. /\ Separators[1] = <<"nl", "nl">>
          /\ Separators[2] = <<"nl">>
          /\ Separators[3] = <<" ">>
      BY DEF Separators
    <3>2. k = 1 \/ k = 2 \/ k = 3
      OBVIOUS
    <3>3. Len(<<"nl", "nl">>) = 2 /\ Len(<<"nl">>) = 1 /\ Len(<<" ">>) = 1
      OBVIOUS
    <3>4. Len(Separators[1]) = 2 /\ Len(Separators[2]) = 1 /\ Len(Separators[3]) = 1
      BY <3>1, <3>3, Zenon
    <3>5. Len(Separators[k]) = 2 \/ Len(Separators[k]) = 1
      BY <3>2, <3>4, Zenon
    <3>6. \A n : n = 2 \/ n = 1 => n \in Nat \ {0}
      OBVIOUS
    <3> QED BY <3>5, <3>6, Zenon
  <2>2. \A e \in Cuts(k) : e \in Nat /\ half < e /\ e <= to
    <3>1. Cuts(k) \subseteq (half + Len(Separators[k])) .. to
      BY DEF CutsAfter
    <3> HIDE DEF Cuts, half
    <3> QED BY <1>1, <2>1, <3>1
  <2>3. Cuts(k) \in SUBSET (0 .. to)
    BY <2>2
  <2>4. \E e \in Cuts(k) : \A f \in Cuts(k) : f <= e
    <3> HIDE DEF Cuts
    <3> QED BY <1>2, <2>3, LastExists
  <2>5. LastCut(k) \in Cuts(k)
    <3> HIDE DEF Cuts
    <3> QED BY <2>4
  <2> QED BY <2>2, <2>5
<1>3. \/ \E k \in 1 .. 3 : Cuts(k) # {} /\ SplitPoint(t, from, to) = LastCut(k)
      \/ SplitPoint(t, from, to) = to
  BY DEF SplitPoint
<1> HIDE DEF LastCut, Cuts
<1> QED BY <1>1, <1>2, <1>3

\* The chunk from `from` reaches past the middle of the window, and to the end
\* of the text if the window does.
LEMMA EndBounds ==
  ASSUME text \in Seq(Chars), start \in Nat, start <= Len(text),
         Len(text) > MaxChars
  PROVE  /\ ChunkEnd(start) \in Nat
         /\ ChunkEnd(start) <= Len(text)
         /\ ChunkEnd(start) < Len(text) =>
              start + (MaxChars \div 2) < ChunkEnd(start)
<1>1. Len(text) \in Nat /\ MaxChars \in Nat \ {0}
  BY ChunkAssumption
<1>2. CASE start + MaxChars < Len(text)
  <2>1. start + MaxChars \in Nat /\ start < start + MaxChars
    BY <1>1
  <2>2. (start + MaxChars) - start = MaxChars
    BY <1>1
  <2> QED BY <1>1, <1>2, <2>1, <2>2, SplitBounds DEF ChunkEnd
<1>3. CASE ~ (start + MaxChars < Len(text))
  BY <1>1, <1>3 DEF ChunkEnd
<1> QED BY <1>2, <1>3

\* The next chunk begins further on, by more than a quarter of the window; the
\* branch of chunk_text that gives up the overlap is never taken.
LEMMA StartMoves ==
  ASSUME text \in Seq(Chars), start \in Nat, start <= Len(text),
         Len(text) > MaxChars, ChunkEnd(start) < Len(text)
  PROVE  /\ NextStart(start, ChunkEnd(start)) = ChunkEnd(start) - Overlap
         /\ ChunkEnd(start) - Overlap - start > MaxChars \div 4
<1>1. MaxChars \in Nat /\ (MaxChars \div 2) >= 2 * (MaxChars \div 4)
  BY ChunkAssumption
<1>2. start + (MaxChars \div 2) < ChunkEnd(start) /\ ChunkEnd(start) \in Nat
  BY EndBounds
<1>3. ChunkEnd(start) - Overlap - start > MaxChars \div 4
  BY <1>1, <1>2, OverlapSmall
<1> QED BY <1>1, <1>2, <1>3, OverlapSmall DEF NextStart

-----------------------------------------------------------------------------
\* What the turns so far have shown: every short range that ends before the
\* overlap of the next chunk does.
Covered ==
  \A a, b \in 0 .. Len(text) :
    a < b /\ b - a <= Overlap + 1 /\ chunks # {}
          /\ (over \/ b <= start + Overlap)
      => Shown(a, b)

ChunksInductive ==
  /\ ChunksTypeOK
  /\ chunks = {} => start = 0
  /\ chunks # {} => ~IsBlank
  /\ Covered

LEMMA ChunksBegin ==
  ASSUME text \in Seq(Chars), Begin
  PROVE  ChunksInductive
<1>1. text \in Seq(Chars) /\ start = 0 /\ chunks = {} /\ over = FALSE
  BY DEF Begin
<1>2. ChunksTypeOK
  <2>1. Len(text) \in Nat
    BY <1>1
  <2>2. start \in 0 .. Len(text)
    BY <1>1, <2>1
  <2>3. over \in BOOLEAN
    BY <1>1
  <2> QED BY <1>1, <2>2, <2>3 DEF ChunksTypeOK
<1> QED BY <1>1, <1>2 DEF ChunksInductive, Covered

LEMMA ChunksInit == Init => ChunksInductive
BY ChunksBegin, ChunkAssumption DEF Init

LEMMA ChunksNext == ChunksInductive /\ [Next]_chunkVars => ChunksInductive'
<1> SUFFICES ASSUME ChunksInductive, [Next]_chunkVars
             PROVE  ChunksInductive'
  OBVIOUS
<1> USE DEF ChunksInductive
<1>0. /\ text \in Seq(Chars) /\ Len(text) \in Nat /\ start \in Nat
      /\ start <= Len(text) /\ over \in BOOLEAN
  BY DEF ChunksTypeOK
<1>1. CASE SkipBlank
  <2>1. chunks = {} /\ chunks' = {} /\ text' = text /\ start' = start /\ over' = TRUE
    BY <1>1 DEF SkipBlank
  <2> QED BY <2>1 DEF ChunksTypeOK, Covered
<1>2. CASE TakeWhole
  <2>1. ChunksTypeOK'
    BY <1>0, <1>2 DEF TakeWhole, ChunksTypeOK
  <2>2. Covered'
    BY <1>0, <1>2 DEF TakeWhole, Covered, Shown
  <2> QED BY <1>2, <2>1, <2>2 DEF TakeWhole, IsBlank
<1>3. CASE TakeChunk
  <2> DEFINE end == ChunkEnd(start)
             new == [from |-> start, to |-> end]
  <2>0. /\ Len(text) > MaxChars
        /\ chunks' = chunks \cup {new}
        /\ IF end >= Len(text)
             THEN over' = TRUE /\ start' = start
             ELSE start' = NextStart(start, end) /\ over' = FALSE
        /\ text' = text
    BY <1>0, <1>3 DEF TakeChunk
  <2>a. (over' <=> end >= Len(text)) /\ over' \in BOOLEAN
    BY <2>0
  <2>b. ~IsBlank'
    BY <1>3 DEF TakeChunk, IsBlank
  <2>1. end \in Nat /\ end <= Len(text)
    BY <1>0, <2>0, EndBounds
  <2>2. ~over' => start' = end - Overlap /\ start' \in Nat /\ start' <= Len(text)
    <3> SUFFICES ASSUME ~over'
                 PROVE  start' = end - Overlap /\ start' \in Nat /\ start' <= Len(text)
      OBVIOUS
    <3>1. end < Len(text)
      BY <1>0, <2>0, <2>a, <2>1
    <3>2. /\ NextStart(start, end) = end - Overlap
          /\ end - Overlap - start > MaxChars \div 4
      BY <1>0, <2>0, <3>1, StartMoves
    <3>3. MaxChars \div 4 \in Nat
      BY ChunkAssumption
    <3> HIDE DEF end
    <3> QED BY <1>0, <2>0, <2>a, <2>1, <3>1, <3>2, <3>3, OverlapSmall
  <2>3. over' \/ over' = FALSE
    BY <2>0
  <2> HIDE DEF end
  <2>4. ChunksTypeOK'
    <3>1. start' \in 0 .. Len(text)
      BY <1>0, <2>0, <2>2
    <3>2. new \in [from : 0 .. Len(text), to : 0 .. Len(text)]
      BY <1>0, <2>1
    <3> QED BY <2>0, <2>a, <3>1, <3>2 DEF ChunksTypeOK
  <2>5. ASSUME NEW a \in 0 .. Len(text), NEW b \in 0 .. Len(text),
               a < b, b - a <= Overlap + 1,
               over' \/ b <= start' + Overlap
        PROVE  Shown(a, b)'
    <3>1. b <= end
      <4>1. CASE over'
        BY <1>0, <2>0, <2>a, <2>1, <4>1
      <4>2. CASE ~over'
        BY <2>1, <2>2, <2>5, <4>2, OverlapSmall
      <4> QED BY <4>1, <4>2
    <3>2. CASE start <= a
      <4>1. new \in chunks' /\ new.from <= a /\ b <= new.to
        BY <2>0, <3>1, <3>2
      <4> QED BY <4>1 DEF Shown
    <3>3. CASE a < start
      <4>1. chunks # {} /\ b <= start + Overlap
        BY <1>0, <2>5, <3>3, OverlapSmall
      <4>2. Shown(a, b)
        BY <2>5, <4>1 DEF Covered
      <4> QED BY <2>0, <4>2 DEF Shown
    <3> QED BY <1>0, <3>2, <3>3
  <2>6. Covered'
    BY <2>0, <2>5 DEF Covered
  <2> QED BY <2>0, <2>b, <2>4, <2>6
<1>4. CASE UNCHANGED chunkVars
  BY <1>4 DEF chunkVars, ChunksTypeOK, Covered, Shown, IsBlank
<1> QED BY <1>1, <1>2, <1>3, <1>4 DEF Next

LEMMA ChunksInvariant == Spec => []ChunksInductive
BY ChunksInit, ChunksNext, PTL DEF Spec

-----------------------------------------------------------------------------
\* The offsets stay inside the text, for every window and every text.
THEOREM ChunksTypeCorrect == Spec => []ChunksTypeOK
<1>1. ChunksInductive => ChunksTypeOK
  BY DEF ChunksInductive
<1> QED BY <1>1, ChunksInvariant, PTL

\* However a text is cut, a range no longer than the overlap and one character
\* lies whole in a chunk.
THEOREM ShortRangesSeen == Spec => []SeenWhole
<1>1. ChunksInductive => SeenWhole
  BY DEF ChunksInductive, Covered, SeenWhole
<1> QED BY <1>1, ChunksInvariant, PTL

\* The loop never crawls: each turn moves on by more than a quarter of the
\* window, so it ends, after a number of chunks linear in the text.
THEOREM LoopStrides == Spec => Strides
<1>1. ASSUME ChunksInductive, [Next]_chunkVars, start' # start
      PROVE  start' - start > MaxChars \div 4
  <2>1. TakeChunk
    BY <1>1 DEF Next, chunkVars, SkipBlank, TakeWhole
  <2>2. text \in Seq(Chars) /\ start \in Nat /\ start <= Len(text)
    BY <1>1 DEF ChunksInductive, ChunksTypeOK
  <2>3. Len(text) > MaxChars /\ ~ (ChunkEnd(start) >= Len(text))
        /\ start' = NextStart(start, ChunkEnd(start))
    BY <1>1, <2>1 DEF TakeChunk
  <2>4. ChunkEnd(start) < Len(text)
    BY <2>2, <2>3, EndBounds
  <2> QED BY <2>2, <2>3, <2>4, StartMoves
<1> QED BY <1>1, ChunksInvariant, PTL DEF Spec, Strides

-----------------------------------------------------------------------------
(* Spans, and the pass that merges them.                                   *)

LEMMA SliceFacts ==
  ASSUME NEW t \in Seq(Chars), NEW a \in Nat, NEW b \in Nat, a < b, b <= Len(t)
  PROVE  /\ Slice(t, a, b) \in Seq(Chars)
         /\ Len(Slice(t, a, b)) = b - a
         /\ \A i \in 1 .. (b - a) : Slice(t, a, b)[i] = t[a + i]
         /\ Slice(t, a, b) = [i \in 1 .. (b - a) |-> t[a + i]]
<1>1. Slice(t, a, b) = [i \in 1 .. (b - a) |-> t[a + i]]
  BY DEF Slice
<1>2. \A i \in 1 .. (b - a) : t[a + i] \in Chars
  OBVIOUS
<1> QED BY <1>1, <1>2

\* The view is as long as the document and says the same where nothing is
\* hidden.
LEMMA ViewFacts ==
  ASSUME NEW d \in Seq(Chars)
  PROVE  /\ View(d) \in Seq(Chars)
         /\ Len(View(d)) = Len(d)
         /\ \A k \in 1 .. Len(d) : k - 1 \notin Hidden(d) => View(d)[k] = d[k]
<1> DEFINE n == Len(d)
           Shown_(k) == IF k - 1 \in Hidden(d) /\ d[k] # "nl" THEN " " ELSE d[k]
<1>1. n \in Nat /\ View(d) = [k \in 1 .. n |-> Shown_(k)]
  BY DEF View
<1>2. ASSUME NEW k \in 1 .. n
      PROVE  Shown_(k) \in Chars /\ (k - 1 \notin Hidden(d) => Shown_(k) = d[k])
  <2>1. d[k] \in Chars
    OBVIOUS
  <2> HIDE DEF n
  <2> QED BY <2>1, DetectionAssumption, Zenon
<1> HIDE DEF Shown_
<1>3. View(d) \in [1 .. n -> Chars]
  BY <1>1, <1>2
<1>4. View(d) \in Seq(Chars) /\ Len(View(d)) = n
  BY <1>1, <1>3
<1> QED BY <1>1, <1>2, <1>4

LEMMA SmallestExists ==
  ASSUME NEW S \in SUBSET Nat, S # {}
  PROVE  \E x \in S : \A y \in S : x <= y
<1> DEFINE R == {p \in Nat \X Nat : p[1] < p[2]}
<1>1. IsWellFoundedOn(R, Nat)
  BY NatLessThanWellFounded DEF OpToRel
<1>2. PICK x \in S : \A y \in S : ~ (<<y, x>> \in R)
  <2> HIDE DEF R
  <2> QED BY <1>1, WFMin
<1>3. ASSUME NEW y \in S PROVE x <= y
  <2>1. x \in Nat /\ y \in Nat
    OBVIOUS
  <2>2. y < x => <<y, x>> \in R
    BY <2>1
  <2> HIDE DEF R
  <2> QED BY <1>2, <2>1, <2>2
<1> QED BY <1>3

-----------------------------------------------------------------------------
\* A record with the fields of a span and no other.
IsSpan(s) ==
  s = [from |-> s.from, to |-> s.to, text |-> s.text,
       type |-> s.type, score |-> s.score, source |-> s.source]

Well(s) ==
  /\ IsSpan(s)
  /\ s.from \in Nat /\ s.to \in Nat /\ s.from < s.to
  /\ s.text \in Seq(Chars) /\ Len(s.text) = s.to - s.from

\* It says what the view says there, or what the document does.
Placed(s) ==
  /\ Well(s)
  /\ s.to <= Len(text)
  /\ s.text = Slice(text, s.from, s.to) \/ s.text = Slice(doc, s.from, s.to)

\* There is nothing left to trim.
Tight(s) ==
  s.source = "regex" \/ (s.text[1] \notin LeadingTrim /\ s.text[Len(s.text)] \notin TrailingTrim)

OverFloor(s) == s.score >= Catalogue[s.type].floor

\* What the filters of a merge establish of a span, and a second merge finds.
Sound(s) ==
  /\ Well(s)
  /\ s.to <= Len(text)
  /\ s.text = Slice(doc, s.from, s.to)
  /\ Covers(s) \cap Hidden(doc) = {}
  /\ Tight(s) /\ PassesRule(s) /\ OverFloor(s)

Within(r, s) == s.from <= r.from /\ r.to <= s.to

LEMMA CoreFacts ==
  ASSUME NEW t \in Seq(Chars), NEW lead, NEW trail, NEW c \in Core(t, lead, trail)
  PROVE  /\ c[1] \in Nat /\ c[2] \in Nat /\ c[1] < c[2] /\ c[2] <= Len(t)
         /\ t[c[1] + 1] \notin lead /\ t[c[2]] \notin trail
BY DEF Core

LEMMA NarrowedFacts ==
  ASSUME NEW s, Well(s), NEW a \in Nat, NEW b \in Nat, s.from <= a, a < b, b <= s.to
  PROVE  /\ Well(Narrowed(s, a, b)) /\ Within(Narrowed(s, a, b), s)
         /\ Narrowed(s, a, b).text[1] = s.text[a - s.from + 1]
         /\ Narrowed(s, a, b).text[b - a] = s.text[b - s.from]
<1> DEFINE n == Narrowed(s, a, b)
<1>1. /\ s.from \in Nat /\ s.to \in Nat /\ s.text \in Seq(Chars)
      /\ Len(s.text) = s.to - s.from
  BY DEF Well
<1>2. /\ a - s.from \in Nat /\ b - s.from \in Nat
      /\ a - s.from < b - s.from /\ b - s.from <= Len(s.text)
      /\ (b - s.from) - (a - s.from) = b - a
  BY <1>1
<1>3. /\ n.text \in Seq(Chars) /\ Len(n.text) = b - a
      /\ \A i \in 1 .. (b - a) : n.text[i] = s.text[(a - s.from) + i]
  <2> DEFINE part == Slice(s.text, a - s.from, b - s.from)
  <2>1. n.text = part
    BY DEF Narrowed
  <2>2. /\ part \in Seq(Chars) /\ Len(part) = (b - s.from) - (a - s.from)
        /\ \A i \in 1 .. ((b - s.from) - (a - s.from)) : part[i] = s.text[(a - s.from) + i]
    BY <1>1, <1>2, SliceFacts
  <2> HIDE DEF part, n
  <2> QED BY <1>2, <2>1, <2>2
<1>4. n.from = a /\ n.to = b /\ IsSpan(n)
  BY DEF Narrowed, IsSpan
<1>5. 1 \in 1 .. (b - a) /\ b - a \in 1 .. (b - a) /\ (a - s.from) + (b - a) = b - s.from
  BY <1>1
<1> QED BY <1>1, <1>3, <1>4, <1>5 DEF Well, Within

\* Trimming leaves a part of the span with nothing more to trim.
LEMMA TrimmedFacts ==
  ASSUME NEW s, Well(s), NEW r \in Trimmed(s)
  PROVE  /\ Well(r) /\ Within(r, s) /\ Tight(r)
         /\ r.type = s.type /\ r.score = s.score /\ r.source = s.source
         /\ r = s \/ r.text = Slice(doc, r.from, r.to)
<1>1. CASE s.source = "regex"
  BY <1>1 DEF Trimmed, Well, Within, Tight
<1>2. CASE s.source # "regex"
  <2>1. PICK c \in Core(s.text, LeadingTrim, TrailingTrim) :
          r = Narrowed(s, s.from + c[1], s.from + c[2])
    BY <1>2 DEF Trimmed
  <2>2. /\ c[1] \in Nat /\ c[2] \in Nat /\ c[1] < c[2] /\ c[2] <= Len(s.text)
        /\ s.text[c[1] + 1] \notin LeadingTrim /\ s.text[c[2]] \notin TrailingTrim
    BY CoreFacts DEF Well
  <2> DEFINE a == s.from + c[1]
             b == s.from + c[2]
  <2>3. /\ s.from \in Nat /\ a \in Nat /\ b \in Nat /\ s.from <= a /\ a < b /\ b <= s.to
        /\ a - s.from + 1 = c[1] + 1 /\ b - s.from = c[2]
    BY <2>2 DEF Well
  <2>4. /\ Well(r) /\ Within(r, s)
        /\ r.text[1] = s.text[c[1] + 1] /\ r.text[b - a] = s.text[c[2]]
    BY <2>1, <2>3, NarrowedFacts
  <2>5. /\ r.from = a /\ r.to = b
        /\ r.type = s.type /\ r.score = s.score /\ r.source = s.source
    BY <2>1 DEF Narrowed
  <2>6. Len(r.text) = b - a
    BY <2>4, <2>5 DEF Well
  <2> QED BY <1>2, <2>2, <2>4, <2>5, <2>6 DEF Trimmed, Tight
<1> QED BY <1>1, <1>2

\* Trimming a second time does nothing.
LEMMA TrimmedTwice ==
  ASSUME NEW s, Well(s), Tight(s)
  PROVE  Trimmed(s) = {s}
<1>1. CASE s.source = "regex"
  BY <1>1 DEF Trimmed
<1>2. CASE s.source # "regex"
  <2> DEFINE n == Len(s.text)
             all == Narrowed(s, s.from, s.to)
  <2>1. /\ n \in Nat \ {0} /\ s.from \in Nat /\ s.to = s.from + n /\ s.text \in Seq(Chars)
    BY DEF Well
  <2>2. s.text[1] \notin LeadingTrim /\ s.text[n] \notin TrailingTrim
    BY <1>2 DEF Tight
  <2>3. \A c : c \in Core(s.text, LeadingTrim, TrailingTrim) <=> c = <<0, n>>
    <3>1. ASSUME NEW c \in Core(s.text, LeadingTrim, TrailingTrim) PROVE c = <<0, n>>
      <4>1. /\ c \in (0 .. n) \X (0 .. n)
            /\ \A k \in 1 .. c[1] : s.text[k] \in LeadingTrim
            /\ \A k \in (c[2] + 1) .. n : s.text[k] \in TrailingTrim
        BY DEF Core
      <4>2. c[1] = 0
        BY <2>1, <2>2, <4>1
      <4>3. c[2] = n
        BY <2>1, <2>2, <4>1
      <4> QED BY <4>1, <4>2, <4>3
    <3>2. <<0, n>> \in Core(s.text, LeadingTrim, TrailingTrim)
      BY <2>1, <2>2 DEF Core
    <3> QED BY <3>1, <3>2
  <2>4. all = s
    <3>1. Slice(s.text, 0, n) = s.text
      BY <2>1 DEF Slice
    <3>2. s.from - s.from = 0 /\ s.to - s.from = n
      BY <2>1
    <3> QED BY <3>1, <3>2 DEF Narrowed, Well, IsSpan
  <2>5. s.from + 0 = s.from /\ s.from + n = s.to
    BY <2>1
  <2>6. {Narrowed(s, s.from + c[1], s.from + c[2]) :
           c \in Core(s.text, LeadingTrim, TrailingTrim)} = {s}
    <3>1. <<0, n>>[1] = 0 /\ <<0, n>>[2] = n
      OBVIOUS
    <3>2. Narrowed(s, s.from + <<0, n>>[1], s.from + <<0, n>>[2]) = s
      BY <2>4, <2>5, <3>1
    <3> QED BY <2>3, <3>2, Zenon
  <2> QED BY <1>2, <2>6 DEF Trimmed
<1> QED BY <1>1, <1>2

-----------------------------------------------------------------------------
\* The view of this document.
Viewed == doc \in Seq(Chars) /\ text = View(doc)

\* Outside hidden parts the view and the document say the same.
LEMMA SameText ==
  ASSUME Viewed, NEW a \in Nat, NEW b \in Nat, a < b, b <= Len(text),
         (a .. (b - 1)) \cap Hidden(doc) = {}
  PROVE  Slice(text, a, b) = Slice(doc, a, b)
<1>1. /\ text \in Seq(Chars) /\ Len(text) = Len(doc) /\ doc \in Seq(Chars)
      /\ \A k \in 1 .. Len(doc) : k - 1 \notin Hidden(doc) => text[k] = doc[k]
  BY ViewFacts DEF Viewed
<1>2. /\ Slice(text, a, b) = [i \in 1 .. (b - a) |-> text[a + i]]
      /\ Slice(doc, a, b) = [i \in 1 .. (b - a) |-> doc[a + i]]
  BY <1>1, SliceFacts
<1>3. ASSUME NEW i \in 1 .. (b - a) PROVE text[a + i] = doc[a + i]
  <2>1. a + i \in 1 .. Len(doc) /\ (a + i) - 1 \in a .. (b - 1)
    BY <1>1
  <2> QED BY <1>1, <2>1
<1> QED BY <1>2, <1>3

LEMMA FilteredFacts ==
  ASSUME Viewed, NEW S, \A s \in S : Placed(s), NEW r \in Filtered(S)
  PROVE  Sound(r) /\ \E s \in S : Within(r, s)
<1>1. PICK s \in S : s.score >= Catalogue[s.type].floor /\ r \in Trimmed(s)
  BY DEF Filtered
<1>2. PassesRule(r) /\ Covers(r) \cap Hidden(doc) = {}
  BY DEF Filtered
<1>3. Placed(s) /\ Well(s)
  BY DEF Placed
<1>4. /\ Well(r) /\ Within(r, s) /\ Tight(r)
      /\ r.type = s.type /\ r.score = s.score
      /\ r = s \/ r.text = Slice(doc, r.from, r.to)
  BY <1>1, <1>3, TrimmedFacts
<1>5. OverFloor(r)
  BY <1>1, <1>4 DEF OverFloor
<1>6. r.to <= Len(text)
  <2>1. r.to \in Nat /\ s.to \in Nat /\ Len(text) \in Nat
    BY <1>3, <1>4, ViewFacts DEF Well, Viewed
  <2> QED BY <1>3, <1>4, <2>1 DEF Within, Placed
<1>7. r.text = Slice(doc, r.from, r.to)
  <2>1. CASE r.text = Slice(text, r.from, r.to)
    BY <1>2, <1>4, <1>6, <2>1, SameText DEF Covers, Well
  <2>2. CASE r.text # Slice(text, r.from, r.to)
    BY <1>3, <1>4, <2>2 DEF Placed
  <2> QED BY <2>1, <2>2
<1> QED BY <1>2, <1>4, <1>5, <1>6, <1>7 DEF Sound

\* The filters let a span pass as it is that a merge has let pass before.
LEMMA FilteredTwice ==
  ASSUME NEW S, NEW s \in S, Sound(s)
  PROVE  s \in Filtered(S)
<1>1. Trimmed(s) = {s}
  BY TrimmedTwice DEF Sound
<1> QED BY <1>1 DEF Filtered, Sound, OverFloor

LEMMA CutBackFacts ==
  ASSUME Viewed, NEW s, Sound(s), NEW E, NEW r \in CutBack(s, E)
  PROVE  Sound(r) /\ Within(r, s)
<1>0. Well(s) /\ s.from \in Nat /\ s.to \in Nat
  BY DEF Sound, Well
<1>1. CASE s.source # "gliner" \/ \A e \in E : ~Meets(s, e)
  BY <1>0, <1>1 DEF CutBack, Within
<1>2. CASE ~ (s.source # "gliner" \/ \A e \in E : ~Meets(s, e))
  <2>1. PICK p \in Longest(Pieces(s, E)) :
          LET u == Narrowed(s, p[1], p[2]) IN
            /\ Size(u) >= MinLength
            /\ u.text = Slice(doc, u.from, u.to)
            /\ r \in Trimmed(u)
    BY <1>2, Zenon DEF CutBack
  <2> DEFINE u == Narrowed(s, p[1], p[2])
  <2>2. PassesRule(r)
    BY <1>2 DEF CutBack
  <2>3. p \in Pieces(s, E)
    BY DEF Longest
  <2>4. /\ p \in Covers(s) \X {i + 1 : i \in Covers(s)} /\ p[1] < p[2]
    BY <2>3 DEF Pieces
  <2>5. /\ p[1] \in Nat /\ p[2] \in Nat /\ s.from <= p[1] /\ p[1] < p[2] /\ p[2] <= s.to
    BY <1>0, <2>4 DEF Covers
  <2>6. Well(u) /\ Within(u, s)
    BY <1>0, <2>5, NarrowedFacts
  <2>7. /\ Well(r) /\ Within(r, u) /\ Tight(r)
        /\ r.type = u.type /\ r.score = u.score
        /\ r = u \/ r.text = Slice(doc, r.from, r.to)
    BY <2>1, <2>6, TrimmedFacts
  <2>8. u.type = s.type /\ u.score = s.score
    BY DEF Narrowed
  <2>9. /\ r.from \in Nat /\ r.to \in Nat /\ u.from \in Nat /\ u.to \in Nat
    BY <2>6, <2>7 DEF Well
  <2>10. Within(r, s)
    <3> HIDE DEF u
    <3> QED BY <1>0, <2>6, <2>7, <2>9 DEF Within
  <2>11. r.text = Slice(doc, r.from, r.to)
    BY <2>1, <2>7
  <2>12. OverFloor(r)
    BY <2>7, <2>8 DEF Sound, OverFloor
  <2>13. Covers(r) \cap Hidden(doc) = {}
    <3>1. Covers(r) \subseteq Covers(s)
      BY <1>0, <2>9, <2>10 DEF Covers, Within
    <3> QED BY <3>1 DEF Sound
  <2>14. r.to <= Len(text)
    <3>1. Len(text) \in Nat
      BY ViewFacts DEF Viewed
    <3> QED BY <1>0, <2>9, <2>10, <3>1 DEF Sound, Within
  <2> QED BY <2>2, <2>7, <2>10, <2>11, <2>12, <2>13, <2>14 DEF Sound
<1> QED BY <1>1, <1>2

\* Candidates are sound, and each is part of a span of the merge.
LEMMA CandidatesFacts ==
  ASSUME Viewed, NEW S, \A s \in S : Placed(s), NEW r \in Candidates(S)
  PROVE  Sound(r) /\ \E s \in S : Within(r, s)
<1>1. PICK t \in Filtered(S) : r \in CutBack(t, Exact(Filtered(S)))
  BY DEF Candidates
<1>2. Sound(t) /\ \E s \in S : Within(t, s)
  BY FilteredFacts
<1>3. Sound(r) /\ Within(r, t)
  BY <1>1, <1>2, CutBackFacts
<1>4. PICK s \in S : Within(t, s)
  BY <1>2
<1>5. /\ r.from \in Nat /\ r.to \in Nat /\ t.from \in Nat /\ t.to \in Nat
      /\ s.from \in Nat /\ s.to \in Nat
  BY <1>2, <1>3 DEF Sound, Placed, Well
<1>6. Within(r, s)
  BY <1>3, <1>4, <1>5 DEF Within
<1> QED BY <1>3, <1>6

-----------------------------------------------------------------------------
\* What the backstops claim lies in the view.
LEMMA BackstopsFacts ==
  ASSUME Viewed, NEW s \in Backstops
  PROVE  Placed(s)
<1>0. PICK type \in DOMAIN Catalogue :
        s \in {[from |-> m[1], to |-> m[2], text |-> Slice(text, m[1], m[2]), type |-> type,
               score |-> Max(Scores), source |-> "regex"]
                : m \in Claimed(Catalogue[type].backstop)}
  BY Zenon DEF Backstops
<1>1. PICK m \in Claimed(Catalogue[type].backstop) :
        s = [from |-> m[1], to |-> m[2], text |-> Slice(text, m[1], m[2]), type |-> type,
             score |-> Max(Scores), source |-> "regex"]
  BY <1>0
<1>2. /\ m[1] \in Offsets(text) /\ m[2] \in 1 .. Len(text) /\ m[1] < m[2]
  BY DEF Claimed
<1>3. text \in Seq(Chars) /\ Len(text) \in Nat
  BY ViewFacts DEF Viewed
<1>4. m[1] \in Nat /\ m[2] \in Nat /\ m[2] <= Len(text)
  BY <1>2, <1>3 DEF Offsets
<1>5. Slice(text, m[1], m[2]) \in Seq(Chars) /\ Len(Slice(text, m[1], m[2])) = m[2] - m[1]
  BY <1>2, <1>3, <1>4, SliceFacts
<1>6. s.from = m[1] /\ s.to = m[2] /\ s.text = Slice(text, m[1], m[2])
  BY <1>1
<1>7. IsSpan(s)
  BY <1>1 DEF IsSpan
<1> QED BY <1>2, <1>4, <1>5, <1>6, <1>7 DEF Placed, Well

\* What the model proposes is placed where the view says it.
LEMMA ProposedFacts ==
  ASSUME Viewed, NEW from \in Nat, NEW to \in Nat, from < to, to <= Len(text),
         NEW hint, NEW pos \in Located(Slice(text, from, to), hint), NEW type, NEW score
  PROVE  Placed([from |-> pos, to |-> pos + Len(Slice(text, from, to)),
                 text |-> Slice(text, from, to),
                 type |-> type, score |-> score, source |-> "gliner"])
<1> DEFINE surface == Slice(text, from, to)
           s == [from |-> pos, to |-> pos + Len(surface), text |-> surface,
                 type |-> type, score |-> score, source |-> "gliner"]
<1>1. text \in Seq(Chars) /\ Len(text) \in Nat
  BY ViewFacts DEF Viewed
<1>2. surface \in Seq(Chars) /\ Len(surface) = to - from
  BY <1>1, SliceFacts
<1> HIDE DEF surface
<1>3. pos \in Occurrences(surface)
  <2> DEFINE near == {i \in Occurrences(surface) : hint - Window <= i /\ i <= hint + Window}
  <2>1. \/ hint \in Occurrences(surface) /\ pos = hint
        \/ near # {} /\ pos = Min(near)
        \/ pos \in Occurrences(surface)
    BY DEF Located, surface
  <2>2. near # {} => Min(near) \in near
    <3>1. Occurrences(surface) \subseteq Nat
      BY DEF Occurrences
    <3>2. near \subseteq Nat
      BY <3>1
    <3> HIDE DEF near
    <3> QED BY <3>2, SmallestExists DEF Min
  <2> QED BY <2>1, <2>2
<1>4. /\ pos \in Nat /\ pos + Len(surface) <= Len(text)
      /\ surface = Slice(text, pos, pos + Len(surface))
  BY <1>1, <1>2, <1>3 DEF Occurrences
<1>5. IsSpan(s)
  BY DEF IsSpan
<1> QED BY <1>2, <1>4, <1>5 DEF Placed, Well, surface

LEMMA SurfaceFacts ==
  ASSUME NEW s, Well(s)
  PROVE  Len(Surface(s)) \in Nat
<1> DEFINE whole == Core(s.text, Blanks, Blanks)
<1>1. CASE whole = {}
  BY <1>1 DEF Surface
<1>2. CASE whole # {}
  <2> DEFINE c == CHOOSE c \in whole : TRUE
  <2>1. c \in whole
    BY <1>2
  <2>2. s.text \in Seq(Chars)
    BY DEF Well
  <2> HIDE DEF c
  <2>3. c[1] \in Nat /\ c[2] \in Nat /\ c[1] < c[2] /\ c[2] <= Len(s.text)
    BY <2>1, <2>2, CoreFacts
  <2>4. Len(Slice(s.text, c[1], c[2])) = c[2] - c[1]
    BY <2>2, <2>3, SliceFacts
  <2>5. Surface(s) = Slice(s.text, c[1], c[2])
    BY <1>2 DEF Surface, c
  <2> QED BY <2>3, <2>4, <2>5
<1> QED BY <1>1, <1>2

\* What the sweep adds lies in the document and touches none of the spans.
LEMMA SweptFacts ==
  ASSUME Viewed, NEW S, \A s \in S : Well(s), NEW r \in Swept(S)
  PROVE  Placed(r) /\ r.source = "coref" /\ \A q \in S : ~Meets(r, q)
<1>1. PICK s \in Representatives(S) :
        /\ Len(Surface(s)) >= MinLength
        /\ r \in Repeats(s)
        /\ \A q \in S : ~Meets(r, q)
  BY DEF Swept
<1> DEFINE n == Len(Surface(s))
<1>2. PICK i \in Hits(Surface(s), Catalogue[s.type].sweep) :
        r = [from |-> i, to |-> i + n, text |-> Slice(doc, i, i + n),
             type |-> s.type, score |-> s.score, source |-> "coref"]
  BY <1>1 DEF Repeats
<1>3. n \in Nat /\ n > 0
  <2>1. n \in Nat
    BY SurfaceFacts DEF Representatives
  <2>2. MinLength \in Nat \ {0}
    BY DetectionAssumption
  <2> QED BY <1>1, <2>1, <2>2
<1>4. doc \in Seq(Chars) /\ Len(text) = Len(doc) /\ Len(doc) \in Nat
  BY ViewFacts DEF Viewed
<1>5. i \in 0 .. (Len(text) - n)
  BY DEF Hits
<1> HIDE DEF n
<1>6. i \in Nat /\ i + n \in Nat /\ i < i + n /\ i + n <= Len(doc) /\ (i + n) - i = n
  BY <1>3, <1>4, <1>5
<1>7. Slice(doc, i, i + n) \in Seq(Chars) /\ Len(Slice(doc, i, i + n)) = n
  BY <1>4, <1>6, SliceFacts
<1>8. r.from = i /\ r.to = i + n /\ r.text = Slice(doc, i, i + n) /\ r.source = "coref"
  BY <1>2
<1>9. IsSpan(r)
  BY <1>2 DEF IsSpan
<1> QED BY <1>1, <1>4, <1>6, <1>7, <1>8, <1>9 DEF Placed, Well

-----------------------------------------------------------------------------
LEMMA WithinMeets ==
  ASSUME NEW r, NEW q, NEW s, Well(r), Well(q), Well(s), Within(r, q), Meets(r, s)
  PROVE  Meets(q, s)
BY DEF Well, Within, Meets

\* A second merge of spans that a first has let pass, and of repeats that touch
\* none of them, proposes those spans again as they were, and beside each
\* nothing that touches it.
LEMMA SecondMerge ==
  ASSUME Viewed, NEW A, NEW X,
         \A s \in A : Sound(s),
         \A s, r \in A : s # r => ~Meets(s, r),
         \A x \in X : Placed(x) /\ x.source = "coref" /\ \A q \in A : ~Meets(x, q),
         NEW s \in A
  PROVE  /\ s \in Candidates(A \cup X)
         /\ \A r \in Candidates(A \cup X) : r = s \/ ~Meets(r, s)
<1> DEFINE kept == Filtered(A \cup X)
<1>1. ASSUME NEW q \in A, NEW t \in Trimmed(q) PROVE t = q
  <2>1. Well(q) /\ Tight(q)
    BY DEF Sound
  <2> QED BY <2>1, TrimmedTwice
<1>2. \A e \in Exact(kept) : e \in A
  <2> SUFFICES ASSUME NEW e \in Exact(kept) PROVE e \in A
    OBVIOUS
  <2>1. PICK q \in A \cup X : e \in Trimmed(q)
    BY DEF Exact, Filtered
  <2>2. e.source = "regex"
    BY DEF Exact
  <2>3. Well(q)
    BY DEF Sound, Placed
  <2>4. q.source = "regex"
    BY <2>1, <2>2, <2>3, TrimmedFacts
  <2>5. q \in A
    BY <2>4
  <2> QED BY <1>1, <2>1, <2>5
<1>3. ASSUME NEW q \in A PROVE CutBack(q, Exact(kept)) = {q}
  <2>1. CASE q.source # "gliner"
    BY <2>1 DEF CutBack
  <2>2. CASE q.source = "gliner"
    <3>1. ASSUME NEW e \in Exact(kept) PROVE ~Meets(q, e)
      <4>1. e \in A /\ e # q
        BY <1>2, <2>2 DEF Exact
      <4> QED BY <4>1
    <3> QED BY <3>1 DEF CutBack
  <2> QED BY <2>1, <2>2
<1>4. s \in kept
  BY FilteredTwice
<1>5. s \in Candidates(A \cup X)
  BY <1>3, <1>4 DEF Candidates
<1>6. ASSUME NEW r \in Candidates(A \cup X) PROVE r = s \/ ~Meets(r, s)
  <2>1. PICK t \in kept : r \in CutBack(t, Exact(kept))
    BY DEF Candidates
  <2>2. PICK q \in A \cup X : t \in Trimmed(q)
    BY DEF Filtered
  <2>3. CASE q \in A
    <3>1. t = q
      BY <1>1, <2>2, <2>3
    <3>2. r = q
      BY <1>3, <2>1, <2>3, <3>1
    <3> QED BY <2>3, <3>2
  <2>4. CASE q \in X
    <3>1. Well(q) /\ Well(s) /\ ~Meets(q, s)
      BY <2>4 DEF Placed, Sound
    <3>2. Well(t) /\ Within(t, q)
      BY <2>2, <3>1, TrimmedFacts
    <3>3. \A p \in A \cup X : Placed(p)
      BY DEF Sound, Placed
    <3>4. Sound(t)
      BY <3>3, FilteredFacts
    <3>5. Well(r) /\ Within(r, t)
      BY <2>1, <3>4, CutBackFacts DEF Sound
    <3>6. ~Meets(t, s)
      BY <3>1, <3>2, WithinMeets
    <3> QED BY <3>1, <3>2, <3>5, <3>6, WithinMeets
  <2> QED BY <2>3, <2>4
<1> QED BY <1>5, <1>6

-----------------------------------------------------------------------------
\* The spans of the first merge are candidates of the second or its result
\* already, and no other span of the second touches one.
Kept ==
  \A s \in merged :
    /\ s \in pending \cup accepted
    /\ \A r \in pending \cup accepted : r = s \/ ~Meets(r, s)

PassInvariant ==
  /\ Viewed
  /\ ChunksInductive
  /\ \A s \in found : Placed(s)
  /\ \A s \in pending \cup accepted : Sound(s)
  /\ Disjoint
  /\ phase \in {"choose again", "done"} => Kept
  /\ phase = "done" => pending = {}

LEMMA PassInit == DetectInit => PassInvariant
<1> SUFFICES ASSUME DetectInit PROVE PassInvariant
  OBVIOUS
<1>1. Viewed
  BY DetectionAssumption DEF DetectInit, Viewed
<1>2. ChunksInductive
  BY <1>1, ViewFacts, ChunksBegin DEF DetectInit, Viewed
<1> QED BY <1>1, <1>2 DEF DetectInit, PassInvariant, Disjoint

\* A step that leaves the document and the chunks alone leaves what is said of
\* a span alone.
LEMMA SameDocument ==
  ASSUME PassInvariant, UNCHANGED <<chunkVars, doc>>
  PROVE  /\ Viewed' /\ ChunksInductive'
         /\ \A s : (Placed(s))' <=> Placed(s)
         /\ \A s : (Sound(s))' <=> Sound(s)
<1>1. text' = text /\ doc' = doc
  BY DEF chunkVars
<1>2. Viewed'
  BY <1>1 DEF PassInvariant, Viewed
<1>3. ChunksInductive'
  BY ChunksNext DEF PassInvariant
<1>4. ASSUME NEW s PROVE (Placed(s))' <=> Placed(s)
  BY <1>1 DEF Placed, Well, IsSpan
<1>5. ASSUME NEW s PROVE (Sound(s))' <=> Sound(s)
  BY <1>1 DEF Sound, Well, IsSpan, Tight, PassesRule, OverFloor
<1> QED BY <1>2, <1>3, <1>4, <1>5

LEMMA PassNext == PassInvariant /\ [DetectNext]_vars => PassInvariant'
<1> SUFFICES ASSUME PassInvariant, [DetectNext]_vars PROVE PassInvariant'
  OBVIOUS
<1>0. /\ Viewed /\ ChunksInductive /\ Disjoint
      /\ \A s \in found : Placed(s)
      /\ \A s \in pending \cup accepted : Sound(s)
  BY DEF PassInvariant
<1>1. CASE Cut
  <2>1. /\ text' = text /\ doc' = doc /\ found' = found /\ pending' = pending
        /\ accepted' = accepted /\ phase' \in {"propose", "cut"}
    BY <1>1 DEF Cut, Next, SkipBlank, TakeWhole, TakeChunk
  <2>2. ChunksInductive'
    BY <1>0, <1>1, ChunksNext DEF Cut
  <2>3. Viewed'
    BY <1>0, <2>1 DEF Viewed
  <2>4. \A s \in found' : (Placed(s))'
    BY <1>0, <2>1 DEF Placed, Well, IsSpan
  <2>5. \A s \in (pending \cup accepted)' : (Sound(s))'
    BY <1>0, <2>1 DEF Sound, Well, IsSpan, Tight, PassesRule, OverFloor
  <2>6. Disjoint'
    BY <1>0, <2>1 DEF Disjoint
  <2> QED BY <2>1, <2>2, <2>3, <2>4, <2>5, <2>6 DEF PassInvariant
<1>2. CASE Propose
  <2>1. /\ UNCHANGED <<chunkVars, doc>> /\ pending' = pending
        /\ accepted' = accepted /\ phase' = "propose"
    BY <1>2 DEF Propose
  <2>2. PICK c \in chunks : \E r \in Reports(c), score \in Scores, type \in DOMAIN Catalogue :
          LET surface == Slice(text, r.from, r.to) IN
            \E pos \in Located(surface, r.hint) :
              found' = found \cup
                {[from |-> pos, to |-> pos + Len(surface), text |-> surface,
                  type |-> type, score |-> score, source |-> "gliner"]}
    BY <1>2, Zenon DEF Propose
  <2>3. PICK r \in Reports(c), score \in Scores, type \in DOMAIN Catalogue :
          \E pos \in Located(Slice(text, r.from, r.to), r.hint) :
            found' = found \cup
              {[from |-> pos, to |-> pos + Len(Slice(text, r.from, r.to)),
                text |-> Slice(text, r.from, r.to),
                type |-> type, score |-> score, source |-> "gliner"]}
    BY <2>2
  <2>4. /\ r.from \in Nat /\ r.to \in Nat /\ r.from < r.to /\ r.to <= Len(text)
    <3>1. /\ c \in [from : 0 .. Len(text), to : 0 .. Len(text)] /\ Len(text) \in Nat
      BY <1>0 DEF ChunksInductive, ChunksTypeOK
    <3>2. r.from \in c.from .. c.to /\ r.to \in c.from .. c.to /\ r.from < r.to
      BY DEF Reports
    <3> QED BY <3>1, <3>2
  <2>5. \A s \in found' : Placed(s)
    BY <1>0, <2>3, <2>4, ProposedFacts
  <2>6. Disjoint'
    BY <1>0, <2>1 DEF Disjoint
  <2> QED BY <1>0, <2>1, <2>5, <2>6, SameDocument DEF PassInvariant
<1>3. CASE Merge
  <2>1. /\ UNCHANGED <<chunkVars, doc>> /\ found' = found \cup Backstops
        /\ pending' = Candidates(found') /\ accepted' = accepted /\ phase' = "choose"
    BY <1>3 DEF Merge
  <2>2. \A s \in found' : Placed(s)
    BY <1>0, <2>1, BackstopsFacts
  <2>3. \A s \in pending' : Sound(s)
    BY <1>0, <2>1, <2>2, CandidatesFacts
  <2>4. Disjoint'
    BY <1>0, <2>1 DEF Disjoint
  <2> QED BY <1>0, <2>1, <2>2, <2>3, <2>4, SameDocument DEF PassInvariant
<1>4. CASE Choose
  <2>1. UNCHANGED <<chunkVars, doc, phase, found, merged>>
    BY <1>4 DEF Choose
  <2>2. PICK s \in pending :
          /\ pending' = pending \ {s}
          /\ accepted' = IF \E r \in accepted : Meets(s, r) THEN accepted
                                                          ELSE accepted \cup {s}
    BY <1>4 DEF Choose
  <2>3. \A r \in (pending \cup accepted)' : r \in pending \cup accepted
    BY <2>2
  <2>4. Disjoint'
    <3>1. CASE \E r \in accepted : Meets(s, r)
      BY <1>0, <2>2, <3>1 DEF Disjoint
    <3>2. CASE ~ \E r \in accepted : Meets(s, r)
      BY <1>0, <2>2, <3>2 DEF Disjoint, Meets
    <3> QED BY <3>1, <3>2
  <2>5. ASSUME Kept PROVE Kept'
    <3> SUFFICES ASSUME NEW m \in merged
                 PROVE  /\ m \in (pending \cup accepted)'
                        /\ \A r \in (pending \cup accepted)' : r = m \/ ~Meets(r, m)
      BY <2>1 DEF Kept
    <3>1. /\ m \in pending \cup accepted
          /\ \A r \in pending \cup accepted : r = m \/ ~Meets(r, m)
      BY <2>5 DEF Kept
    <3>2. m \in (pending \cup accepted)'
      <4>1. CASE m # s \/ m \in accepted
        BY <2>2, <3>1, <4>1
      <4>2. CASE m = s /\ m \notin accepted
        <5>1. ~ \E r \in accepted : Meets(s, r)
          BY <3>1, <4>2 DEF Meets
        <5> QED BY <2>2, <4>2, <5>1
      <4> QED BY <4>1, <4>2
    <3> QED BY <2>3, <3>1, <3>2
  <2>6. phase # "done"
    BY <1>4 DEF Choose
  <2> QED BY <1>0, <2>1, <2>3, <2>4, <2>5, <2>6, SameDocument DEF PassInvariant
<1>5. CASE Sweep
  <2>0. /\ UNCHANGED <<chunkVars, doc>> /\ found' = found /\ pending = {}
        /\ merged' = accepted
    BY <1>5 DEF Sweep
  <2> DEFINE extra == IF SweepOn THEN Swept(accepted) ELSE {}
  <2>1. CASE extra = {}
    <3>1. phase' = "done" /\ pending' = {} /\ accepted' = accepted
      BY <1>5, <2>0, <2>1 DEF Sweep
    <3>2. Disjoint'
      BY <1>0, <3>1 DEF Disjoint
    <3>3. Kept'
      BY <1>0, <2>0, <3>1 DEF Kept, Disjoint
    <3> QED BY <1>0, <2>0, <3>1, <3>2, <3>3, SameDocument DEF PassInvariant
  <2>2. CASE extra # {}
    <3>1. /\ phase' = "choose again" /\ accepted' = {}
          /\ pending' = Candidates(accepted \cup extra)
      BY <1>5, <2>2 DEF Sweep
    <3>2. \A x \in extra : /\ Placed(x) /\ x.source = "coref"
                           /\ \A q \in accepted : ~Meets(x, q)
      BY <1>0, SweptFacts DEF Sound
    <3> HIDE DEF extra
    <3>3. \A s \in accepted \cup extra : Placed(s)
      BY <1>0, <3>2 DEF Sound, Placed
    <3>4. \A r \in pending' : Sound(r)
      BY <1>0, <3>1, <3>3, CandidatesFacts
    <3>5. ASSUME NEW s \in accepted
          PROVE  s \in pending' /\ \A r \in pending' : r = s \/ ~Meets(r, s)
      BY <1>0, <3>1, <3>2, SecondMerge DEF Disjoint
    <3>6. Kept'
      BY <2>0, <3>1, <3>5 DEF Kept
    <3>7. Disjoint'
      BY <3>1 DEF Disjoint
    <3> QED BY <1>0, <2>0, <3>1, <3>4, <3>6, <3>7, SameDocument DEF PassInvariant
  <2> QED BY <2>1, <2>2
<1>6. CASE Finish
  <2>1. UNCHANGED <<chunkVars, doc, found, pending, accepted, merged>>
        /\ phase = "choose again" /\ phase' = "done" /\ pending = {}
    BY <1>6 DEF Finish
  <2>2. Disjoint' /\ Kept'
    BY <1>0, <2>1 DEF Disjoint, Kept, PassInvariant
  <2> QED BY <1>0, <2>1, <2>2, SameDocument DEF PassInvariant
<1>7. CASE UNCHANGED vars
  <2>1. UNCHANGED <<chunkVars, doc, phase, found, pending, accepted, merged>>
    BY <1>7 DEF vars
  <2>2. Disjoint' /\ (Kept => Kept')
    BY <1>0, <2>1 DEF Disjoint, Kept
  <2> QED BY <1>0, <2>1, <2>2, SameDocument DEF PassInvariant
<1> QED BY <1>1, <1>2, <1>3, <1>4, <1>5, <1>6, <1>7 DEF DetectNext

LEMMA PassInvariantHolds == DetectSpec => []PassInvariant
BY PassInit, PassNext, PTL DEF DetectSpec

-----------------------------------------------------------------------------
\* No two accepted spans overlap, whatever the model proposes: placeholders are
\* spliced in from offsets that do not disturb each other (merge_spans).
THEOREM SpansDisjoint == DetectSpec => []Disjoint
<1>1. PassInvariant => Disjoint
  BY DEF PassInvariant
<1> QED BY <1>1, PassInvariantHolds, PTL

\* An accepted span is not empty, says what the document says at its offsets
\* and touches no code, comment or URL, through trimming, the cut at exact spans
\* and the second merge (merge.py: _trim, _trim_to_exact_spans, merge_spans).
THEOREM SpansReplaceable == DetectSpec => []Replaceable
<1>1. PassInvariant => Replaceable
  <2>1. SUFFICES ASSUME PassInvariant PROVE Replaceable
    OBVIOUS
  <2>2. Disjoint
    BY <2>1 DEF PassInvariant
  <2>3. \A s \in accepted : /\ s.from < s.to
                           /\ s.text = Slice(doc, s.from, s.to)
                           /\ Covers(s) \cap Hidden(doc) = {}
    BY <2>1 DEF PassInvariant, Sound, Well
  <2> QED BY <2>2, <2>3 DEF Replaceable
<1> QED BY <1>1, PassInvariantHolds, PTL

\* The sweep takes nothing back of what the first merge accepted: a second merge
\* proposes the same spans again, uncut and untouched by the others.
THEOREM SecondMergeKeeps == DetectSpec => []SweepOnlyAdds
<1>1. PassInvariant => SweepOnlyAdds
  BY DEF PassInvariant, Kept, SweepOnlyAdds
<1> QED BY <1>1, PassInvariantHolds, PTL

\* Chunking inside a pass: each short range of the view lies whole in a chunk
\* the model is shown.
THEOREM ViewSeen == DetectSpec => []SeenWhole
<1>1. PassInvariant => SeenWhole
  BY DEF PassInvariant, ChunksInductive, Covered, SeenWhole
<1> QED BY <1>1, PassInvariantHolds, PTL

-----------------------------------------------------------------------------
\* The candidate is among the spans S, or gives way to one of A that the sort
\* key does not put behind it.
Answered(c, S, A) == c \in S \/ \E r \in A : Meets(c, r) /\ ~Precedes(c, r)

\* What resolve_spans adds to the spans of the first merge.
Extra == IF SweepOn THEN Swept(merged) ELSE {}

ChoiceInvariant ==
  /\ phase \in {"cut", "propose"} => pending = {} /\ accepted = {}
  /\ \A s \in found : s.source \in {"gliner", "regex"}
  /\ \A s \in pending, r \in accepted : ~Precedes(s, r)
  /\ phase = "choose" =>
       /\ pending \cup accepted \subseteq Candidates(found)
       /\ \A c \in Candidates(found) : Answered(c, pending \cup accepted, accepted)
  /\ phase \in {"choose again", "done"} =>
       /\ merged \subseteq Candidates(found)
       /\ \A c \in Candidates(found) : Answered(c, merged, merged)
       /\ \A s \in pending \cup accepted : s.source = "gliner" => s \in merged
       /\ \A c \in Candidates(merged \cup Extra) :
            Answered(c, pending \cup accepted, accepted)

\* The cut keeps the source.
LEMMA CutSource ==
  ASSUME NEW t, Well(t), NEW E, NEW r \in CutBack(t, E)
  PROVE  r.source = t.source
<1>1. CASE r = t
  BY <1>1
<1>2. CASE r # t
  <2>1. PICK p \in Longest(Pieces(t, E)) : r \in Trimmed(Narrowed(t, p[1], p[2]))
    BY <1>2, Zenon DEF CutBack
  <2>2. /\ p \in Covers(t) \X {i + 1 : i \in Covers(t)} /\ p[1] < p[2]
    BY DEF Longest, Pieces
  <2>3. /\ t.from \in Nat /\ t.to \in Nat /\ p[1] \in Nat /\ p[2] \in Nat
        /\ t.from <= p[1] /\ p[2] <= t.to
    BY <2>2 DEF Covers, Well
  <2>4. Well(Narrowed(t, p[1], p[2]))
    BY <2>2, <2>3, NarrowedFacts
  <2>5. r.source = Narrowed(t, p[1], p[2]).source
    BY <2>1, <2>4, TrimmedFacts
  <2> QED BY <2>5 DEF Narrowed
<1> QED BY <1>1, <1>2

\* A candidate is a part of a span of the same source.
LEMMA CandidateOf ==
  ASSUME Viewed, NEW S, \A s \in S : Placed(s), NEW r \in Candidates(S)
  PROVE  \E s \in S : r.source = s.source /\ Within(r, s)
<1>1. PICK t \in Filtered(S) : r \in CutBack(t, Exact(Filtered(S)))
  BY DEF Candidates
<1>2. PICK s \in S : t \in Trimmed(s)
  BY DEF Filtered
<1>3. t.source = s.source /\ Within(t, s) /\ Well(t) /\ Well(s)
  BY <1>2, TrimmedFacts DEF Placed
<1>4. r.source = t.source
  BY <1>1, <1>3, CutSource
<1>5. Well(r) /\ Within(r, t)
  BY <1>1, FilteredFacts, CutBackFacts DEF Sound
<1>6. Within(r, s)
  BY <1>3, <1>5 DEF Within, Well
<1> QED BY <1>3, <1>4, <1>6

\* A span of the model that is a candidate reaches into no exact span.
LEMMA CutClear ==
  ASSUME Viewed, NEW S, \A s \in S : Placed(s),
         NEW r \in Candidates(S), r.source = "gliner", NEW e \in Exact(Filtered(S))
  PROVE  ~Meets(r, e)
<1> DEFINE E == Exact(Filtered(S))
<1>1. PICK t \in Filtered(S) : r \in CutBack(t, E)
  BY DEF Candidates
<1>2. Sound(t) /\ Sound(e) /\ Sound(r)
  BY FilteredFacts, CandidatesFacts DEF Exact
<1>3. CASE t.source # "gliner" \/ \A q \in E : ~Meets(t, q)
  <2>1. r = t
    BY <1>1, <1>3 DEF CutBack
  <2> QED BY <1>3, <2>1
<1>4. CASE ~ (t.source # "gliner" \/ \A q \in E : ~Meets(t, q))
  <2>1. PICK p \in Longest(Pieces(t, E)) : r \in Trimmed(Narrowed(t, p[1], p[2]))
    BY <1>1, <1>4, Zenon DEF CutBack
  <2> DEFINE u == Narrowed(t, p[1], p[2])
             free == Covers(t) \ UNION {Covers(q) : q \in E}
  <2>2. p \in free \X {i + 1 : i \in free} /\ p[1] < p[2] /\ p[1] .. (p[2] - 1) \subseteq free
    BY DEF Longest, Pieces
  <2>3. /\ t.from \in Nat /\ t.to \in Nat /\ p[1] \in Nat /\ p[2] \in Nat
        /\ t.from <= p[1] /\ p[2] <= t.to
    <3>1. p \in Covers(t) \X {i + 1 : i \in Covers(t)}
      BY <2>2
    <3>2. t.from \in Nat /\ t.to \in Nat
      BY <1>2 DEF Sound, Well
    <3> QED BY <3>1, <3>2 DEF Covers
  <2>4. Well(u) /\ u.from = p[1] /\ u.to = p[2]
    BY <1>2, <2>2, <2>3, NarrowedFacts DEF Sound, Narrowed
  <2>5. Within(r, u)
    BY <2>1, <2>4, TrimmedFacts
  <2>6. \A i \in Covers(e) : i \notin p[1] .. (p[2] - 1)
    BY <2>2
  <2>7. /\ r.from \in Nat /\ r.to \in Nat /\ r.from < r.to
        /\ e.from \in Nat /\ e.to \in Nat /\ e.from < e.to
    BY <1>2 DEF Sound, Well
  <2>8. p[1] <= r.from /\ r.to <= p[2]
    BY <2>4, <2>5 DEF Within
  <2>9. ASSUME Meets(r, e) PROVE FALSE
    <3>1. CASE e.from <= r.from
      <4>1. r.from \in Covers(e) /\ r.from \in p[1] .. (p[2] - 1)
        BY <2>3, <2>7, <2>8, <2>9, <3>1 DEF Meets, Covers
      <4> QED BY <2>6, <4>1
    <3>2. CASE r.from < e.from
      <4>1. e.from \in Covers(e) /\ e.from \in p[1] .. (p[2] - 1)
        BY <2>3, <2>7, <2>8, <2>9, <3>2 DEF Meets, Covers
      <4> QED BY <2>6, <4>1
    <3> QED BY <2>7, <3>1, <3>2
  <2> QED BY <2>9
<1> QED BY <1>3, <1>4

\* What a merge is given an exact span or a repeat as, that it chooses from.
LEMMA ExactIsCandidate ==
  ASSUME NEW S, NEW e \in Filtered(S), e.source # "gliner"
  PROVE  e \in Candidates(S)
<1>1. CutBack(e, Exact(Filtered(S))) = {e}
  BY DEF CutBack
<1> QED BY <1>1 DEF Candidates

LEMMA FreeIsCandidate ==
  ASSUME NEW S, NEW s \in Filtered(S), \A e \in Exact(Filtered(S)) : ~Meets(s, e)
  PROVE  s \in Candidates(S)
<1>1. CutBack(s, Exact(Filtered(S))) = {s}
  BY DEF CutBack
<1> QED BY <1>1 DEF Candidates

LEMMA CandidatesHere ==
  ASSUME doc' = doc, text' = text
  PROVE  /\ Candidates(found)' = Candidates(found')
         /\ Swept(merged)' = Swept(merged')
         /\ Candidates(merged \cup Extra)' =
              Candidates(merged' \cup IF SweepOn THEN Swept(merged') ELSE {})
<1>1. Candidates(found)' = Candidates(found')
  BY DEF Candidates, Exact, Filtered, CutBack, Trimmed, PassesRule
<1>2. Swept(merged)' = Swept(merged')
  BY DEF Swept, Repeats, Hits, OccursAt
<1>3. Candidates(merged \cup Extra)' = Candidates((merged \cup Extra)')
  BY DEF Candidates, Exact, Filtered, CutBack, Trimmed, PassesRule
<1> QED BY <1>1, <1>2, <1>3 DEF Extra

\* The sort key puts a longer span first.
LEMMA NotBehindIsAsLong ==
  ASSUME NEW s, NEW r, Well(s), Well(r), ~Precedes(s, r)
  PROVE  Size(r) >= Size(s)
<1>1. Size(s) \in Nat /\ Size(r) \in Nat
  BY DEF Well, Size
<1>2. ASSUME Size(r) < Size(s) PROVE Precedes(s, r)
  <2> DEFINE a == <<Size(r), Rank(r), r.score, s.from>>
             b == <<Size(s), Rank(s), s.score, r.from>>
  <2>1. a[1] < b[1] /\ \A j \in 1 .. (1 - 1) : a[j] = b[j]
    BY <1>2
  <2> HIDE DEF a, b
  <2>2. \E k \in 1 .. 4 : a[k] < b[k] /\ \A j \in 1 .. (k - 1) : a[j] = b[j]
    BY <2>1
  <2> QED BY <2>2 DEF Precedes, a, b
<1> QED BY <1>1, <1>2

\* One turn of the greedy choice.
LEMMA ChooseAnswers ==
  ASSUME Choose, NEW c, Answered(c, pending \cup accepted, accepted),
         \A s \in pending, r \in accepted : ~Precedes(s, r)
  PROVE  Answered(c, (pending \cup accepted)', accepted')
<1>1. PICK s \in pending :
        /\ pending' = pending \ {s}
        /\ accepted' = IF \E r \in accepted : Meets(s, r) THEN accepted ELSE accepted \cup {s}
  BY DEF Choose
<1>2. accepted \subseteq accepted'
  BY <1>1
<1>3. CASE c = s /\ \E r \in accepted : Meets(s, r)
  BY <1>2, <1>3 DEF Answered
<1>4. CASE ~ (c = s /\ \E r \in accepted : Meets(s, r))
  BY <1>1, <1>2, <1>4 DEF Answered
<1> QED BY <1>3, <1>4

LEMMA ChooseOrders ==
  ASSUME Choose, \A s \in pending, r \in accepted : ~Precedes(s, r)
  PROVE  \A s \in pending', r \in accepted' : ~Precedes(s, r)
BY DEF Choose

LEMMA ChoiceInit == DetectInit => ChoiceInvariant
BY DEF DetectInit, ChoiceInvariant

\* Merging again what a merge has returned, and nothing else, returns it.
LEMMA MergedIsFixed ==
  ASSUME Viewed, NEW A, \A s \in A : Sound(s), \A s, r \in A : s # r => ~Meets(s, r)
  PROVE  Candidates(A) \subseteq A
<1> SUFFICES ASSUME NEW r \in Candidates(A) PROVE r \in A
  OBVIOUS
<1>1. \A s \in A : Placed(s)
  BY DEF Sound, Placed
<1>2. PICK s \in A : Within(r, s)
  BY <1>1, CandidateOf
<1>3. Well(r) /\ Well(s)
  BY <1>1, CandidatesFacts DEF Sound
<1>4. Meets(r, s)
  BY <1>2, <1>3 DEF Within, Well, Meets
<1>5. A \cup {} = A
  OBVIOUS
<1>6. \A q \in Candidates(A \cup {}) : q = s \/ ~Meets(q, s)
  BY SecondMerge
<1>7. r = s
  BY <1>4, <1>5, <1>6
<1> QED BY <1>7

LEMMA ChoiceNext ==
  PassInvariant /\ ChoiceInvariant /\ [DetectNext]_vars => ChoiceInvariant'
<1> SUFFICES ASSUME PassInvariant, ChoiceInvariant, [DetectNext]_vars
             PROVE  ChoiceInvariant'
  OBVIOUS
<1>0. /\ Viewed /\ Disjoint
      /\ \A s \in found : Placed(s)
      /\ \A s \in pending \cup accepted : Sound(s)
  BY DEF PassInvariant
<1>1. CASE Cut
  <2>1. /\ found' = found /\ pending' = pending /\ accepted' = accepted
        /\ phase = "cut" /\ phase' \in {"propose", "cut"}
    BY <1>1 DEF Cut
  <2> QED BY <2>1 DEF ChoiceInvariant
<1>2. CASE Propose
  <2>1. /\ phase = "propose" /\ phase' = "propose" /\ pending' = pending
        /\ accepted' = accepted
    BY <1>2 DEF Propose
  <2>2. \A s \in found' : s \in found \/ s.source = "gliner"
    BY <1>2 DEF Propose
  <2> QED BY <2>1, <2>2 DEF ChoiceInvariant
<1>3. CASE Merge
  <2>1. /\ UNCHANGED <<chunkVars, doc>> /\ found' = found \cup Backstops
        /\ pending' = Candidates(found') /\ accepted' = {} /\ phase' = "choose"
    BY <1>3 DEF Merge, ChoiceInvariant
  <2>2. \A s \in Backstops : s.source = "regex"
    BY DEF Backstops
  <2>3. Candidates(found)' = Candidates(found')
    BY <2>1, CandidatesHere DEF chunkVars
  <2> QED BY <2>1, <2>2, <2>3 DEF ChoiceInvariant, Answered
<1>4. CASE Choose
  <2>1. UNCHANGED <<chunkVars, doc, phase, found, merged>> /\ phase \in {"choose", "choose again"}
    BY <1>4 DEF Choose
  <2>2. /\ Candidates(found)' = Candidates(found)
        /\ Candidates(merged \cup Extra)' = Candidates(merged \cup Extra)
    BY <2>1, CandidatesHere DEF chunkVars, Extra
  <2>3. (pending \cup accepted)' \subseteq pending \cup accepted
    BY <1>4 DEF Choose
  <2>4. \A s \in pending', r \in accepted' : ~Precedes(s, r)
    BY <1>4, ChooseOrders DEF ChoiceInvariant
  <2>5. ASSUME NEW c, Answered(c, pending \cup accepted, accepted)
        PROVE  Answered(c, (pending \cup accepted)', accepted')
    BY <1>4, <2>5, ChooseAnswers DEF ChoiceInvariant
  <2>6. CASE phase = "choose"
    <3>1. /\ (pending \cup accepted)' \subseteq Candidates(found)
          /\ \A c \in Candidates(found) : Answered(c, (pending \cup accepted)', accepted')
      BY <2>3, <2>5, <2>6 DEF ChoiceInvariant
    <3>2. (\A c \in Candidates(found) : Answered(c, pending \cup accepted, accepted))'
      BY <2>2, <3>1 DEF Answered
    <3> QED BY <2>1, <2>2, <2>4, <2>6, <3>1, <3>2 DEF ChoiceInvariant
  <2>7. CASE phase = "choose again"
    <3>1. \A c \in Candidates(merged \cup Extra) : Answered(c, (pending \cup accepted)', accepted')
      BY <2>5, <2>7 DEF ChoiceInvariant
    <3>2. (\A c \in Candidates(merged \cup Extra) : Answered(c, pending \cup accepted, accepted))'
      BY <2>2, <3>1 DEF Answered
    <3>3. (\A c \in Candidates(found) : Answered(c, merged, merged))'
      BY <2>1, <2>2, <2>7 DEF ChoiceInvariant, Answered
    <3>4. \A s \in (pending \cup accepted)' : s.source = "gliner" => s \in merged
      BY <2>3, <2>7 DEF ChoiceInvariant
    <3> QED BY <2>1, <2>2, <2>4, <2>7, <3>2, <3>3, <3>4 DEF ChoiceInvariant
  <2> QED BY <2>1, <2>6, <2>7
<1>5. CASE Sweep
  <2>1. /\ UNCHANGED <<chunkVars, doc>> /\ found' = found /\ pending = {} /\ merged' = accepted
        /\ phase = "choose" /\ phase' \in {"choose again", "done"}
    BY <1>5 DEF Sweep
  <2> DEFINE extra == IF SweepOn THEN Swept(accepted) ELSE {}
  <2>2. /\ Candidates(found)' = Candidates(found)
        /\ Candidates(merged \cup Extra)' = Candidates(accepted \cup extra)
    BY <2>1, CandidatesHere DEF chunkVars
  <2>3. /\ accepted \subseteq Candidates(found)
        /\ \A c \in Candidates(found) : Answered(c, accepted, accepted)
    BY <2>1 DEF ChoiceInvariant
  <2>4. (\A c \in Candidates(found) : Answered(c, merged, merged))'
    BY <2>1, <2>2, <2>3 DEF Answered
  <2>5. (merged \subseteq Candidates(found))'
    BY <2>1, <2>2, <2>3
  <2>6. CASE extra = {}
    <3>1. pending' = {} /\ accepted' = accepted
      BY <1>5, <2>1, <2>6 DEF Sweep
    <3>2. Candidates(accepted \cup extra) \subseteq accepted
      <4>1. accepted \cup extra = accepted
        BY <2>6
      <4>2. Candidates(accepted) \subseteq accepted
        BY <1>0, MergedIsFixed DEF Disjoint
      <4> QED BY <4>1, <4>2
    <3> HIDE DEF extra
    <3>3. (\A c \in Candidates(merged \cup Extra) : Answered(c, pending \cup accepted, accepted))'
      BY <2>2, <3>1, <3>2 DEF Answered
    <3> QED BY <2>1, <2>4, <2>5, <3>1, <3>3 DEF ChoiceInvariant
  <2>7. CASE extra # {}
    <3>1. accepted' = {} /\ pending' = Candidates(accepted \cup extra)
      BY <1>5, <2>7 DEF Sweep
    <3>2. \A x \in extra : /\ Placed(x) /\ x.source = "coref"
                           /\ \A q \in accepted : ~Meets(x, q)
      BY <1>0, SweptFacts DEF Sound
    <3> HIDE DEF extra
    <3>3. ASSUME NEW r \in pending', r.source = "gliner" PROVE r \in accepted
      <4>1. \A s \in accepted \cup extra : Placed(s)
        BY <1>0, <3>2 DEF Sound, Placed
      <4>2. PICK s \in accepted \cup extra : r.source = s.source /\ Within(r, s)
        BY <1>0, <3>1, <4>1, CandidateOf
      <4>3. s \in accepted
        BY <3>2, <3>3, <4>2
      <4>4. Well(r) /\ Well(s)
        BY <1>0, <3>1, <4>1, CandidatesFacts DEF Sound, Placed
      <4>5. Meets(r, s)
        BY <4>2, <4>4 DEF Within, Well, Meets
      <4>6. r = s \/ ~Meets(r, s)
        BY <1>0, <3>1, <3>2, <4>3, SecondMerge DEF Disjoint
      <4> QED BY <4>3, <4>5, <4>6
    <3>4. (\A c \in Candidates(merged \cup Extra) : Answered(c, pending \cup accepted, accepted))'
      BY <2>2, <3>1 DEF Answered
    <3> QED BY <2>1, <2>4, <2>5, <3>1, <3>3, <3>4 DEF ChoiceInvariant
  <2> QED BY <2>6, <2>7
<1>6. CASE Finish
  <2>1. UNCHANGED <<chunkVars, doc, found, pending, accepted, merged>>
        /\ phase = "choose again" /\ phase' = "done"
    BY <1>6 DEF Finish
  <2>2. /\ Candidates(found)' = Candidates(found)
        /\ Candidates(merged \cup Extra)' = Candidates(merged \cup Extra)
    BY <2>1, CandidatesHere DEF chunkVars, Extra
  <2> QED BY <2>1, <2>2 DEF ChoiceInvariant, Answered
<1>7. CASE UNCHANGED vars
  <2>1. UNCHANGED <<chunkVars, doc, phase, found, pending, accepted, merged>>
    BY <1>7 DEF vars
  <2>2. /\ Candidates(found)' = Candidates(found)
        /\ Candidates(merged \cup Extra)' = Candidates(merged \cup Extra)
    BY <2>1, CandidatesHere DEF chunkVars, Extra
  <2> QED BY <2>1, <2>2 DEF ChoiceInvariant, Answered
<1> QED BY <1>1, <1>2, <1>3, <1>4, <1>5, <1>6, <1>7 DEF DetectNext

LEMMA ChoiceHolds == DetectSpec => [](PassInvariant /\ ChoiceInvariant)
<1>1. DetectInit => PassInvariant /\ ChoiceInvariant
  BY PassInit, ChoiceInit
<1>2. PassInvariant /\ ChoiceInvariant /\ [DetectNext]_vars
        => PassInvariant' /\ ChoiceInvariant'
  BY PassNext, ChoiceNext
<1> QED BY <1>1, <1>2, PTL DEF DetectSpec

\* The end of a pass holds what its first merge has chosen.
LEMMA AtTheEnd ==
  ASSUME PassInvariant, ChoiceInvariant, phase = "done"
  PROVE  /\ merged \subseteq accepted
         /\ \A s \in accepted : s.source = "gliner" => s \in Candidates(found)
         /\ \A c \in Candidates(found) :
              \/ c \in accepted
              \/ \E r \in accepted : r \in Candidates(found) /\ Meets(c, r) /\ ~Precedes(c, r)
<1>1. merged \subseteq accepted
  BY DEF PassInvariant, Kept
<1>2. /\ merged \subseteq Candidates(found)
      /\ \A c \in Candidates(found) : Answered(c, merged, merged)
      /\ \A s \in pending \cup accepted : s.source = "gliner" => s \in merged
  BY DEF ChoiceInvariant
<1> QED BY <1>1, <1>2 DEF Answered

LEMMA ExactFollows == PassInvariant /\ ChoiceInvariant => ExactStands
<1> SUFFICES ASSUME PassInvariant, ChoiceInvariant, phase = "done",
                    NEW e \in Exact(Filtered(found))
             PROVE  /\ \E r \in Exact(accepted) : r = e \/ (Meets(r, e) /\ Size(r) >= Size(e))
                    /\ \A s \in accepted : s.source = "gliner" => ~Meets(s, e)
  BY DEF ExactStands
<1>1. Viewed /\ \A s \in found : Placed(s)
  BY DEF PassInvariant
<1>2. e \in Filtered(found) /\ e.source = "regex"
  BY DEF Exact
<1>3. e \in Candidates(found)
  BY <1>2, ExactIsCandidate
<1>4. \A s \in accepted : s.source = "gliner" => ~Meets(s, e)
  BY <1>1, AtTheEnd, CutClear
<1>5. CASE e \in accepted
  BY <1>2, <1>4, <1>5 DEF Exact
<1>6. CASE e \notin accepted
  <2>1. PICK r \in accepted : r \in Candidates(found) /\ Meets(e, r) /\ ~Precedes(e, r)
    BY <1>3, <1>6, AtTheEnd
  <2>2. Well(e) /\ Well(r)
    BY <1>1, <1>3, <2>1, CandidatesFacts DEF Sound
  <2>3. Meets(r, e) /\ Size(r) >= Size(e)
    BY <2>1, <2>2, NotBehindIsAsLong DEF Meets
  <2>4. r.source # "gliner"
    BY <1>4, <2>3
  <2>5. r.source \in {"gliner", "regex"}
    BY <1>1, <2>1, CandidateOf DEF ChoiceInvariant
  <2> QED BY <1>4, <2>3, <2>4, <2>5 DEF Exact
<1> QED BY <1>5, <1>6

LEMMA NothingVanishesFollows == PassInvariant /\ ChoiceInvariant => NothingVanishes
<1> SUFFICES ASSUME PassInvariant, ChoiceInvariant, phase = "done", NEW s \in Filtered(found)
             PROVE  Touched(s) \/ \E e \in Exact(Filtered(found)) : Meets(s, e) /\ Touched(e)
  BY DEF NothingVanishes
<1>1. Viewed /\ \A q \in found : Placed(q)
  BY DEF PassInvariant
<1>2. CASE \E e \in Exact(Filtered(found)) : Meets(s, e)
  <2>1. PICK e \in Exact(Filtered(found)) : Meets(s, e)
    BY <1>2
  <2>2. PICK r \in Exact(accepted) : r = e \/ (Meets(r, e) /\ Size(r) >= Size(e))
    BY ExactFollows DEF ExactStands
  <2>3. Well(e)
    BY <1>1, FilteredFacts DEF Exact, Sound
  <2>4. r \in accepted /\ Meets(e, r)
    BY <2>2, <2>3 DEF Exact, Meets, Well
  <2> QED BY <2>1, <2>4 DEF Touched
<1>3. CASE ~ \E e \in Exact(Filtered(found)) : Meets(s, e)
  <2>1. s \in Candidates(found)
    BY <1>3, FreeIsCandidate
  <2>2. Meets(s, s)
    BY <1>1, FilteredFacts DEF Sound, Well, Meets
  <2> QED BY <2>1, <2>2, AtTheEnd DEF Touched
<1> QED BY <1>2, <1>3

\* A proven boundary stands: an exact span that passed the filters is accepted, or
\* one at least as long that overlaps it and is exact too, and no span of the model
\* reaches into it (merge.py: _trim_to_exact_spans, merge_spans).
THEOREM ProvenBoundaries == DetectSpec => []ExactStands
BY ExactFollows, ChoiceHolds, PTL

\* The greedy choice, the cut and the second merge lose no detection without trace:
\* what passed the filters overlaps an accepted span, itself or by the exact span it
\* ran into (merge.py: merge_spans, resolve_spans).
THEOREM DetectionsLeaveATrace == DetectSpec => []NothingVanishes
BY NothingVanishesFollows, ChoiceHolds, PTL

-----------------------------------------------------------------------------
(* Every repetition of a replaced word.                                    *)

\* A function that is defined by itself at larger arguments, up to a last one,
\* exists.
LEMMA BackwardFunction ==
  ASSUME NEW L \in Nat, NEW add, NEW go \in [0 .. L -> Nat]
  PROVE  \E f : f = [pos \in 0 .. L |-> IF pos < go[pos] /\ go[pos] <= L
                                        THEN add[pos] \cup f[go[pos]] ELSE add[pos]]
<1> DEFINE E(f, pos) == IF pos < go[pos] /\ go[pos] <= L
                        THEN add[pos] \cup f[go[pos]] ELSE add[pos]
           Good(d, g) == g = [pos \in (L - d) .. L |-> E(g, pos)]
           Bad == {d \in 0 .. L : \A g : ~Good(d, g)}
<1>1. CASE Bad = {}
  <2>1. L \in 0 .. L
    OBVIOUS
  <2>2. PICK g : Good(L, g)
    <3> HIDE DEF Good
    <3> QED BY <1>1, <2>1
  <2>3. (L - L) .. L = 0 .. L
    OBVIOUS
  <2>4. g = [pos \in 0 .. L |-> E(g, pos)]
    BY <2>2, <2>3
  <2> QED BY <2>4, Zenon
<1>2. CASE Bad # {}
  <2>1. PICK d \in Bad : \A e \in Bad : d <= e
    <3>1. Bad \in SUBSET Nat
      OBVIOUS
    <3> HIDE DEF Bad
    <3> QED BY <1>2, <3>1, SmallestExists
  <2>2. d \in 0 .. L /\ \A g : ~Good(d, g)
    OBVIOUS
  <2>3. CASE d = 0
    <3> DEFINE g == [pos \in L .. L |-> add[pos]]
    <3>1. \A pos \in L .. L : pos = L /\ go[pos] \in Nat /\ ~(pos < go[pos] /\ go[pos] <= L)
      OBVIOUS
    <3>2. Good(0, g)
      BY <3>1
    <3> QED BY <2>2, <2>3, <3>2
  <2>4. CASE d # 0
    <3>1. d - 1 \in 0 .. L /\ d - 1 \notin Bad
      BY <2>1, <2>2, <2>4
    <3>2. PICK g : Good(d - 1, g)
      BY <3>1
    <3> DEFINE h == [pos \in (L - d) .. L |-> IF pos = L - d THEN E(g, pos) ELSE g[pos]]
    <3>3. \A pos \in (L - d) .. L : pos = L - d \/ pos \in (L - (d - 1)) .. L
      BY <2>2
    <3>4. \A p \in (L - (d - 1)) .. L : p \in (L - d) .. L /\ p # L - d /\ h[p] = g[p]
      BY <2>2
    <3>5. \A pos \in (L - d) .. L : pos < go[pos] /\ go[pos] <= L =>
              go[pos] \in (L - (d - 1)) .. L
      BY <2>2
    <3>6. \A pos \in (L - d) .. L : E(h, pos) = E(g, pos)
      <4> HIDE DEF h
      <4> QED BY <3>4, <3>5
    <3>7. \A pos \in (L - (d - 1)) .. L : g[pos] = E(g, pos)
      BY <3>2
    <3>8. \A pos \in (L - d) .. L : (IF pos = L - d THEN E(g, pos) ELSE g[pos]) = E(h, pos)
      <4> HIDE DEF h, E
      <4> QED BY <3>3, <3>6, <3>7
    <3>9. Good(d, h)
      BY <3>8
    <3> QED BY <2>2, <3>9
  <2> QED BY <2>3, <2>4
<1> QED BY <1>1, <1>2

Found(word, mode, pos) == {i \in pos .. (Len(text) - Len(word)) : OccursAt(word, mode, i)}


LEMMA FoundFirst ==
  ASSUME text \in Seq(Chars), NEW word, Len(word) \in Nat \ {0}, NEW mode,
         NEW pos \in 0 .. Len(text), Found(word, mode, pos) # {}
  PROVE  LET first == Min(Found(word, mode, pos)) IN
           /\ first \in Found(word, mode, pos)
           /\ \A k \in Found(word, mode, pos) : first <= k
           /\ first \in Nat /\ pos <= first /\ first + Len(word) \in 0 .. Len(text)
<1>1. Len(text) \in Nat
  OBVIOUS
<1>2. Found(word, mode, pos) \subseteq pos .. (Len(text) - Len(word))
  BY DEF Found
<1>3. Found(word, mode, pos) \in SUBSET Nat
  BY <1>1, <1>2
<1>4. /\ Min(Found(word, mode, pos)) \in Found(word, mode, pos)
      /\ \A k \in Found(word, mode, pos) : Min(Found(word, mode, pos)) <= k
  BY <1>3, SmallestExists DEF Min
<1> QED BY <1>1, <1>2, <1>4

\* The search for hits is a function of where it begins.
LEMMA HitsRecur ==
  ASSUME text \in Seq(Chars), NEW word, Len(word) \in Nat \ {0}, NEW mode
  PROVE  \E F :
           /\ Hits(word, mode) = F[0] \cap (0 .. (Len(text) - Len(word)))
           /\ \A pos \in 0 .. Len(text) :
                F[pos] = IF Found(word, mode, pos) = {} THEN {}
                         ELSE {Min(Found(word, mode, pos))}
                                \cup F[Min(Found(word, mode, pos)) + Len(word)]
<1> DEFINE L == Len(text)
           First(pos) == Min(Found(word, mode, pos))
           Body(f, pos) == IF Found(word, mode, pos) = {} THEN {}
                           ELSE {First(pos)} \cup f[First(pos) + Len(word)]
           Is(f) == f = [pos \in 0 .. L |-> Body(f, pos)]
           go == [pos \in 0 .. L |->
                    IF Found(word, mode, pos) = {} THEN 0 ELSE First(pos) + Len(word)]
           add == [pos \in 0 .. L |->
                    IF Found(word, mode, pos) = {} THEN {} ELSE {First(pos)}]
<1>1. L \in Nat
  OBVIOUS
<1>2. ASSUME NEW pos \in 0 .. L, Found(word, mode, pos) # {}
      PROVE  First(pos) + Len(word) \in 0 .. L /\ pos < First(pos) + Len(word)
  BY <1>2, FoundFirst
<1>3. \E f : Is(f)
  <2>1. go \in [0 .. L -> Nat]
    BY <1>1, <1>2
  <2>2. PICK f : f = [pos \in 0 .. L |-> IF pos < go[pos] /\ go[pos] <= L
                                         THEN add[pos] \cup f[go[pos]] ELSE add[pos]]
    <3> HIDE DEF go, add, L
    <3> QED BY <1>1, <2>1, BackwardFunction
  <2>3. ASSUME NEW pos \in 0 .. L
        PROVE  (IF pos < go[pos] /\ go[pos] <= L THEN add[pos] \cup f[go[pos]] ELSE add[pos])
                 = Body(f, pos)
    <3>1. CASE Found(word, mode, pos) = {}
      <4>1. go[pos] = 0 /\ add[pos] = {}
        BY <3>1
      <4> HIDE DEF go, add, First
      <4> QED BY <1>1, <3>1, <4>1
    <3>2. CASE Found(word, mode, pos) # {}
      <4>1. go[pos] = First(pos) + Len(word) /\ add[pos] = {First(pos)}
        BY <3>2
      <4>2. pos < go[pos] /\ go[pos] <= L
        BY <1>1, <1>2, <3>2, <4>1
      <4> HIDE DEF go, add, First, L
      <4> QED BY <3>2, <4>1, <4>2
    <3> QED BY <3>1, <3>2
  <2> HIDE DEF go, add, Body
  <2>4. Is(f)
    BY <2>2, <2>3
  <2> QED BY <2>4, Zenon
<1> DEFINE F == CHOOSE f : Is(f)
<1>4. Is(F)
  <2> HIDE DEF Is
  <2> QED BY <1>3, Zenon
<1>5. Hits(word, mode) = F[0] \cap (0 .. (Len(text) - Len(word)))
  BY DEF Hits, Found
<1>6. \A pos \in 0 .. L : F[pos] = Body(F, pos)
  <2> HIDE DEF F, Body
  <2> QED BY <1>4
<1> QED
  <2> HIDE DEF F
  <2> QED BY <1>5, <1>6

\* An occurrence that no other overlaps from the left is a hit.
LEMMA HitUnlessOverlapped ==
  ASSUME text \in Seq(Chars), NEW word, Len(word) \in Nat \ {0}, NEW mode,
         NEW i \in 0 .. (Len(text) - Len(word)), OccursAt(word, mode, i),
         \A k \in 0 .. (i - 1) : k + Len(word) > i => ~OccursAt(word, mode, k)
  PROVE  i \in Hits(word, mode)
<1>1. PICK F :
        /\ Hits(word, mode) = F[0] \cap (0 .. (Len(text) - Len(word)))
        /\ \A pos \in 0 .. Len(text) :
             F[pos] = IF Found(word, mode, pos) = {} THEN {}
                      ELSE {Min(Found(word, mode, pos))}
                             \cup F[Min(Found(word, mode, pos)) + Len(word)]
  BY HitsRecur
<1>2. Len(text) \in Nat /\ i \in Nat /\ i <= Len(text)
  OBVIOUS
<1> DEFINE Missed == {d \in 0 .. i : i \notin F[i - d]}
<1>3. ASSUME NEW d \in 0 .. i, \A e \in Missed : d <= e
      PROVE  i \in F[i - d]
  <2> DEFINE pos == i - d
             first == Min(Found(word, mode, pos))
  <2>1. pos \in 0 .. Len(text) /\ pos <= i
    BY <1>2
  <2>2. i \in Found(word, mode, pos)
    BY <1>2, <2>1 DEF Found
  <2> HIDE DEF pos
  <2>3. /\ first \in Found(word, mode, pos) /\ first <= i
        /\ first \in Nat /\ pos <= first /\ first + Len(word) \in 0 .. Len(text)
    BY <2>1, <2>2, FoundFirst
  <2>4. F[pos] = {first} \cup F[first + Len(word)]
    BY <1>1, <2>1, <2>2
  <2>5. CASE first = i
    BY <2>4, <2>5 DEF pos
  <2>6. CASE first # i
    <3>1. OccursAt(word, mode, first)
      BY <2>3 DEF Found
    <3>2. first \in 0 .. (i - 1) /\ ~ (first + Len(word) > i)
      BY <1>2, <2>3, <2>6, <3>1
    <3>3. first + Len(word) <= i /\ pos < first + Len(word)
      BY <1>2, <2>1, <2>3, <3>2
    <3>4. /\ i - (first + Len(word)) \in 0 .. i
          /\ i - (first + Len(word)) < d
          /\ i - (i - (first + Len(word))) = first + Len(word)
      <4> HIDE DEF first
      <4> QED BY <1>2, <2>3, <3>3 DEF pos
    <3>5. i \in F[first + Len(word)]
      <4>1. i - (first + Len(word)) \notin Missed
        <5> HIDE DEF Missed, first
        <5> QED BY <1>3, <3>4
      <4> HIDE DEF first
      <4> QED BY <3>4, <4>1
    <3> QED BY <2>4, <3>5 DEF pos
  <2> QED BY <2>5, <2>6
<1>4. Missed = {}
  <2> SUFFICES ASSUME Missed # {} PROVE FALSE
    OBVIOUS
  <2>1. Missed \in SUBSET Nat
    OBVIOUS
  <2>2. PICK d \in Missed : \A e \in Missed : d <= e
    <3> HIDE DEF Missed
    <3> QED BY <2>1, SmallestExists
  <2> QED BY <1>3, <2>2
<1>5. i \in F[0]
  <2>1. i \in 0 .. i /\ i - i = 0
    BY <1>2
  <2>2. i \in F[i - i]
    BY <1>4, <2>1
  <2> QED BY <2>1, <2>2
<1> QED BY <1>1, <1>5

-----------------------------------------------------------------------------
(* What a backstop claims, its gate has let pass.                          *)

Ends(p, i) == {e \in (i + 1) .. Len(text) : Matches(p, i, e)}
Begins(p, pos) == {i \in pos .. (Len(text) - 1) : Ends(p, i) # {}}
Passing(p, i) ==
  {e \in {Max(Ends(p, i))} \cup {k \in (i + 1) .. (Max(Ends(p, i)) - 1) : At(text, k) \in Joints} :
     Slice(text, i, e) \in p.gate}

LEMMA ClaimFirst ==
  ASSUME text \in Seq(Chars), NEW p, NEW pos \in 0 .. Len(text), Begins(p, pos) # {}
  PROVE  LET i == Min(Begins(p, pos)) IN
           /\ i \in Nat /\ pos <= i /\ i < Len(text)
           /\ Passing(p, i) # {} =>
                /\ Max(Passing(p, i)) \in (i + 1) .. Len(text)
                /\ Slice(text, i, Max(Passing(p, i))) \in p.gate
<1> DEFINE i == Min(Begins(p, pos))
<1>1. Len(text) \in Nat
  OBVIOUS
<1>2. Begins(p, pos) \in SUBSET Nat
  BY <1>1 DEF Begins
<1>3. i \in Begins(p, pos)
  BY <1>2, SmallestExists DEF Min
<1> HIDE DEF i
<1>4. i \in Nat /\ pos <= i /\ i < Len(text) /\ Ends(p, i) # {}
  BY <1>1, <1>3 DEF Begins
<1>5. Ends(p, i) \in SUBSET (0 .. Len(text))
  BY <1>1, <1>4 DEF Ends
<1>6. Max(Ends(p, i)) \in Ends(p, i)
  <2>1. \E e \in Ends(p, i) : \A f \in Ends(p, i) : f <= e
    BY <1>1, <1>4, <1>5, LastExists
  <2>2. \E e \in Ends(p, i) : \A f \in Ends(p, i) : e >= f
    BY <1>1, <1>5, <2>1
  <2> QED BY <2>2 DEF Max
<1>7. Max(Ends(p, i)) \in (i + 1) .. Len(text)
  BY <1>6 DEF Ends
<1>8. Passing(p, i) \subseteq (i + 1) .. Len(text)
  BY <1>1, <1>4, <1>7 DEF Passing
<1>9. ASSUME Passing(p, i) # {} PROVE Max(Passing(p, i)) \in Passing(p, i)
  <2>1. Passing(p, i) \in SUBSET (0 .. Len(text))
    BY <1>1, <1>4, <1>8
  <2>2. \E e \in Passing(p, i) : \A f \in Passing(p, i) : f <= e
    BY <1>1, <1>9, <2>1, LastExists
  <2>3. \E e \in Passing(p, i) : \A f \in Passing(p, i) : e >= f
    BY <1>1, <2>1, <2>2
  <2> QED BY <2>3 DEF Max
<1>10. ASSUME Passing(p, i) # {}
       PROVE  /\ Max(Passing(p, i)) \in (i + 1) .. Len(text)
              /\ Slice(text, i, Max(Passing(p, i))) \in p.gate
  BY <1>8, <1>9, <1>10 DEF Passing
<1> QED BY <1>4, <1>10 DEF i

LEMMA ClaimsRecur ==
  ASSUME text \in Seq(Chars), NEW p
  PROVE  \E F :
           /\ Claimed(p) \subseteq F[0]
           /\ \A pos \in 0 .. Len(text) :
                LET i == Min(Begins(p, pos)) IN
                F[pos] = IF Begins(p, pos) = {} THEN {}
                         ELSE IF Passing(p, i) = {} THEN F[i + 1]
                         ELSE {<<i, Max(Passing(p, i))>>} \cup F[Max(Passing(p, i))]
<1> DEFINE L == Len(text)
           First(pos) == Min(Begins(p, pos))
           LastPassing(pos) == Max(Passing(p, First(pos)))
           Body(f, pos) == IF Begins(p, pos) = {} THEN {}
                           ELSE IF Passing(p, First(pos)) = {} THEN f[First(pos) + 1]
                           ELSE {<<First(pos), LastPassing(pos)>>} \cup f[LastPassing(pos)]
           Is(f) == f = [pos \in 0 .. L |-> Body(f, pos)]
           go == [pos \in 0 .. L |->
                    IF Begins(p, pos) = {} THEN 0
                    ELSE IF Passing(p, First(pos)) = {} THEN First(pos) + 1 ELSE LastPassing(pos)]
           add == [pos \in 0 .. L |->
                    IF Begins(p, pos) = {} THEN {}
                    ELSE IF Passing(p, First(pos)) = {} THEN {}
                    ELSE {<<First(pos), LastPassing(pos)>>}]
<1>1. L \in Nat
  OBVIOUS
<1>2. ASSUME NEW pos \in 0 .. L, Begins(p, pos) # {}
      PROVE  /\ First(pos) + 1 \in 0 .. L /\ pos < First(pos) + 1
             /\ Passing(p, First(pos)) # {} => LastPassing(pos) \in 0 .. L /\ pos < LastPassing(pos)
  <2>1. /\ First(pos) \in Nat /\ pos <= First(pos) /\ First(pos) < L
        /\ Passing(p, First(pos)) # {} => LastPassing(pos) \in (First(pos) + 1) .. L
    BY <1>2, ClaimFirst
  <2> HIDE DEF First, LastPassing, L
  <2> QED BY <1>1, <2>1
<1>3. \E f : Is(f)
  <2>1. go \in [0 .. L -> Nat]
    <3>1. \A pos \in 0 .. L :
            (IF Begins(p, pos) = {} THEN 0
             ELSE IF Passing(p, First(pos)) = {} THEN First(pos) + 1 ELSE LastPassing(pos)) \in Nat
      <4> HIDE DEF First, LastPassing, L
      <4> QED BY <1>1, <1>2
    <3> QED BY <3>1
  <2>2. PICK f : f = [pos \in 0 .. L |-> IF pos < go[pos] /\ go[pos] <= L
                                         THEN add[pos] \cup f[go[pos]] ELSE add[pos]]
    <3> HIDE DEF go, add, L
    <3> QED BY <1>1, <2>1, BackwardFunction
  <2>3. ASSUME NEW pos \in 0 .. L
        PROVE  (IF pos < go[pos] /\ go[pos] <= L THEN add[pos] \cup f[go[pos]] ELSE add[pos])
                 = Body(f, pos)
    <3>1. CASE Begins(p, pos) = {}
      <4>1. go[pos] = 0 /\ add[pos] = {}
        BY <3>1
      <4> HIDE DEF go, add, First, LastPassing
      <4> QED BY <1>1, <3>1, <4>1
    <3>2. CASE Begins(p, pos) # {} /\ Passing(p, First(pos)) = {}
      <4>1. go[pos] = First(pos) + 1 /\ add[pos] = {}
        BY <3>2
      <4>2. pos < go[pos] /\ go[pos] <= L
        BY <1>1, <1>2, <3>2, <4>1
      <4> HIDE DEF go, add, First, LastPassing, L
      <4> QED BY <3>2, <4>1, <4>2
    <3>3. CASE Begins(p, pos) # {} /\ Passing(p, First(pos)) # {}
      <4>1. go[pos] = LastPassing(pos) /\ add[pos] = {<<First(pos), LastPassing(pos)>>}
        BY <3>3
      <4>2. pos < go[pos] /\ go[pos] <= L
        BY <1>1, <1>2, <3>3, <4>1
      <4> HIDE DEF go, add, First, LastPassing, L
      <4> QED BY <3>3, <4>1, <4>2
    <3> QED BY <3>1, <3>2, <3>3
  <2> HIDE DEF go, add, Body
  <2>4. Is(f)
    BY <2>2, <2>3
  <2> QED BY <2>4, Zenon
<1> DEFINE F == CHOOSE f : Is(f)
<1>4. Is(F)
  <2> HIDE DEF Is
  <2> QED BY <1>3, Zenon
<1>5. Claimed(p) \subseteq F[0]
  BY DEF Claimed, Ends, Begins, Passing
<1>6. \A pos \in 0 .. L : F[pos] = Body(F, pos)
  <2> HIDE DEF F, Body
  <2> QED BY <1>4
<1> QED
  <2> HIDE DEF F
  <2> QED BY <1>5, <1>6

LEMMA ClaimedPasses ==
  ASSUME text \in Seq(Chars), NEW p, NEW m \in Claimed(p)
  PROVE  Slice(text, m[1], m[2]) \in p.gate
<1> SUFFICES ASSUME Slice(text, m[1], m[2]) \notin p.gate PROVE FALSE
  OBVIOUS
<1>1. PICK F :
        /\ Claimed(p) \subseteq F[0]
        /\ \A pos \in 0 .. Len(text) :
             LET i == Min(Begins(p, pos)) IN
             F[pos] = IF Begins(p, pos) = {} THEN {}
                      ELSE IF Passing(p, i) = {} THEN F[i + 1]
                      ELSE {<<i, Max(Passing(p, i))>>} \cup F[Max(Passing(p, i))]
  BY ClaimsRecur
<1> DEFINE holding == {d \in 0 .. Len(text) : m \in F[Len(text) - d]}
<1>2. Len(text) \in Nat
  OBVIOUS
<1>3. Len(text) \in holding
  BY <1>1, <1>2
<1>4. PICK d \in holding : \A e \in holding : d <= e
  <2>1. holding \in SUBSET Nat
    OBVIOUS
  <2> HIDE DEF holding
  <2> QED BY <1>3, <2>1, SmallestExists
<1> DEFINE pos == Len(text) - d
           i == Min(Begins(p, pos))
           e == Max(Passing(p, i))
<1>5. pos \in 0 .. Len(text) /\ m \in F[pos]
  BY <1>2
<1>6. ASSUME NEW q \in 0 .. Len(text), pos < q PROVE m \notin F[q]
  <2>1. /\ Len(text) - q \in 0 .. Len(text) /\ Len(text) - q < d
        /\ Len(text) - (Len(text) - q) = q /\ d \in Nat
    BY <1>2, <1>6
  <2>2. Len(text) - q \notin holding
    <3> HIDE DEF holding
    <3> QED BY <1>2, <1>4, <2>1
  <2> QED BY <2>1, <2>2
<1> HIDE DEF pos, holding
<1>7. Begins(p, pos) # {}
  BY <1>1, <1>5
<1>8. /\ i \in Nat /\ pos <= i /\ i < Len(text)
      /\ Passing(p, i) # {} =>
           /\ e \in (i + 1) .. Len(text)
           /\ Slice(text, i, e) \in p.gate
  BY <1>5, <1>7, ClaimFirst
<1>9. /\ F[pos] = IF Passing(p, i) = {} THEN F[i + 1] ELSE {<<i, e>>} \cup F[e]
      /\ i + 1 \in 0 .. Len(text) /\ pos < i + 1
      /\ Passing(p, i) # {} => e \in 0 .. Len(text) /\ pos < e
  <2>1. F[pos] = IF Passing(p, i) = {} THEN F[i + 1] ELSE {<<i, e>>} \cup F[e]
    BY <1>1, <1>5, <1>7
  <2> HIDE DEF i, e
  <2> QED BY <1>2, <1>5, <1>8, <2>1
<1> HIDE DEF i, e
<1> QED BY <1>5, <1>6, <1>8, <1>9

-----------------------------------------------------------------------------
(* Trimming leaves something of a repeat.                                  *)

\* There is a character not trimmed in front, and none trimmed behind from it on.
Solid(t) ==
  \E j, k \in DOMAIN t : j <= k /\ t[j] \notin LeadingTrim /\ t[k] \notin TrailingTrim

LEMMA CoreReaches ==
  ASSUME NEW t \in Seq(Chars), NEW lead, NEW trail,
         NEW j \in 1 .. Len(t), NEW k \in 1 .. Len(t), j <= k,
         t[j] \notin lead, t[k] \notin trail
  PROVE  /\ Core(t, lead, trail) # {}
         /\ \A c \in Core(t, lead, trail) : c[1] < j /\ k <= c[2]
<1> DEFINE n == Len(t)
           heads == {x \in 1 .. n : t[x] \notin lead}
           tails == {x \in 1 .. n : t[x] \notin trail}
<1>1. n \in Nat
  OBVIOUS
<1>2. PICK f \in heads : \A x \in heads : f <= x
  <2>1. heads \in SUBSET Nat /\ heads # {}
    OBVIOUS
  <2> HIDE DEF heads
  <2> QED BY <2>1, SmallestExists
<1>3. PICK l \in tails : \A x \in tails : x <= l
  <2>1. tails \in SUBSET (0 .. n) /\ tails # {}
    OBVIOUS
  <2> HIDE DEF tails, n
  <2> QED BY <1>1, <2>1, LastExists
<1>4. /\ f \in 1 .. n /\ l \in 1 .. n /\ f <= j /\ k <= l
      /\ t[f] \notin lead /\ t[l] \notin trail
  BY <1>2, <1>3
<1>5. /\ \A x \in 1 .. (f - 1) : t[x] \in lead
      /\ \A x \in (l + 1) .. n : t[x] \in trail
  <2>1. \A x \in 1 .. (f - 1) : x \in 1 .. n /\ ~ (f <= x)
    BY <1>1, <1>4
  <2>2. \A x \in (l + 1) .. n : x \in 1 .. n /\ ~ (x <= l)
    BY <1>1, <1>4
  <2> QED BY <1>2, <1>3, <2>1, <2>2
<1>6. <<f - 1, l>> \in Core(t, lead, trail)
  <2> DEFINE c == <<f - 1, l>>
  <2>1. /\ c[1] = f - 1 /\ c[2] = l /\ c[1] + 1 = f
        /\ c \in (0 .. n) \X (0 .. n) /\ c[1] < c[2]
    BY <1>1, <1>4
  <2> HIDE DEF c
  <2>2. c \in Core(t, lead, trail)
    BY <1>4, <1>5, <2>1 DEF Core
  <2> QED BY <2>2 DEF c
<1>7. ASSUME NEW c \in Core(t, lead, trail) PROVE c[1] < j /\ k <= c[2]
  <2>1. /\ c[1] \in Nat /\ c[2] \in Nat
        /\ \A x \in 1 .. c[1] : t[x] \in lead
        /\ \A x \in (c[2] + 1) .. Len(t) : t[x] \in trail
    BY DEF Core
  <2> QED BY <2>1
<1> QED BY <1>6, <1>7

LEMMA SurfaceSolid ==
  ASSUME NEW s, Well(s), Solid(s.text)
  PROVE  /\ Surface(s) \in Seq(Chars)
         /\ Solid(Surface(s))
<1> DEFINE whole == Core(s.text, Blanks, Blanks)
<1>1. s.text \in Seq(Chars) /\ DOMAIN s.text = 1 .. Len(s.text)
  BY DEF Well
<1>2. PICK j \in 1 .. Len(s.text), k \in 1 .. Len(s.text) :
        j <= k /\ s.text[j] \notin LeadingTrim /\ s.text[k] \notin TrailingTrim
  BY <1>1 DEF Solid
<1>3. s.text[j] \notin Blanks /\ s.text[k] \notin Blanks
  BY <1>2 DEF LeadingTrim, TrailingTrim
<1>4. whole # {} /\ \A c \in whole : c[1] < j /\ k <= c[2]
  BY <1>1, <1>2, <1>3, CoreReaches
<1> DEFINE c == CHOOSE c \in whole : TRUE
<1>5. c \in whole
  BY <1>4
<1>6. Surface(s) = Slice(s.text, c[1], c[2])
  BY <1>4 DEF Surface
<1>7. c[1] \in Nat /\ c[2] \in Nat /\ c[1] < c[2] /\ c[2] <= Len(s.text)
  BY <1>1, <1>5, CoreFacts
<1>8. PICK a \in Nat, b \in Nat :
        /\ a < b /\ b <= Len(s.text) /\ a < j /\ k <= b
        /\ Surface(s) = Slice(s.text, a, b)
  <2> HIDE DEF c
  <2> QED BY <1>4, <1>5, <1>6, <1>7
<1>9. /\ Surface(s) \in Seq(Chars) /\ Len(Surface(s)) = b - a
      /\ \A x \in 1 .. (b - a) : Surface(s)[x] = s.text[a + x]
  <2> DEFINE part == Slice(s.text, a, b)
  <2>1. /\ part \in Seq(Chars) /\ Len(part) = b - a
        /\ \A x \in 1 .. (b - a) : part[x] = s.text[a + x]
    BY <1>1, <1>8, SliceFacts
  <2>2. Surface(s) = part
    BY <1>8
  <2> HIDE DEF part
  <2> QED BY <2>1, <2>2
<1>10. Solid(Surface(s))
  <2>1. /\ j - a \in 1 .. (b - a) /\ k - a \in 1 .. (b - a)
        /\ j - a <= k - a
        /\ a + (j - a) = j /\ a + (k - a) = k
    BY <1>2, <1>8
  <2>2. DOMAIN Surface(s) = 1 .. (b - a)
    BY <1>9
  <2>3. Surface(s)[j - a] = s.text[j] /\ Surface(s)[k - a] = s.text[k]
    BY <1>9, <2>1
  <2> QED BY <1>2, <2>1, <2>2, <2>3 DEF Solid
<1> QED BY <1>9, <1>10

LEMMA SurfaceWithin ==
  ASSUME NEW s, Well(s)
  PROVE  Len(Surface(s)) <= Len(s.text)
<1> DEFINE whole == Core(s.text, Blanks, Blanks)
<1>1. s.text \in Seq(Chars) /\ Len(s.text) \in Nat
  BY DEF Well
<1>2. CASE whole = {}
  BY <1>1, <1>2 DEF Surface
<1>3. CASE whole # {}
  <2> DEFINE c == CHOOSE c \in whole : TRUE
  <2>1. c \in whole
    BY <1>3
  <2> HIDE DEF c
  <2>2. c[1] \in Nat /\ c[2] \in Nat /\ c[1] < c[2] /\ c[2] <= Len(s.text)
    BY <1>1, <2>1, CoreFacts
  <2>3. Len(Slice(s.text, c[1], c[2])) = c[2] - c[1]
    BY <1>1, <2>2, SliceFacts
  <2>4. Surface(s) = Slice(s.text, c[1], c[2])
    BY <1>3 DEF Surface, c
  <2> QED BY <1>1, <2>2, <2>3, <2>4
<1> QED BY <1>2, <1>3

\* Letters of either case are not trimmed.
LEMMA FoldSolid ==
  ASSUME NEW t \in Seq(Chars), NEW u \in Seq(Chars), Fold(t) = Fold(u), Solid(t)
  PROVE  Solid(u)
<1>1. DOMAIN t = DOMAIN u
  <2>1. DOMAIN Fold(t) = DOMAIN t /\ DOMAIN Fold(u) = DOMAIN u
    BY DEF Fold
  <2> QED BY <2>1
<1>2. ASSUME NEW x \in DOMAIN t
      PROVE  /\ t[x] \notin LeadingTrim => u[x] \notin LeadingTrim
             /\ t[x] \notin TrailingTrim => u[x] \notin TrailingTrim
  <2>1. /\ Fold(t)[x] = IF t[x] = "A" THEN "a" ELSE IF t[x] = "B" THEN "b" ELSE t[x]
        /\ Fold(u)[x] = IF u[x] = "A" THEN "a" ELSE IF u[x] = "B" THEN "b" ELSE u[x]
    BY <1>1 DEF Fold
  <2> QED BY <2>1 DEF LeadingTrim, TrailingTrim, Blanks
<1> QED BY <1>1, <1>2 DEF Solid

LEMMA SliceOfSlice ==
  ASSUME NEW t \in Seq(Chars), NEW a \in Nat, NEW b \in Nat, a < b, b <= Len(t),
         NEW c \in Nat, NEW d \in Nat, c < d, d <= b - a
  PROVE  Slice(Slice(t, a, b), c, d) = Slice(t, a + c, a + d)
<1> DEFINE u == Slice(t, a, b)
<1>1. /\ u \in Seq(Chars) /\ Len(u) = b - a
      /\ \A i \in 1 .. (b - a) : u[i] = t[a + i]
  BY SliceFacts
<1> HIDE DEF u
<1>2. Slice(u, c, d) = [i \in 1 .. (d - c) |-> u[c + i]]
  BY <1>1, SliceFacts
<1>3. /\ a + c \in Nat /\ a + d \in Nat /\ a + c < a + d /\ a + d <= Len(t)
      /\ (a + d) - (a + c) = d - c
  OBVIOUS
<1>4. Slice(t, a + c, a + d) = [i \in 1 .. (d - c) |-> t[a + c + i]]
  <2> DEFINE from == a + c
             to == a + d
  <2>1. from \in Nat /\ to \in Nat /\ from < to /\ to <= Len(t) /\ to - from = d - c
    BY <1>3
  <2> HIDE DEF from, to
  <2>2. Slice(t, from, to) = [i \in 1 .. (d - c) |-> t[from + i]]
    BY <2>1, SliceFacts
  <2> QED BY <2>2 DEF from, to
<1>5. \A i \in 1 .. (d - c) : u[c + i] = t[a + c + i]
  <2> SUFFICES ASSUME NEW i \in 1 .. (d - c) PROVE u[c + i] = t[a + c + i]
    OBVIOUS
  <2>1. c + i \in 1 .. (b - a) /\ a + (c + i) = a + c + i
    OBVIOUS
  <2> QED BY <1>1, <2>1
<1> QED BY <1>2, <1>4, <1>5 DEF u

\* What the second merge makes of a repeat.
LEMMA RepeatIsCandidate ==
  ASSUME Viewed, NEW S, NEW r \in S, Well(r), r.source = "coref", r.to <= Len(doc),
         r.text = Slice(doc, r.from, r.to), Covers(r) \cap Hidden(doc) = {},
         OverFloor(r), Solid(r.text)
  PROVE  \E c \in Candidates(S) : Well(c) /\ Within(c, r)
<1>1. /\ r.from \in Nat /\ r.to \in Nat /\ r.from < r.to
      /\ r.text \in Seq(Chars) /\ Len(r.text) = r.to - r.from
      /\ doc \in Seq(Chars)
  BY DEF Well, Viewed
<1>2. PICK j \in 1 .. Len(r.text), k \in 1 .. Len(r.text) :
        j <= k /\ r.text[j] \notin LeadingTrim /\ r.text[k] \notin TrailingTrim
  BY <1>1 DEF Solid
<1>3. PICK p \in Core(r.text, LeadingTrim, TrailingTrim) : TRUE
  BY <1>1, <1>2, CoreReaches
<1> DEFINE a == r.from + p[1]
           b == r.from + p[2]
           c == Narrowed(r, a, b)
<1>4. p[1] \in Nat /\ p[2] \in Nat /\ p[1] < p[2] /\ p[2] <= Len(r.text)
  BY <1>1, <1>3, CoreFacts
<1>5. /\ a \in Nat /\ b \in Nat /\ r.from <= a /\ a < b /\ b <= r.to
      /\ a - r.from = p[1] /\ b - r.from = p[2]
  BY <1>1, <1>4
<1>6. Well(c) /\ Within(c, r)
  <2> HIDE DEF a, b
  <2> QED BY <1>5, NarrowedFacts
<1>7. c.from = a /\ c.to = b /\ c.source = "coref" /\ c.text = Slice(r.text, p[1], p[2])
  BY <1>5 DEF Narrowed
<1>8. c.text = Slice(doc, c.from, c.to)
  <2>1. Slice(Slice(doc, r.from, r.to), p[1], p[2]) = Slice(doc, r.from + p[1], r.from + p[2])
    BY <1>1, <1>4, SliceOfSlice
  <2> QED BY <1>7, <2>1
<1>9. c \in Trimmed(r)
  BY <1>3, <1>8 DEF Trimmed
<1>10. PassesRule(c) /\ Covers(c) \cap Hidden(doc) = {}
  <2>1. Covers(c) \subseteq Covers(r)
    BY <1>1, <1>5, <1>7 DEF Covers
  <2> QED BY <1>7, <2>1 DEF PassesRule
<1> HIDE DEF c
<1>11. c \in Filtered(S)
  BY <1>9, <1>10 DEF Filtered, OverFloor
<1>12. c \in Candidates(S)
  BY <1>7, <1>11, ExactIsCandidate
<1> QED BY <1>6, <1>12

-----------------------------------------------------------------------------
\* What the backstops have found, their gates have let pass.
GatesPassed ==
  \A s \in found : s.source = "regex" => s.text \in Catalogue[s.type].backstop.gate
                                         /\ s.type \in DOMAIN Catalogue

LEMMA GatesInit == DetectInit => GatesPassed
BY DEF DetectInit, GatesPassed

LEMMA GatesNext == PassInvariant /\ GatesPassed /\ [DetectNext]_vars => GatesPassed'
<1> SUFFICES ASSUME PassInvariant, GatesPassed, [DetectNext]_vars PROVE GatesPassed'
  OBVIOUS
<1>1. CASE Propose
  BY <1>1 DEF Propose, GatesPassed
<1>2. CASE Merge
  <2>1. text \in Seq(Chars)
    BY ViewFacts DEF PassInvariant, Viewed
  <2>2. ASSUME NEW s \in Backstops
        PROVE  s.text \in Catalogue[s.type].backstop.gate /\ s.type \in DOMAIN Catalogue
    <3>1. PICK type \in DOMAIN Catalogue : \E m \in Claimed(Catalogue[type].backstop) :
            s.type = type /\ s.text = Slice(text, m[1], m[2])
      BY DEF Backstops
    <3> QED BY <2>1, <3>1, ClaimedPasses
  <2>3. found' = found \cup Backstops
    BY <1>2 DEF Merge
  <2> QED BY <2>2, <2>3 DEF GatesPassed
<1>3. CASE Cut \/ Choose \/ Sweep \/ Finish \/ UNCHANGED vars
  <2>1. found' = found
    BY <1>3 DEF Cut, Choose, Sweep, Finish, vars
  <2> QED BY <2>1 DEF GatesPassed
<1> QED BY <1>1, <1>2, <1>3 DEF DetectNext

\* An exact span is a candidate as it was found.
LEMMA ExactUncut ==
  ASSUME Viewed, NEW S, \A s \in S : Placed(s), NEW r \in Candidates(S), r.source = "regex"
  PROVE  r \in S
<1>1. PICK t \in Filtered(S) : r \in CutBack(t, Exact(Filtered(S)))
  BY DEF Candidates
<1>2. PICK s \in S : t \in Trimmed(s)
  BY DEF Filtered
<1>3. t.source = s.source /\ Well(t)
  BY <1>2, TrimmedFacts DEF Placed
<1>4. CASE t.source # "gliner"
  <2>1. r = t
    BY <1>1, <1>4 DEF CutBack
  <2> QED BY <1>2, <1>3, <2>1 DEF Trimmed
<1>5. CASE t.source = "gliner"
  <2>1. Sound(t)
    BY FilteredFacts
  <2>2. r.source = t.source
    BY <1>1, <1>3, CutSource
  <2> QED BY <1>5, <2>2
<1> QED BY <1>4, <1>5

\* A chosen span can be searched for: its word keeps a character when trimmed.
LEMMA MergedSolid ==
  ASSUME PassInvariant, ChoiceInvariant, GatesPassed, phase = "done",
         NEW s \in merged, Len(s.text) >= MinLength
  PROVE  Solid(s.text)
<1>1. /\ Viewed /\ \A q \in found : Placed(q)
      /\ s \in Candidates(found)
  BY DEF PassInvariant, ChoiceInvariant
<1>2. Sound(s) /\ Well(s) /\ s.source \in {"gliner", "regex"}
  BY <1>1, CandidatesFacts, CandidateOf DEF ChoiceInvariant, Sound
<1>3. s.text \in Seq(Chars) /\ Len(s.text) \in Nat \ {0}
  BY <1>2 DEF Well
<1>4. CASE s.source = "gliner"
  <2>1. s.text[1] \notin LeadingTrim /\ s.text[Len(s.text)] \notin TrailingTrim
    BY <1>2, <1>4 DEF Sound, Tight
  <2>2. 1 \in DOMAIN s.text /\ Len(s.text) \in DOMAIN s.text /\ 1 <= Len(s.text)
    BY <1>3
  <2> QED BY <2>1, <2>2 DEF Solid
<1>5. CASE s.source = "regex"
  <2>1. s.text \in Catalogue[s.type].backstop.gate /\ s.type \in DOMAIN Catalogue
    BY <1>1, <1>5, ExactUncut DEF GatesPassed
  <2>2. PICK k \in DOMAIN s.text : s.text[k] \notin LeadingTrim \cup TrailingTrim
    BY <2>1, BackstopAssumption
  <2>3. k <= k
    BY <1>3
  <2> QED BY <2>2, <2>3 DEF Solid
<1> QED BY <1>2, <1>4, <1>5

LEMMA RepeatsFollow == PassInvariant /\ ChoiceInvariant /\ GatesPassed => EveryRepeat
<1> SUFFICES ASSUME PassInvariant, ChoiceInvariant, GatesPassed, SweepOn, phase = "done",
                    NEW s \in Representatives(merged),
                    Len(Surface(s)) >= MinLength, Catalogue[s.type].sweep # "off",
                    NEW i \in 0 .. (Len(text) - Len(Surface(s))),
                    OccursAt(Surface(s), Catalogue[s.type].sweep, i),
                    \A r \in accepted : ~Meets(r, [from |-> i, to |-> i + Len(Surface(s))]),
                    Covers([from |-> i, to |-> i + Len(Surface(s))]) \cap Hidden(doc) = {},
                    \A k \in 0 .. (i - 1) :
                      k + Len(Surface(s)) > i =>
                        ~OccursAt(Surface(s), Catalogue[s.type].sweep, k)
             PROVE  FALSE
  BY DEF EveryRepeat
<1> DEFINE word == Surface(s)
           mode == Catalogue[s.type].sweep
           n == Len(word)
           here == [from |-> i, to |-> i + n]
           said == Slice(doc, i, i + n)
<1>1. /\ Viewed /\ doc \in Seq(Chars) /\ text \in Seq(Chars) /\ Len(text) = Len(doc)
      /\ merged \subseteq accepted /\ \A q \in accepted : Sound(q)
      /\ pending = {}
  BY ViewFacts DEF PassInvariant, Viewed, Kept
<1>2. s \in merged /\ Sound(s) /\ Well(s)
  BY <1>1 DEF Representatives, Sound
<1>3. MinLength \in Nat \ {0}
  BY DetectionAssumption
<1>4. n \in Nat \ {0} /\ Len(s.text) \in Nat
  BY <1>2, <1>3, SurfaceFacts DEF Well
<1>5. word \in Seq(Chars) /\ Solid(word)
  <2>1. Len(s.text) >= n
    BY <1>2, SurfaceWithin
  <2>2. Len(s.text) >= MinLength
    BY <1>3, <1>4, <2>1
  <2> QED BY <1>2, <2>2, MergedSolid, SurfaceSolid
<1>6. i \in Nat /\ i + n \in Nat /\ i < i + n /\ i + n <= Len(doc) /\ (i + n) - i = n
  BY <1>1, <1>4
<1>7. i \in Hits(word, mode)
  BY <1>1, <1>4, HitUnlessOverlapped
\* The text of the occurrence.
<1>8. /\ said \in Seq(Chars) /\ Len(said) = n /\ Solid(said)
  <2>1. said \in Seq(Chars) /\ Len(said) = n
    BY <1>1, <1>6, SliceFacts
  <2>2. Slice(text, i, i + n) = said
    BY <1>1, <1>6, SameText DEF Covers
  <2>3. said = word \/ Fold(said) = Fold(word)
    BY <2>2 DEF OccursAt
  <2>4. CASE said = word
    BY <1>5, <2>1, <2>4
  <2>5. CASE Fold(said) = Fold(word)
    <3> HIDE DEF said, word
    <3> QED BY <1>5, <2>1, <2>5, FoldSolid
  <2> QED BY <2>1, <2>3, <2>4, <2>5
\* The sweep adds it, for this span or for one further to the left.
<1> DEFINE searched == {q \in Representatives(merged) :
                          Len(Surface(q)) >= MinLength /\ Catalogue[q.type].sweep # "off"}
           New(q) == {r \in Repeats(q) : \A m \in merged : ~Meets(r, m)}
           There(q) == \E r \in New(q) : r.from = i /\ r.to = i + n
           makers == {q \in searched : There(q)}
<1>9. s \in makers
  <2> DEFINE r == [from |-> i, to |-> i + n, text |-> said,
                   type |-> s.type, score |-> s.score, source |-> "coref"]
  <2>1. r \in Repeats(s)
    BY <1>7 DEF Repeats
  <2>2. \A m \in merged : ~Meets(r, m)
    BY <1>1 DEF Meets
  <2>3. r.from = i /\ r.to = i + n
    OBVIOUS
  <2> HIDE DEF r
  <2>4. There(s)
    BY <2>1, <2>2, <2>3
  <2> HIDE DEF There
  <2> QED BY <2>4
<1>10. \A q \in makers : q \in merged /\ Sound(q) /\ Well(q) /\ q.from \in Nat
  BY <1>1 DEF Representatives, Sound, Well
<1> HIDE DEF makers
<1>11. PICK q \in makers : \A p \in makers : q.from <= p.from
  <2> DEFINE offsets == {p.from : p \in makers}
  <2>1. offsets \in SUBSET Nat /\ offsets # {}
    BY <1>9, <1>10
  <2>2. PICK x \in offsets : \A y \in offsets : x <= y
    <3> HIDE DEF offsets
    <3> QED BY <2>1, SmallestExists
  <2> QED BY <2>2
<1>12. PICK r \in New(q) : r.from = i /\ r.to = i + n
  BY DEF makers
<1>13. r \in Swept(merged)
  <2>1. \A p \in searched : p.from < q.from => \A x \in New(p) : x.from # r.from \/ x.to # r.to
    <3> SUFFICES ASSUME NEW p \in searched, p.from < q.from, NEW x \in New(p),
                        x.from = r.from, x.to = r.to
                 PROVE  FALSE
      OBVIOUS
    <3>1. There(p)
      BY <1>12
    <3>2. p \in makers
      <4> HIDE DEF There
      <4> QED BY <3>1 DEF makers
    <3> QED BY <1>10, <1>11, <3>2
  <2>2. q \in searched
    BY DEF makers
  <2> QED BY <1>12, <2>1, <2>2 DEF Swept
<1>14. /\ r.text = Slice(doc, r.from, r.to) /\ r.type = q.type /\ r.score = q.score
       /\ r.source = "coref" /\ IsSpan(r)
  BY <1>12 DEF Repeats, IsSpan
<1> HIDE DEF New, searched, There
<1>15. /\ r.text = said
  BY <1>12, <1>14
<1>16. Well(r) /\ OverFloor(r) /\ Covers(r) \cap Hidden(doc) = {} /\ r.to <= Len(doc)
       /\ Solid(r.text)
  <2>1. OverFloor(r)
    BY <1>10, <1>14 DEF OverFloor, Sound
  <2>2. Covers(r) = Covers(here)
    BY <1>12 DEF Covers
  <2> HIDE DEF said
  <2>3. Well(r)
    BY <1>6, <1>8, <1>12, <1>14, <1>15 DEF Well
  <2> QED BY <1>6, <1>8, <1>12, <1>15, <2>1, <2>2, <2>3
<1>17. PICK c \in Candidates(merged \cup Extra) : Well(c) /\ Within(c, r)
  <2>1. r \in merged \cup Extra
    BY <1>13 DEF Extra
  <2> QED BY <1>1, <1>14, <1>16, <2>1, RepeatIsCandidate
<1>18. PICK a \in accepted : a = c \/ Meets(c, a)
  <2>1. Answered(c, pending \cup accepted, accepted)
    BY DEF ChoiceInvariant
  <2> QED BY <1>1, <2>1 DEF Answered
<1>19. Meets(a, here)
  <2>1. Well(a)
    BY <1>1 DEF Sound
  <2>2. i <= c.from /\ c.to <= i + n
    BY <1>12, <1>17 DEF Within
  <2>3. /\ a.from \in Nat /\ a.to \in Nat /\ a.from < a.to
        /\ c.from \in Nat /\ c.to \in Nat /\ c.from < c.to
    BY <1>17, <2>1 DEF Well
  <2>4. a.from < i + n /\ i < a.to
    <3> HIDE DEF n
    <3> QED BY <1>6, <1>18, <2>2, <2>3 DEF Meets
  <2> QED BY <2>4 DEF Meets
<1> QED BY <1>19

\* A word that was replaced once is replaced wherever it stands again outside code:
\* for the first span with it, each occurrence is touched by a replaced span, or
\* another occurrence overlaps it from the left (merge.py: coreference_sweep).
THEOREM RepeatsReplaced == DetectSpec => []EveryRepeat
<1>1. DetectInit => GatesPassed
  BY GatesInit
<1>2. PassInvariant /\ GatesPassed /\ [DetectNext]_vars => GatesPassed'
  BY GatesNext
<1>3. DetectSpec => []GatesPassed
  BY <1>1, <1>2, PassInvariantHolds, PTL DEF DetectSpec
<1> QED BY <1>3, ChoiceHolds, RepeatsFollow, PTL

-----------------------------------------------------------------------------
Entry == Key \X Block

LocalsTyped ==
  /\ catalogueSet \in BOOLEAN /\ fingerprint \in Fingerprint
  /\ pc \in [Thread -> {"idle", "remember", "digest", "lookup", "touch", "put", "move",
                        "trim", "pop"}]
  /\ texts \in [Thread -> Seq(Block)]
  /\ mine \in [Thread -> Fingerprint]
  /\ known \in [Thread -> [Block -> [looked : BOOLEAN, spans : SUBSET Block]]]
  /\ at \in [Thread -> Block \cup {None}] /\ held \in [Thread -> Block \cup {None}]

CacheTypeOK == entries \in Seq(Entry) /\ LocalsTyped

\* A key stands once, with the spans of its own block.
OnceEach == \A i, j \in DOMAIN entries : entries[i][1] = entries[j][1] => i = j
TheirOwn == \A i \in DOMAIN entries : entries[i][2] = entries[i][1][2]

Holding == {"touch", "move", "trim", "pop"}

LocalsRight ==
  \A t \in Thread :
    /\ \A b \in Block : known[t][b].spans \subseteq {b}
    /\ pc[t] \in Holding => at[t] \in Block /\ held[t] = at[t]

\* An entry that is in excess is one that a thread has yet to move to the end, or
\* one for which a thread has yet to look whether the cache is too long.
Standing == {t \in Thread : pc[t] = "move" /\ Has(KeyOf(t, at[t]))}
StandingKeys == {KeyOf(t, at[t]) : t \in Standing}
Late == {t \in Thread : pc[t] \in {"trim", "pop"}}
Excess == Len(entries) <= Capacity + Cardinality(StandingKeys) + Cardinality(Late)

CacheInvariant == CacheTypeOK /\ OnceEach /\ TheirOwn /\ LocalsRight

-----------------------------------------------------------------------------
(* The OrderedDict.                                                        *)

LEMMA RemoveAtFacts ==
  ASSUME NEW W, NEW s \in Seq(W), NEW p \in 1 .. Len(s)
  PROVE  /\ RemoveAt(s, p) \in Seq(W) /\ Len(RemoveAt(s, p)) = Len(s) - 1
         /\ \A j \in 1 .. (p - 1) : RemoveAt(s, p)[j] = s[j]
         /\ \A j \in p .. (Len(s) - 1) : RemoveAt(s, p)[j] = s[j + 1]
<1>1. PICK n \in Nat : n = Len(s)
  OBVIOUS
<1>2. PICK a \in Seq(W) : /\ a = SubSeq(s, 1, p - 1) /\ Len(a) = p - 1
                          /\ \A j \in 1 .. (p - 1) : a[j] = s[j]
  <2>1. \A j \in 1 .. (p - 1) : j \in 1 .. n
    BY <1>1
  <2>2. /\ SubSeq(s, 1, p - 1) \in Seq(W) /\ Len(SubSeq(s, 1, p - 1)) = p - 1
        /\ \A j \in 1 .. (p - 1) : SubSeq(s, 1, p - 1)[j] = s[j]
    BY <1>1, <2>1
  <2> QED BY <2>2
<1>3. PICK b \in Seq(W) : /\ b = SubSeq(s, p + 1, n) /\ Len(b) = n - p
                          /\ \A j \in 1 .. (n - p) : b[j] = s[p + j]
  <2>1. \A j \in (p + 1) .. n : j \in 1 .. n
    BY <1>1
  <2>2. /\ SubSeq(s, p + 1, n) \in Seq(W) /\ Len(SubSeq(s, p + 1, n)) = n - p
        /\ \A j \in 1 .. (n - p) : SubSeq(s, p + 1, n)[j] = s[p + j]
    BY <1>1, <2>1
  <2> QED BY <2>2
<1>4. /\ a \o b \in Seq(W) /\ Len(a \o b) = Len(a) + Len(b)
      /\ \A j \in 1 .. Len(a) : (a \o b)[j] = a[j]
      /\ \A j \in 1 .. Len(b) : (a \o b)[Len(a) + j] = b[j]
  OBVIOUS
<1>5. PICK r \in Seq(W) : /\ r = a \o b /\ Len(r) = Len(a) + Len(b)
                          /\ \A j \in 1 .. Len(a) : r[j] = a[j]
                          /\ \A j \in 1 .. Len(b) : r[Len(a) + j] = b[j]
  BY <1>4
<1>6. RemoveAt(s, p) = r
  BY <1>1, <1>2, <1>3, <1>5 DEF RemoveAt
<1>7. Len(r) = n - 1 /\ \A j \in 1 .. (p - 1) : r[j] = s[j]
  <2>1. Len(a) = p - 1 /\ Len(b) = n - p
    BY <1>2, <1>3
  <2>2. Len(r) = n - 1
    BY <1>1, <1>5, <2>1
  <2>3. \A j \in 1 .. (p - 1) : r[j] = a[j] /\ a[j] = s[j]
    BY <1>2, <1>5, <2>1
  <2> QED BY <2>2, <2>3
<1>8. ASSUME NEW j \in p .. (n - 1) PROVE r[j] = s[j + 1]
  <2>1. /\ (j - p) + 1 \in 1 .. (n - p) /\ (p - 1) + ((j - p) + 1) = j
        /\ p + ((j - p) + 1) = j + 1
    BY <1>1
  <2> QED BY <1>2, <1>3, <1>5, <2>1
<1> QED BY <1>1, <1>6, <1>7, <1>8

LEMMA PlaceFacts ==
  ASSUME NEW k, Has(k)
  PROVE  PlaceOf(k) \in DOMAIN entries /\ entries[PlaceOf(k)][1] = k
BY DEF Has, PlaceOf

\* Moving an entry to the end reorders the entries.
LEMMA MovedFacts ==
  ASSUME CacheTypeOK, NEW k, Has(k)
  PROVE  /\ MovedToEnd(k) \in Seq(Entry) /\ Len(MovedToEnd(k)) = Len(entries)
         /\ \E from \in [1 .. Len(entries) -> 1 .. Len(entries)] :
              /\ \A j \in 1 .. Len(entries) : MovedToEnd(k)[j] = entries[from[j]]
              /\ \A i, j \in 1 .. Len(entries) : from[i] = from[j] => i = j
              /\ \A i \in 1 .. Len(entries) : \E j \in 1 .. Len(entries) : from[j] = i
<1>1. PICK n \in Nat : n = Len(entries)
  BY DEF CacheTypeOK
<1>2. entries \in Seq(Entry) /\ DOMAIN entries = 1 .. n
  BY <1>1 DEF CacheTypeOK
<1>3. PICK p \in 1 .. n : p = PlaceOf(k) /\ entries[p][1] = k
  BY <1>2, PlaceFacts
<1>4. <<k, SpansAt(k)>> = entries[p]
  <2>1. entries[p] \in Key \X Block
    BY <1>1, <1>2 DEF Entry
  <2> QED BY <1>3, <2>1 DEF SpansAt
<1>5. PICK r \in Seq(Entry) :
        /\ r = RemoveAt(entries, p) /\ Len(r) = n - 1
        /\ \A j \in 1 .. (p - 1) : r[j] = entries[j]
        /\ \A j \in p .. (n - 1) : r[j] = entries[j + 1]
  BY <1>1, <1>2, RemoveAtFacts
<1>6. PICK e \in Entry : e = entries[p]
  BY <1>1, <1>2
<1>7. PICK m \in Seq(Entry) :
        /\ m = Append(r, e) /\ Len(m) = n /\ m[n] = e
        /\ \A j \in 1 .. (n - 1) : m[j] = r[j]
  <2>1. /\ Append(r, e) \in Seq(Entry) /\ Len(Append(r, e)) = n
        /\ Append(r, e)[n] = e /\ \A j \in 1 .. (n - 1) : Append(r, e)[j] = r[j]
    BY <1>1, <1>5
  <2> QED BY <2>1
<1>8. MovedToEnd(k) = m
  BY <1>3, <1>4, <1>5, <1>6, <1>7 DEF MovedToEnd
<1> DEFINE from == [j \in 1 .. n |-> IF j < p THEN j ELSE IF j < n THEN j + 1 ELSE p]
<1>9. from \in [1 .. n -> 1 .. n]
  BY <1>1, <1>3
<1>10. ASSUME NEW j \in 1 .. n PROVE m[j] = entries[from[j]]
  <2>1. CASE j < p
    BY <1>1, <1>3, <1>5, <1>7, <2>1
  <2>2. CASE j >= p /\ j < n
    BY <1>1, <1>3, <1>5, <1>7, <2>2
  <2>3. CASE j >= p /\ j = n
    BY <1>1, <1>3, <1>6, <1>7, <2>3
  <2> QED BY <1>1, <1>3, <2>1, <2>2, <2>3
<1>11. \A i, j \in 1 .. n : from[i] = from[j] => i = j
  BY <1>1, <1>3
<1>12. ASSUME NEW i \in 1 .. n PROVE \E j \in 1 .. n : from[j] = i
  <2>1. CASE i < p
    BY <1>1, <1>3, <2>1
  <2>2. CASE i = p
    <3>1. n \in 1 .. n /\ from[n] = p
      BY <1>1, <1>3
    <3> QED BY <2>2, <3>1
  <2>3. CASE i > p
    <3>1. i - 1 \in 1 .. n /\ from[i - 1] = i
      BY <1>1, <1>3, <2>3
    <3> QED BY <3>1
  <2> QED BY <1>1, <1>3, <2>1, <2>2, <2>3
<1> HIDE DEF from
<1>13. /\ m \in Seq(Entry) /\ Len(m) = n
       /\ \E f \in [1 .. n -> 1 .. n] :
            /\ \A j \in 1 .. n : m[j] = entries[f[j]]
            /\ \A i, j \in 1 .. n : f[i] = f[j] => i = j
            /\ \A i \in 1 .. n : \E j \in 1 .. n : f[j] = i
  BY <1>7, <1>9, <1>10, <1>11, <1>12
<1>14. MovedToEnd(k) \in Seq(Entry) /\ Len(MovedToEnd(k)) = Len(entries)
  BY <1>1, <1>8, <1>13
<1>15. PICK f \in [1 .. n -> 1 .. n] :
         /\ \A j \in 1 .. n : m[j] = entries[f[j]]
         /\ \A i, j \in 1 .. n : f[i] = f[j] => i = j
         /\ \A i \in 1 .. n : \E j \in 1 .. n : f[j] = i
  BY <1>13
<1>16. 1 .. n = 1 .. Len(entries)
  BY <1>1
<1>17. /\ f \in [1 .. Len(entries) -> 1 .. Len(entries)]
       /\ \A j \in 1 .. Len(entries) : MovedToEnd(k)[j] = entries[f[j]]
       /\ \A i, j \in 1 .. Len(entries) : f[i] = f[j] => i = j
       /\ \A i \in 1 .. Len(entries) : \E j \in 1 .. Len(entries) : f[j] = i
  BY <1>8, <1>15, <1>16, Zenon
<1> QED BY <1>14, <1>17, Zenon

Tables == entries \in Seq(Entry) /\ OnceEach /\ TheirOwn

LEMMA AfterMove ==
  ASSUME CacheInvariant, NEW k, Has(k), entries' = MovedToEnd(k)
  PROVE  Tables' /\ Len(entries') = Len(entries) /\ \A key : Has(key)' <=> Has(key)
<1>1. PICK n \in Nat : n = Len(entries)
  BY DEF CacheInvariant, CacheTypeOK
<1>2. entries \in Seq(Entry) /\ DOMAIN entries = 1 .. n
  BY <1>1 DEF CacheInvariant, CacheTypeOK
<1>3. entries' \in Seq(Entry) /\ Len(entries') = n
  BY <1>1, MovedFacts DEF CacheInvariant
<1>4. PICK from \in [1 .. n -> 1 .. n] :
        /\ \A j \in 1 .. n : entries'[j] = entries[from[j]]
        /\ \A i, j \in 1 .. n : from[i] = from[j] => i = j
        /\ \A i \in 1 .. n : \E j \in 1 .. n : from[j] = i
  BY <1>1, MovedFacts DEF CacheInvariant
<1>5. DOMAIN entries' = 1 .. n
  BY <1>3
<1>6. OnceEach'
  <2> SUFFICES ASSUME NEW i \in 1 .. n, NEW j \in 1 .. n, entries'[i][1] = entries'[j][1]
               PROVE  i = j
    BY <1>5 DEF OnceEach
  <2>1. from[i] \in 1 .. n /\ from[j] \in 1 .. n /\ entries[from[i]][1] = entries[from[j]][1]
    BY <1>4
  <2>2. from[i] = from[j]
    BY <1>2, <2>1 DEF CacheInvariant, OnceEach
  <2> QED BY <1>4, <2>2
<1>7. TheirOwn'
  <2> SUFFICES ASSUME NEW i \in 1 .. n PROVE entries'[i][2] = entries'[i][1][2]
    BY <1>5 DEF TheirOwn
  <2>1. PICK j \in 1 .. n : entries'[i] = entries[j]
    <3>1. from[i] \in 1 .. n /\ entries'[i] = entries[from[i]]
      BY <1>4
    <3> QED BY <3>1
  <2> QED BY <1>2, <2>1 DEF CacheInvariant, TheirOwn
<1>8. ASSUME NEW key PROVE Has(key)' <=> Has(key)
  <2>1. ASSUME NEW i \in 1 .. n, entries'[i][1] = key PROVE \E j \in 1 .. n : entries[j][1] = key
    <3>1. from[i] \in 1 .. n /\ entries[from[i]][1] = key
      BY <1>4, <2>1
    <3> QED BY <3>1
  <2>2. ASSUME NEW i \in 1 .. n, entries[i][1] = key PROVE \E j \in 1 .. n : entries'[j][1] = key
    <3>1. PICK j \in 1 .. n : from[j] = i
      BY <1>4
    <3>2. entries'[j] = entries[i]
      BY <1>4, <3>1
    <3> QED BY <2>2, <3>2
  <2> QED BY <1>2, <1>5, <2>1, <2>2 DEF Has
<1> QED BY <1>1, <1>3, <1>6, <1>7, <1>8 DEF Tables

LEMMA AfterAssignment ==
  ASSUME CacheInvariant, NEW k \in Key, NEW b \in Block, k[2] = b, entries' = Assigned(k, b)
  PROVE  /\ Tables' /\ \A key : Has(key)' <=> Has(key) \/ key = k
         /\ Len(entries') = IF Has(k) THEN Len(entries) ELSE Len(entries) + 1
<1>1. PICK n \in Nat : n = Len(entries)
  BY DEF CacheInvariant, CacheTypeOK
<1>2. entries \in Seq(Entry) /\ DOMAIN entries = 1 .. n
  BY <1>1 DEF CacheInvariant, CacheTypeOK
<1>3. PICK e \in Entry : e = <<k, b>> /\ e[1] = k /\ e[2] = e[1][2]
  <2>1. <<k, b>> \in Entry
    BY DEF Entry
  <2>2. <<k, b>>[1] = k /\ <<k, b>>[2] = <<k, b>>[1][2]
    OBVIOUS
  <2> QED BY <2>1, <2>2
<1>4. CASE Has(k)
  <2>1. /\ entries' \in Seq(Entry) /\ Len(entries') = n /\ DOMAIN entries' = 1 .. n
        /\ \A i \in 1 .. n : entries'[i] = IF entries[i][1] = k THEN e ELSE entries[i]
    <3>1. entries' = [i \in 1 .. n |-> IF entries[i][1] = k THEN e ELSE entries[i]]
      BY <1>2, <1>3, <1>4 DEF Assigned
    <3>2. \A i \in 1 .. n : entries[i] \in Entry
      BY <1>1, <1>2
    <3> QED BY <1>1, <3>1, <3>2
  <2>2. \A i \in 1 .. n : entries'[i][1] = entries[i][1]
    BY <1>3, <2>1
  <2>3. OnceEach' /\ TheirOwn'
    BY <1>2, <1>3, <2>1, <2>2 DEF CacheInvariant, OnceEach, TheirOwn
  <2>4. \A key : Has(key)' <=> Has(key)
    BY <1>2, <2>1, <2>2 DEF Has
  <2> QED BY <1>1, <1>4, <2>1, <2>3, <2>4 DEF Tables
<1>5. CASE ~Has(k)
  <2>1. /\ entries' \in Seq(Entry) /\ Len(entries') = n + 1 /\ DOMAIN entries' = 1 .. (n + 1)
        /\ entries'[n + 1] = e /\ \A i \in 1 .. n : entries'[i] = entries[i]
    <3>1. entries' = Append(entries, e)
      BY <1>3, <1>5 DEF Assigned
    <3> QED BY <1>1, <1>2, <3>1
  <2>2. \A i \in 1 .. n : entries[i][1] # k
    BY <1>2, <1>5 DEF Has
  <2>3. ASSUME NEW i \in 1 .. (n + 1), NEW j \in 1 .. (n + 1), entries'[i][1] = entries'[j][1]
        PROVE  i = j
    <3>1. CASE i \in 1 .. n /\ j \in 1 .. n
      BY <1>2, <2>1, <2>3, <3>1 DEF CacheInvariant, OnceEach
    <3>2. CASE i = n + 1 /\ j \in 1 .. n
      BY <1>3, <2>1, <2>2, <2>3, <3>2
    <3>3. CASE i \in 1 .. n /\ j = n + 1
      BY <1>3, <2>1, <2>2, <2>3, <3>3
    <3> QED BY <1>1, <3>1, <3>2, <3>3
  <2>4. ASSUME NEW i \in 1 .. (n + 1) PROVE entries'[i][2] = entries'[i][1][2]
    <3>1. CASE i \in 1 .. n
      BY <1>2, <2>1, <3>1 DEF CacheInvariant, TheirOwn
    <3>2. CASE i = n + 1
      BY <1>3, <2>1, <3>2
    <3> QED BY <1>1, <3>1, <3>2
  <2>5. ASSUME NEW key PROVE Has(key)' <=> Has(key) \/ key = k
    <3>1. ASSUME NEW i \in 1 .. (n + 1), entries'[i][1] = key, key # k
          PROVE  \E j \in 1 .. n : entries[j][1] = key
      <4>1. i \in 1 .. n
        BY <1>1, <1>3, <2>1, <3>1
      <4> QED BY <2>1, <3>1, <4>1
    <3>2. ASSUME NEW i \in 1 .. n, entries[i][1] = key
          PROVE  \E j \in 1 .. (n + 1) : entries'[j][1] = key
      <4>1. i \in 1 .. (n + 1)
        BY <1>1
      <4> QED BY <2>1, <3>2, <4>1
    <3>3. n + 1 \in 1 .. (n + 1) /\ entries'[n + 1][1] = k
      BY <1>1, <1>3, <2>1
    <3> QED BY <1>2, <2>1, <3>1, <3>2, <3>3 DEF Has
  <2> QED BY <1>1, <1>5, <2>1, <2>3, <2>4, <2>5 DEF Tables, OnceEach, TheirOwn
<1> QED BY <1>4, <1>5

LEMMA AfterPop ==
  ASSUME CacheInvariant, entries # << >>, entries' = Tail(entries)
  PROVE  /\ Tables' /\ Len(entries') = Len(entries) - 1
         /\ \A key : Has(key) => Has(key)' \/ key = entries[1][1]
<1>1. PICK n \in Nat : n = Len(entries) /\ n >= 1
  BY DEF CacheInvariant, CacheTypeOK
<1>2. entries \in Seq(Entry) /\ DOMAIN entries = 1 .. n
  BY <1>1 DEF CacheInvariant, CacheTypeOK
<1>3. /\ entries' \in Seq(Entry) /\ Len(entries') = n - 1 /\ DOMAIN entries' = 1 .. (n - 1)
      /\ \A i \in 1 .. (n - 1) : i + 1 \in 1 .. n /\ entries'[i] = entries[i + 1]
  BY <1>1, <1>2
<1>4. OnceEach'
  <2> SUFFICES ASSUME NEW i \in 1 .. (n - 1), NEW j \in 1 .. (n - 1),
                      entries'[i][1] = entries'[j][1]
               PROVE  i = j
    BY <1>3 DEF OnceEach
  <2>1. /\ i + 1 \in 1 .. n /\ j + 1 \in 1 .. n /\ entries[i + 1][1] = entries[j + 1][1]
    BY <1>3
  <2>2. i + 1 = j + 1
    BY <1>2, <2>1 DEF CacheInvariant, OnceEach
  <2> QED BY <1>1, <2>2
<1>5. TheirOwn'
  BY <1>2, <1>3 DEF CacheInvariant, TheirOwn
<1>6. ASSUME NEW key, Has(key), key # entries[1][1] PROVE Has(key)'
  <2>1. PICK i \in 1 .. n : entries[i][1] = key
    BY <1>2, <1>6 DEF Has
  <2>2. i - 1 \in 1 .. (n - 1) /\ (i - 1) + 1 = i
    BY <1>1, <1>6, <2>1
  <2> QED BY <1>3, <2>1, <2>2 DEF Has
<1> QED BY <1>1, <1>3, <1>4, <1>5, <1>6 DEF Tables

-----------------------------------------------------------------------------
(* The threads.                                                            *)

LEMMA MinFacts ==
  ASSUME NEW S \in SUBSET Nat, S # {}
  PROVE  Min(S) \in S
<1> DEFINE R == {p \in Nat \X Nat : p[1] < p[2]}
<1>1. IsWellFoundedOn(R, Nat)
  BY NatLessThanWellFounded DEF OpToRel
<1>2. PICK x \in S : \A y \in S : ~ (<<y, x>> \in R)
  <2> HIDE DEF R
  <2> QED BY <1>1, WFMin
<1>3. \A y \in S : x <= y
  <2> SUFFICES ASSUME NEW y \in S, y < x PROVE FALSE
    OBVIOUS
  <2>1. <<y, x>> \in R
    OBVIOUS
  <2> QED BY <1>2, <2>1
<1> QED BY <1>2, <1>3 DEF Min

Locals == LocalsTyped /\ LocalsRight

LEMMA Nothing == << >> \in Seq(Block) /\ None \in Block \cup {None}
OBVIOUS

LEMMA EndLocals ==
  ASSUME CacheInvariant, NEW t \in Thread, End(t)
  PROVE  Locals'
<1> USE DEF CacheInvariant, CacheTypeOK, LocalsTyped, LocalsRight, End, Goto
<1> DEFINE empty == [b \in Block |-> Unknown]
<1>1. /\ empty \in [Block -> [looked : BOOLEAN, spans : SUBSET Block]]
      /\ \A b \in Block : empty[b].spans = {}
  BY DEF Unknown
<1> HIDE DEF empty
<1>2. known' = [known EXCEPT ![t] = empty]
  BY DEF empty
<1>3. /\ << >> \in Seq(Block) /\ "" \in Fingerprint /\ None \in Block \cup {None}
      /\ "idle" \notin Holding
  <2>1. << >> \in Seq(Block) /\ None \in Block \cup {None}
    BY ONLY Nothing
  <2>2. "" \in Fingerprint
    BY DEF Fingerprint
  <2>3. "idle" \notin Holding
    BY DEF Holding
  <2> QED BY <2>1, <2>2, <2>3
<1>4. LocalsTyped'
  BY <1>1, <1>2, <1>3 DEF shared
<1>5. ASSUME NEW u \in Thread
      PROVE  /\ \A b \in Block : known'[u][b].spans \subseteq {b}
             /\ pc'[u] \in Holding => at'[u] \in Block /\ held'[u] = at'[u]
  <2>1. CASE u = t
    BY <1>1, <1>2, <1>3, <2>1
  <2>2. CASE u # t
    BY <2>2
  <2> QED BY <2>1, <2>2
<1> QED BY <1>4, <1>5 DEF Locals

LEMMA LocalsStep ==
  ASSUME CacheInvariant, NEW t \in Thread,
         Step(t) \/ Return(t) \/ \E request \in Seq(Block) : BeginCall(t, request)
  PROVE  Locals'
<1> USE DEF CacheInvariant, CacheTypeOK, LocalsTyped, LocalsRight, Locals, Holding
<1>1. ASSUME NEW request \in Seq(Block), BeginCall(t, request) PROVE Locals'
  <2>1. pc'[t] \in {"lookup", "remember"} /\ pc' = [pc EXCEPT ![t] = pc'[t]]
    BY <1>1 DEF BeginCall, Goto
  <2>2. mine' \in [Thread -> Fingerprint]
    BY <1>1 DEF BeginCall
  <2>3. texts' = [texts EXCEPT ![t] = request] /\ UNCHANGED <<shared, known, at, held>>
    BY <1>1 DEF BeginCall
  <2> QED BY <2>1, <2>2, <2>3 DEF shared
<1>2. CASE RememberCatalogue(t)
  BY <1>2 DEF RememberCatalogue, Goto, locals
<1>3. CASE DigestCatalogue(t)
  BY <1>3 DEF DigestCatalogue, Goto, Fingerprint
<1>4. CASE LookUp(t)
  <2>1. PICK b \in Block : b = texts[t][Min(ToLookUp(t))]
    <3>1. ToLookUp(t) \in SUBSET Nat /\ ToLookUp(t) # {} /\ ToLookUp(t) \subseteq DOMAIN texts[t]
      <4>1. texts[t] \in Seq(Block) /\ DOMAIN texts[t] = 1 .. Len(texts[t])
        OBVIOUS
      <4>2. ToLookUp(t) # {}
        BY <1>4 DEF LookUp
      <4>3. ToLookUp(t) \subseteq DOMAIN texts[t]
        BY DEF ToLookUp
      <4> QED BY <4>1, <4>2, <4>3
    <3>2. Min(ToLookUp(t)) \in DOMAIN texts[t]
      BY <3>1, MinFacts
    <3> QED BY <3>2
  <2>2. CASE /\ Has(KeyOf(t, b)) /\ Goto(t, "touch") /\ UNCHANGED known
             /\ at' = [at EXCEPT ![t] = b] /\ held' = [held EXCEPT ![t] = SpansAt(KeyOf(t, b))]
    <3>1. SpansAt(KeyOf(t, b)) = b
      <4>1. /\ PlaceOf(KeyOf(t, b)) \in DOMAIN entries
            /\ entries[PlaceOf(KeyOf(t, b))][1] = KeyOf(t, b)
        BY PlaceFacts, <2>2
      <4>2. KeyOf(t, b)[2] = b
        BY DEF KeyOf
      <4> QED BY <4>1, <4>2 DEF TheirOwn, SpansAt
    <3> QED BY <1>4, <2>1, <2>2, <3>1 DEF LookUp, Goto, shared
  <2>3. CASE Learn(t, b, {}) /\ UNCHANGED <<pc, at, held>>
    BY <1>4, <2>1, <2>3 DEF LookUp, Learn, shared
  <2> QED BY <1>4, <2>1, <2>2, <2>3 DEF LookUp
<1>5. CASE Touch(t)
  <2>1. CASE End(t)
    BY <2>1, EndLocals
  <2>2. CASE ~End(t)
    <3>1. /\ pc' = [pc EXCEPT ![t] = "lookup"]
          /\ known' = [known EXCEPT ![t][at[t]] = [looked |-> TRUE, spans |-> {held[t]}]]
          /\ at' = [at EXCEPT ![t] = None] /\ held' = [held EXCEPT ![t] = None]
          /\ UNCHANGED <<catalogueSet, fingerprint, texts, mine>>
      BY <1>5, <2>2 DEF Touch, KeyErrorIn, Learn, Goto
    <3>2. at[t] \in Block /\ held[t] = at[t]
      BY <1>5 DEF Touch
    <3> QED BY <3>1, <3>2
  <2> QED BY <2>1, <2>2
<1>6. CASE Detect(t)
  BY <1>6, EndLocals DEF Detect, Goto, shared, locals
<1>7. CASE Insert(t)
  <2>1. PICK b \in Missing(t) : /\ at' = [at EXCEPT ![t] = b] /\ held' = [held EXCEPT ![t] = b]
    BY <1>7 DEF Insert
  <2>2. b \in Block
    BY <2>1 DEF Missing, ToSet
  <2> QED BY <1>7, <2>1, <2>2 DEF Insert, Goto
<1>8. CASE MoveToEnd(t)
  BY <1>8, EndLocals DEF MoveToEnd, KeyErrorIn, Goto, locals
<1>9. CASE ShortEnough(t)
  BY <1>9 DEF ShortEnough, Learn, Goto, shared
<1>10. CASE TooLong(t)
  BY <1>10 DEF TooLong, Goto, shared, locals
<1>11. CASE PopOldest(t)
  BY <1>11, EndLocals DEF PopOldest, KeyErrorIn, Goto, locals
<1>12. CASE Return(t)
  BY <1>12, EndLocals DEF Return
<1> QED
  BY <1>1, <1>2, <1>3, <1>4, <1>5, <1>6, <1>7, <1>8, <1>9, <1>10, <1>11, <1>12 DEF Step

\* The other threads' locals are their own.
LEMMA OthersStay ==
  ASSUME CacheInvariant, NEW t \in Thread,
         Step(t) \/ Return(t) \/ \E request \in Seq(Block) : BeginCall(t, request),
         NEW u \in Thread, u # t
  PROVE  pc'[u] = pc[u] /\ mine'[u] = mine[u] /\ at'[u] = at[u]
<1> USE DEF CacheInvariant, CacheTypeOK, LocalsTyped, Goto
<1>1. End(t) => pc'[u] = pc[u] /\ mine'[u] = mine[u] /\ at'[u] = at[u]
  BY DEF End
<1>2. ASSUME NEW request \in Seq(Block), BeginCall(t, request)
      PROVE  pc'[u] = pc[u] /\ mine'[u] = mine[u] /\ at'[u] = at[u]
  BY <1>2 DEF BeginCall
<1>3. CASE RememberCatalogue(t) \/ DigestCatalogue(t)
  BY <1>3 DEF RememberCatalogue, DigestCatalogue, locals
<1>4. CASE LookUp(t)
  BY <1>4 DEF LookUp
<1>5. CASE Touch(t) \/ Detect(t) \/ Return(t)
  BY <1>1, <1>5 DEF Touch, Detect, Return, KeyErrorIn, locals
<1>6. CASE Insert(t)
  BY <1>6 DEF Insert
<1>7. CASE MoveToEnd(t) \/ PopOldest(t)
  BY <1>1, <1>7 DEF MoveToEnd, PopOldest, KeyErrorIn, locals
<1>8. CASE ShortEnough(t) \/ TooLong(t)
  BY <1>8 DEF ShortEnough, TooLong, locals
<1> QED BY <1>2, <1>3, <1>4, <1>5, <1>6, <1>7, <1>8 DEF Step

\* What a step does to the entries, and where its thread stands before and after.
LEMMA EntriesStep ==
  ASSUME CacheInvariant, NEW t \in Thread,
         Step(t) \/ Return(t) \/ \E request \in Seq(Block) : BeginCall(t, request)
  PROVE  \/ UNCHANGED entries /\ pc[t] \notin Holding /\ pc'[t] \notin {"move", "trim", "pop"}
         \/ UNCHANGED entries /\ pc[t] = "move" /\ ~Has(KeyOf(t, at[t]))
         \/ UNCHANGED entries /\ pc[t] = "trim" /\ (Len(entries) <= Capacity \/ pc'[t] = "pop")
         \/ UNCHANGED entries /\ pc[t] = "pop" /\ entries = << >>
         \/ UNCHANGED entries /\ pc[t] = "touch"
         \/ /\ \E k : Has(k) /\ entries' = MovedToEnd(k)
            /\ pc[t] = "touch" \/ (pc[t] = "move" /\ pc'[t] = "trim")
         \/ \E b \in Block :
              /\ entries' = Assigned(KeyOf(t, b), b)
              /\ pc[t] = "put" /\ pc'[t] = "move" /\ KeyOf(t, at[t])' = KeyOf(t, b)
         \/ /\ entries # << >> /\ entries' = Tail(entries)
            /\ pc[t] = "pop" /\ pc'[t] = "trim"
<1> USE DEF CacheInvariant, CacheTypeOK, LocalsTyped, Goto, Holding
<1>1. End(t) => UNCHANGED entries /\ pc'[t] = "idle"
  BY DEF End, shared
<1>2. ASSUME NEW request \in Seq(Block), BeginCall(t, request)
      PROVE  UNCHANGED entries /\ pc[t] = "idle" /\ pc'[t] \in {"lookup", "remember"}
  BY <1>2 DEF BeginCall, shared
<1>3. CASE RememberCatalogue(t) \/ DigestCatalogue(t)
  BY <1>3 DEF RememberCatalogue, DigestCatalogue
<1>4. CASE LookUp(t)
  BY <1>4 DEF LookUp, shared
<1>5. CASE Detect(t) \/ Return(t)
  BY <1>1, <1>5 DEF Detect, Return, Ready, shared
<1>6. CASE Touch(t)
  BY <1>1, <1>6 DEF Touch, KeyErrorIn
<1>7. CASE Insert(t)
  <2>1. PICK b \in Missing(t) :
          entries' = Assigned(KeyOf(t, b), b) /\ at' = [at EXCEPT ![t] = b]
    BY <1>7 DEF Insert
  <2>2. b \in Block
    BY <2>1 DEF Missing, ToSet
  <2>3. KeyOf(t, at[t])' = KeyOf(t, b)
    BY <1>7, <2>1 DEF Insert, KeyOf
  <2> QED BY <1>7, <2>1, <2>2, <2>3 DEF Insert
<1>8. CASE MoveToEnd(t)
  BY <1>1, <1>8 DEF MoveToEnd, KeyErrorIn
<1>9. CASE ShortEnough(t) \/ TooLong(t)
  BY <1>9 DEF ShortEnough, TooLong, shared
<1>10. CASE PopOldest(t)
  BY <1>1, <1>10 DEF PopOldest, KeyErrorIn
<1> QED BY <1>2, <1>3, <1>4, <1>5, <1>6, <1>7, <1>8, <1>9, <1>10 DEF Step

LEMMA InvariantStep == CacheInvariant /\ [CacheNext]_cacheVars => CacheInvariant'
<1> SUFFICES ASSUME CacheInvariant, [CacheNext]_cacheVars PROVE CacheInvariant'
  OBVIOUS
<1>1. CASE UNCHANGED cacheVars
  BY <1>1 DEF cacheVars, shared, locals, CacheInvariant, CacheTypeOK, LocalsTyped, OnceEach, TheirOwn,
     LocalsRight
<1>2. ASSUME NEW t \in Thread,
             Step(t) \/ Return(t) \/ \E request \in Seq(Block) : BeginCall(t, request)
      PROVE  CacheInvariant'
  <2>1. Locals'
    BY <1>2, LocalsStep
  <2>2. Tables'
    <3>1. CASE UNCHANGED entries
      BY <3>1 DEF CacheInvariant, CacheTypeOK, Tables, OnceEach, TheirOwn
    <3>2. ASSUME NEW k, Has(k), entries' = MovedToEnd(k) PROVE Tables'
      BY <3>2, AfterMove
    <3>3. ASSUME NEW b \in Block, entries' = Assigned(KeyOf(t, b), b) PROVE Tables'
      <4>1. KeyOf(t, b) \in Key /\ KeyOf(t, b)[2] = b
        BY DEF KeyOf, Key, CacheInvariant, CacheTypeOK, LocalsTyped
      <4> QED BY <3>3, <4>1, AfterAssignment
    <3>4. CASE entries # << >> /\ entries' = Tail(entries)
      BY <3>4, AfterPop
    <3> QED BY <1>2, <3>1, <3>2, <3>3, <3>4, EntriesStep
  <2> QED BY <2>1, <2>2 DEF CacheInvariant, CacheTypeOK, Tables, Locals
<1> QED BY <1>1, <1>2 DEF CacheNext

LEMMA InitHolds == CacheInit => CacheInvariant
<1> SUFFICES ASSUME CacheInit PROVE CacheInvariant
  OBVIOUS
<1>1. entries \in Seq(Entry) /\ DOMAIN entries = {}
  <2>1. << >> \in Seq(Entry) /\ DOMAIN << >> = {}
    BY ONLY TRUE
  <2> QED BY <2>1 DEF CacheInit
<1>2. LocalsTyped
  <2>1. [looked |-> FALSE, spans |-> {}] \in [looked : BOOLEAN, spans : SUBSET Block]
    BY ONLY TRUE
  <2>2. known \in [Thread -> [Block -> [looked : BOOLEAN, spans : SUBSET Block]]]
    BY <2>1 DEF CacheInit, Unknown
  <2>3. texts \in [Thread -> Seq(Block)]
    BY Nothing DEF CacheInit
  <2>4. pc \in [Thread -> {"idle", "remember", "digest", "lookup", "touch", "put", "move",
                          "trim", "pop"}]
    BY DEF CacheInit
  <2>5. /\ mine \in [Thread -> Fingerprint] /\ catalogueSet \in BOOLEAN
        /\ fingerprint \in Fingerprint
    BY DEF CacheInit, Fingerprint
  <2>6. at \in [Thread -> Block \cup {None}] /\ held \in [Thread -> Block \cup {None}]
    BY DEF CacheInit
  <2> QED BY <2>2, <2>3, <2>4, <2>5, <2>6 DEF LocalsTyped
<1>3. LocalsRight
  BY DEF CacheInit, LocalsRight, Holding, Unknown
<1> QED BY <1>1, <1>2, <1>3 DEF CacheInvariant, CacheTypeOK, OnceEach, TheirOwn

-----------------------------------------------------------------------------
(* The count.                                                              *)

LEMMA Counted ==
  ASSUME IsFiniteSet(Thread)
  PROVE  /\ IsFiniteSet(StandingKeys) /\ Cardinality(StandingKeys) \in Nat
         /\ Cardinality(StandingKeys) <= Cardinality(Standing)
         /\ IsFiniteSet(Standing) /\ Cardinality(Standing) \in Nat
         /\ IsFiniteSet(Late) /\ Cardinality(Late) \in Nat
<1>1. IsFiniteSet(Standing) /\ IsFiniteSet(Late)
  BY FS_Subset DEF Standing, Late
<1>2. [u \in Standing |-> KeyOf(u, at[u])] \in Surjection(Standing, StandingKeys)
  BY DEF Surjection, StandingKeys
<1>3. IsFiniteSet(StandingKeys) /\ Cardinality(StandingKeys) <= Cardinality(Standing)
  BY <1>1, <1>2, FS_Surjection
<1> QED BY <1>1, <1>3, FS_CardinalityType

LEMMA KeysWithin ==
  ASSUME IsFiniteSet(Thread), Capacity \in Nat, Len(entries') \in Nat, Len(entries') <= Capacity
  PROVE  Excess'
<1>1. IsFiniteSet(Standing') /\ IsFiniteSet(Late')
  BY FS_Subset DEF Standing, Late
<1>2. [u \in Standing' |-> KeyOf(u, at[u])'] \in Surjection(Standing', StandingKeys')
  BY DEF Surjection, StandingKeys
<1>3. IsFiniteSet(StandingKeys')
  BY <1>1, <1>2, FS_Surjection
<1>4. Cardinality(StandingKeys') \in Nat /\ Cardinality(Late') \in Nat
  BY <1>1, <1>3, FS_CardinalityType
<1> QED BY <1>4 DEF Excess

LEMMA Weighed ==
  ASSUME IsFiniteSet(Thread), Capacity \in Nat, CacheInvariant, CacheInvariant', Excess, NEW k, NEW t,
         \/ /\ StandingKeys \subseteq StandingKeys' /\ Late \subseteq Late'
            /\ Len(entries') <= Len(entries)
         \/ /\ StandingKeys \cup {k} \subseteq StandingKeys' /\ k \notin StandingKeys
            /\ Late \subseteq Late' /\ Len(entries') <= Len(entries) + 1
         \/ /\ StandingKeys \ {k} \subseteq StandingKeys' /\ Late \cup {t} \subseteq Late'
            /\ t \notin Late /\ Len(entries') <= Len(entries)
         \/ /\ StandingKeys \ {k} \subseteq StandingKeys' /\ Late \subseteq Late'
            /\ Len(entries') <= Len(entries) - 1
  PROVE  Excess'
<1>1. /\ IsFiniteSet(StandingKeys) /\ Cardinality(StandingKeys) \in Nat
      /\ IsFiniteSet(Late) /\ Cardinality(Late) \in Nat
  BY Counted
<1>2. /\ IsFiniteSet(StandingKeys') /\ Cardinality(StandingKeys') \in Nat
      /\ IsFiniteSet(Late') /\ Cardinality(Late') \in Nat
  <2>1. IsFiniteSet(Standing') /\ IsFiniteSet(Late')
    BY FS_Subset DEF Standing, Late
  <2>2. [u \in Standing' |-> KeyOf(u, at[u])'] \in Surjection(Standing', StandingKeys')
    BY DEF Surjection, StandingKeys
  <2>3. IsFiniteSet(StandingKeys')
    BY <2>1, <2>2, FS_Surjection
  <2> QED BY <2>1, <2>3, FS_CardinalityType
<1>3. Len(entries) \in Nat /\ Len(entries') \in Nat
  BY DEF CacheInvariant, CacheTypeOK
<1> DEFINE K == Cardinality(StandingKeys)
           L == Cardinality(Late)
<1>4. Late \subseteq Late' => L <= Cardinality(Late')
  BY <1>2, FS_Subset
<1>5. CASE /\ StandingKeys \subseteq StandingKeys' /\ Late \subseteq Late'
           /\ Len(entries') <= Len(entries)
  <2>1. K <= Cardinality(StandingKeys')
    BY <1>2, <1>5, FS_Subset
  <2> QED BY <1>1, <1>2, <1>3, <1>4, <1>5, <2>1 DEF Excess
<1>6. CASE /\ StandingKeys \cup {k} \subseteq StandingKeys' /\ k \notin StandingKeys
           /\ Late \subseteq Late' /\ Len(entries') <= Len(entries) + 1
  <2>1. Cardinality(StandingKeys \cup {k}) = K + 1
    BY <1>1, <1>6, FS_AddElement
  <2>2. K + 1 <= Cardinality(StandingKeys')
    BY <1>2, <1>6, <2>1, FS_Subset
  <2> QED BY <1>1, <1>2, <1>3, <1>4, <1>6, <2>2 DEF Excess
<1>7. Cardinality(StandingKeys \ {k}) \in Nat /\ Cardinality(StandingKeys \ {k}) >= K - 1
  <2>1. /\ IsFiniteSet(StandingKeys \ {k})
        /\ Cardinality(StandingKeys \ {k}) =
             IF k \in StandingKeys THEN Cardinality(StandingKeys) - 1
             ELSE Cardinality(StandingKeys)
    BY ONLY <1>1, FS_RemoveElement, Zenon
  <2>2. Cardinality(StandingKeys \ {k}) \in Nat
    BY ONLY <2>1, FS_CardinalityType, Zenon
  <2> QED BY ONLY <1>1, <2>1, <2>2
<1>8. StandingKeys \ {k} \subseteq StandingKeys' => K - 1 <= Cardinality(StandingKeys')
  <2> SUFFICES ASSUME StandingKeys \ {k} \subseteq StandingKeys'
               PROVE  K - 1 <= Cardinality(StandingKeys')
    OBVIOUS
  <2>1. Cardinality(StandingKeys \ {k}) <= Cardinality(StandingKeys')
    BY <1>2, FS_Subset
  <2> QED BY <1>1, <1>2, <1>7, <2>1
<1>9. CASE /\ StandingKeys \ {k} \subseteq StandingKeys' /\ Late \cup {t} \subseteq Late'
           /\ t \notin Late /\ Len(entries') <= Len(entries)
  <2>1. Cardinality(Late \cup {t}) = L + 1
    BY <1>1, <1>9, FS_AddElement
  <2>2. L + 1 <= Cardinality(Late')
    BY <1>2, <1>9, <2>1, FS_Subset
  <2> QED BY <1>1, <1>2, <1>3, <1>8, <1>9, <2>2 DEF Excess
<1>10. CASE /\ StandingKeys \ {k} \subseteq StandingKeys' /\ Late \subseteq Late'
            /\ Len(entries') <= Len(entries) - 1
  BY <1>1, <1>2, <1>3, <1>4, <1>8, <1>10 DEF Excess
<1> QED BY <1>5, <1>6, <1>9, <1>10

LEMMA ExcessStep ==
  ASSUME IsFiniteSet(Thread), Capacity \in Nat, CacheInvariant, CacheInvariant', Excess,
         NEW t \in Thread,
         Step(t) \/ Return(t) \/ \E request \in Seq(Block) : BeginCall(t, request)
  PROVE  Excess'
<1>1. \A u \in Thread \ {t} : /\ pc'[u] = pc[u] /\ mine'[u] = mine[u] /\ at'[u] = at[u]
                              /\ KeyOf(u, at[u])' = KeyOf(u, at[u])
  BY OthersStay DEF KeyOf
<1>2. Len(entries) \in Nat /\ Len(entries') \in Nat
  BY DEF CacheInvariant, CacheTypeOK
\* What the others stand for, they stand for after the step, unless it is gone.
<1>3. ASSUME NEW gone, \A key : Has(key) => Has(key)' \/ key = gone, t \notin Standing
      PROVE  StandingKeys \ {gone} \subseteq StandingKeys'
  BY <1>1, <1>3 DEF StandingKeys, Standing
<1>4. ASSUME \A key : Has(key) => Has(key)', t \notin Standing
      PROVE  StandingKeys \subseteq StandingKeys'
  BY <1>1, <1>4 DEF StandingKeys, Standing
<1>5. pc[t] \notin {"trim", "pop"} \/ pc'[t] \in {"trim", "pop"} => Late \subseteq Late'
  BY <1>1 DEF Late
<1>6. UNCHANGED entries => \A key : Has(key) => Has(key)'
  BY DEF Has
<1>7. CASE UNCHANGED entries /\ pc[t] \notin Holding /\ pc'[t] \notin {"move", "trim", "pop"}
  <2>1. t \notin Standing /\ pc[t] \notin {"trim", "pop"}
    BY <1>7 DEF Holding, Standing
  <2> QED BY <1>2, <1>4, <1>5, <1>6, <1>7, <2>1, Weighed
<1>8. CASE UNCHANGED entries /\ pc[t] = "move" /\ ~Has(KeyOf(t, at[t]))
  <2>1. t \notin Standing /\ pc[t] \notin {"trim", "pop"}
    BY <1>8 DEF Standing
  <2> QED BY <1>2, <1>4, <1>5, <1>6, <1>8, <2>1, Weighed
<1>9. CASE UNCHANGED entries /\ pc[t] = "trim" /\ (Len(entries) <= Capacity \/ pc'[t] = "pop")
  <2>1. t \notin Standing
    BY <1>9 DEF Standing
  <2>2. CASE Len(entries) <= Capacity
    BY <1>2, <1>9, <2>2, KeysWithin
  <2>3. CASE pc'[t] = "pop"
    BY <1>2, <1>4, <1>5, <1>6, <1>9, <2>1, <2>3, Weighed
  <2> QED BY <1>9, <2>2, <2>3
<1>10. CASE UNCHANGED entries /\ pc[t] = "pop" /\ entries = << >>
  <2>1. Len(entries') = 0
    BY <1>10
  <2> QED BY <1>2, <2>1, KeysWithin
<1>11. CASE UNCHANGED entries /\ pc[t] = "touch"
  <2>1. t \notin Standing /\ pc[t] \notin {"trim", "pop"}
    BY <1>11 DEF Standing
  <2> QED BY <1>2, <1>4, <1>5, <1>6, <1>11, <2>1, Weighed
<1>12. ASSUME NEW k, Has(k), entries' = MovedToEnd(k),
              pc[t] = "touch" \/ (pc[t] = "move" /\ pc'[t] = "trim")
       PROVE  Excess'
  <2>1. Len(entries') = Len(entries) /\ \A key : Has(key) => Has(key)'
    BY <1>12, AfterMove
  <2>2. CASE pc[t] = "touch"
    <3>1. t \notin Standing /\ pc[t] \notin {"trim", "pop"}
      BY <2>2 DEF Standing
    <3> QED BY <1>2, <1>4, <1>5, <2>1, <3>1, Weighed
  <2>3. CASE pc[t] = "move" /\ pc'[t] = "trim"
    <3>1. t \notin Late /\ Late \cup {t} \subseteq Late'
      BY <1>1, <2>3 DEF Late
    <3>2. StandingKeys \ {KeyOf(t, at[t])} \subseteq StandingKeys'
      BY <1>1, <2>1 DEF StandingKeys, Standing
    <3> QED BY <1>2, <2>1, <3>1, <3>2, Weighed
  <2> QED BY <1>12, <2>2, <2>3
<1>13. ASSUME NEW b \in Block, entries' = Assigned(KeyOf(t, b), b),
              pc[t] = "put", pc'[t] = "move", KeyOf(t, at[t])' = KeyOf(t, b)
       PROVE  Excess'
  <2> DEFINE k == KeyOf(t, b)
  <2>1. k \in Key /\ k[2] = b
    BY DEF KeyOf, Key, CacheInvariant, CacheTypeOK, LocalsTyped
  <2>2. /\ \A key : Has(key)' <=> Has(key) \/ key = k
        /\ Len(entries') = IF Has(k) THEN Len(entries) ELSE Len(entries) + 1
    BY <1>13, <2>1, AfterAssignment
  <2>3. t \notin Standing /\ pc[t] \notin {"trim", "pop"}
    BY <1>13 DEF Standing
  <2>4. StandingKeys \subseteq StandingKeys' /\ Late \subseteq Late'
    BY <1>4, <1>5, <2>2, <2>3
  <2>5. k \in StandingKeys'
    <3>1. t \in Standing'
      BY <1>13, <2>2 DEF Standing
    <3> QED BY <1>13, <3>1 DEF StandingKeys
  <2>6. CASE Has(k)
    BY <1>2, <2>2, <2>4, <2>6, Weighed
  <2>7. CASE ~Has(k)
    <3>1. k \notin StandingKeys
      BY <2>7 DEF StandingKeys, Standing
    <3> QED BY <1>2, <2>2, <2>4, <2>5, <2>7, <3>1, Weighed
  <2> QED BY <2>6, <2>7
<1>14. CASE entries # << >> /\ entries' = Tail(entries) /\ pc[t] = "pop" /\ pc'[t] = "trim"
  <2>1. /\ Len(entries') = Len(entries) - 1
        /\ \A key : Has(key) => Has(key)' \/ key = entries[1][1]
    BY <1>14, AfterPop
  <2>2. t \notin Standing
    BY <1>14 DEF Standing
  <2>3. StandingKeys \ {entries[1][1]} \subseteq StandingKeys'
    BY <1>3, <2>1, <2>2
  <2> QED BY <1>2, <1>5, <1>14, <2>1, <2>3, Weighed
<1> QED
  BY <1>7, <1>8, <1>9, <1>10, <1>11, <1>12, <1>13, <1>14, EntriesStep

\* However many threads insert and evict at once, and whichever of them fails: the
\* cache exceeds its capacity by no more than the entries just being put
\* (gateway/cache.py: put).
THEOREM CacheBounded ==
  ASSUME IsFiniteSet(Thread), Capacity \in Nat
  PROVE  CacheSpec => []WithinCapacity
<1>1. CacheInit => CacheInvariant /\ Excess
  <2> SUFFICES ASSUME CacheInit PROVE CacheInvariant /\ Excess
    OBVIOUS
  <2>1. CacheInvariant
    BY InitHolds
  <2>2. Len(entries) = 0
    BY DEF CacheInit
  <2> QED BY <2>1, <2>2, Counted DEF Excess
<1>2. CacheInvariant /\ Excess /\ [CacheNext]_cacheVars => CacheInvariant' /\ Excess'
  <2> SUFFICES ASSUME CacheInvariant, Excess, [CacheNext]_cacheVars PROVE CacheInvariant' /\ Excess'
    OBVIOUS
  <2>1. CacheInvariant'
    BY InvariantStep
  <2>2. CASE UNCHANGED cacheVars
    <3>1. /\ StandingKeys' = StandingKeys /\ Late' = Late /\ entries' = entries
      BY <2>2 DEF cacheVars, shared, locals, StandingKeys, Standing, Late, KeyOf, Has
    <3> QED BY <2>1, <3>1 DEF Excess
  <2> QED BY <2>1, <2>2, ExcessStep DEF CacheNext
<1>3. CacheInvariant /\ Excess => WithinCapacity
  <2> SUFFICES ASSUME CacheInvariant, Excess PROVE WithinCapacity
    OBVIOUS
  <2>1. Standing \cap Late = {} /\ Standing \cup Late \subseteq Putting
    BY DEF Standing, Late, Putting
  <2>2. Cardinality(Standing \cup Late) = Cardinality(Standing) + Cardinality(Late)
    <3>1. Cardinality(Standing \cap Late) = 0
      BY <2>1, FS_EmptySet
    <3>2. Cardinality(Standing \cup Late)
            = Cardinality(Standing) + Cardinality(Late) - Cardinality(Standing \cap Late)
      <4>1. IsFiniteSet(Standing) /\ IsFiniteSet(Late)
        BY Counted
      <4> QED BY ONLY <4>1, FS_Union
    <3> QED BY Counted, <3>1, <3>2
  <2>3. IsFiniteSet(Putting) /\ Cardinality(Putting) \in Nat
    BY FS_Subset, FS_CardinalityType DEF Putting
  <2>4. Cardinality(Standing \cup Late) <= Cardinality(Putting)
    BY <2>1, <2>3, FS_Subset
  <2>5. Len(entries) \in Nat
    BY DEF CacheInvariant, CacheTypeOK
  <2> QED BY <2>2, <2>3, <2>4, <2>5, Counted DEF Excess, WithinCapacity
<1> QED BY <1>1, <1>2, <1>3, PTL DEF CacheSpec

\* What a call of detect_many returns for a block are that block's spans, from the
\* cache or from the detector, whoever evicts or replaces the entry meanwhile.
THEOREM HitsAreTheirOwn == CacheSpec => []AnswersAreTheirOwn
<1>1. CacheInvariant => AnswersAreTheirOwn
  <2> SUFFICES ASSUME CacheInvariant, NEW t \in Thread, Ready(t), NEW i \in DOMAIN texts[t]
               PROVE  Answer(t)[i] = {texts[t][i]}
    BY DEF AnswersAreTheirOwn
  <2>1. texts[t][i] \in Block /\ texts[t][i] \in ToSet(texts[t])
    BY DEF CacheInvariant, CacheTypeOK, LocalsTyped, ToSet
  <2>2. known[t][texts[t][i]].spans \subseteq {texts[t][i]}
    BY <2>1 DEF CacheInvariant, LocalsRight
  <2>3. known[t][texts[t][i]].spans # {}
    BY <2>1 DEF Ready, Missing
  <2> QED BY <2>2, <2>3 DEF Answer
<1> QED BY <1>1, InitHolds, InvariantStep, PTL DEF CacheSpec
=============================================================================
