------------------------------- MODULE Chunks -------------------------------
(***************************************************************************)
(* How a text that is longer than the model's window is cut into chunks    *)
(* that overlap (parser/gliner_detector.py: detect_many, chunk_text,       *)
(* _split_point).  One step per turn of the loop.  Offsets count from 0, a *)
(* range [from, to) is half open; a text is a sequence of characters.      *)
(***************************************************************************)
EXTENDS Integers, Sequences, FiniteSets

CONSTANTS
  Chars,       \* the characters a text is made of
  Texts,       \* the texts handed to the model
  MaxChars,    \* the window: Settings.chunk_chars, 512 and at least 200
  MaxOverlap   \* the overlap asked for: 200

ASSUME ChunkAssumption ==
  /\ Texts \subseteq Seq(Chars)
  /\ MaxChars \in Nat \ {0}
  /\ MaxOverlap \in Nat

VARIABLES
  text,     \* the text
  start,    \* where the next chunk begins
  chunks,   \* the chunks so far: ranges of the text
  over      \* the loop has ended

chunkVars == <<text, start, chunks, over>>

Blanks == {" ", "nl"}
Least(a, b) == IF a <= b THEN a ELSE b

\* The overlap in effect: never more than a quarter of the window.
Overlap == Least(MaxOverlap, MaxChars \div 4)

\* A paragraph break is preferred to a line break, a line break to a space.
Separators == <<<<"nl", "nl">>, <<"nl">>, <<" ">>>>

\* Where a cut falls that follows the last such separator in t[from, to).
CutsAfter(t, separator, from, to) ==
  {e \in (from + Len(separator)) .. to :
     \A k \in 1 .. Len(separator) : t[e - Len(separator) + k] = separator[k]}

\* The end of the chunk that begins at `from` and has room up to `to`: a break
\* in the second half of the window, or the full window.
SplitPoint(t, from, to) ==
  LET half == from + ((to - from) \div 2)
      Cuts(k) == CutsAfter(t, Separators[k], half, to)
      Last(k) == CHOOSE e \in Cuts(k) : \A f \in Cuts(k) : f <= e
  IN  IF Cuts(1) # {} THEN Last(1)
      ELSE IF Cuts(2) # {} THEN Last(2)
      ELSE IF Cuts(3) # {} THEN Last(3)
      ELSE to

\* The end of the chunk that begins at `from`.
ChunkEnd(from) ==
  IF from + MaxChars < Len(text) THEN SplitPoint(text, from, from + MaxChars)
                                 ELSE Len(text)

MutantWithoutOverlap(from, end) == end

\* Where the chunk after [from, end) begins: back by the overlap, unless that
\* is not behind `from`.
NextStart(from, end) == IF end - Overlap > from THEN end - Overlap ELSE end

Begin == /\ start = 0
         /\ chunks = {}
         /\ over = FALSE

Init == text \in Texts /\ Begin

IsBlank == \A i \in 1 .. Len(text) : text[i] \in Blanks

\* detect_many: a blank text is never shown to the model.
SkipBlank ==
  /\ ~over
  /\ IsBlank
  /\ over' = TRUE
  /\ UNCHANGED <<text, start, chunks>>

\* chunk_text: a text that fits the window is one chunk.
TakeWhole ==
  /\ ~over
  /\ ~IsBlank
  /\ Len(text) <= MaxChars
  /\ chunks' = {[from |-> 0, to |-> Len(text)]}
  /\ over' = TRUE
  /\ UNCHANGED <<text, start>>

\* chunk_text: one turn of the loop.
TakeChunk ==
  /\ ~over
  /\ ~IsBlank
  /\ Len(text) > MaxChars
  /\ LET end == ChunkEnd(start) IN
       /\ chunks' = chunks \cup {[from |-> start, to |-> end]}
       /\ IF end >= Len(text)
            THEN over' = TRUE /\ UNCHANGED start
            ELSE start' = NextStart(start, end) /\ UNCHANGED over
  /\ UNCHANGED text

Next == SkipBlank \/ TakeWhole \/ TakeChunk

Spec == Init /\ [][Next]_chunkVars

-----------------------------------------------------------------------------
ChunksTypeOK ==
  /\ text \in Seq(Chars)
  /\ start \in 0 .. Len(text)
  /\ chunks \subseteq [from : 0 .. Len(text), to : 0 .. Len(text)]
  /\ over \in BOOLEAN

Shown(a, b) == \E c \in chunks : c.from <= a /\ b <= c.to

\* An entity that lies on a cut is seen whole by some chunk, if it is no longer
\* than the overlap and one character (gliner_detector.py:314, chunk_text: "an
\* entity sitting on a chunk boundary is seen whole by at least one chunk").
SeenWhole ==
  over /\ chunks # {} =>
    \A a, b \in 0 .. Len(text) :
      a < b /\ b - a <= Overlap + 1 => Shown(a, b)

\* The loop moves on by more than a quarter of the window each time: the number
\* of model calls stays proportional to the text, whatever the window
\* (gliner_detector.py:320, "the loop crawls forward a character at a time").
Strides == [][start' # start => start' - start > MaxChars \div 4]_chunkVars
=============================================================================
