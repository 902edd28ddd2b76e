------------------------------ MODULE Masking ------------------------------
(***************************************************************************)
(* The parts of a document that are not searched (parser/markdown.py):     *)
(* fenced code, HTML comments, code between backticks, URLs.  A document   *)
(* is a sequence of characters and marks of one position each: "fence" for *)
(* three backticks, "tick" for a single one (no two side by side), "open"  *)
(* and "close" for the two ends of an HTML comment, "url" for a URL.       *)
(* Offsets count from 0.                                                   *)
(***************************************************************************)
EXTENDS Integers, Sequences, FiniteSets

CONSTANT ScanCode    \* Settings.scan_code: nothing is masked

At(t, i) == t[i + 1]
Offsets(t) == 0 .. (Len(t) - 1)

\* The characters of t[from, to).
Slice(t, from, to) == SubSeq(t, from + 1, to)

-----------------------------------------------------------------------------
\* The line of i begins there.
LineStart(t, i) ==
  CHOOSE l \in 0 .. i : /\ l = 0 \/ At(t, l - 1) = "nl"
                        /\ \A k \in l .. (i - 1) : At(t, k) # "nl"

FenceAt(t, i) == At(t, i) = "fence" /\ (i = 0 \/ At(t, i - 1) = "nl")

\* Nothing follows the mark on its line.
Bare(t, i) ==
  \A k \in (i + 1) .. (Len(t) - 1) :
    LineStart(t, k) = i /\ At(t, k) # "nl" => At(t, k) = " "

\* A fence is open before i.  A mark opens one; a bare mark closes it.
InsideFence(t) ==
  LET open[i \in 0 .. Len(t)] ==
        IF i = 0 THEN FALSE
        ELSE IF FenceAt(t, i - 1) THEN ~open[i - 1] \/ ~Bare(t, i - 1)
        ELSE open[i - 1]
  IN  open

\* The lines of fenced blocks, the marks' own lines among them; a block that is
\* never closed runs to the end.
FencedCode(t) ==
  {i \in Offsets(t) : LET l == LineStart(t, i)
                      IN  InsideFence(t)[l] \/ FenceAt(t, l)}

Comments(t) ==
  {i \in Offsets(t) :
     \E from \in 0 .. i, to \in i .. (Len(t) - 1) :
       /\ from < to /\ At(t, from) = "open" /\ At(t, to) = "close"
       /\ \A k \in from .. (to - 1) : At(t, k) # "close"}

\* Backticks pair off from the left; a pair that touches `taken` is no region,
\* and is consumed all the same.
InlineCode(t, taken) ==
  LET ticks == {i \in Offsets(t) : At(t, i) = "tick"}
      Before(i) == Cardinality({k \in ticks : k < i})
      pairs == {p \in ticks \X ticks :
                  Before(p[1]) % 2 = 0 /\ Before(p[2]) = Before(p[1]) + 1}
  IN  UNION {p[1] .. p[2] : p \in {q \in pairs : (q[1] .. q[2]) \cap taken = {}}}

\* protected_regions, as the set of offsets the regions cover.
Hidden(t) ==
  IF ScanCode THEN {}
  ELSE LET taken == FencedCode(t) \cup Comments(t)
       IN  taken \cup InlineCode(t, taken) \cup {i \in Offsets(t) : At(t, i) = "url"}

\* The view a detector is shown: as long as the document, blank where it is
\* hidden but for the line breaks.
View(t) ==
  [k \in 1 .. Len(t) |-> IF k - 1 \in Hidden(t) /\ t[k] # "nl" THEN " " ELSE t[k]]
=============================================================================
