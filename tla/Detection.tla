----------------------------- MODULE Detection -----------------------------
(***************************************************************************)
(* One pass of detection over one document (parser/detection_pass.py): the *)
(* view is cut into chunks (Chunks), the model proposes spans of them, the *)
(* backstops claim theirs (backstops.py, detector.py), and merge.py makes  *)
(* of both a list of spans that do not overlap: threshold, trimming, the   *)
(* cut at exact spans, the greedy choice, the sweep for repeats and a      *)
(* second merge.  What the model sees in a chunk is any choice.            *)
(*                                                                         *)
(* A span is a record of its range, its text, its type, the score and the  *)
(* detector it came from.                                                  *)
(***************************************************************************)
EXTENDS Chunks, Masking, FiniteSetsExt

CONSTANTS
  Documents,     \* the documents
  Catalogue,     \* by type: labelled (the model knows it), floor (the threshold
                 \* in effect), sweep (the mode), checked and valid (the
                 \* validator), backstop (head, body, gate)
  SweepOn,       \* Settings.coreference_sweep
  Scores,        \* the scores the model gives
  Window,        \* _REPAIR_WINDOW
  MinLength,     \* _MIN_SWEEP_LENGTH, _MIN_TRIM_LENGTH
  MaxProposed    \* bound: spans the model proposes

ASSUME DetectionAssumption ==
  /\ Documents \subseteq Seq(Chars)
  /\ " " \in Chars
  /\ MinLength \in Nat \ {0}

VARIABLES
  doc,       \* the document; `text` is its view
  phase,     \* where the pass is
  found,     \* the spans of the detectors
  pending,   \* candidates the greedy choice has not looked at
  accepted,  \* those it has taken
  merged     \* the result of the first merge

vars == <<chunkVars, doc, phase, found, pending, accepted, merged>>

Word == {"a", "b", "A", "B", "1", "2"}
Fold(t) == [k \in DOMAIN t |-> IF t[k] = "A" THEN "a" ELSE IF t[k] = "B" THEN "b"
                               ELSE t[k]]

Meets(s, r) == s.from < r.to /\ r.from < s.to
Covers(s) == s.from .. (s.to - 1)
Size(s) == s.to - s.from

\* The same detection, of a part of its range.
Narrowed(s, from, to) ==
  [from |-> from, to |-> to, text |-> Slice(s.text, from - s.from, to - s.from),
   type |-> s.type, score |-> s.score, source |-> s.source]

-----------------------------------------------------------------------------
(* The model (gliner_detector.py). *)

Occurrences(surface) ==
  {i \in 0 .. (Len(text) - Len(surface)) : Slice(text, i, i + Len(surface)) = surface}

\* _locate: at the hint, else the first near it, else the only one there is.
Located(surface, hint) ==
  LET all == Occurrences(surface)
      near == {i \in all : hint - Window <= i /\ i <= hint + Window}
  IN  IF hint \in all THEN {hint}
      ELSE IF near # {} THEN {Min(near)}
      ELSE IF Cardinality(all) = 1 THEN all
      ELSE {}

\* A token of a chunk begins, or ends, between two of its characters.
TokenEdge(c, i) ==
  i \in {c.from, c.to} \/ ~ (At(text, i - 1) \in Word /\ At(text, i) \in Word)

\* What the model may report of a chunk: whole tokens, at an offset that is
\* off by one at most or not given.
Reports(c) ==
  {r \in [from : c.from .. c.to, to : c.from .. c.to, hint : (c.from - 1) .. c.to] :
     /\ r.from < r.to
     /\ TokenEdge(c, r.from) /\ At(text, r.from) \notin Blanks
     /\ TokenEdge(c, r.to) /\ At(text, r.to - 1) \notin Blanks
     /\ r.hint \in {r.from - 1, r.from, r.from + 1, c.from}}

\* _to_spans, _build_span: one item of the model's answer.  Overlapping chunks
\* report an entity twice; the first report stays.
Propose ==
  /\ phase = "propose"
  /\ Cardinality(found) < MaxProposed
  /\ \E c \in chunks : \E r \in Reports(c), score \in Scores,
        type \in {t \in DOMAIN Catalogue : Catalogue[t].labelled} :
       LET surface == Slice(text, r.from, r.to)
       IN \E at \in Located(surface, r.hint) :
            /\ ~ \E s \in found : /\ s.from = at /\ s.to = at + Len(surface)
                                  /\ s.type = type
            /\ found' = found \cup
                 {[from |-> at, to |-> at + Len(surface), text |-> surface,
                   type |-> type, score |-> score, source |-> "gliner"]}
  /\ UNCHANGED <<chunkVars, doc, phase, pending, accepted, merged>>

-----------------------------------------------------------------------------
(* The backstops (backstops.py, detector.py). *)

Joints == {" ", "-"}

\* The pattern matches [i, e) of the view: words that begin with a character of
\* `head`, go on with those of `body` and are joined by single joints.
Matches(p, i, e) ==
  /\ e - i >= 2
  /\ At(text, i) \in p.head /\ At(text, e - 1) \in p.body
  /\ \A k \in i .. (e - 1) : At(text, k) \in p.body \cup Joints
  /\ \A k \in i .. (e - 2) : ~ (At(text, k) \in Joints /\ At(text, k + 1) \in Joints)
  /\ i = 0 \/ At(text, i - 1) \notin Word
  /\ e = Len(text) \/ At(text, e) \notin Word

\* _matches: the leftmost, longest match, peeled back to a joint until the gate
\* lets it pass; the search goes on behind what was taken, or one further on.
Claimed(p) ==
  LET End(i) == {e \in (i + 1) .. Len(text) : Matches(p, i, e)}
      from[pos \in 0 .. Len(text)] ==
        LET begins == {i \in pos .. (Len(text) - 1) : End(i) # {}}
            i == Min(begins)
            raw == Max(End(i))
            passing == {e \in {raw} \cup {k \in (i + 1) .. (raw - 1) : At(text, k) \in Joints} :
                          Slice(text, i, e) \in p.gate}
        IN  IF begins = {} THEN {}
            ELSE IF passing = {} THEN from[i + 1]
            ELSE {<<i, Max(passing)>>} \cup from[Max(passing)]
  IN  {m \in from[0] \cap (Offsets(text) \X (1 .. Len(text))) : m[1] < m[2]}

\* RegexDetector.detect
Backstops ==
  UNION {{[from |-> m[1], to |-> m[2], text |-> Slice(text, m[1], m[2]), type |-> type,
           score |-> Max(Scores), source |-> "regex"] : m \in Claimed(Catalogue[type].backstop)}
         : type \in DOMAIN Catalogue}

-----------------------------------------------------------------------------
(* Candidates (merge.py: _trim, _passes_rule_check, _trim_to_exact_spans). *)

\* The range of t without the characters of `lead` in front and of `trail`
\* behind: none if nothing is left.
Core(t, lead, trail) ==
  {c \in (0 .. Len(t)) \X (0 .. Len(t)) :
     /\ c[1] < c[2]
     /\ t[c[1] + 1] \notin lead /\ \A k \in 1 .. c[1] : t[k] \in lead
     /\ t[c[2]] \notin trail /\ \A k \in (c[2] + 1) .. Len(t) : t[k] \in trail}

LeadingTrim == Blanks \cup {"("}
TrailingTrim == Blanks \cup {")", "."}

\* Each pattern of backstops.py asks for letters or digits: what it passes, and
\* is long enough to sweep for, is not all punctuation ("::" is an address).
ASSUME BackstopAssumption ==
  \A type \in DOMAIN Catalogue : \A t \in Catalogue[type].backstop.gate :
    Len(t) >= MinLength =>
      \E k \in DOMAIN t : t[k] \notin LeadingTrim \cup TrailingTrim

Trimmed(s) ==
  IF s.source = "regex" THEN {s}
  ELSE {r \in {Narrowed(s, s.from + c[1], s.from + c[2]) :
                 c \in Core(s.text, LeadingTrim, TrailingTrim)} :
          r = s \/ r.text = Slice(doc, r.from, r.to)}

PassesRule(s) ==
  s.source = "gliner" /\ Catalogue[s.type].checked => s.text \in Catalogue[s.type].valid

MutantHiddenStays(spans) ==
  {r \in UNION {Trimmed(s) : s \in {q \in spans : q.score >= Catalogue[q.type].floor}} :
     PassesRule(r)}

Filtered(spans) ==
  {r \in UNION {Trimmed(s) : s \in {q \in spans : q.score >= Catalogue[q.type].floor}} :
     PassesRule(r) /\ Covers(r) \cap Hidden(doc) = {}}

Exact(spans) == {s \in spans : s.source = "regex"}

\* The pieces of s that no exact span covers.
Pieces(s, exact) ==
  LET free == Covers(s) \ UNION {Covers(e) : e \in exact}
  IN  {p \in free \X {i + 1 : i \in free} :
         /\ p[1] .. (p[2] - 1) \subseteq free /\ p[1] < p[2]
         /\ p[1] - 1 \notin free /\ p[2] \notin free}

\* The longest piece, the leftmost of equals.
Longest(pieces) ==
  {p \in pieces : \A q \in pieces :
     \/ p[2] - p[1] > q[2] - q[1]
     \/ p[2] - p[1] = q[2] - q[1] /\ p[1] <= q[1]}

MutantLongerKeepsItsRange(s, exact) ==
  IF s.source = "gliner" /\ \E e \in exact : Meets(s, e) /\ Size(s) <= Size(e)
  THEN {} ELSE {s}

CutBack(s, exact) ==
  IF s.source # "gliner" \/ \A e \in exact : ~Meets(s, e) THEN {s}
  ELSE LET rests == {Narrowed(s, p[1], p[2]) : p \in Longest(Pieces(s, exact))}
       IN  {r \in UNION {Trimmed(t) : t \in
                          {u \in rests : /\ Size(u) >= MinLength
                                         /\ u.text = Slice(doc, u.from, u.to)}} :
              PassesRule(r)}

Candidates(spans) ==
  LET kept == Filtered(spans) IN UNION {CutBack(s, Exact(kept)) : s \in kept}

-----------------------------------------------------------------------------
(* The greedy choice (merge_spans). *)

Rank(s) == CASE s.source = "gliner" -> 3 [] s.source = "regex" -> 2 [] OTHER -> 1

\* The sort key: longest first, then the source, the score, the position.
Precedes(s, r) ==
  LET a == <<Size(r), Rank(r), r.score, s.from>>
      b == <<Size(s), Rank(s), s.score, r.from>>
  IN  \E k \in 1 .. 4 : a[k] < b[k] /\ \A j \in 1 .. (k - 1) : a[j] = b[j]

MutantBreaksAtClash ==
  /\ phase \in {"choose", "choose again"}
  /\ \E s \in pending :
       /\ \A r \in pending : ~Precedes(r, s)
       /\ pending' = IF \E r \in accepted : Meets(s, r) THEN {} ELSE pending \ {s}
       /\ accepted' = IF \E r \in accepted : Meets(s, r) THEN accepted ELSE accepted \cup {s}
  /\ UNCHANGED <<chunkVars, doc, phase, found, merged>>

Choose ==
  /\ phase \in {"choose", "choose again"}
  /\ \E s \in pending :
       /\ \A r \in pending : ~Precedes(r, s)
       /\ pending' = pending \ {s}
       /\ accepted' = IF \E r \in accepted : Meets(s, r) THEN accepted ELSE accepted \cup {s}
  /\ UNCHANGED <<chunkVars, doc, phase, found, merged>>

-----------------------------------------------------------------------------
(* The sweep (coreference_sweep). *)

\* span.text.strip()
Surface(s) == LET whole == Core(s.text, Blanks, Blanks)
              IN  IF whole = {} THEN <<>>
                  ELSE LET c == CHOOSE c \in whole : TRUE IN Slice(s.text, c[1], c[2])

\* One span for each type and surface, letters of either case alike.
Representatives(spans) ==
  {s \in spans : \A r \in spans :
     r.type = s.type /\ Fold(Surface(r)) = Fold(Surface(s)) => s.from <= r.from}

\* The word occurs at i of the view (_sweep_pattern).
OccursAt(word, mode, i) ==
  LET e == i + Len(word)
      here == Slice(text, i, e)
      before == IF mode = "icase" THEN Word \cup {".", "-"} ELSE Word
      after == IF mode = "icase" THEN Word \cup {"-"} ELSE Word
  IN  /\ e <= Len(text)
      /\ here = word \/ (mode = "icase" /\ Fold(here) = Fold(word))
      /\ i = 0 \/ At(text, i - 1) \notin before
      /\ e = Len(text) \/ At(text, e) \notin after

MutantFirstHit(word, mode) ==
  LET at == {i \in 0 .. (Len(text) - Len(word)) : OccursAt(word, mode, i)}
  IN  IF at = {} THEN {} ELSE {Min(at)}

\* pattern.finditer: the occurrences from the left that do not overlap.
Hits(word, mode) ==
  LET from[pos \in 0 .. Len(text)] ==
        LET at == {i \in pos .. (Len(text) - Len(word)) : OccursAt(word, mode, i)}
        IN  IF at = {} THEN {} ELSE {Min(at)} \cup from[Min(at) + Len(word)]
  IN  from[0] \cap (0 .. (Len(text) - Len(word)))

\* The spans a hit of s's surface makes.
Repeats(s) ==
  {[from |-> i, to |-> i + Len(Surface(s)), text |-> Slice(doc, i, i + Len(Surface(s))),
    type |-> s.type, score |-> s.score, source |-> "coref"]
     : i \in Hits(Surface(s), Catalogue[s.type].sweep)}

Swept(spans) ==
  LET searched == {s \in Representatives(spans) :
                     Len(Surface(s)) >= MinLength /\ Catalogue[s.type].sweep # "off"}
      New(s) == {r \in Repeats(s) : \A q \in spans : ~Meets(r, q)}
  IN  UNION {{r \in New(s) : \A q \in searched : q.from < s.from =>
                \A p \in New(q) : p.from # r.from \/ p.to # r.to}
             : s \in searched}

-----------------------------------------------------------------------------
DetectInit ==
  /\ doc \in Documents
  /\ text = View(doc)
  /\ Begin
  /\ phase = "cut"
  /\ found = {} /\ pending = {} /\ accepted = {} /\ merged = {}

\* detect_many
Cut ==
  /\ phase = "cut"
  /\ Next
  /\ phase' = IF over' THEN "propose" ELSE "cut"
  /\ UNCHANGED <<doc, found, pending, accepted, merged>>

\* CompositeDetector.detect_many is done; resolve_spans begins.
Merge ==
  /\ phase = "propose"
  /\ found' = found \cup Backstops
  /\ pending' = Candidates(found')
  /\ phase' = "choose"
  /\ UNCHANGED <<chunkVars, doc, accepted, merged>>

\* resolve_spans: the first merge is done; without a repeat it is the result.
Sweep ==
  /\ phase = "choose" /\ pending = {}
  /\ merged' = accepted
  /\ LET extra == IF SweepOn THEN Swept(accepted) ELSE {} IN
       IF extra = {}
       THEN phase' = "done" /\ UNCHANGED <<pending, accepted>>
       ELSE /\ phase' = "choose again"
            /\ pending' = Candidates(accepted \cup extra)
            /\ accepted' = {}
  /\ UNCHANGED <<chunkVars, doc, found>>

Finish ==
  /\ phase = "choose again" /\ pending = {}
  /\ phase' = "done"
  /\ UNCHANGED <<chunkVars, doc, found, pending, accepted, merged>>

DetectNext == Cut \/ Propose \/ Merge \/ Choose \/ Sweep \/ Finish

DetectSpec == DetectInit /\ [][DetectNext]_vars

-----------------------------------------------------------------------------
\* The spans of a document can be replaced one after another: none overlaps
\* another (pseudonymizer.py splices placeholders in from offsets it trusts).
Disjoint == \A s, r \in accepted : s # r => ~Meets(s, r)

\* And what is replaced is what the document says there, and never in code, a
\* comment or a URL, although the texts of spans come from the masked view.
Replaceable ==
  /\ Disjoint
  /\ \A s \in accepted : /\ s.from < s.to
                         /\ s.text = Slice(doc, s.from, s.to)
                         /\ Covers(s) \cap Hidden(doc) = {}

\* The second merge takes nothing back (merge.py:80, "The sweep can only add
\* spans").
SweepOnlyAdds == phase = "done" => merged \subseteq accepted

Touched(s) == \E r \in accepted : Meets(s, r)

\* A detection that passed the filters leaves a trace: some of it is replaced,
\* or some of an exact span that it ran into is.
NothingVanishes ==
  phase = "done" =>
    \A s \in Filtered(found) :
      Touched(s) \/ \E e \in Exact(Filtered(found)) : Meets(s, e) /\ Touched(e)

\* An exact span gives way to a longer or equal exact span only, and a model
\* span never reaches into one (merge.py:278, "it is a proven boundary").
ExactStands ==
  phase = "done" =>
    \A e \in Exact(Filtered(found)) :
      /\ \E r \in Exact(accepted) : r = e \/ (Meets(r, e) /\ Size(r) >= Size(e))
      /\ \A s \in accepted : s.source = "gliner" => ~Meets(s, e)

\* What the documentation says of the sweep: every surface form that is accepted
\* is found again elsewhere (docs/configuration.md:30).
EveryForm ==
  SweepOn /\ phase = "done" =>
    \A s \in merged :
      LET mode == Catalogue[s.type].sweep
          word == Surface(s)
      IN  Len(word) >= MinLength /\ mode # "off" =>
            \A i \in 0 .. (Len(text) - Len(word)) :
              OccursAt(word, mode, i) =>
                LET here == [from |-> i, to |-> i + Len(word)] IN
                (\E r \in accepted : Meets(r, here)) \/ Covers(here) \cap Hidden(doc) # {}

\* Where the word of an accepted span occurs again, something is replaced: the
\* word searched for is that of the first span with it, and an occurrence may
\* hide behind one that overlaps it to the left.
EveryRepeat ==
  SweepOn /\ phase = "done" =>
    \A s \in Representatives(merged) :
      LET mode == Catalogue[s.type].sweep
          word == Surface(s)
      IN  Len(word) >= MinLength /\ mode # "off" =>
            \A i \in 0 .. (Len(text) - Len(word)) :
              OccursAt(word, mode, i) =>
                LET here == [from |-> i, to |-> i + Len(word)] IN
                \/ \E r \in accepted : Meets(r, here)
                \/ Covers(here) \cap Hidden(doc) # {}
                \/ \E k \in 0 .. (i - 1) :
                     k + Len(word) > i /\ OccursAt(word, mode, k)
=============================================================================
