------------------------------ MODULE HoldBack ------------------------------
(***************************************************************************)
(* The hold-back of a streamed answer (gateway/restore.py): one run of     *)
(* text arrives in pieces cut anywhere, and is handed on in pieces that    *)
(* are restored one by one.                                                *)
(*                                                                         *)
(* A character is "[", "]", "N" for any that may stand in a placeholder's  *)
(* name (the rule that a name starts with a capital is left out: it only   *)
(* releases text sooner) or "x" for any other.  One name has been issued   *)
(* by the mapping, NameLength characters long, and "v" is its value.       *)
(***************************************************************************)
EXTENDS Integers, Sequences, SequencesExt

CONSTANTS
  NameLength,  \* of the issued placeholder's name
  MaxHold,     \* max_placeholder_length(catalogue)
  Pieces,      \* what the provider may send at a time
  MaxText      \* bound: characters in a stream

ASSUME LengthAssumption ==
  /\ NameLength \in Nat \ {0} /\ MaxHold \in Nat
  /\ NameLength + 4 <= MaxHold  \* the longest name, and its suffix
ASSUME PieceAssumption == Pieces \subseteq Seq({"[", "]", "N", "x"})

VARIABLES
  lenient, \* gateway_fuzzy, fixed when the app starts
  fed,     \* everything the provider sent
  held,    \* HoldBack._held
  shown,   \* what the client has been given, restored
  closed

vars == <<lenient, fed, held, shown, closed>>

-----------------------------------------------------------------------------
Names(s) == \A i \in DOMAIN s : s[i] = "N"

\* [A-Z][A-Z0-9_]*\]? or nothing
NameTail(s) == Names(s) \/ (Len(s) > 1 /\ Names(Front(s)) /\ Last(s) = "]")

MutantTwoBracketsOnly(s) ==
  Len(s) > 1 /\ s[1] = "[" /\ s[2] = "[" /\ NameTail(Tail(Tail(s)))

\* _PARTIAL_TAIL_RE: a placeholder of which the end is missing.
StrictTail(s) ==
  /\ s # << >> /\ s[1] = "["
  /\ Len(s) > 1 => s[2] = "[" /\ NameTail(Tail(Tail(s)))

\* _LENIENT_TAIL_RE: one bracket is enough.
LenientTail(s) ==
  /\ s # << >> /\ s[1] = "["
  /\ \/ NameTail(Tail(s))
     \/ Len(s) > 1 /\ s[2] = "[" /\ NameTail(Tail(Tail(s)))

MutantTailLenient(s) == StrictTail(s)
IsTail(s) == IF lenient THEN LenientTail(s) ELSE StrictTail(s)

From(s, i) == SubSeq(s, i, Len(s))

\* Where pattern.search finds its leftmost match; past the end for none.
HoldFrom(s) ==
  LET starts == {i \in DOMAIN s : IsTail(From(s, i))}
  IN  IF starts = {} THEN Len(s) + 1 ELSE CHOOSE i \in starts : \A j \in starts : i <= j

\* What feed keeps of its buffer: nothing, if it is too long for a placeholder.
Keep(s) ==
  IF Len(From(s, HoldFrom(s))) > MaxHold THEN << >> ELSE From(s, HoldFrom(s))

-----------------------------------------------------------------------------
(* What one lookup makes of one piece.                                     *)

Rendered == <<"[", "[">> \o [i \in 1 .. NameLength |-> "N"] \o <<"]", "]">>

IssuedAt(s, i) ==
  /\ i + Len(Rendered) - 1 <= Len(s)
  /\ SubSeq(s, i, i + Len(Rendered) - 1) = Rendered

\* The exact pass of reverse_text.
ExactRestored(s) ==
  FlattenSeq([i \in DOMAIN s |->
    IF IssuedAt(s, i) THEN <<"v">>
    ELSE IF \E j \in DOMAIN s : j < i /\ i < j + Len(Rendered) /\ IssuedAt(s, j)
      THEN << >> ELSE <<s[i]>>])

\* The issued name, not part of a longer word: what _tolerant_pattern finds.
WordAt(s, i) ==
  /\ i + NameLength - 1 <= Len(s)
  /\ Names(SubSeq(s, i, i + NameLength - 1))
  /\ i = 1 \/ s[i - 1] # "N"
  /\ i + NameLength > Len(s) \/ s[i + NameLength] # "N"

\* The tolerant pass; that it takes the brackets as well is left out.
TolerantRestored(s) ==
  FlattenSeq([i \in DOMAIN s |->
    IF WordAt(s, i) THEN <<"v">>
    ELSE IF \E j \in DOMAIN s : j < i /\ i < j + NameLength /\ WordAt(s, j)
      THEN << >> ELSE <<s[i]>>])

Restored(s) == IF lenient THEN TolerantRestored(s) ELSE ExactRestored(s)

-----------------------------------------------------------------------------
Init == lenient \in BOOLEAN /\ fed = << >> /\ held = << >> /\ shown = << >> /\ closed = FALSE

Feed ==
  /\ ~closed
  /\ \E piece \in Pieces :
       LET buffer == held \o piece
       IN  /\ Len(fed) + Len(piece) <= MaxText
           /\ fed' = fed \o piece
           /\ held' = Keep(buffer)
           /\ shown' = shown \o Restored(SubSeq(buffer, 1, Len(buffer) - Len(held')))
  /\ UNCHANGED <<lenient, closed>>

Flush ==
  /\ ~closed
  /\ shown' = shown \o Restored(held)
  /\ held' = << >> /\ closed' = TRUE
  /\ UNCHANGED <<lenient, fed>>

Next == Feed \/ Flush
Spec == Init /\ [][Next]_vars

-----------------------------------------------------------------------------
\* However a stream is cut up, in strict mode the client reads what it would have
\* read had the answer come in one piece: no placeholder is split, none is missed,
\* nothing is dropped, repeated or moved.  And in either mode it reads it in time:
\* no more is ever withheld than a placeholder is long.
AsIfWhole ==
  /\ ~lenient /\ closed => shown = Restored(fed)
  /\ Len(held) <= MaxHold

\* A name a model has left one opening bracket of is still restored however
\* the stream was cut.
BracketedRecovered ==
  lenient /\ closed =>
    Len(SelectSeq(shown, LAMBDA c : c = "v")) >=
      Len(SelectSeq([i \in DOMAIN fed |-> i > 1 /\ fed[i - 1] = "[" /\ WordAt(fed, i)],
                    LAMBDA b : b))
=============================================================================
