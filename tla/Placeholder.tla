---------------------------- MODULE Placeholder ----------------------------
(***************************************************************************)
(* The names of placeholders (database/placeholder.py): how the n-th       *)
(* suffix is written, how a placeholder is rendered, and how the pattern   *)
(* that finds one takes it apart again.  The vault hands suffixes out one  *)
(* after the other, and so does this module.                               *)
(*                                                                         *)
(* A character is its code: 65 .. 90 for the capitals, 48 .. 57 for the    *)
(* digits, 95 for "_".                                                     *)
(***************************************************************************)
EXTENDS Integers, Sequences, FiniteSetsExt

CONSTANTS
  TypeNames,  \* of the catalogue
  LastIndex   \* bound: entities in the vault

Capital == 65 .. 90
Digit == 48 .. 57
Underscore == 95

AllIn(s, chars) == \A i \in DOMAIN s : s[i] \in chars
After(s, i) == SubSeq(s, i + 1, Len(s))
UpTo(s, i) == SubSeq(s, 1, i)

\* TYPE_NAME_RE
IsTypeName(s) ==
  s # << >> /\ s[1] \in Capital /\ AllIn(s, Capital \cup Digit \cup {Underscore})

ASSUME NameAssumption ==
  /\ TypeNames \subseteq Seq(Capital \cup Digit \cup {Underscore})
  /\ \A name \in TypeNames : IsTypeName(name)

\* Fewer entities than nine for each word of seven letters.
ASSUME IndexAssumption ==
  LastIndex \in Nat /\ LastIndex \div (9 * 26 * 26 * 26) < 26 * 26 * 26 * 26

VARIABLES
  index,    \* of the entity that was stored last
  written   \* its suffix, had the next one always been written from the last

-----------------------------------------------------------------------------
(* encode_suffix                                                           *)

\* _letters: base 26 without a zero.
Letters(n) ==
  LET f[k \in Nat] ==
        IF k = 0 THEN << >> ELSE Append(f[(k - 1) \div 26], 65 + ((k - 1) % 26))
  IN  f[n]

EncodeSuffix(i) == Append(Letters((i \div 9) + 1), 49 + (i % 9))

-----------------------------------------------------------------------------
(* format_placeholder and PLACEHOLDER_RE, the brackets apart.              *)

Render(name, suffix) == name \o <<Underscore>> \o suffix

\* [A-Z]+[0-9]+
IsSuffixGroup(s) ==
  \E i \in 1 .. Len(s) - 1 : AllIn(UpTo(s, i), Capital) /\ AllIn(After(s, i), Digit)

Splits(s) ==
  {i \in DOMAIN s :
     s[i] = Underscore /\ IsTypeName(UpTo(s, i - 1)) /\ IsSuffixGroup(After(s, i))}

MutantFirstUnderscore(s) ==
  LET i == Min({j \in DOMAIN s : s[j] = Underscore}) IN
  [type |-> UpTo(s, i - 1), suffix |-> After(s, i)]

\* The greedy name backtracks to the last place where the rest still matches.
ReadPlaceholder(s) ==
  IF Splits(s) = {} THEN [type |-> << >>, suffix |-> << >>]
  ELSE [type |-> UpTo(s, Max(Splits(s)) - 1), suffix |-> After(s, Max(Splits(s)))]

-----------------------------------------------------------------------------
CountInit == index = 0 /\ written = <<65, 49>>

\* What comes after a word of capitals: AZ is followed by BA, ZZ by AAA.
NextWord(s) ==
  LET last == Max({0} \cup {i \in DOMAIN s : s[i] # 90}) IN
  IF last = 0 THEN [i \in 1 .. Len(s) + 1 |-> 65]
  ELSE [i \in DOMAIN s |-> IF i < last THEN s[i] ELSE IF i = last THEN s[i] + 1 ELSE 65]

\* A1 .. A9, B1 .. B9, .., Z9, AA1, as the docstring has them.
NextSuffix(s) ==
  LET word == UpTo(s, Len(s) - 1) IN
  IF s[Len(s)] < 57 THEN Append(word, s[Len(s)] + 1) ELSE Append(NextWord(word), 49)

Count ==
  /\ index < LastIndex
  /\ index' = index + 1
  /\ written' = NextSuffix(written)

CountSpec == CountInit /\ [][Count]_<<index, written>>

-----------------------------------------------------------------------------
\* The n-th entity's placeholder is read back, in whatever text it stands, as the
\* type it was made of and the n-th suffix of the documented order, carries and all:
\* no two entities share a placeholder.  It fits the room that the hold-back of a
\* stream leaves for it (_SUFFIX_ALLOWANCE).
ReadsBack ==
  \A name \in TypeNames :
    LET s == Render(name, EncodeSuffix(index)) IN
    /\ ReadPlaceholder(s) = [type |-> name, suffix |-> written]
    /\ Len(s) <= Len(name) + 1 + 8
=============================================================================
