---------------------------- MODULE StreamText ----------------------------
(***************************************************************************)
(* Streamed text as the protocol relays see it (gateway/restore.py): "t"   *)
(* is text, "p1" and "p2" the two halves of a placeholder the mapping      *)
(* issued, "v" its value.  HoldBack.tla has the characters.                *)
(***************************************************************************)
EXTENDS Integers, Sequences, SequencesExt

Fragment == {"t", "p1", "p2"}

Restored(s) ==
  FlattenSeq([i \in DOMAIN s |->
    IF s[i] = "p1" /\ i < Len(s) /\ s[i + 1] = "p2" THEN <<"v">>
    ELSE IF s[i] = "p2" /\ i > 1 /\ s[i - 1] = "p1" THEN << >>
    ELSE <<s[i]>>])

\* guarded_restore: a lookup that fails leaves the placeholders standing.
Guarded(s, ok) == IF ok THEN Restored(s) ELSE s

\* restore_arguments: JSON is restored leaf by leaf and serialised again, so that
\* what is around the leaves stands; text that is not JSON is restored as it is.
RestoredArguments(s, ok) == Guarded(s, ok)

\* What the provider wrote for what the client reads.
Unrestored(s) ==
  FlattenSeq([i \in DOMAIN s |-> IF s[i] = "v" THEN <<"p1", "p2">> ELSE <<s[i]>>])

MutantHoldsNothing(buffer) == << >>
Held(buffer) == IF buffer # << >> /\ Last(buffer) = "p1" THEN <<"p1">> ELSE << >>
Released(buffer) == IF Held(buffer) = << >> THEN buffer ELSE Front(buffer)

\* Both halves next to each other: a restoration the client should have got.
Whole(s) == \E i \in 1 .. Len(s) - 1 : s[i] = "p1" /\ s[i + 1] = "p2"
=============================================================================
