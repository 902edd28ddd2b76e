-------------------------- MODULE MCPlaceholders --------------------------
(***************************************************************************)
(* Three parts that share no state, one in each behaviour: every text of   *)
(* up to MaxText characters cut into pieces of one to three characters in  *)
(* every way; the suffixes up to the first of three letters under type     *)
(* names that look like suffixes; the catalogues of MCCatalogue.           *)
(***************************************************************************)
EXTENDS HoldBack, Placeholder, MCCatalogue

MCPieces == UNION {[1 .. n -> {"[", "]", "N", "x"}] : n \in 1 .. 3}

\* A, A_A, A_B1, A1, A_, A__B
MCTypeNames ==
  {<<65>>, <<65, 95, 65>>, <<65, 95, 66, 49>>, <<65, 49>>, <<65, 95>>, <<65, 95, 95, 66>>}

VARIABLE part

count == <<index, written>>
book == <<build, files, edits, loaded>>

MCInit ==
  /\ part \in {"stream", "names", "book"} /\ Init /\ CountInit /\ BookInit
  /\ part # "stream" => ~lenient
  /\ part # "book" => \A place \in Place : files[place] = NoFile

MCNext ==
  \/ part = "stream" /\ Next /\ UNCHANGED <<part, count, book>>
  \/ part = "names" /\ Count /\ UNCHANGED <<part, vars, book>>
  \/ part = "book" /\ BookNext /\ UNCHANGED <<part, vars, count>>

MCSpec == MCInit /\ [][MCNext]_<<part, vars, count, book>>
=============================================================================
