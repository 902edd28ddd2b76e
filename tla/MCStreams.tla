----------------------------- MODULE MCStreams -----------------------------
(***************************************************************************)
(* Two interleaved choices of Chat Completions, or an output text and a    *)
(* refusal beside a tool call of the Responses API; all of it comes in     *)
(* halves of a placeholder.                                                *)
(***************************************************************************)
EXTENDS Streams

MCContents == {<< >>, <<"p1">>, <<"p2", "p1">>}
MCFragments == {<< >>, <<"p1">>, <<"p2">>}
\* Each ends one placeholder and begins the next.
MCDeltas == {<<"p2", "p1">>}
MCArguments == MCDeltas
=============================================================================
