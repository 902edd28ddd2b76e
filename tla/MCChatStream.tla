---------------------------- MODULE MCChatStream ----------------------------
(* Two interleaved choices; text and arguments come in halves of a placeholder. *)
EXTENDS ChatStream
MCContents == {<< >>, <<"p1">>, <<"p2", "p1">>}
MCArguments == {<< >>, <<"p1">>, <<"p2">>}
=============================================================================
