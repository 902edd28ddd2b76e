---------------------------- MODULE MCDetection ----------------------------
(***************************************************************************)
(* Documents that bring the steps of the pass together: names that repeat, *)
(* in other letters, beside punctuation, over a cut and in code; numbers   *)
(* two backstops claim; words that overlap themselves.  Names have a       *)
(* threshold of their own, numbers a validator and a backstop, accounts a  *)
(* backstop only, which claims letters before the digits.                  *)
(***************************************************************************)
EXTENDS Detection

MCChars == Word \cup Blanks \cup {".", "-", "(", ")", "tick", "fence", "open", "close", "url"}

MCDocuments == {
  <<"a", "b", " ", "a", " ", "a", "b">>,
  <<"(", "a", "b", ")", ".", "a", "b", "-", "b">>,
  <<"A", "b", " ", "a", "b", ".", "A", "b">>,
  <<"a", "b", " ", "1", "-", "2", " ", "1", ".", "1", "-", "2">>,
  <<"A", "1", " ", "1", "-", "2", " ", "b">>,
  <<"a", "-", "b", "-", "a", "-", "b", "-", "a", " ", "a", "-", "b", "-", "a">>,
  <<"a", "b", " ", "tick", "a", "b", "tick", "a", "b", "b">>,
  <<"a", "tick", "a", "tick", "b", " ", "a", " ", " ", " ", "b">>,
  <<"a", "b", "nl", "fence", "b", "nl", "a", "b", "nl", "fence", "nl", "a", "b">>,
  <<"a", "b", "open", "a", "b", "close", "url", "a", "b", " ", "tick", "a", "b">>,
  <<"a", "b", " ", "a", "b", " ", "b", "nl", "nl", "b", "a", " ", "a", "b", "a", "b", "a">>,
  <<" ", "nl", " ">>,
  <<"tick", "1", "-", "2", "tick">>
}

MCTexts == {View(d) : d \in MCDocuments}

NoBackstop == [head |-> {}, body |-> {}, gate |-> {}]

MCCatalogue == [
  name    |-> [labelled |-> TRUE, floor |-> 2, sweep |-> "word", checked |-> FALSE,
               valid |-> {}, backstop |-> NoBackstop],
  number  |-> [labelled |-> TRUE, floor |-> 1, sweep |-> "icase", checked |-> TRUE,
               valid |-> {<<"1", "-", "2">>},
               backstop |-> [head |-> {"1", "2"}, body |-> {"1", "2"},
                             gate |-> {<<"1", "-", "2">>}]],
  account |-> [labelled |-> FALSE, floor |-> 1, sweep |-> "off", checked |-> FALSE,
               valid |-> {},
               backstop |-> [head |-> {"A"}, body |-> {"A", "1", "2"},
                             gate |-> {<<"A", "1", " ", "1">>}]]]
=============================================================================
