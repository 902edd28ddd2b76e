---------------------------- MODULE MCCatalogue ----------------------------
(***************************************************************************)
(* Three builds, the second with a type the first did not have and the     *)
(* third with other labels for it, and a file with every kind of value for *)
(* every setting of a type, old, new or the operator's own.                *)
(***************************************************************************)
EXTENDS Catalogue

Word(w) == Text(w, <<w>>)
True == Scalar("bool", "true")
False == Scalar("bool", "false")

Book(types) == Mapping([version |-> Scalar("number", "1"), placeholder_types |-> types])

Card(labels) ==
  Mapping([labels |-> Sequence(labels), normalizer |-> Word("digits"),
           prompts |-> Mapping([card |-> Word("Karten")]),
           validator |-> Word("builtin:luhn"), reversible |-> False])
Email ==
  Mapping([labels |-> Sequence(<<"email">>), normalizer |-> Word("digits"),
           prompts |-> Mapping([email |-> Word("E-Mail")]), enabled |-> True])
City == Mapping([labels |-> Sequence(<<"city">>), enabled |-> False])

MCBuilds ==
  << Book(Mapping([EMAIL |-> Email])),
     Book(Mapping([EMAIL |-> Email, CARD |-> Card(<<"card">>), CITY |-> City])),
     Book(Mapping([EMAIL |-> Email, CARD |-> Card(<<"card", "city">>), CITY |-> City])) >>

Values ==
  { Empty, True, False, Word("email"), Word("luhn"), Word("builtin:luhn"), Text("", << >>),
    Text("abba", <<"a", "b", "b", "a">>), Text("ab", <<"a", "b">>), Sequence(<< >>),
    Sequence(<<"email">>), Sequence(<<"card", "city">>), Sequence(<<"x", "x">>),
    Mapping(NoKids), Mapping([email |-> Word("Adressen")]) }

Settings == {"labels", "prompts", "normalizer", "validator", "reversible", "enabled"}
Bodies == Values \cup {Mapping([k \in {setting} |-> value]) : setting \in Settings, value \in Values}

Keys == {"EMAIL", "CARD", "CITY", "OWN"}
One(name, body) == Mapping([n \in {name} |-> body])

MCDrafts ==
  {Book(One(name, body)) : name \in Keys, body \in Bodies}
  \cup {Book(value) : value \in Values}
  \cup {Mapping([version |-> value]) : value \in Values \cup {Scalar("number", "1"), Scalar("number", "2")}}
  \cup Values

MCOldFiles ==
  { Book(Mapping([EMAIL |-> Mapping([prompts |-> Mapping([email |-> Word("Adressen")])]),
                  CITY |-> Mapping([enabled |-> True])])) }

MCKnown == [normalizer |-> {"digits"}, validator |-> {"luhn", "null"}]
MCBuiltin == [w \in {"builtin:luhn"} |-> "luhn"]

BookSpec == BookInit /\ [][BookNext]_<<build, files, edits, loaded>>
=============================================================================
