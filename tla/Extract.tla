------------------------------ MODULE Extract ------------------------------
(***************************************************************************)
(* The extraction seam (gateway/extract.py): the walks over JSON that both *)
(* protocol adapters are built from, and the write-back.                   *)
(*                                                                         *)
(* A JSON value is a record whose one field names its kind; an object is   *)
(* the sequence of its <<key, value>> pairs.  A text is a word in clear or *)
(* hidden behind a placeholder.  Where the code parses a string, which is  *)
(* in the arguments of a function call alone, serialised JSON is           *)
(* [json |-> the value it parses to]; anywhere else such a string is a     *)
(* text like any other.  A pointer is a sequence of positions, and 0 is    *)
(* the step into serialised JSON: what the code's json_root marks.         *)
(***************************************************************************)
EXTENDS Naturals, Sequences, SequencesExt

Clear(w) == [word |-> w, hidden |-> FALSE]
Hidden(w) == [word |-> w, hidden |-> TRUE]
Empty == Clear("")

String(text) == [string |-> text]
Number(text) == [number |-> text]
Null == [null |-> TRUE]
Boolean(b) == [boolean |-> b]
List(items) == [list |-> items]
Object(fields) == [object |-> fields]
Serialised(value) == [json |-> value]

Is(value, kind) == kind \in DOMAIN value
IsText(value) == Is(value, "string") \/ Is(value, "json")

HasKey(object, key) == \E i \in DOMAIN object.object : object.object[i][1] = key

\* dict.get: Null for a key that is not there.
Get(object, key) ==
  IF HasKey(object, key)
  THEN (CHOOSE f \in ToSet(object.object) : f[1] = key)[2]
  ELSE Null

\* The "type" of an object, "" when it has none.
TypeOf(object) ==
  LET type == Get(object, "type") IN IF Is(type, "string") THEN type.string.word ELSE ""

-----------------------------------------------------------------------------
(* A walk is the sequence of its nodes.  UnscannableField is an element of *)
(* that sequence too: a walk that has one raised.                          *)

Node(text, at) == <<[at |-> at, text |-> text, number |-> FALSE]>>
NumberNode(text, at) == <<[at |-> at, text |-> text, number |-> TRUE]>>
Unscannable(at) == <<[unscannable |-> at]>>

Refused(walk) == \E i \in DOMAIN walk : Is(walk[i], "unscannable")
Texts(walk) == [i \in DOMAIN walk |-> walk[i].text]

\* The nodes of one item after those of the items before it.
ForEachItem(items, at, Walk(_, _)) ==
  LET nodes[i \in 0 .. Len(items)] ==
        IF i = 0 THEN << >> ELSE nodes[i - 1] \o Walk(items[i], Append(at, i))
  IN nodes[Len(items)]

ForEachField(fields, at, Rule(_, _, _)) ==
  ForEachItem(fields, at, LAMBDA field, p : Rule(field[1], field[2], p))

\* The strict forms refuse a value of another shape.
Items(value, at, Walk(_, _)) ==
  IF Is(value, "list") THEN ForEachItem(value.list, at, Walk) ELSE Unscannable(at)

Fields(value, at, Rule(_, _, _)) ==
  IF Is(value, "object") THEN ForEachField(value.object, at, Rule) ELSE Unscannable(at)

RECURSIVE MutantContainsString(_)
MutantContainsString(value) ==
  \/ IsText(value)
  \/ Is(value, "object") /\ \E i \in DOMAIN value.object : MutantContainsString(value.object[i][2])

RECURSIVE ContainsString(_)
ContainsString(value) ==
  \/ IsText(value)
  \/ Is(value, "object") /\ \E i \in DOMAIN value.object : ContainsString(value.object[i][2])
  \/ Is(value, "list") /\ \E i \in DOMAIN value.list : ContainsString(value.list[i])

\* A number or a boolean under a key without a rule is let through.
RefuseIfText(value, at) == IF ContainsString(value) THEN Unscannable(at) ELSE << >>

-----------------------------------------------------------------------------
(* Serialised tool-call arguments.                                         *)

\* Strings and numbers; keys are the client's own names.  A nested string is
\* not parsed again: it is text.
RECURSIVE JsonLeaves(_, _)
JsonLeaves(value, at) ==
  CASE Is(value, "string") -> Node(value.string, at)
    [] Is(value, "number") -> NumberNode(value.number, at)
    [] Is(value, "object") -> ForEachField(value.object, at, LAMBDA k, v, p : JsonLeaves(v, p))
    [] Is(value, "list") -> ForEachItem(value.list, at, JsonLeaves)
    [] OTHER -> << >>

\* On the way out, what does not parse is refused ...
JsonArguments(value, at) ==
  CASE Is(value, "null") -> << >>
    [] Is(value, "json") -> JsonLeaves(value.json, Append(at, 0))
    [] OTHER -> Unscannable(at)

\* ... and on the way back it is restored as one text.
RestorableArguments(value, at) ==
  CASE Is(value, "json") -> JsonLeaves(value.json, Append(at, 0))
    [] Is(value, "string") -> Node(value.string, at)
    [] OTHER -> << >>

-----------------------------------------------------------------------------
(* write_back                                                              *)

MutantLeaf(node, text) == String(text)

\* An untouched number goes back as a number, a replaced one as a string.
Leaf(node, text) ==
  IF node.number /\ text = node.text THEN Number(text) ELSE String(text)

\* The body with each node's leaf replaced by the text at its position.
RECURSIVE Rewritten(_, _, _, _)
Rewritten(value, at, walk, texts) ==
  CASE \E i \in DOMAIN walk : walk[i].at = at ->
         LET i == CHOOSE i \in DOMAIN walk : walk[i].at = at IN Leaf(walk[i], texts[i])
    [] Is(value, "json") -> Serialised(Rewritten(value.json, Append(at, 0), walk, texts))
    [] Is(value, "list") ->
         List([i \in DOMAIN value.list |-> Rewritten(value.list[i], Append(at, i), walk, texts)])
    [] Is(value, "object") ->
         Object([i \in DOMAIN value.object |->
           <<value.object[i][1], Rewritten(value.object[i][2], Append(at, i), walk, texts)>>])
    [] OTHER -> value

WriteBack(body, walk, texts) == Rewritten(body, << >>, walk, texts)

\* json.loads of an untouched number's str(): Python writes NaN as "nan", which
\* does not parse, and write_back raises.
NotANumber == Clear("nan")
WriteBackRaises(walk, texts) ==
  \E i \in DOMAIN walk : walk[i].number /\ texts[i] = walk[i].text /\ texts[i] = NotANumber
=============================================================================
