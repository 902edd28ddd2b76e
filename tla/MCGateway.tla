----------------------------- MODULE MCGateway -----------------------------
(***************************************************************************)
(* Three kinds of load: one client that may send any shape of request, to  *)
(* a provider with any shape of answer; three clients with one short text  *)
(* each; two with two.                                                     *)
(***************************************************************************)
EXTENDS Gateway, TLC

anna == Clear("anna")
hello == Clear("hello")
phone == Clear("4917")
replayed == Hidden("anna")

MCPerson == {"anna", "4917"}
MCHint == Clear("hint")
MCWords == {anna, hello, phone, replayed, NotANumber, Clear("three"), Clear("invalid {")}

Str(w) == String(Clear(w))
Of(type, fields) == Object(<< <<"type", Str(type)>> >> \o fields)

-----------------------------------------------------------------------------
\* What any field may hold: each kind of value, flat and nested.
Values ==
  { Null, Boolean(TRUE), Number(phone), String(anna), String(replayed),
    List(<< >>), List(<<Number(phone)>>), List(<<Null, String(anna)>>),
    Object(<< >>), Object(<< <<"id", Number(phone)>>, <<"x", List(<<String(anna)>>)>> >>) }

Arguments ==
  { Serialised(Object(<< <<"to", String(anna)>>, <<"n", Number(phone)>>, <<"k", Number(Clear("three"))>> >>)),
    Serialised(List(<<String(hello), Boolean(TRUE), Object(<< <<"to", String(anna)>> >>)>>)),
    Serialised(String(anna)), Serialised(Number(phone)),
    Serialised(Object(<< <<"n", Number(NotANumber)>>, <<"to", String(anna)>> >>)),
    String(Clear("invalid {")) }

Parts(textType, image) ==
  { Of(textType, << <<"text", String(anna)>> >>),
    Of(textType, << <<"text", String(hello)>>, <<"extra", Number(phone)>> >>),
    Of(textType, << <<"text", String(hello)>>, <<"extra", Object(<< <<"x", List(<<String(anna)>>)>> >>)>> >>),
    Of(image, << <<"data", String(anna)>> >>),
    String(anna) }

PartLists(parts) == {List(<<p>>) : p \in parts} \cup {List(<<p, q>>) : p, q \in parts}

-----------------------------------------------------------------------------
\* Chat Completions: every message and tool-call field, and an unknown one.
Turn(role, fields) == Object(<< <<"role", Str(role)>> >> \o fields)
Function(fields) == Of("function", << <<"id", Str("c1")>>, <<"function", Object(<< <<"name", Str("f")>> >> \o fields)>> >>)

ChatMessages ==
  {Turn("user", << <<field, value>> >>) : field \in {"content", "name", "tool_call_id", "unheard"}, value \in Values}
  \cup {Turn("user", << <<"content", parts>> >>) : parts \in PartLists(Parts("text", "image_url"))}
  \cup {Turn("user", << <<"content", List(<<Of("text", << <<"text", List(<<Of("text", << <<"text", String(anna)>> >>)>>)>> >>)>>)>> >>)}
  \cup {Turn("assistant", << <<"content", Null>>, <<"tool_calls", List(<<call1>>)>> >>) :
          call1 \in {Function(<< <<"arguments", a>> >>) : a \in Arguments \cup Values}
                    \cup {Function(<< <<"unheard", v>> >>) : v \in Values}
                    \cup {Of("function", << <<"unheard", v>> >>) : v \in Values}}
  \cup {Turn("assistant", << <<"tool_calls", v>> >>) : v \in Values}

ChatBodies ==
  {Object(<< <<"model", Str("m")>>, <<"messages", List(<<Turn("user", << <<"content", String(hello)>> >>), m>>)>> >>) : m \in ChatMessages}
  \cup {Object(<< <<"messages", List(<<Turn("user", << <<"content", String(anna)>> >>)>>)>>, <<field, v>> >>) :
          field \in {"tools", "metadata"}, v \in Values}
  \cup {Object(<< <<"messages", v>> >>) : v \in Values}
  \cup {Object(<< <<"stream", Boolean(TRUE)>>, <<"messages", List(<<Turn("user", << <<"content", String(anna)>> >>)>>)>> >>)}
  \cup {List(<<String(anna)>>)}

-----------------------------------------------------------------------------
\* The Responses API: an item of every kind, with every field that has a rule.
Items1 ==
  {Of("message", << <<"role", Str("user")>>, <<field, value>> >>) : field \in {"content", "phase", "unheard"}, value \in Values}
  \cup {Turn("user", << <<"content", parts>> >>) : parts \in PartLists(Parts("input_text", "input_image"))}
  \cup {Of("function_call", << <<"name", Str("f")>>, <<"arguments", a>> >>) : a \in Arguments \cup Values}
  \cup {Of(kind, << <<field, v>> >>) :
          kind \in {"custom_tool_call", "function_call_output", "custom_tool_call_output", "reasoning",
                    "mcp_call", "computer_call"},
          field \in {"input", "output", "caller", "arguments"}, v \in Values}
  \cup {Of("function_call_output", << <<"output", parts>> >>) : parts \in PartLists(Parts("output_text", "input_image"))}
  \cup {Of("shell_call", << <<"action", Object(<< <<"commands", List(<<String(anna), String(Empty), Number(phone)>>)>>,
                                               <<"env", Object(<< <<"status", String(anna)>>, <<"user", String(anna)>> >>)>> >>)>> >>)}
  \cup {String(anna)}

ResponsesBodies ==
  {Object(<< <<"instructions", String(hello)>>, <<"input", List(<<item>>)>>, <<"model", Str("m")>> >>) : item \in Items1}
  \cup {Object(<< <<"input", v>>, <<"instructions", String(anna)>> >>) : v \in Values}
  \cup {Object(<< <<"input", String(anna)>>, <<field, v>> >>) : field \in {"instructions", "text", "unheard"}, v \in Values}
  \cup {Object(<< <<"model", Str("m")>> >>), Object(<< <<"input", String(anna)>>, <<"stream", Boolean(TRUE)>> >>)}

-----------------------------------------------------------------------------
\* Answers: text, parts, tool calls, what is cut short and what is no answer.
Cut == {String(replayed), Serialised(Object(<< <<"to", String(replayed)>>, <<"n", Number(Clear("three"))>> >>)),
        Serialised(Object(<< <<"n", Number(NotANumber)>>, <<"to", String(replayed)>> >>)), Number(phone)}

ChatReplies ==
  {Object(<< <<"id", Str("r")>>, <<"choices", List(<<Object(<< <<"message", m>> >>)>>)>> >>) :
     m \in {Turn("assistant", << <<field, v>> >>) : field \in {"content", "refusal"},
              v \in {Null, String(replayed), String(Hidden("4917")), List(<<Of("text", << <<"text", String(replayed)>> >>), String(replayed)>>)}}
           \cup {Turn("assistant", << <<"tool_calls", List(<<Function(<< <<"arguments", a>> >>)>>)>> >>) : a \in Cut}
           \cup {Null}}

ResponsesReplies ==
  {Object(<< <<"output", List(<<item, String(replayed)>>)>> >>) :
     item \in {Of("message", << <<"content", List(<<Of(type, << <<"text", String(replayed)>> >>)>>)>> >>) :
                 type \in {"output_text", "refusal"}}
              \cup {Of("function_call", << <<"arguments", a>> >>) : a \in Cut}
              \cup {Of("custom_tool_call", << <<"input", String(replayed)>> >>)}}

Odd == {List(<<String(replayed)>>), Object(<< <<"error", Object(<< <<"message", String(replayed)>> >>)>> >>)}

-----------------------------------------------------------------------------
Requests(protocol, bodies) == {[protocol |-> protocol, body |-> b] : b \in bodies}

AnyRequests == Requests("chat", ChatBodies) \cup Requests("responses", ResponsesBodies)
AnyReplies == ChatReplies \cup ResponsesReplies \cup Odd

AnyShape(images, hint) ==
  [total |-> 1, inFlight |-> 1, images |-> images, hint |-> hint, requests |-> AnyRequests,
   replies |-> AnyReplies]

OneText == Requests("responses", {Object(<< <<"input", String(w)>> >>) : w \in {anna, hello}})
TwoTexts ==
  Requests("responses",
    {Object(<< <<"instructions", String(w)>>, <<"input", String(x)>> >>) : w, x \in {anna, hello}})

Short(inFlight, requests) ==
  [total |-> 4, inFlight |-> inFlight, images |-> FALSE, hint |-> FALSE, requests |-> requests, replies |-> {}]

MCLoads ==
  [any |-> AnyShape(FALSE, FALSE), hinted |-> AnyShape(FALSE, TRUE), images |-> AnyShape(TRUE, FALSE),
   three |-> Short(3, OneText), two |-> Short(2, TwoTexts)]

Alike == Permutations(Thread)
=============================================================================
