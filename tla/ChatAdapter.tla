---------------------------- MODULE ChatAdapter ----------------------------
(***************************************************************************)
(* Chat Completions (gateway/adapter/openai.py): where a request and an    *)
(* answer carry text.  A walk of a request refuses what it has no rule     *)
(* for, a walk of an answer skips it.                                      *)
(***************************************************************************)
EXTENDS Extract

IgnoredRequestFields ==
  {"model", "tools", "temperature", "stream", "max_tokens", "max_completion_tokens",
   "top_p", "n", "stop", "presence_penalty", "frequency_penalty", "logit_bias", "seed",
   "user", "logprobs", "top_logprobs", "response_format", "tool_choice",
   "parallel_tool_calls", "stream_options"}
TextMessageFields == {"content", "name", "refusal"}
IgnoredMessageFields == {"role", "tool_call_id"}
IgnoredToolCallFields == {"id", "type", "index"}
IgnoredFunctionFields == {"name"}

-----------------------------------------------------------------------------
(* extract_request                                                         *)

FunctionField(value, at) ==
  Fields(value, at, LAMBDA key, sub, p :
    CASE key \in IgnoredFunctionFields -> << >>
      [] key = "arguments" -> JsonArguments(sub, p)
      [] OTHER -> RefuseIfText(sub, p))

ToolCall(value, at) ==
  Fields(value, at, LAMBDA key, sub, p :
    CASE key \in IgnoredToolCallFields -> << >>
      [] key = "function" -> FunctionField(sub, p)
      [] OTHER -> RefuseIfText(sub, p))

RECURSIVE TextField(_, _, _)

\* allow_images lets a part of any other type through unread.
ContentPart(part, at, images) ==
  CASE Is(part, "object") /\ TypeOf(part) = "text" ->
         Fields(part, at, LAMBDA key, sub, p :
           CASE key = "type" -> << >>
             [] key = "text" -> TextField(sub, p, images)
             [] OTHER -> RefuseIfText(sub, p))
    [] Is(part, "object") /\ TypeOf(part) # "text" /\ images -> << >>
    [] OTHER -> Unscannable(at)

TextField(value, at, images) ==
  CASE Is(value, "null") -> << >>
    [] Is(value, "string") -> Node(value.string, at)
    [] OTHER -> Items(value, at, LAMBDA part, p : ContentPart(part, p, images))

Message(value, at, images) ==
  Fields(value, at, LAMBDA key, sub, p :
    CASE key \in IgnoredMessageFields -> << >>
      [] key = "tool_calls" -> Items(sub, p, ToolCall)
      [] key \in TextMessageFields -> TextField(sub, p, images)
      [] OTHER -> RefuseIfText(sub, p))

RequestWalk(body, images) ==
  Fields(body, << >>, LAMBDA key, sub, p :
    CASE key = "messages" -> Items(sub, p, LAMBDA m, q : Message(m, q, images))
      [] key \in IgnoredRequestFields -> << >>
      [] OTHER -> RefuseIfText(sub, p))

-----------------------------------------------------------------------------
\* with_placeholder_hint: a system message of its own, before the others.
HintMessage(hint) ==
  Object(<< <<"role", String(Clear("system"))>>, <<"content", String(hint)>> >>)

WithHint(body, hint) ==
  IF Is(Get(body, "messages"), "list")
  THEN Object([i \in DOMAIN body.object |->
         IF body.object[i][1] = "messages"
         THEN <<"messages", List(<<HintMessage(hint)>> \o body.object[i][2].list)>>
         ELSE body.object[i]])
  ELSE body

-----------------------------------------------------------------------------
(* extract_answer                                                          *)

AnswerPart(part, at) ==
  IF ~Is(part, "object") THEN << >> ELSE
  ForEachField(part.object, at, LAMBDA key, sub, p :
    IF key = "text" /\ Is(sub, "string") THEN Node(sub.string, p) ELSE << >>)

AnswerText(value, at) ==
  CASE Is(value, "string") -> Node(value.string, at)
    [] Is(value, "list") -> ForEachItem(value.list, at, AnswerPart)
    [] OTHER -> << >>

AnswerCall(call, at) ==
  IF ~Is(call, "object") THEN << >> ELSE
  ForEachField(call.object, at, LAMBDA key, function, p :
    IF ~(key = "function" /\ Is(function, "object")) THEN << >> ELSE
    ForEachField(function.object, p, LAMBDA k, raw, q :
      IF k = "arguments" THEN RestorableArguments(raw, q) ELSE << >>))

AnswerMessage(message, at) ==
  ForEachField(message.object, at, LAMBDA key, sub, p :
    CASE key \in {"content", "refusal"} -> AnswerText(sub, p)
      [] key = "tool_calls" /\ Is(sub, "list") -> ForEachItem(sub.list, p, AnswerCall)
      [] OTHER -> << >>)

AnswerChoice(choice, at) ==
  IF ~Is(choice, "object") THEN << >> ELSE
  ForEachField(choice.object, at, LAMBDA key, sub, p :
    IF key = "message" /\ Is(sub, "object") THEN AnswerMessage(sub, p) ELSE << >>)

AnswerWalk(body) ==
  IF ~Is(body, "object") THEN << >> ELSE
  ForEachField(body.object, << >>, LAMBDA key, sub, p :
    IF key = "choices" /\ Is(sub, "list")
    THEN ForEachItem(sub.list, p, AnswerChoice) ELSE << >>)
=============================================================================
