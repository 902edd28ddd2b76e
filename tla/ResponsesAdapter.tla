-------------------------- MODULE ResponsesAdapter --------------------------
(***************************************************************************)
(* The Responses API (gateway/adapter/responses.py): where a request and   *)
(* an answer carry text.  The type of an input item decides its rule.      *)
(***************************************************************************)
EXTENDS Extract

IgnoredRequestFields ==
  {"background", "client_metadata", "conversation", "include", "include_obfuscation",
   "max_output_tokens", "max_tool_calls", "metadata", "model", "parallel_tool_calls",
   "previous_response_id", "prompt_cache_key", "prompt_cache_options",
   "prompt_cache_retention", "reasoning", "safety_identifier", "service_tier", "store",
   "stream", "stream_options", "temperature", "text", "tool_choice", "tools",
   "top_logprobs", "top_p", "truncation", "ttl", "type", "user"}
FreeformItems ==
  {"shell_call", "shell_call_output", "local_shell_call", "local_shell_call_output",
   "apply_patch_call", "apply_patch_call_output", "mcp_call", "mcp_approval_request",
   "mcp_approval_response", "program", "program_output", "exec"}
FreeformSkipKeys ==
  {"type", "id", "call_id", "status", "caller", "namespace", "name", "server_label",
   "approval_request_id", "max_output_length", "role", "encrypted_content", "reason",
   "phase", "index", "output_index", "content_index", "sequence_number", "annotations",
   "logprobs"}
PassOverItems ==
  {"reasoning", "additional_tools", "mcp_list_tools", "item_reference",
   "compaction_trigger"}
IgnoredItemFields ==
  {"type", "role", "id", "call_id", "status", "name", "phase", "namespace", "caller"}
TextPartTypes == {"input_text", "output_text", "text"}

-----------------------------------------------------------------------------
(* extract_request                                                         *)

\* A string, or nothing.
OptionalText(value, at) ==
  CASE Is(value, "string") -> Node(value.string, at)
    [] Is(value, "null") -> << >>
    [] OTHER -> Unscannable(at)

ContentPart(part, at, images) ==
  CASE Is(part, "object") /\ TypeOf(part) \in TextPartTypes ->
         Fields(part, at, LAMBDA key, sub, p :
           CASE key = "type" -> << >>
             [] key = "text" -> IF Is(sub, "string") THEN Node(sub.string, p) ELSE Unscannable(p)
             [] OTHER -> RefuseIfText(sub, p))
    [] Is(part, "object") /\ TypeOf(part) \notin TextPartTypes /\ images -> << >>
    [] OTHER -> Unscannable(at)

Content(value, at, images) ==
  IF Is(value, "list")
  THEN ForEachItem(value.list, at, LAMBDA part, p : ContentPart(part, p, images))
  ELSE OptionalText(value, at)

\* Every string leaf that no structural key leads to, unparsed: the arguments of
\* an mcp_call are a text.  Numbers are left alone.
RECURSIVE Freeform(_, _)
Freeform(value, at) ==
  CASE Is(value, "string") -> IF value.string = Empty THEN << >> ELSE Node(value.string, at)
    [] Is(value, "object") ->
         ForEachField(value.object, at, LAMBDA key, sub, p :
           IF key \in FreeformSkipKeys THEN << >> ELSE Freeform(sub, p))
    [] Is(value, "list") -> ForEachItem(value.list, at, Freeform)
    [] OTHER -> << >>

\* An item with a role and content is a message though nothing says so.
KindOf(item) ==
  IF Is(Get(item, "type"), "null") /\ HasKey(item, "role") /\ HasKey(item, "content")
  THEN "message" ELSE TypeOf(item)

\* The one field of an item that carries text, by the item's kind.
TextFieldOf(kind) ==
  CASE kind = "message" -> "content"
    [] kind = "function_call" -> "arguments"
    [] kind = "custom_tool_call" -> "input"
    [] kind \in {"function_call_output", "custom_tool_call_output"} -> "output"
    [] OTHER -> "none"

ItemText(kind, value, at, images) ==
  CASE kind = "function_call" -> JsonArguments(value, at)
    [] kind = "custom_tool_call" -> OptionalText(value, at)
    [] OTHER -> Content(value, at, images)

Item(item, at, images) ==
  LET kind == KindOf(item) IN
  CASE kind \in PassOverItems -> << >>
    [] kind \in FreeformItems -> Freeform(item, at)
    [] TextFieldOf(kind) # "none" ->
         Fields(item, at, LAMBDA key, sub, p :
           CASE key \in IgnoredItemFields -> << >>
             [] key = TextFieldOf(kind) -> ItemText(kind, sub, p, images)
             [] OTHER -> RefuseIfText(sub, p))
    [] OTHER -> Unscannable(at)

Input(value, at, images) ==
  IF Is(value, "string") THEN Node(value.string, at) ELSE
  Items(value, at, LAMBDA item, p :
    IF Is(item, "object") THEN Item(item, p, images) ELSE Unscannable(p))

RequestWalk(body, images) ==
  Fields(body, << >>, LAMBDA key, sub, p :
    CASE key = "instructions" -> OptionalText(sub, p)
      [] key = "input" -> Input(sub, p, images)
      [] key \in IgnoredRequestFields -> << >>
      [] OTHER -> RefuseIfText(sub, p))

-----------------------------------------------------------------------------
(* with_placeholder_hint: the first input item; a bare string becomes one. *)

MessageItem(role, text) ==
  Object(<< <<"type", String(Clear("message"))>>, <<"role", String(Clear(role))>>,
            <<"content", String(text)>> >>)

MutantItemsOf(input) == IF Is(input, "string") THEN << >> ELSE input.list

ItemsOf(input) ==
  IF Is(input, "string") THEN <<MessageItem("user", input.string)>> ELSE input.list

WithHint(body, hint) ==
  Object([i \in DOMAIN body.object |->
    IF body.object[i][1] = "input"
    THEN <<"input", List(<<MessageItem("system", hint)>> \o ItemsOf(body.object[i][2]))>>
    ELSE body.object[i]])

-----------------------------------------------------------------------------
(* extract_answer                                                          *)

AnswerPart(part, at) ==
  IF ~(Is(part, "object") /\ TypeOf(part) \in TextPartTypes) THEN << >> ELSE
  ForEachField(part.object, at, LAMBDA key, sub, p :
    IF key = "text" /\ Is(sub, "string") THEN Node(sub.string, p) ELSE << >>)

AnswerItem(item, at) ==
  IF ~Is(item, "object") THEN << >> ELSE
  ForEachField(item.object, at, LAMBDA key, sub, p :
    CASE TypeOf(item) = "message" /\ key = "content" /\ Is(sub, "list") ->
           ForEachItem(sub.list, p, AnswerPart)
      [] TypeOf(item) = "function_call" /\ key = "arguments" -> RestorableArguments(sub, p)
      [] OTHER -> << >>)

AnswerWalk(body) ==
  IF ~Is(body, "object") THEN << >> ELSE
  ForEachField(body.object, << >>, LAMBDA key, sub, p :
    IF key = "output" /\ Is(sub, "list") THEN ForEachItem(sub.list, p, AnswerItem) ELSE << >>)
=============================================================================
