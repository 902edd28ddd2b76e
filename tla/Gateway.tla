------------------------------ MODULE Gateway ------------------------------
(***************************************************************************)
(* The gateway's route body (gateway/server.py) over its two protocol      *)
(* adapters: a request is walked, its texts are pseudonymised as one batch *)
(* on a worker thread, what came back is written into a copy of the        *)
(* request and sent on, and the answer is restored under the mapping of    *)
(* that batch.  The batches of concurrent requests share DetectionCache.   *)
(*                                                                         *)
(* The vault is Vault's and Reversal's subject: here a batch hides every   *)
(* word its spans cover, opens a mapping with those words and the          *)
(* placeholders it adopts, or fails.  Metrics, headers, authentication and *)
(* what a stream relay does to its events are left out.                    *)
(***************************************************************************)
EXTENDS Extract, FiniteSets

CONSTANTS
  Thread,    \* the threads that serve requests
  None,
  Capacity,  \* settings.gateway_cache
  Person,    \* the words the detector finds a person in
  Hint,      \* PLACEHOLDER_HINT
  Words,     \* every text of the requests below
  Loads      \* what clients and provider send: by name, [total, inFlight, images,
             \* hint, requests, replies]

ASSUME CapacityAssumption == Capacity \in Nat \ {0}
ASSUME NoneAssumption == None \notin Words

Chat == INSTANCE ChatAdapter
Responses == INSTANCE ResponsesAdapter

VARIABLES
  load,      \* the load and the settings this gateway runs under
  served,    \* how many requests were taken; a load ends after its total
  call,      \* each thread's request, as far as it got
  entries, catalogueSet, fingerprint, pc, texts, mine, known, at, held

Cache == INSTANCE DetectionCache WITH Block <- Words

cache == <<entries, catalogueSet, fingerprint, pc, texts, mine, known, at, held>>
vars == <<load, served, call, cache>>

Idle == [stage |-> "idle"]

Init ==
  /\ load \in DOMAIN Loads
  /\ served = 0
  /\ call = [t \in Thread |-> Idle]
  /\ Cache!CacheInit

-----------------------------------------------------------------------------
(* ADAPTERS: a request is [protocol, body], and the protocol's adapter is  *)
(* the walks it names.                                                     *)

RequestWalk(request) ==
  IF request.protocol = "chat"
  THEN Chat!RequestWalk(request.body, Loads[load].images)
  ELSE Responses!RequestWalk(request.body, Loads[load].images)

WithHint(protocol, body) ==
  IF protocol = "chat" THEN Chat!WithHint(body, Hint) ELSE Responses!WithHint(body, Hint)

AnswerWalk(protocol, body) ==
  IF protocol = "chat" THEN Chat!AnswerWalk(body) ELSE Responses!AnswerWalk(body)

Streaming(body) == Get(body, "stream") = Boolean(TRUE)

-----------------------------------------------------------------------------
(* The vault's part, text by text.                                         *)

\* Spans of another text cover nothing of this one ...
Pseudonym(text, spans) ==
  IF spans = {text} /\ text.word \in Person THEN Hidden(text.word) ELSE text

\* ... and verify_against raises on them: the batch stops before it writes.
ForeignSpans(walk, spans) ==
  \E i \in DOMAIN walk : \E b \in spans[i] :
    b # walk[i].text /\ b.word \in Person /\ ~b.hidden

MutantReversedAll(text, mapping) == Clear(text.word)

Reversed(text, mapping) ==
  IF text.hidden /\ text.word \in mapping THEN Clear(text.word) ELSE text

\* The words a batch hides, and the placeholders in its texts.
HiddenIn(replaced) == {x.word : x \in {y \in ToSet(replaced) : y.hidden}}

-----------------------------------------------------------------------------
Become(t, state) == call' = [call EXCEPT ![t] = state]

\* An exception nothing catches, or an error response: the request is over.
GiveUp(t) == Become(t, Idle)

Serving == {t \in Thread : call[t] # Idle}

Receives(t) ==
  /\ call[t] = Idle
  /\ Cardinality(Serving) < Loads[load].inFlight
  /\ served < Loads[load].total
  /\ served' = served + 1

\* 502: the walk raised, nothing is sent.
Refuse(t) ==
  /\ Receives(t)
  /\ \E request \in Loads[load].requests :
       /\ Refused(RequestWalk(request))
       /\ Become(t, [stage |-> "refused", request |-> request])
  /\ UNCHANGED <<load, cache>>

\* No text at all: the body goes on as it came, under no mapping.
PassThrough(t) ==
  /\ Receives(t)
  /\ \E request \in Loads[load].requests :
       /\ RequestWalk(request) = << >>
       /\ Become(t, [stage |-> "sent", request |-> request, outbound |-> request.body,
                     mapping |-> None])
  /\ UNCHANGED <<load, cache>>

StartBatch(t) ==
  /\ Receives(t)
  /\ \E request \in Loads[load].requests : LET walk == RequestWalk(request) IN
       /\ walk # << >> /\ ~Refused(walk)
       /\ Become(t, [stage |-> "batch", request |-> request])
       /\ Cache!BeginCall(t, Texts(walk))
  /\ UNCHANGED load

\* An error in the cache or the detector, GlinerUnavailableError among them,
\* ends the batch and the request: 500.
Detect(t) ==
  /\ Cache!Step(t)
  /\ IF pc'[t] = "idle" THEN GiveUp(t) ELSE UNCHANGED call
  /\ UNCHANGED <<load, served>>

BatchFails(t) ==
  /\ Cache!Return(t)
  /\ GiveUp(t)
  /\ UNCHANGED <<load, served>>

\* The hint is added when this batch replaced something itself.
Outbound(request, walk, replaced) ==
  LET written == WriteBack(request.body, walk, replaced) IN
  IF Loads[load].hint /\ replaced # Texts(walk)
  THEN WithHint(request.protocol, written) ELSE written

\* A placeholder that came in with the request is adopted if the vault knows it.
SendOn(t) ==
  LET request == call[t].request
      walk == RequestWalk(request)
      spans == Cache!Answer(t)
      replaced == [i \in DOMAIN walk |-> Pseudonym(walk[i].text, spans[i])]
      raises == ForeignSpans(walk, spans) \/ WriteBackRaises(walk, replaced)
      carried == HiddenIn(Texts(walk))
  IN
  /\ Cache!Return(t)
  /\ \/ raises /\ GiveUp(t)
     \/ /\ ~raises
        /\ \E unknown \in SUBSET carried :
             Become(t, [stage |-> "sent", request |-> request,
                        outbound |-> Outbound(request, walk, replaced),
                        mapping |-> HiddenIn(replaced) \ unknown])
  /\ UNCHANGED <<load, served>>

-----------------------------------------------------------------------------
(* The answer.                                                             *)

\* The stream relays take over, under the same mapping.
Relay(t) ==
  /\ call[t].stage = "sent" /\ Streaming(call[t].request.body)
  /\ Become(t, Idle)
  /\ UNCHANGED <<load, served, cache>>

\* A connection error, or an answer that is not JSON.
UpstreamFails(t) ==
  /\ call[t].stage = "sent" /\ ~Streaming(call[t].request.body)
  /\ GiveUp(t)
  /\ UNCHANGED <<load, served, cache>>

Restored(protocol, mapping, reply) ==
  LET walk == AnswerWalk(protocol, reply)
      reversed == [i \in DOMAIN walk |-> Reversed(walk[i].text, mapping)]
  IN
  IF WriteBackRaises(walk, reversed) THEN reply ELSE WriteBack(reply, walk, reversed)

Answered(t, reply, answer) ==
  /\ ~Streaming(call[t].request.body)
  /\ Become(t, [stage |-> "answered", protocol |-> call[t].request.protocol,
                mapping |-> call[t].mapping, reply |-> reply, answer |-> answer])
  /\ UNCHANGED <<load, served, cache>>

Restore(t) ==
  /\ call[t].stage = "sent" /\ call[t].mapping # None
  /\ \E reply \in Loads[load].replies :
       Answered(t, reply, Restored(call[t].request.protocol, call[t].mapping, reply))

\* No mapping, or the vault fails: the answer is delivered as it came.
LeaveStanding(t) ==
  /\ call[t].stage = "sent"
  /\ \E reply \in Loads[load].replies : Answered(t, reply, reply)

Done(t) ==
  /\ call[t].stage \in {"refused", "answered"}
  /\ Become(t, Idle)
  /\ UNCHANGED <<load, served, cache>>

Next == \E t \in Thread :
  \/ Refuse(t) \/ PassThrough(t) \/ StartBatch(t) \/ Detect(t) \/ BatchFails(t) \/ SendOn(t)
  \/ Relay(t) \/ UpstreamFails(t) \/ Restore(t) \/ LeaveStanding(t) \/ Done(t)

Spec == Init /\ [][Next]_vars

-----------------------------------------------------------------------------
(* Properties.                                                             *)

\* Every leaf with the keys that lead to it; a list's step is the type of the
\* object it leads to, "()" the step into serialised JSON.
RECURSIVE Leaves(_, _)
Leaves(value, path) ==
  CASE Is(value, "string") -> <<[path |-> path, text |-> value.string, kind |-> "string"]>>
    [] Is(value, "number") -> <<[path |-> path, text |-> value.number, kind |-> "number"]>>
    [] Is(value, "json") -> Leaves(value.json, Append(path, "()"))
    [] Is(value, "object") ->
         ForEachField(value.object, path, LAMBDA key, v, p : Leaves(v, Append(path, key)))
    [] Is(value, "list") ->
         ForEachItem(value.list, path, LAMBDA v, p :
           Leaves(v, Append(path, IF Is(v, "object") THEN TypeOf(v) ELSE "")))
    [] OTHER -> <<[path |-> path, text |-> Empty, kind |-> "other"]>>

Under(path, i, keys) == i \in DOMAIN path /\ path[i] \in keys

\* The places each protocol leaves unread on purpose: identifiers, the client's
\* own code, and, when the operator allows them, parts that are not text.
ChatExempt(path) ==
  \/ path[1] \in Chat!IgnoredRequestFields
  \/ Under(path, 3, Chat!IgnoredMessageFields)
  \/ Under(path, 3, {"tool_calls"}) /\ Under(path, 5, Chat!IgnoredToolCallFields)
  \/ Under(path, 3, {"tool_calls"}) /\ Under(path, 6, Chat!IgnoredFunctionFields)
  \/ Under(path, 3, Chat!TextMessageFields) /\ Under(path, 5, {"type"})
  \/ Under(path, 3, Chat!TextMessageFields) /\ Len(path) > 4 /\ path[4] # "text"
     /\ Loads[load].images

ResponsesExempt(path) ==
  \/ path[1] \in Responses!IgnoredRequestFields
  \/ Under(path, 2, Responses!PassOverItems)
  \/ Under(path, 2, Responses!FreeformItems)
     /\ \E i \in 3 .. Len(path) : path[i] \in Responses!FreeformSkipKeys
  \/ Under(path, 3, Responses!IgnoredItemFields)
  \/ Under(path, 3, {"content", "output"}) /\ Under(path, 5, {"type"})
  \/ Under(path, 3, {"content", "output"}) /\ Len(path) > 4
     /\ path[4] \notin Responses!TextPartTypes /\ Loads[load].images

Exempt(protocol, path) ==
  IF protocol = "chat" THEN ChatExempt(path) ELSE ResponsesExempt(path)

\* A number is read where it is a tool's argument, and nowhere else.
Read(leaf) == leaf.kind = "string" \/ \E i \in DOMAIN leaf.path : leaf.path[i] = "()"

Sent(t) == call[t].stage = "sent"
LeavesSent(t) == Leaves(call[t].outbound, << >>)

\* Whatever shape a request has and whatever other requests do to the cache
\* meanwhile, no word of a person is sent to the provider in clear, but at the
\* places a protocol exempts.
NothingInTheClear ==
  \A t \in Thread : Sent(t) =>
    \A i \in DOMAIN LeavesSent(t) : LET leaf == LeavesSent(t)[i] IN
      Read(leaf) /\ leaf.text.word \in Person /\ ~leaf.text.hidden
        => Exempt(call[t].request.protocol, leaf.path)

\* A replaced number is a string from then on; every other leaf keeps its kind.
Undone(leaf, original) ==
  /\ leaf.path = original.path /\ leaf.text.word = original.text.word
  /\ leaf.kind = original.kind \/ (leaf.text.hidden /\ original.kind = "number")
  /\ original.text.hidden => leaf.text.hidden

\* Pseudonymising loses and moves nothing: without the hint, the body sent on has
\* the leaves of the body received, in their order and of their kind, the hidden
\* words apart.
SameBody ==
  \A t \in Thread : Sent(t) /\ ~Loads[load].hint =>
    LET original == Leaves(call[t].request.body, << >>) IN
    /\ DOMAIN LeavesSent(t) = DOMAIN original
    /\ \A i \in DOMAIN original : Undone(LeavesSent(t)[i], original[i])

\* What was sent can be sent again, as chat clients do: the walk accepts it and
\* reads the batch's texts in their order, and the hint, once, if it was added.
ReadsAgain ==
  \A t \in Thread : Sent(t) /\ call[t].mapping # None =>
    LET again == RequestWalk([call[t].request EXCEPT !.body = call[t].outbound])
        before == Texts(RequestWalk(call[t].request))
        pseudonyms == [i \in DOMAIN before |-> Pseudonym(before[i], {before[i]})]
        hints == IF Loads[load].hint /\ pseudonyms # before THEN 1 ELSE 0
    IN /\ ~Refused(again)
       /\ SelectSeq(Texts(again), LAMBDA x : x # Hint) = pseudonyms
       /\ Len(again) = Len(before) + hints

\* The caller's answer is the provider's, except that words of this request's own
\* mapping, and no others, may stand in clear.
OwnWordsOnly ==
  \A t \in Thread : call[t].stage = "answered" =>
    LET reply == Leaves(call[t].reply, << >>)
        answer == Leaves(call[t].answer, << >>)
    IN /\ DOMAIN answer = DOMAIN reply
       /\ \A i \in DOMAIN reply : answer[i] # reply[i] =>
            /\ call[t].mapping # None
            /\ reply[i].text.hidden /\ reply[i].text.word \in call[t].mapping
            /\ answer[i] = [reply[i] EXCEPT !.text = Clear(reply[i].text.word)]

WithinCapacity == Cache!WithinCapacity
=============================================================================
