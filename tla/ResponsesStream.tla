--------------------------- MODULE ResponsesStream ---------------------------
(***************************************************************************)
(* A Responses API stream on its way to the client                         *)
(* (gateway/stream_responses.py), on the framing of SseRelay.              *)
(*                                                                         *)
(* Typed events repeat every value: a run of text comes as deltas, whole   *)
(* in its done event, in the done events of its part and of its item, and  *)
(* in the terminal event; a client may read any of them.  Deltas pass      *)
(* through the run's hold-back, the fragments of a function call are       *)
(* suppressed and leave whole, and the events are numbered anew.           *)
(*                                                                         *)
(* A run is an output text or a refusal.  The events of either have the    *)
(* same types here, and are restored alike up to the done event; behind    *)
(* it, the code restores the text of a part and never its refusal, and the *)
(* done event of a part passes as it came, whatever it holds.  Events of   *)
(* other types (reasoning, the arguments of an mcp_call) pass as they came *)
(* too, and are not modelled.                                              *)
(***************************************************************************)
EXTENDS StreamText

CONSTANTS
  Runs,       \* (item_id, content_index) pairs of text
  Refusals,   \* those that are refusals
  Calls,      \* item_ids of function calls, none of which is a pair
  Deltas,     \* fragments of text in one delta
  Arguments,  \* fragments of arguments in one delta
  MaxValue,   \* bound: fragments in a run or a call
  MaxBlocks   \* bound: blocks in a stream

Keys == Runs \cup Calls
Event(type, key, value) == [type |-> type, key |-> key, value |-> value]

\* A delta of a key, and what those of a stream say.
DeltaOf(event, key) ==
  /\ event.type = IF key \in Runs THEN "text_delta" ELSE "args_delta"
  /\ event.key = key
Said(blocks, key) ==
  FlattenSeq([i \in DOMAIN blocks |->
    IF blocks[i].block = "event" /\ DeltaOf(blocks[i].payload, key)
    THEN blocks[i].payload.value ELSE << >>])

\* The provider: a done event and the terminal one repeat what the deltas said,
\* and are the last word on a key and on the answer; the done events of its part
\* and of its item follow that of a key.  The done event of a call may leave its
\* arguments out.
NextPayloads(blocks) ==
  LET events == {i \in DOMAIN blocks : blocks[i].block = "event"}
      had(types) == {blocks[i].payload.key : i \in {j \in events : blocks[j].payload.type \in types}}
      open == Keys \ had({"text_done", "args_done", "args_done_bare"})
      finished == Keys \ (open \cup had({"item_done"}))
      spoken == (finished \cap Runs) \ had({"part_done"})
      said(k) == Said(blocks, k)
      grows(k, values) == {v \in values : Len(said(k) \o v) <= MaxValue}
      running == open \cap Runs
      pending == open \cap Calls
  IN  IF had({"terminal"}) # {} THEN {}
      ELSE UNION {
        UNION {{Event("text_delta", r, v) : v \in grows(r, Deltas)} : r \in running},
        UNION {{Event("args_delta", c, v) : v \in grows(c, Arguments)} : c \in pending},
        {Event("text_done", r, said(r)) : r \in running},
        {Event("args_done", c, said(c)) : c \in pending},
        {Event("args_done_bare", c, << >>) : c \in pending},
        {Event("part_done", r, said(r)) : r \in spoken},
        {Event("item_done", k, said(k)) : k \in finished},
        {Event("terminal", Keys, [k \in Keys |-> said(k)])}}

-----------------------------------------------------------------------------
\* holds and text_frames, arguments and argument_frames, next_sequence.  A frame
\* is there or not: it addresses an event of its key.
Start == [holds |-> [r \in Runs |-> << >>], textFrames |-> {},
          arguments |-> [c \in Calls |-> << >>], argFrames |-> {},
          next |-> 0]

\* sequenced: the events of a stream that numbers them are numbered anew, in the
\* order they are sent.
Sequenced(s, events) ==
  [state |-> [s EXCEPT !.next = @ + Len(events)],
   out |-> [i \in DOMAIN events |-> [event |-> events[i], number |-> s.next + i - 1]]]

TextDelta(s, r, piece, ok) ==
  LET buffer == s.holds[r] \o piece
  IN  Sequenced([s EXCEPT !.holds[r] = Held(buffer), !.textFrames = @ \cup {r}],
                <<Event("text_delta", r, Guarded(Released(buffer), ok))>>)

\* What is still held belongs to the deltas, and goes in front.
TextDone(s, r, text, ok) ==
  Sequenced([s EXCEPT !.holds[r] = << >>, !.textFrames = @ \ {r}],
            (IF s.holds[r] = << >> THEN << >>
             ELSE <<Event("text_delta", r, Guarded(s.holds[r], ok))>>)
              \o <<Event("text_done", r, Guarded(text, ok))>>)

\* Suppressed: fragments of arguments are collected.
ArgsDelta(s, c, piece) ==
  [state |-> [s EXCEPT !.arguments[c] = @ \o piece, !.argFrames = @ \cup {c}], out |-> << >>]

MutantDoneAsAccumulated(s, c, complete, ok) ==
  Sequenced([s EXCEPT !.arguments[c] = << >>, !.argFrames = @ \ {c}],
            <<Event("args_done", c, RestoredArguments(complete, ok))>>)

\* One delta with all of it, for a client that reads deltas only.
ArgsDone(s, c, complete, ok) ==
  Sequenced([s EXCEPT !.arguments[c] = << >>, !.argFrames = @ \ {c}],
            <<Event("args_delta", c, RestoredArguments(complete, ok)),
              Event("args_done", c, RestoredArguments(complete, ok))>>)

\* The default branch: an event that is none of the others is numbered, no more.
PassedOn(s, p) == Sequenced(s, <<p>>)

\* Both walks look for the text of a part: that of a refusal is not one.
RestoredItem(k, value, ok) ==
  IF k \in Calls THEN RestoredArguments(value, ok)
  ELSE IF k \in Refusals THEN value ELSE Guarded(value, ok)
RestoredResponse(response, ok) == [k \in Keys |-> RestoredItem(k, response[k], ok)]

ItemDone(s, k, item, ok) == Sequenced(s, <<Event("item_done", k, RestoredItem(k, item, ok))>>)

Terminal(s, response, ok) ==
  Sequenced(s, <<Event("terminal", Keys, RestoredResponse(response, ok))>>)

Rewrite(s, p, ok) ==
  CASE p.type = "text_delta"     -> TextDelta(s, p.key, p.value, ok)
    [] p.type = "text_done"      -> TextDone(s, p.key, p.value, ok)
    [] p.type = "args_delta"     -> ArgsDelta(s, p.key, p.value)
    [] p.type = "args_done"      -> ArgsDone(s, p.key, p.value, ok)
    [] p.type = "args_done_bare" -> ArgsDone(s, p.key, s.arguments[p.key], ok)
    [] p.type = "part_done"      -> PassedOn(s, p)
    [] p.type = "item_done"      -> ItemDone(s, p.key, p.value, ok)
    [] p.type = "terminal"       -> Terminal(s, p.value, ok)

OwedText(s, ok) ==
  LET owed == SetToSeq({r \in s.textFrames : s.holds[r] # << >>})
  IN  [i \in DOMAIN owed |-> Event("text_delta", owed[i], Guarded(s.holds[owed[i]], ok))]
OwedCalls(s, ok) ==
  LET owed == SetToSeq({c \in s.argFrames : s.arguments[c] # << >>})
  IN  [i \in DOMAIN owed |-> Event("args_delta", owed[i], RestoredArguments(s.arguments[owed[i]], ok))]

\* The arguments stay; popping the frames is what lets flush run again.
FlushHeld(s, ok) ==
  Sequenced([s EXCEPT !.holds = Start.holds, !.textFrames = {}, !.argFrames = {}],
            OwedText(s, ok) \o OwedCalls(s, ok))

Ends(p) == p.type = "terminal"

VARIABLES received, cut, state, out, status, missed
INSTANCE SseRelay
-----------------------------------------------------------------------------
\* What the deltas of the first n items say to a client.
Read(n, key) ==
  FlattenSeq([i \in 1 .. n |->
    IF i \in Readable /\ DeltaOf(out[i].body.event, key) THEN out[i].body.event.value ELSE << >>])

LastWords == {"text_done", "args_done", "part_done", "item_done"}

\* The values an event repeats, if it is no delta.
Repetitions == {i \in Readable : out[i].body.event.type \in LastWords \cup {"terminal"}}
KeysOf(event) == IF event.type = "terminal" THEN Keys ELSE {event.key}
ValueOf(event, k) == IF event.type = "terminal" THEN event.value[k] ELSE event.value

\* Those the code relays as the provider wrote them.
LeftStanding(event, k) ==
  \/ event.type = "part_done"
  \/ event.type \in {"item_done", "terminal"} /\ k \in Refusals

\* A stream that ends between two events, or in an error of the connection, has
\* given a client that reads deltas every value, each fragment once, in order.
NothingLost ==
  (status = "closed" /\ cut = "none") \/ (status = "raised" /\ cut # "char") =>
    \A k \in Keys : Unrestored(Read(Len(out), k)) = Said(received, k)

\* A client may read the deltas, the done events or the terminal event: when an
\* event that repeats a value reaches it, what it has read says the same.  What the
\* code leaves standing says it in the provider's words, with every placeholder,
\* whatever the vault answered for the deltas.
EveryReadingAgrees ==
  \A i \in Repetitions :
    LET event == out[i].body.event
    IN  \A k \in KeysOf(event) :
          IF LeftStanding(event, k) THEN ValueOf(event, k) = Unrestored(Read(i, k))
          ELSE ~missed => ValueOf(event, k) = Read(i, k)

\* Behind its done event a value is only repeated, behind the terminal event
\* nothing comes, and behind [DONE] no event; and the numbers of the events, those
\* the relay invented among them, only grow.
HeldBeforeTheEnd ==
  /\ \A i, j \in Readable : i < j =>
       LET earlier == out[i].body.event
           later == out[j].body.event
       IN  /\ earlier.type # "terminal"
           /\ earlier.type \in LastWords =>
                \/ later.type \in {"part_done", "item_done", "terminal"}
                \/ later.key # earlier.key
  /\ \A i, j \in DOMAIN out : (i < j /\ out[i].sent = "done") => out[j].sent # "event"
  /\ \A i, j \in Readable : i < j => out[i].body.number < out[j].body.number

\* No placeholder reaches a client unrestored, in the deltas, in the done event of
\* a value or where else the code restores it, unless the vault failed to answer.
WholeIsRestored ==
  ~missed =>
    /\ \A k \in Keys : ~Whole(Read(Len(out), k))
    /\ \A i \in Repetitions :
         LET event == out[i].body.event
         IN  \A k \in KeysOf(event) : ~LeftStanding(event, k) => ~Whole(ValueOf(event, k))
=============================================================================
