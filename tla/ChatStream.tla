----------------------------- MODULE ChatStream -----------------------------
(***************************************************************************)
(* A Chat Completions stream on its way to the client                      *)
(* (gateway/stream.py), on the framing of SseRelay.                        *)
(*                                                                         *)
(* A chunk carries text and a tool-call fragment of one choice; its        *)
(* finish_reason is the last word on that choice.  Text passes through the *)
(* choice's hold-back; the fragments of its tool call are collected and    *)
(* leave once.                                                             *)
(***************************************************************************)
EXTENDS StreamText

CONSTANTS
  Indices,    \* the choices of a completion
  Contents,   \* delta.content, as sequences of fragments; << >> for none
  Arguments,  \* argument fragments of the choice's tool call; << >> for none
  MaxBlocks   \* bound: blocks in a stream

Chunk ==
  {p \in [choice : Indices, delta : BOOLEAN, content : Contents, call : Arguments,
          finish : BOOLEAN] :
     ~p.delta => p.content = << >> /\ p.call = << >>}

\* The provider: a choice is over with its finish, which comes with a delta
\* object.  (Without one it would be skipped, and what is held would follow it.)
NextPayloads(blocks) ==
  {p \in Chunk :
     /\ p.finish => p.delta
     /\ \A i \in DOMAIN blocks :
          (blocks[i].block = "event" /\ blocks[i].payload.finish) => blocks[i].payload.choice # p.choice}

-----------------------------------------------------------------------------
\* What rewrite and flush share: holds, calls and the skeleton of the last chunk.
Start == [holds |-> [c \in Indices |-> << >>],
          calls |-> [c \in Indices |-> << >>],
          skeleton |-> FALSE]

Collected(s, p) == s.calls[p.choice] \o p.call
Assembled(call, ok) == RestoredArguments(call, ok)

\* A finish releases what was held: no later delta will complete it.
KeptBack(p, buffer) == IF p.finish THEN << >> ELSE Held(buffer)
Ready(p, buffer) == IF p.finish THEN buffer ELSE Released(buffer)

RewriteDelta(s, p, ok) ==
  LET buffer == s.holds[p.choice] \o p.content
      collected == Collected(s, p)
  IN  [state |-> [holds |-> [s.holds EXCEPT ![p.choice] = KeptBack(p, buffer)],
                  calls |-> [s.calls EXCEPT ![p.choice] = IF p.finish THEN << >> ELSE collected],
                  skeleton |-> TRUE],
       out |-> <<[p EXCEPT !.content = Guarded(Ready(p, buffer), ok),
                           !.call = IF p.finish THEN Assembled(collected, ok) ELSE << >>]>>]

\* One chunk in, one chunk out.  A choice without a delta is skipped, whatever
\* its finish_reason.
Rewrite(s, p, ok) ==
  IF p.delta THEN RewriteDelta(s, p, ok)
             ELSE [state |-> [s EXCEPT !.skeleton = TRUE], out |-> <<p>>]

\* One chunk for each choice that is owed something, framed by the skeleton.
OwedChunks(s, ok) ==
  LET owed == {c \in Indices : s.skeleton /\ (s.holds[c] # << >> \/ s.calls[c] # << >>)}
      order == SetToSeq(owed)
  IN  [i \in DOMAIN order |->
        [choice |-> order[i], delta |-> TRUE, content |-> Guarded(s.holds[order[i]], ok),
         call |-> Assembled(s.calls[order[i]], ok), finish |-> FALSE]]

MutantFlushKeepsCalls(s, ok) ==
  [state |-> [s EXCEPT !.holds = Start.holds], out |-> OwedChunks(s, ok)]
FlushHeld(s, ok) ==
  [state |-> [s EXCEPT !.holds = Start.holds, !.calls = Start.calls],
   out |-> OwedChunks(s, ok)]

\* Chat Completions supplies no ends_the_answer: its stream ends at [DONE].
Ends(p) == FALSE

VARIABLES received, cut, state, out, status, missed
INSTANCE SseRelay
-----------------------------------------------------------------------------
ProviderSent(c, field) ==
  FlattenSeq([i \in DOMAIN received |->
    IF received[i].block = "event" /\ received[i].payload.choice = c
    THEN received[i].payload[field] ELSE << >>])
ClientGot(c, field) ==
  FlattenSeq([i \in DOMAIN out |->
    IF i \in Readable /\ out[i].body.choice = c THEN out[i].body[field] ELSE << >>])

Complete(c) ==
  \A field \in {"content", "call"} :
    Unrestored(ClientGot(c, field)) = ProviderSent(c, field)

\* A stream that ends between two events, or in an error of the connection, has
\* given the client every choice's text and tool call, each fragment once and
\* in order.
NothingLost ==
  (status = "closed" /\ cut = "none") \/ (status = "raised" /\ cut # "char") =>
    \A c \in Indices : Complete(c)

\* The same wherever the bytes stop (docs/testing.md: a stream that ends without
\* a terminal event loses nothing).
NothingLostAtAnyEnd == status # "open" => \A c \in Indices : Complete(c)

\* A client may stop reading a choice at its finish_reason, and the stream at
\* [DONE]: by then it has everything, and a choice gets nothing afterwards.
HeldBeforeFinish ==
  /\ \A i, j \in Readable :
       (i < j /\ out[i].body.finish /\ out[j].body.choice = out[i].body.choice) =>
         out[j].body.content = << >> /\ out[j].body.call = << >>
  /\ \A i, j \in DOMAIN out : (i < j /\ out[i].sent = "done") => out[j].sent # "event"

\* No placeholder reaches a client unrestored, however the stream cut it, unless
\* the vault failed to answer.
WholeIsRestored ==
  ~missed => \A c \in Indices : ~Whole(ClientGot(c, "content")) /\ ~Whole(ClientGot(c, "call"))

\* A tool call leaves in one piece: a client never sees one it could run in part.
CallsInOnePiece ==
  \A i, j \in Readable :
    (i < j /\ out[i].body.choice = out[j].body.choice) =>
      out[i].body.call = << >> \/ out[j].body.call = << >>
=============================================================================
