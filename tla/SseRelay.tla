------------------------------ MODULE SseRelay ------------------------------
(***************************************************************************)
(* The framing loop every streaming protocol shares (gateway/sse.py).      *)
(*                                                                         *)
(* The provider's bytes arrive in any pieces.  A block, an event with its  *)
(* blank line, is processed when it is complete; until then its bytes are  *)
(* pending, and may stop inside an event or inside a character.  A stream  *)
(* stops when the bytes run out or the connection raises, at any point;    *)
(* [DONE] and the protocol's terminal event announce it.                   *)
(*                                                                         *)
(* The protocol is the parameters Start, Rewrite, FlushHeld and Ends; what *)
(* a provider may send next is NextPayloads, and [DONE] is the last block. *)
(* "ok" says whether the vault answers the lookups made for a block.       *)
(***************************************************************************)
EXTENDS Integers, Sequences, SequencesExt

CONSTANTS
  NextPayloads(_),   \* what the next event may carry after these blocks
  Start,             \* what the rewrite and the flush share, at first
  Rewrite(_, _, _),  \* state, payload, ok -> [state, out]: the EventRewrite
  FlushHeld(_, _),   \* state, ok -> [state, out]: the Flush
  Ends(_),           \* EndsTheAnswer
  MaxBlocks          \* bound: blocks in a stream

Done == [block |-> "done"]
Other == [block |-> "other"]
EventOf(p) == [block |-> "event", payload |-> p]
VARIABLES
  received,  \* history: the complete blocks so far
  cut,       \* where the pending bytes end: "none", in an "event", in a "char"
  state,     \* the protocol's
  out,       \* what the client has been sent
  status,    \* "open", "closed", "raised"
  missed     \* history: a lookup has failed

relayVars == <<received, cut, state, out, status, missed>>

-----------------------------------------------------------------------------
RelayInit ==
  /\ received = << >> /\ cut = "none" /\ state = Start /\ out = << >>
  /\ status = "open" /\ missed = FALSE

Sent(items) == [i \in DOMAIN items |-> [sent |-> "event", body |-> items[i]]]
Verbatim(block) == <<[sent |-> block]>>

MayArrive == status = "open" /\ Len(received) < MaxBlocks /\ ~Contains(received, Done)

\* The first bytes of the next block.
ArrivePart ==
  /\ MayArrive /\ cut = "none"
  /\ cut' \in {"event", "char"}
  /\ UNCHANGED <<received, state, out, status, missed>>

Receive(b) ==
  /\ MayArrive
  /\ received' = Append(received, b)
  /\ cut' = "none"
  /\ UNCHANGED status

\* A comment, or an event that is not a JSON object.
RelayOther ==
  /\ Receive(Other)
  /\ out' = out \o Verbatim("other")
  /\ UNCHANGED <<state, missed>>

RelayDone ==
  /\ Receive(Done)
  /\ \E ok \in BOOLEAN :
       LET flushed == FlushHeld(state, ok)
       IN  /\ state' = flushed.state
           /\ out' = out \o Sent(flushed.out) \o Verbatim("done")
           /\ missed' = (missed \/ ~ok)

MutantFlushAfterTerminal ==
  \E p \in NextPayloads(received), ok \in BOOLEAN :
    LET written == Rewrite(state, p, ok)
        flushed == IF Ends(p) THEN FlushHeld(written.state, ok)
                              ELSE [state |-> written.state, out |-> << >>]
    IN  /\ Receive(EventOf(p))
        /\ state' = flushed.state
        /\ out' = out \o Sent(written.out) \o Sent(flushed.out)
        /\ missed' = (missed \/ ~ok)

\* A terminal event is the last word: what is held goes out in front of it.
RelayEvent ==
  \E p \in NextPayloads(received), ok \in BOOLEAN :
    LET flushed == IF Ends(p) THEN FlushHeld(state, ok) ELSE [state |-> state, out |-> << >>]
        written == Rewrite(flushed.state, p, ok)
    IN  /\ Receive(EventOf(p))
        /\ state' = written.state
        /\ out' = out \o Sent(flushed.out) \o Sent(written.out)
        /\ missed' = (missed \/ ~ok)

MutantConnectionDropsHeld ==
  /\ status = "open"
  /\ status' = "raised"
  /\ UNCHANGED <<received, cut, state, out, missed>>

\* The connection raises: what is held is handed over, then the error travels.
\* Bytes of an unfinished event are not.  So does a rewrite that raises, as one of
\* a terminal event does over a NaN (ResponsesStream): the client gets the flush
\* in front of that event and not the event, as if it had not come.
ConnectionDrops ==
  /\ status = "open"
  /\ \E ok \in BOOLEAN :
       LET flushed == FlushHeld(state, ok)
       IN  /\ state' = flushed.state
           /\ out' = out \o Sent(flushed.out)
           /\ missed' = (missed \/ ~ok)
  /\ status' = "raised"
  /\ UNCHANGED <<received, cut>>

\* The bytes run out.  Those of an unfinished event are relayed as they are,
\* and what is held comes after them.
BytesRunOut ==
  /\ status = "open" /\ cut # "char"
  /\ \E ok \in BOOLEAN :
       LET flushed == FlushHeld(state, ok)
       IN  /\ state' = flushed.state
           /\ out' = out \o (IF cut = "event" THEN Verbatim("raw") ELSE << >>)
                         \o Sent(flushed.out)
           /\ missed' = (missed \/ ~ok)
  /\ status' = "closed"
  /\ UNCHANGED <<received, cut>>

\* They run out inside a character: the decoder raises, outside the try.
DecoderRaises ==
  /\ status = "open" /\ cut = "char"
  /\ status' = "raised"
  /\ UNCHANGED <<received, cut, state, out, missed>>

RelayNext ==
  \/ ArrivePart
  \/ RelayOther \/ RelayDone \/ RelayEvent
  \/ ConnectionDrops \/ BytesRunOut \/ DecoderRaises

RelaySpec == RelayInit /\ [][RelayNext]_relayVars

-----------------------------------------------------------------------------
\* What a client can parse: an event written straight behind bytes without
\* their blank line is lost with them.
Readable ==
  {i \in DOMAIN out : out[i].sent = "event" /\ (i = 1 \/ out[i - 1].sent # "raw")}
=============================================================================
