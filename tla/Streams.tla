------------------------------ MODULE Streams ------------------------------
(***************************************************************************)
(* The stream relays of the two protocol adapters                          *)
(* (gateway/adapter/protocol.py).  A stream is relayed by one of them from *)
(* its first byte to its last.                                             *)
(***************************************************************************)
EXTENDS StreamText, FiniteSets

CONSTANTS
  Indices, Contents, Fragments, ChatBlocks,                 \* of ChatStream
  Runs, Refusals, Calls, Deltas, Arguments,                 \* of ResponsesStream
  MaxValue, ResponsesBlocks

ASSUME FiniteAssumption == IsFiniteSet(Indices) /\ IsFiniteSet(Runs) /\ IsFiniteSet(Calls)
ASSUME KeyAssumption == Refusals \subseteq Runs /\ Runs \cap Calls = {}
\* A provider repeats placeholders; it has no values to send.
ASSUME TextAssumption ==
  Contents \cup Fragments \cup Deltas \cup Arguments \subseteq Seq(Fragment)

VARIABLES protocol, received, cut, state, out, status, missed

Chat == INSTANCE ChatStream WITH Arguments <- Fragments, MaxBlocks <- ChatBlocks
Responses == INSTANCE ResponsesStream WITH MaxBlocks <- ResponsesBlocks

streamVars == <<protocol, received, cut, state, out, status, missed>>

Init ==
  \/ protocol = "chat" /\ Chat!RelayInit
  \/ protocol = "responses" /\ Responses!RelayInit

Next ==
  \/ protocol = "chat" /\ Chat!RelayNext /\ UNCHANGED protocol
  \/ protocol = "responses" /\ Responses!RelayNext /\ UNCHANGED protocol

Spec == Init /\ [][Next]_streamVars

-----------------------------------------------------------------------------
\* A stream that ends between two events, or in an error of the connection, has
\* given the client every text and tool call, each fragment once and in order.
NothingLost ==
  IF protocol = "chat" THEN Chat!NothingLost ELSE Responses!NothingLost

\* A client may stop reading at the last word on a value, or at [DONE]: by then
\* it has everything, and nothing comes afterwards.  The events of the Responses
\* API keep their order for a client that sorts them by number.
NothingAfterTheEnd ==
  IF protocol = "chat" THEN Chat!HeldBeforeFinish ELSE Responses!HeldBeforeTheEnd

\* However the stream cut it, no placeholder reaches a client unrestored, unless
\* the vault failed to answer: in the deltas of either protocol, in the done event
\* of each value, and in the done event of a message or a call and the terminal
\* event, refusals excepted.  The done event of a part is never restored.
WholeIsRestored ==
  IF protocol = "chat" THEN Chat!WholeIsRestored ELSE Responses!WholeIsRestored

\* A tool call of Chat Completions leaves in one piece: a client never sees one
\* it could run in part.
CallsInOnePiece == protocol = "chat" => Chat!CallsInOnePiece

\* A client of the Responses API may read the deltas, the done events or the
\* terminal event: whenever a value is repeated to it, it is the one it has read;
\* where the code restores no repetition, it is that of the provider.
EveryReadingAgrees == protocol = "responses" => Responses!EveryReadingAgrees
=============================================================================
