SPECIFICATION Spec
CONSTANTS
  Indices = {1, 2}
  Contents <- MCContents
  Fragments <- MCFragments
  ChatBlocks = 3
  Runs = {r1, r2}
  Refusals = {r2}
  Calls = {c1}
  Deltas <- MCDeltas
  Arguments <- MCArguments
  MaxValue = 4
  ResponsesBlocks = 5
CHECK_DEADLOCK FALSE
INVARIANTS
  NothingLost
  NothingAfterTheEnd
  WholeIsRestored
  CallsInOnePiece
  EveryReadingAgrees
