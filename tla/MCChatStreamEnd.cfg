SPECIFICATION RelaySpec
CONSTANTS
  Indices = {1, 2}
  Contents <- MCContents
  Arguments <- MCArguments
  MaxBlocks = 3
CHECK_DEADLOCK FALSE
INVARIANT NothingLostAtAnyEnd
