CONSTANTS
  NameLength = 2
  MaxHold = 6
  Pieces <- MCPieces
  MaxText = 8
  TypeNames <- MCTypeNames
  LastIndex = 6400
  NoFile = NoFile
  Missing = Missing
  Builds <- MCBuilds
  Drafts <- MCDrafts
  OldFiles <- MCOldFiles
  Known <- MCKnown
  Builtin <- MCBuiltin
SPECIFICATION MCSpec
INVARIANTS
  AsIfWhole
  BracketedRecovered
  ReadsBack
  UpgradeReaches
CHECK_DEADLOCK FALSE
