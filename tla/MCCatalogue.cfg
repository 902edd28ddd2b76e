CONSTANTS
  NoFile = NoFile
  Missing = Missing
  Builds <- MCBuilds
  Drafts <- MCDrafts
  OldFiles <- MCOldFiles
  Known <- MCKnown
  Builtin <- MCBuiltin
SPECIFICATION BookSpec
INVARIANT RemovedOnlyByDisabling
CHECK_DEADLOCK FALSE
