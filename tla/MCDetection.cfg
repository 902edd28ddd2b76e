CONSTANTS
  Chars <- MCChars
  Texts <- MCTexts
  MaxChars = 8
  MaxOverlap = 4
  ScanCode = FALSE
  Documents <- MCDocuments
  Catalogue <- MCCatalogue
  SweepOn = TRUE
  Scores = {1, 2}
  Window = 2
  MinLength = 2
  MaxProposed = 2
SPECIFICATION DetectSpec
INVARIANTS
  Replaceable
  NothingVanishes
  ExactStands
  EveryRepeat
  SeenWhole
CHECK_DEADLOCK FALSE
