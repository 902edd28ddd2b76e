CONSTANTS
  Thread = {t1, t2, t3}
  None = None
  Module <- MCModule
  Deps <- MCDeps
  Imported = "normalizer"
  Gliner = TRUE
  Caller = {c1, c2}
  Value <- MCValue
  Short <- MCShort
  Line <- MCLine
  Redacted = "redacted"
  MaxTracked = 3
SPECIFICATION MCSpec
INVARIANTS
  WholeTable
  OneModel
  LinesClean
  NewestKept
PROPERTY CallsEnd
