\* zip: one archive, or two parts, each replaced when it is full; zipsplit: an index
\* and two parts.
SPECIFICATION ToolsSpec
CONSTANTS
  Handlers = {main}
  Main = main
  Archives = {a1, a2}
  Values = {a1, a2}
  Nothing = Nothing
  MaxParts = 2
SYMMETRY ZipSymmetry
INVARIANTS
  ToolsTypeOK
  ArchiveKept
  AnsweredWhole
  LastFailureKeepsNew
  SplitAllOrNothing
