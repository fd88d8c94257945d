\* Every tool over two operands, with a codec worker that takes signals.
SPECIFICATION FairSpec
CONSTANTS
  Handlers = {main, t1}
  Own = main
  Nothing = Nothing
  Values <- Names
  Count = 2
  Temps <- TwoTemps
  Setups <- AllSetups
INVARIANTS
  TypeOK
  StrandedOnlyUnarmed
PROPERTIES
  ImplementsConversion
  NotItsToRemove
  RunEnds
