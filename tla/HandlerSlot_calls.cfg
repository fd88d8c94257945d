\* A handler on the writer's thread and one on a worker, three tries each.
SPECIFICATION FairSpec
CONSTANTS
  Handlers = {main, t1}
  Own = main
  Values = {v1, v2}
  Torn = Torn
  ReadTries = 3
INVARIANTS
  TypeOK
  WrittenAlone
  QuietOnceDisarmed
PROPERTIES
  ImplementsSignalSlot
  EveryoneReturns
