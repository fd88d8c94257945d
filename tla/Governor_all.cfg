\* Three units over four workers and three bytes: a grant of all the workers, the
\* one-worker floor over the budget, and a counter two of those floors overflow.
SPECIFICATION FairSpec
CONSTANTS
  Units = {u1, u2, u3}
  Workers = 4
  MemoryLimit = 3
  U64Max = 5
  Wants = {2, 4}
  PerWorker = {0, 1, 4}
  Acquisitions = 2
INVARIANTS
  TypeOK
  NothingReservedTwice
  NoLostWakeup
  VoluntaryWithinBudget
PROPERTIES
  EveryCallIsServed
  ImplementsPool
