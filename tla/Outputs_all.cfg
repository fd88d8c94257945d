\* Two calls, and up to two temporaries left by an earlier process; and pack
\* over every scene, its tree changed up to twice.
SPECIFICATION OutputsSpec
CONSTANTS
  Runs = {r1, r2}
  Numbers <- FourNumbers
  Debris = {0, 1}
  MaxAttempts = 3
  Options <- AllOptions
  Scenes <- AllScenes
  Garbled <- NotUtf8
  MaxChanges = 2
CHECK_DEADLOCK FALSE
SYMMETRY RunSymmetry
INVARIANTS
  TypeOK
  NeverTorn
  DurableOnceSynced
  NeverLockedOut
  PackTypeOK
  PackedAsFound
PROPERTY
  KeptWithoutForce
