\* A tar into a tar, with a name repeated by an entry that is not stored.
SPECIFICATION Spec
CONSTANTS
  Names = {a, b, c}
  MaxFiles = 1
  Overhead = 1
  Conversions <- TarToTar
  Announcements = {0}
  Sizes = {0, 1}
  MaxEntries = 5
CHECK_DEADLOCK FALSE
SYMMETRY NameSymmetry
PROPERTY
  WrittenAsMeant
