\* A tar into a zip, a cpio into an ar or a tar; and the reading of one archive.
SPECIFICATION ConvertSpec
CONSTANTS
  Names = {a, b, c}
  MaxFiles = 1
  Overhead = 1
  Conversions <- AllConversions
  Announcements = {0, 1, 2}
  Sizes = {0, 1, 3}
  MaxEntries = 5
  Layouts <- ReadLayouts
  Requests <- ReadRequests
  ReadVerbs <- MemoryOrFile
  Floor = 2
  TallyMax = 7
CHECK_DEADLOCK FALSE
SYMMETRY NameSymmetry
INVARIANTS
  ConvertTypeOK
  WithinPolicy
  NeverDangling
  ReadAsPromised
PROPERTY
  CopiedAsMeant
