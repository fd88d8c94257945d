SPECIFICATION Spec
CONSTANTS
    Refused <- TooLong
    Inos = {i1, i2, i3, i4}
    None = None
    Setups <- Invocations
    Entries <- UnpackEntries
    PathOf <- Spellings
    Unsafe <- Outside
    Payloads <- EntryPayloads
    MaxEntries = 3
    Locking <- Locked
    Records <- SalvageRecords
    RecordPath <- Spellings
    Escaping <- Outside
    Contents <- EntryPayloads
    MaxRecords = 3
    Position <- Positions
    MaxSuffixes = 2
    Tapes <- DamagedTapes
    Block = 2
    FileLen = 9
    MaxShift = 1
    MaxChains = 1
    TrackingCap = 1
    ReadLimit = 1
    Dumps <- HeaderDumps
    End = 7
    Fixed = 1
    Align = 2
    MagicLen = 1
    LogCap = 1
    Ceiling = 1
    NoVerifier = NoVerifier
SYMMETRY Numbering
INVARIANTS
    TypeOK
    NothingTakenAway
    NoneLostSilently
    ChainReadsBounded
PROPERTIES
    ImplementsUnpacking
    ModesSurviveTheirParents
    SpentStaysSpent
CHECK_DEADLOCK FALSE
