SPECIFICATION Spec
CONSTANTS
    U64 <- MCU64
    U32 <- MCU32
    LoaderSettings <- MCLoader
    OtherEntries <- MCOther
    HasPrefix <- MCHasPrefix
    Lives <- MCLives
    Timeouts = {"5"}
    EntryIds = {"a", "b", "c"}
INVARIANTS
    EarlyReadersAgree
PROPERTIES
    MenuSaveExact
    NextBootOnce
    CliSetExact
    CliDefaultAndRemove
CHECK_DEADLOCK FALSE
