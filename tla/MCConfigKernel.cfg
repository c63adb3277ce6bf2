SPECIFICATION Spec
CONSTANTS
    U64 <- MCU64
    U32 <- MCU32
    LoaderSettings <- NoSeq
    OtherEntries <- NoSeq
    HasPrefix <- NoPrefix
    Lives <- KernelLives
    Timeouts = {"5"}
    EntryIds = {"a", "b", "c"}
PROPERTIES
    SetTimeoutKeepsEntries
CHECK_DEADLOCK FALSE
