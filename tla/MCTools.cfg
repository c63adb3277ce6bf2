SPECIFICATION ToolsSpec
CONSTANTS
    Dirs <- MCDirs
    Files <- MCFiles
    Typed <- MCTyped
    MaxLine = 5
    Cd <- MCCd
    Ls <- MCLs
    Quits <- MCQuits
    Others <- MCOthers
    Known <- MCKnown
    Fallback = "boot"
    Titles <- MCTitles
    Volumes <- MCVolumes
    Own = "esp"
    Contents <- MCContents
    MaxPlugs = 3
    p1 = p1
    p2 = p2
    p3 = p3
    Pairs <- MCPairs
    None = None
    Torn = Torn
    Unsigned = Unsigned
    Headers = 2
    Lengths = {1, 7, 8}
SYMMETRY AnyPair
INVARIANTS
    EnrolledTogether
    SuccessTrue
    CertMatchesBinary
PROPERTIES
    TabHelps
    OthersStarted
    EnrolsSigner
    StatusTrue
CHECK_DEADLOCK FALSE
