SPECIFICATION FairSpec
CONSTANTS
    NumEntries = 3
    EntriesPerPage = 2
    DefaultEntry = 1
    MaxTimeout = 2
    InitialTimeout = 2
    SpinnerModes <- TwoModes
    NextMode <- TwoCycle
    InitialImages <- MCInitialImages
    IdOf <- MCIdOf
    Identified = {0, 1}
    MaxVisits = 2
INVARIANTS
    DisplayTruthful
    CountdownTimed
    CountdownNotEarly
    CountdownLeftAlone
    MemoryIsSaved
PROPERTIES
    BootsWhatIsMarked
    UnattendedBoot
    KeysAnswered
CHECK_DEADLOCK FALSE
