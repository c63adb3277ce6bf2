SPECIFICATION FairSpec
CONSTANTS
    s1 = s1
    s2 = s2
    s3 = s3
    k1 = k1
    i1 = i1
    i2 = i2
    n1 = n1
    n2 = n2
    n3 = n3
    none = none
    dflt = dflt
    header = header
    Systems <- MCSystems
    StoreFiles <- MCStoreFiles
    Names <- MCNames
    CleanName <- MCCleanName
    Kernel <- MCKernel
    Initrd <- MCInitrd
    NoFile = none
    Gens <- MCGens
    DefaultId = dflt
    NumGenerations = 2
    Headers = {header}
    GeneratedHeader = header
INVARIANTS
    EntriesBootable
    CompletedRun
    MenuOrder
PROPERTY
    RunEnds
    RebuildsTheEsp
