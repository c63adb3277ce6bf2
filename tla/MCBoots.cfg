SPECIFICATION FairSpec
CONSTANTS
    Frames = 4
    Dots = 12
    Configs <- MCConfigs
    Files <- MCFiles
    FileSets <- MCFileSets
    CutName = "cut"
    OtherLoader = "loader"
    OtherEntries <- MCOtherEntries
    Vmlinuz = "vmlinuz"
    Initramfs = "initramfs"
    KernelElf = "kernel.elf"
    Modules <- MCModules
    MaxBoots = 3
INVARIANTS
    NextBootOnce
    FastbootQuiet
    HandedOver
    EntriesKept
    FailureShown
PROPERTY BootEnds
CHECK_DEADLOCK FALSE
