SPECIFICATION Spec
CONSTANTS
    PageWords = 3
    FourGiB = 54
    LimineMachines <- MCLimineMachines
    LinuxMachines <- MCLinuxMachines
    Kernels <- MCKernels
    HigherHalf = 27
    MinGigabytes = 2
    Linuxes <- MCLinuxes
    Screens <- MCScreens
    SectorWords = 1
    DefaultOptions = 5
    Machines <- MCMachines
    PageSize = 2
    Top = 15
    Slack = 2
    MaxAllocations = 2
INVARIANTS
    KernelSees
    WindowsWhole
    LinuxSees
    OthersUntouched
    MapExact
    MapSafe
CHECK_DEADLOCK FALSE
