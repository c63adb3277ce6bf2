SPECIFICATION Spec
CONSTANTS
    PageWords = 3
    FourGiB = 54
    LimineMachines = {}
    LinuxMachines <- High
    Kernels = {}
    HigherHalf = 27
    MinGigabytes = 2
    Linuxes <- MCLinuxes
    Screens <- MCScreens
    SectorWords = 1
    DefaultOptions = 5
    Machines = {}
    PageSize = 2
    Top = 15
    Slack = 2
    MaxAllocations = 2
INVARIANT
    LinuxFindsAll
CHECK_DEADLOCK FALSE
