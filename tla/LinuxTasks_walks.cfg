\* A KVM guest (the driver reports no address width, page mode IA-32e)
\* forking, exiting and reaping up to two tasks while the client runs
\* round trips.
CONSTANTS
    TaskAddrs <- MC_TaskAddrs
    InitTask = 16
    TasksOffset = 8
    InitRing <- MC_InitRing
    InitPid <- MC_InitPid
    Pids <- MC_Pids
    MmAddrs <- MC_MmAddrs
    MmPgd <- MC_MmPgd
    KernelMap <- MC_KernelMap
    Width = 0
    PageModeWidth = 8
    MaxGuestSteps = 2
SPECIFICATION Spec
INVARIANT TypeOK
INVARIANT PidWalkComplete
INVARIANT RoundTripUserTask
PROPERTY WalkTerminates
