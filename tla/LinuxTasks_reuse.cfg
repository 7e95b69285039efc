\* A KVM guest whose reaped task_structs are freed and reused while a
\* walk may stand on them.
CONSTANTS
    TaskAddrs <- MC_TaskAddrs
    InitTask = 16
    TasksOffset = 8
    InitRing <- MC_InitRing
    InitPid <- MC_InitPid
    Pids <- MC_Pids
    MmAddrs <- MC_MmAddrs
    MmPgd <- MC_MmPgd
    KernelMap <- MC_KernelMap
    Width = 0
    PageModeWidth = 8
    MaxGuestSteps = 3
SPECIFICATION SpecReuse
PROPERTY WalkTerminates
