\* The same guests and sources: which init_task windows_init leaves.
CONSTANTS
    GuestModes = {"LEGACY", "PAE", "IA32E"}
    Profiles <- MC_Profiles
    Configs <- MC_Configs
    Faults <- MC_Faults
    Half = 16
    SysDtb = 4
    BootCr3 <- MC_BootCr3
    PageSize = 4
    MaxPhys = 16
    Builds <- MC_Builds
    NtPa = 8
    NtVa = 12
    GarbageVa = 250
    SysprocPa = 6
    SysprocVa = 10
    TasksOff = 4
    PdbaseOff = 2
    SysMem <- MC_SysMem
    UserPid = 8
    UserPdbase <- MC_UserPdbase
SPECIFICATION Spec
INVARIANT InitTaskInProcessList
\* windows_init returns: "done" and "error" are final
CHECK_DEADLOCK FALSE
