\* LEGACY, PAE and IA-32e guests, live or file mode, page mode known or
\* not, each profile and config, any combination of failing sources.
CONSTANTS
    GuestModes = {"LEGACY", "PAE", "IA32E"}
    Profiles <- MC_Profiles
    Configs <- MC_Configs
    Faults <- MC_Faults
    Half = 16
    SysDtb = 4
    BootCr3 <- MC_BootCr3
    PageSize = 4
    MaxPhys = 16
    Builds <- MC_Builds
    NtPa = 8
    NtVa = 12
    GarbageVa = 250
    SysprocPa = 6
    SysprocVa = 10
    TasksOff = 4
    PdbaseOff = 2
    SysMem <- MC_SysMem
    UserPid = 8
    UserPdbase <- MC_UserPdbase
SPECIFICATION Spec
INVARIANT TypeOK
INVARIANT KpgdIsSystemDtb
INVARIANT ProfileSnapshotInitialises
INVARIANT RoundTripPidPgd
\* windows_init returns: "done" and "error" are final
CHECK_DEADLOCK FALSE
