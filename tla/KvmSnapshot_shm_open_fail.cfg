CONSTANTS
    Pids <- MC_Pids
    VAddrs <- MC_VAddrs
    AddressSpace <- MC_AddressSpace
    MaxSnapshots = 2
    MaxEpoch = 1
    MaxQueries = 0
    Faults = {"shm_open"}
SPECIFICATION Spec
INVARIANT LiveModeNoSnapshotResidue
CHECK_DEADLOCK FALSE
