CONSTANTS
    Pids <- MC_Pids
    VAddrs <- MC_VAddrs
    AddressSpace <- MC_AddressSpace
    MaxSnapshots = 2
    MaxEpoch = 1
    MaxQueries = 0
    Faults = {}
SPECIFICATION Spec
INVARIANT FdsClosedWhenLive
CHECK_DEADLOCK FALSE
