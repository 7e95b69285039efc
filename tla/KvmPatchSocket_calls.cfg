\* kvm_get_memory_patch / kvm_put_memory against QEMU's pmemaccess thread
SPECIFICATION Spec
CONSTANTS
    MemSize = 2
    Vals <- MC_Vals
    Paddrs <- MC_Paddrs
    Lengths <- MC_Lengths
    MaxCalls = 3
    MaxGuestWrites = 1
    MaxSignals = 0
INVARIANTS TypeOK SocketInStep
PROPERTY ImplementsDriverMemory
\* kvm_destroy's quit ends the conversation: nothing runs after it
CHECK_DEADLOCK FALSE
