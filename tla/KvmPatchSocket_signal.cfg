\* a signal interrupts a blocked read of the patch reader
SPECIFICATION SpecSignals
CONSTANTS
    MemSize = 2
    Vals <- MC_Vals
    Paddrs <- MC_Paddrs
    Lengths <- MC_Lengths
    MaxCalls = 3
    MaxGuestWrites = 1
    MaxSignals = 1
INVARIANT CallsReportServerOutcome
\* kvm_destroy's quit ends the conversation: nothing runs after it
CHECK_DEADLOCK FALSE
