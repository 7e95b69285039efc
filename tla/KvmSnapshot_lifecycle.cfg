\* Snapshot lifecycle with failing snapshot-create, unpatched QEMU and
\* failed pid lookups, failed domain lookups and info queries, and one
\* domain query; no failures of shm_open, mmap, connect or the libvirt
\* version query.
\* The instance may stop: nothing runs after kvm_destroy.
CONSTANTS
    Pids <- MC_Pids
    VAddrs <- MC_VAddrs
    AddressSpace <- MC_AddressSpace
    MaxSnapshots = 3
    MaxEpoch = 2
    MaxQueries = 1
    Faults = {"snapshot_cmd", "pmemaccess", "pid_to_dtb", "domain_lookup", "domain_info"}
SPECIFICATION Spec
INVARIANT TypeOK
INVARIANT NoStaleCaches
INVARIANT ShmObjectOwned
CHECK_DEADLOCK FALSE
