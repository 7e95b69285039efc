----------------------------- MODULE KvmSnapshot -----------------------------
(***************************************************************************)
(* The KVM driver's memory-access modes and shm-snapshot lifecycle         *)
(* (driver/kvm/kvm.c): live mode through the pmemaccess socket or the      *)
(* native xp command (kvm_setup_live_mode), snapshot mode over a shared    *)
(* memory object (kvm_setup_shm_snapshot_mode, link_mmap_shm_snapshot_dev, *)
(* kvm_teardown_shm_snapshot_mode, kvm_create/destroy_shm_snapshot), the   *)
(* per-pid v2m tables behind kvm_get_dgvma, and kvm_destroy.               *)
(*                                                                         *)
(* Every driver entry point is one atomic step: the library is single     *)
(* threaded.  What runs concurrently is the guest, whose progress is the   *)
(* epoch counter, and the host, which owns the /dev/shm objects and the    *)
(* file descriptors.  A read view is 0 for the live guest and g for the    *)
(* g-th snapshot object; a translation cache is the set of views its      *)
(* entries were read from.                                                 *)
(***************************************************************************)
EXTENDS Integers, FiniteSets, Sequences, TLC

CONSTANTS
    Pids,          \* pids given to kvm_get_dgvma (0 is the kernel)
    VAddrs,        \* virtual frames given to kvm_get_dgvma
    AddressSpace,  \* pid -> page list vmi_get_va_pages returns for its dtb
    MaxSnapshots,  \* bound on snapshot-create commands issued
    MaxEpoch,      \* bound on guest progress
    MaxQueries,    \* bound on domain queries (kvm_get_id_from_name, ...)
    Faults         \* failures the environment may produce, a subset of
                   \* {"snapshot_cmd", "shm_open", "mmap", "pmemaccess",
                   \*  "connect", "pid_to_dtb", "domain_lookup",
                   \*  "libver", "domain_info"}

ASSUME /\ 0 \in Pids
       /\ MaxSnapshots \in Nat \ {0}
       /\ MaxEpoch \in Nat
       /\ MaxQueries \in Nat

(* The chunk builder and lookup, with a placeholder state: only its pure   *)
(* operators are used here.                                                *)
V2M == INSTANCE V2MChunks WITH
         VFrames <- VAddrs, PFrames <- {0}, Sizes <- {1}, MemSize <- 1,
         MaxPages <- 1,
         pages <- <<>>, pending <- <<>>, chunks <- <<>>, frees <- <<>>,
         phase <- "done", status <- "none"

VARIABLES
    kvm,       \* the kvm_instance_t and the vmi caches it rewires
    host,      \* /dev/shm objects, open descriptors, snapshot names used
    guest,     \* guest progress and whether it is paused
    flags,     \* vmi->flags & VMI_INIT_SHM_SNAPSHOT
    phase,     \* "uninit", "ready", "failed", "destroyed"
    lastDgvma  \* the last kvm_get_dgvma call and what it returned

vars == <<kvm, host, guest, flags, phase, lastDgvma>>

Snapshots == 1..MaxSnapshots
NoRegs == -1
CacheNames == {"pid", "sym", "rva", "v2p"}

World == [kvm |-> kvm, host |-> host, guest |-> guest]

Flush(k, names) ==
    [k EXCEPT !.caches = [c \in CacheNames |->
                            IF c \in names THEN {} ELSE k.caches[c]]]

(* test_using_shm_snapshot *)
test_using_shm_snapshot(k) ==
    /\ k.shm_snapshot_path # 0
    /\ k.shm_snapshot_fd # 0
    /\ k.shm_snapshot_map # 0
    /\ k.shm_snapshot_cpu_regs # NoRegs

(* The view reads are served from. *)
View(k) == IF k.memory_cache = "shm" THEN k.shm_snapshot_map ELSE 0

-----------------------------------------------------------------------------
(***************************************************************************)
(* The driver operations, as functions from a world to the set of the      *)
(* [w, ok] results the environment allows.                                 *)
(***************************************************************************)

(* link_mmap_shm_snapshot_dev: shm_open, ftruncate, mmap of object g. *)
link_mmap_shm_snapshot_dev(w, g) ==
    LET opened == [w EXCEPT !.kvm.shm_snapshot_fd = g,
                            !.host.fds = @ \cup {g}]
    IN  { [w |-> [opened EXCEPT !.kvm.shm_snapshot_map = g], ok |-> TRUE] }
        \cup (IF "mmap" \in Faults
              THEN { [w |-> [opened EXCEPT !.kvm.shm_snapshot_map = -1],
                      ok |-> FALSE] }
              ELSE {})
        \cup (IF "shm_open" \in Faults
              THEN { [w |-> [w EXCEPT !.kvm.shm_snapshot_fd = -1],
                      ok |-> FALSE] }
              ELSE {})

(* exec_shm_snapshot: a fresh tempnam name is stored as                   *)
(* shm_snapshot_path before snapshot-create is sent.                       *)
exec_shm_snapshot(w) ==
    LET g == w.host.created + 1
    IN  [w EXCEPT !.kvm.shm_snapshot_path = g, !.host.created = g]

(***************************************************************************)
(* kvm_setup_shm_snapshot_mode: exec_shm_snapshot records the new name     *)
(* before QEMU runs snapshot-create.  On success the registers are dumped  *)
(* by a second QMP command, while a running guest goes on; the caches are  *)
(* flushed, the memory cache reinstalled over the map, and the object      *)
(* opened and mapped.                                                      *)
(***************************************************************************)
kvm_setup_shm_snapshot_mode(w) ==
    LET g     == w.host.created + 1
        named == exec_shm_snapshot(w)
        taken == [named EXCEPT !.host.shm = @ \cup {g},
                               !.host.frozen[g] = w.guest.epoch]
        later == w.guest.epoch ..
                   (IF w.guest.paused THEN w.guest.epoch ELSE MaxEpoch)
    IN  UNION { link_mmap_shm_snapshot_dev(
                  [taken EXCEPT
                     !.guest.epoch = e,
                     !.kvm = [Flush(taken.kvm, CacheNames) EXCEPT
                                !.shm_snapshot_cpu_regs = e,
                                !.memory_cache = "shm"]], g)
                : e \in later }
        \cup (IF "snapshot_cmd" \in Faults
              THEN { [w |-> named, ok |-> FALSE] } ELSE {})

(***************************************************************************)
(* munmap_unlink_shm_snapshot_dev: unmap a non-NULL map; for a non-zero    *)
(* descriptor unlink the object by name and forget name and descriptor     *)
(* (close is never called).                                                *)
(***************************************************************************)
munmap_unlink_shm_snapshot_dev(w) ==
    LET k        == w.kvm
        unmapped == IF k.shm_snapshot_map # 0
                    THEN [w EXCEPT !.kvm.shm_snapshot_map = 0] ELSE w
    IN  IF k.shm_snapshot_fd # 0
        THEN [unmapped EXCEPT !.kvm.shm_snapshot_path = 0,
                              !.kvm.shm_snapshot_fd = 0,
                              !.host.shm = @ \ {k.shm_snapshot_path}]
        ELSE unmapped

(* Defective variants (mutation runs): a teardown that forgets the v2p    *)
(* flush, and one that unmaps but never unlinks the object.                *)
kvm_teardown_keep_v2p(w) ==
    IF ~test_using_shm_snapshot(w.kvm) THEN w
    ELSE [w EXCEPT
            !.kvm = [Flush(w.kvm, CacheNames \ {"v2p"}) EXCEPT
                       !.shm_snapshot_map = 0, !.shm_snapshot_path = 0,
                       !.shm_snapshot_fd = 0, !.shm_snapshot_cpu_regs = NoRegs,
                       !.memory_cache = "none"],
            !.host.shm = @ \ {w.kvm.shm_snapshot_path}]

kvm_teardown_no_unlink(w) ==
    IF ~test_using_shm_snapshot(w.kvm) THEN w
    ELSE [w EXCEPT
            !.kvm = [Flush(w.kvm, CacheNames) EXCEPT
                       !.shm_snapshot_map = 0, !.shm_snapshot_path = 0,
                       !.shm_snapshot_fd = 0, !.shm_snapshot_cpu_regs = NoRegs,
                       !.memory_cache = "none"]]

(***************************************************************************)
(* kvm_teardown_shm_snapshot_mode: only when test_using_shm_snapshot       *)
(* holds; munmap_unlink_shm_snapshot_dev unmaps and unlinks (the           *)
(* descriptor is forgotten, never closed), the register dump is freed,     *)
(* caches flushed and the memory cache destroyed.                          *)
(***************************************************************************)
kvm_teardown_shm_snapshot_mode(w) ==
    IF ~test_using_shm_snapshot(w.kvm) THEN w
    ELSE LET u == munmap_unlink_shm_snapshot_dev(w)
         IN  [u EXCEPT !.kvm = [Flush(u.kvm, CacheNames) EXCEPT
                                  !.shm_snapshot_cpu_regs = NoRegs,
                                  !.memory_cache = "none"]]

(* test_using_kvm_patch: a connected socket is a nonzero socket_fd *)
test_using_kvm_patch(k) == k.socket_fd

(* exec_memory_access_success: QEMU answered the pmemaccess command and   *)
(* did not report CommandNotFound (an unpatched QEMU does)                 *)
exec_memory_access_success ==
    {TRUE} \cup (IF "pmemaccess" \in Faults THEN {FALSE} ELSE {})

(* init_domain_socket: socket(), then connect() to ds_path; a failed       *)
(* connect returns without closing the new descriptor.                     *)
init_domain_socket(w) ==
    {[w |-> [w EXCEPT !.kvm.socket_fd = TRUE], ok |-> TRUE]}
    \cup (IF "connect" \in Faults
          THEN {[w |-> [w EXCEPT !.host.sockets = @ + 1], ok |-> FALSE]}
          ELSE {})

(***************************************************************************)
(* kvm_setup_live_mode: resume an existing socket (flushing the caches),   *)
(* or send pmemaccess and, when QEMU accepts it, install the patch reader  *)
(* and connect its socket; else fall back to native xp.                    *)
(***************************************************************************)
kvm_setup_live_mode(w) ==
    IF test_using_kvm_patch(w.kvm)
    THEN { [w |-> [w EXCEPT !.kvm = [Flush(w.kvm, CacheNames) EXCEPT
                                       !.memory_cache = "patch"]],
            ok |-> TRUE] }
    ELSE UNION { IF patch
                 THEN init_domain_socket([w EXCEPT !.kvm.memory_cache = "patch"])
                 ELSE { [w |-> [w EXCEPT !.kvm.memory_cache = "native"], ok |-> TRUE] }
               : patch \in exec_memory_access_success }

(* kvm_create_shm_snapshot: tear an old snapshot down, set up a new one. *)
kvm_create_shm_snapshot(w) ==
    kvm_setup_shm_snapshot_mode(kvm_teardown_shm_snapshot_mode(w))

(***************************************************************************)
(* destroy_v2m: munmap_m2p_chunks fails on a table whose chunk list is     *)
(* NULL, and destroy_v2m then returns with the collection untouched.       *)
(***************************************************************************)
destroy_v2m(w) ==
    IF \E p \in DOMAIN w.kvm.v2m_tables : w.kvm.v2m_tables[p].v2m_chunks = <<>>
    THEN w
    ELSE [w EXCEPT !.kvm.v2m_tables = <<>>]

(* kvm_destroy_shm_snapshot: destroy_v2m, teardown, back to live mode. *)
kvm_destroy_shm_snapshot(w) ==
    kvm_setup_live_mode(kvm_teardown_shm_snapshot_mode(destroy_v2m(w)))

(***************************************************************************)
(* The libvirt prefix of kvm_init_vmi: look the domain up by id, ask the   *)
(* library version, keep the domain in kvm->dom, then virDomainGetInfo     *)
(* (again in kvm_get_memsize).  ok means the mode setup follows.  A failed *)
(* version query returns before kvm->dom is set, holding the domain.       *)
(***************************************************************************)
kvm_init_vmi_domain(w) ==
    LET looked == [w EXCEPT !.host.libvirt = @ \cup {"dom"}]
        stored == [looked EXCEPT !.kvm.dom = TRUE]
    IN  (IF "domain_lookup" \in Faults THEN {[w |-> w, ok |-> FALSE]} ELSE {})
        \cup (IF "libver" \in Faults THEN {[w |-> looked, ok |-> FALSE]} ELSE {})
        \cup (IF "domain_info" \in Faults THEN {[w |-> stored, ok |-> FALSE]} ELSE {})
        \cup {[w |-> stored, ok |-> TRUE]}

(***************************************************************************)
(* kvm_destroy: destroy_domain_socket, the snapshot teardown only under    *)
(* VMI_INIT_SHM_SNAPSHOT, then virDomainFree and virConnectClose of the    *)
(* handles kvm->dom and kvm->conn hold.                                    *)
(***************************************************************************)
kvm_destroy(w, shmFlag) ==
    LET t == IF shmFlag THEN kvm_teardown_shm_snapshot_mode(w) ELSE w
    IN  [t EXCEPT !.kvm.socket_fd = FALSE, !.kvm.dom = FALSE, !.kvm.conn = FALSE,
                  !.host.libvirt = @ \ {h \in {"conn", "dom"} : t.kvm[h]}]

-----------------------------------------------------------------------------

Init ==
    /\ kvm = [memory_cache |-> "none", socket_fd |-> FALSE,
              shm_snapshot_path |-> 0, shm_snapshot_fd |-> 0,
              shm_snapshot_map |-> 0, shm_snapshot_cpu_regs |-> NoRegs,
              v2m_tables |-> <<>>, conn |-> TRUE, dom |-> FALSE,
              caches |-> [c \in CacheNames |-> {}]]
    /\ host = [shm |-> {}, fds |-> {}, created |-> 0,
               frozen |-> [g \in Snapshots |-> -1],
               libvirt |-> {"conn"}, queries |-> 0, leaked |-> 0,
               sockets |-> 0]
    /\ guest = [epoch |-> 0, paused |-> FALSE]
    /\ flags \in BOOLEAN
    /\ phase = "uninit"
    /\ lastDgvma = [pid |-> 0, vaddr |-> 0, size |-> 0, table |-> FALSE]

Apply(r) ==
    /\ kvm' = r.w.kvm
    /\ host' = r.w.host
    /\ guest' = r.w.guest

(* kvm_init_vmi: after the domain is found and kept, snapshot mode under  *)
(* VMI_INIT_SHM_SNAPSHOT, else live mode.                                  *)
InitVmi ==
    /\ phase = "uninit"
    /\ ~flags \/ host.created < MaxSnapshots
    /\ \E d \in kvm_init_vmi_domain(World) :
         \/ /\ ~d.ok
            /\ Apply(d)
            /\ phase' = "failed"
         \/ /\ d.ok
            /\ \E r \in IF flags THEN kvm_create_shm_snapshot(d.w)
                                 ELSE kvm_setup_live_mode(d.w) :
                 /\ Apply(r)
                 /\ phase' = IF r.ok THEN "ready" ELSE "failed"
    /\ UNCHANGED <<flags, lastDgvma>>

(* vmi_shm_snapshot_create -> kvm_create_shm_snapshot *)
CreateSnapshot ==
    /\ phase = "ready"
    /\ host.created < MaxSnapshots
    /\ \E r \in kvm_create_shm_snapshot(World) : Apply(r)
    /\ UNCHANGED <<flags, phase, lastDgvma>>

(* vmi_shm_snapshot_destroy -> kvm_destroy_shm_snapshot *)
DestroySnapshot ==
    /\ phase = "ready"
    /\ \E r \in kvm_destroy_shm_snapshot(World) : Apply(r)
    /\ UNCHANGED <<flags, phase, lastDgvma>>

(***************************************************************************)
(* kvm_get_dgvma: the v2m cache is never hit (see README); a missing table *)
(* is built by create_v2m_table: snapshot mode is required, pid 0 uses the *)
(* kernel dtb, another pid vmi_pid_to_dtb (a read that fills the pid cache *)
(* and may find no such process); setup_v2m_table keeps the chunk list the *)
(* page-table walk hands back; lookup_v2m_table searches it.               *)
(***************************************************************************)
(* Defective variant (mutation runs): no test_using_shm_snapshot check.   *)
create_v2m_table_any_mode(k, pid) ==
    LET pages == AddressSpace[pid]
        table == [gen |-> k.shm_snapshot_map,
                  v2m_chunks |-> V2M!walkthrough_result(pages)]
    IN  IF V2M!walkthrough_status(pages) = "success"
        THEN {[k |-> [k EXCEPT !.v2m_tables = (pid :> table) @@ @], ok |-> TRUE]}
        ELSE {[k |-> k, ok |-> FALSE]}

create_v2m_table(k, pid) ==
    LET dtbCache == [k.caches EXCEPT !["pid"] = @ \cup {View(k)}]
        walked   == IF pid = 0 THEN k ELSE [k EXCEPT !.caches = dtbCache]
        pages    == AddressSpace[pid]
        table    == [gen |-> k.shm_snapshot_map,
                     v2m_chunks |-> V2M!walkthrough_result(pages)]
        built    == [walked EXCEPT !.v2m_tables = (pid :> table) @@ @]
    IN  IF ~test_using_shm_snapshot(k) THEN {[k |-> k, ok |-> FALSE]}
        ELSE (IF V2M!walkthrough_status(pages) = "success"
              THEN {[k |-> built, ok |-> TRUE]}
              ELSE {[k |-> walked, ok |-> FALSE]})
             \cup (IF pid # 0 /\ "pid_to_dtb" \in Faults
                   THEN {[k |-> walked, ok |-> FALSE]} ELSE {})

Dgvma(pid, vaddr) ==
    /\ phase = "ready"
    /\ \E r \in IF pid \in DOMAIN kvm.v2m_tables
                THEN {[k |-> kvm, ok |-> TRUE]}
                ELSE create_v2m_table(kvm, pid) :
         /\ kvm' = r.k
         /\ lastDgvma' =
              [pid |-> pid, vaddr |-> vaddr, table |-> r.ok,
               size |-> IF r.ok
                        THEN V2M!lookup_v2m_table(
                               r.k.v2m_tables[pid].v2m_chunks, vaddr).size
                        ELSE 0]
    /\ UNCHANGED <<host, guest, flags, phase>>

(***************************************************************************)
(* Any vmi read that goes through the memory cache and stores a result in  *)
(* one of the pid, sym, rva or v2p caches (vmi_translate_kv2p,             *)
(* vmi_pid_to_dtb, vmi_translate_ksym2v, ...): the entry comes from the    *)
(* view the memory cache currently serves.  A read needs an installed and  *)
(* mapped source.                                                          *)
(***************************************************************************)
Readable(k) ==
    \/ k.memory_cache = "native"
    \/ k.memory_cache = "patch" /\ k.socket_fd
    \/ k.memory_cache = "shm" /\ k.shm_snapshot_map \in Snapshots

CachedRead(c) ==
    /\ phase = "ready"
    /\ Readable(kvm)
    /\ kvm' = [kvm EXCEPT !.caches[c] = @ \cup {View(kvm)}]
    /\ UNCHANGED <<host, guest, flags, phase, lastDgvma>>

(* kvm_pause_vm / kvm_resume_vm: virDomainSuspend / virDomainResume. *)
PauseVm ==
    /\ phase = "ready"
    /\ guest' = [guest EXCEPT !.paused = TRUE]
    /\ UNCHANGED <<kvm, host, flags, phase, lastDgvma>>

ResumeVm ==
    /\ phase = "ready"
    /\ guest' = [guest EXCEPT !.paused = FALSE]
    /\ UNCHANGED <<kvm, host, flags, phase, lastDgvma>>

(* The guest runs on, changing its memory and registers. *)
GuestRuns ==
    /\ ~guest.paused
    /\ guest.epoch < MaxEpoch
    /\ guest' = [guest EXCEPT !.epoch = @ + 1]
    /\ UNCHANGED <<kvm, host, flags, phase, lastDgvma>>

(***************************************************************************)
(* kvm_get_id_from_name, kvm_get_name_from_id and kvm_check_id, called     *)
(* with or without an instance: each opens a libvirt connection of its own *)
(* and looks the domain up by name or id; when found it frees the domain   *)
(* and closes the connection, when not it returns at once and the          *)
(* connection stays open.                                                  *)
(***************************************************************************)
DomainQuery ==
    /\ host.queries < MaxQueries
    /\ \E lookup \in {"no_connection", "found", "not_found"} :
         host' = [host EXCEPT !.queries = @ + 1,
                              !.leaked = @ + (IF lookup = "not_found" THEN 1 ELSE 0)]
    /\ UNCHANGED <<kvm, guest, flags, phase, lastDgvma>>

(* vmi_destroy -> kvm_destroy; nothing of the instance runs afterwards. *)
Destroy ==
    /\ phase \in {"ready", "failed"}
    /\ kvm' = kvm_destroy(World, flags).kvm
    /\ host' = kvm_destroy(World, flags).host
    /\ phase' = "destroyed"
    /\ UNCHANGED <<guest, flags, lastDgvma>>

Next ==
    \/ InitVmi
    \/ CreateSnapshot
    \/ DestroySnapshot
    \/ \E p \in Pids, v \in VAddrs : Dgvma(p, v)
    \/ \E c \in CacheNames : CachedRead(c)
    \/ PauseVm
    \/ ResumeVm
    \/ GuestRuns
    \/ DomainQuery
    \/ Destroy

Spec == Init /\ [][Next]_vars

-----------------------------------------------------------------------------
(***************************************************************************)
(* Properties                                                              *)
(***************************************************************************)

Handles == {-1, 0} \cup Snapshots

TypeOK ==
    /\ kvm.memory_cache \in {"none", "patch", "native", "shm"}
    /\ kvm.socket_fd \in BOOLEAN /\ kvm.conn \in BOOLEAN /\ kvm.dom \in BOOLEAN
    /\ kvm.shm_snapshot_path \in {0} \cup Snapshots
    /\ kvm.shm_snapshot_fd \in Handles
    /\ kvm.shm_snapshot_map \in Handles
    /\ kvm.shm_snapshot_cpu_regs \in {NoRegs} \cup 0..MaxEpoch
    /\ DOMAIN kvm.v2m_tables \subseteq Pids
    /\ \A p \in DOMAIN kvm.v2m_tables : kvm.v2m_tables[p].gen \in Snapshots
    /\ kvm.caches \in [CacheNames -> SUBSET ({0} \cup Snapshots)]
    /\ host.shm \subseteq Snapshots /\ host.fds \subseteq Snapshots
    /\ host.created \in 0..MaxSnapshots
    /\ host.libvirt \subseteq {"conn", "dom"}
    /\ host.queries \in 0..MaxQueries /\ host.leaked \in 0..MaxQueries
    /\ host.sockets \in 0..(MaxSnapshots + 1)
    /\ guest.epoch \in 0..MaxEpoch /\ guest.paused \in BOOLEAN
    /\ phase \in {"uninit", "ready", "failed", "destroyed"}

(* Every entry of the pid, sym, rva and v2p caches was read from the view  *)
(* the memory cache serves now: every switch between the live guest and a  *)
(* snapshot, or between two snapshots, flushes what the old view filled    *)
(* (the flushes in kvm_setup_shm_snapshot_mode, the teardown and           *)
(* kvm_setup_live_mode).                                                   *)
NoStaleCaches ==
    phase = "ready" => \A c \in CacheNames : kvm.caches[c] \subseteq {View(kvm)}

(* Every /dev/shm object the instance created is the one it still names,  *)
(* and that one is in use: recreating or destroying a snapshot unlinks the *)
(* old object (munmap_unlink_shm_snapshot_dev), so none is left behind.    *)
ShmObjectOwned ==
    phase \in {"uninit", "ready"} =>
        /\ host.shm \subseteq {kvm.shm_snapshot_path}
        /\ kvm.shm_snapshot_path \in host.shm => test_using_shm_snapshot(kvm)

(* Reads go to the snapshot exactly when a snapshot is complete, and then  *)
(* to the object the instance names: kvm_setup_shm_snapshot_mode installs *)
(* the shm reader only after snapshot-create succeeded, teardown removes   *)
(* it, and the map, descriptor and name belong to the same object.         *)
ReadsServedBySnapshot ==
    /\ kvm.memory_cache = "shm" <=> test_using_shm_snapshot(kvm)
    /\ test_using_shm_snapshot(kvm) =>
           kvm.shm_snapshot_map = kvm.shm_snapshot_path
           /\ kvm.shm_snapshot_fd = kvm.shm_snapshot_path


-----------------------------------------------------------------------------
(***************************************************************************)
(* Properties the spec states and the code does not keep; TLC finds each  *)
(* violated (see the hazards in PROJECT.json and the README).            *)
(***************************************************************************)

(* Round-trip law (spec section 8): snapshot-create then destroy leaves no *)
(* descriptor open on the shared-memory object; munmap_unlink_shm_snapshot *)
(* _dev unlinks the object but never closes shm_snapshot_fd.  Nor may the  *)
(* return to live mode leave a socket the instance does not hold, which    *)
(* init_domain_socket does when connect fails.                             *)
FdsClosedWhenLive ==
    kvm.memory_cache \in {"patch", "native"} => host.fds = {} /\ host.sockets = 0

(* The register dump describes the guest at snapshot time (spec 4.G): the *)
(* registers kvm_get_vcpureg serves in snapshot mode are those of the      *)
(* epoch the object froze; kvm_setup_shm_snapshot_mode runs info registers *)
(* after snapshot-create returned, while an unpaused guest runs on.        *)
RegsMatchSnapshot ==
    test_using_shm_snapshot(kvm) =>
        kvm.shm_snapshot_cpu_regs = host.frozen[kvm.shm_snapshot_path]

(* A failed snapshot-create falls back to another access strategy (spec   *)
(* section 7), so a ready instance always has a memory reader;             *)
(* kvm_create_shm_snapshot tears the old snapshot down, destroying the     *)
(* memory cache, before the new snapshot-create can fail.                  *)
MemCacheInstalled ==
    phase = "ready" => kvm.memory_cache # "none"

(* Back in live mode nothing of a snapshot remains (spec 4.G teardown):    *)
(* no register dump that kvm_get_vcpureg would serve instead of the live   *)
(* registers, and no /dev/shm object.  When shm_open fails,                *)
(* link_mmap_shm_snapshot_dev leaves the map NULL, test_using_shm_snapshot *)
(* fails and kvm_destroy_shm_snapshot skips the teardown.                  *)
LiveModeNoSnapshotResidue ==
    kvm.memory_cache \in {"patch", "native"} =>
        kvm.shm_snapshot_cpu_regs = NoRegs /\ host.shm = {}

(* Snapshot reads are pointer arithmetic on a valid mapping (spec 4.G):    *)
(* when mmap fails link_mmap_shm_snapshot_dev stores MAP_FAILED, which     *)
(* test_using_shm_snapshot accepts, and kvm_get_memory_shm_snapshot        *)
(* returns MAP_FAILED + paddr.                                             *)
SnapshotReadsValid ==
    kvm.memory_cache = "shm" => kvm.shm_snapshot_map \in Snapshots

(* A socket-connect failure falls back to the next strategy (spec section *)
(* 7): a ready instance reading through the pmemaccess patch has a         *)
(* connected socket.  kvm_setup_live_mode installs kvm_get_memory_patch    *)
(* before init_domain_socket, which may fail and leave socket_fd 0.        *)
PatchReadsHaveSocket ==
    phase = "ready" /\ kvm.memory_cache = "patch" => kvm.socket_fd

(* A v2m table maps the snapshot in use (spec 4.G teardown frees the v2m  *)
(* tables); destroy_v2m gives up on a table with no chunk list and         *)
(* kvm_create_shm_snapshot never frees the tables at all.                  *)
V2MTablesCurrent ==
    \A p \in DOMAIN kvm.v2m_tables :
        /\ test_using_shm_snapshot(kvm)
        /\ kvm.v2m_tables[p].gen = kvm.shm_snapshot_map

(* kvm_get_dgvma returns a non-empty run for a virtual address the pid has *)
(* mapped, once its v2m table exists (spec 4.G, dgvma);                    *)
(* walkthrough_shm_snapshot_pagetable never hands its chunk list back.     *)
Mapped(pid, v) ==
    \E i \in 1..Len(AddressSpace[pid]) :
        LET pg == AddressSpace[pid][i]
        IN  pg.vaddr <= v /\ v < pg.vaddr + pg.size

DgvmaFindsMappedPages ==
    lastDgvma.table /\ Mapped(lastDgvma.pid, lastDgvma.vaddr) =>
        lastDgvma.size > 0

(* A domain query releases the libvirt connection it opened, whatever the  *)
(* lookup found; kvm_get_id_from_name, kvm_get_name_from_id and            *)
(* kvm_check_id return on a failed lookup without virConnectClose.         *)
QueriesCloseConnections ==
    host.leaked = 0

(* Destroy reverses init and tears the snapshot down if any (spec section *)
(* 3, lifecycle); kvm_destroy tears it down only when the instance was     *)
(* initialised with VMI_INIT_SHM_SNAPSHOT, so a snapshot created later     *)
(* keeps its /dev/shm object.                                              *)
NoShmLeakAfterDestroy ==
    phase = "destroyed" => host.shm = {}

=============================================================================
