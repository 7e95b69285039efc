# TLA+ models of libvmi (KVM driver, shm-snapshot engine, OS views)

This directory holds TLA+ specifications of the parts of `src/libvmi` whose
control behaviour can go wrong in ways a unit test hardly reaches:
- failure paths in the middle of a multi-step set-up;
- resources acquired and never released;
- caches that outlive the memory view they were filled from;
- coalescing arithmetic over arbitrary page lists;
- a guest that changes its task list while the library walks it.

Every module is translated from the C source. `PROJECT.json` maps each
definition to the lines it models and lists runs, mutants, findings and
hazards.

## 1. The system

libvmi reads the memory of a virtual machine from the host. Its parts in
this repository:

| Part | Source | What it does |
|---|---|---|
| KVM driver, live mode | `driver/kvm/kvm.c` (`kvm_setup_live_mode`, `kvm_get_memory_patch`, `kvm_get_memory_native`, `kvm_put_memory`) | Reads guest physical memory in one of two ways. With a patched QEMU it uses the `pmemaccess` unix socket. Otherwise it falls back to QMP `xp` text dumps. |
| KVM driver, shm-snapshot engine | `kvm.c` (`kvm_setup/teardown_shm_snapshot_mode`, `link_mmap_shm_snapshot_dev`, `munmap_unlink_shm_snapshot_dev`, `kvm_create/destroy_shm_snapshot`) | QEMU's `snapshot-create` freezes guest RAM into a `/dev/shm` object. The driver opens it, mmaps it, swaps the memory cache's page getter and flushes the translation caches. |
| KVM v2m tables (direct guest-virtual access) | `kvm.c` (`walkthrough_shm_snapshot_pagetable`, `insert_v2p_page_pair_to_{m2p,v2m}_chunk_list`, `probe_v2m_medial_addr`, `mmap_m2p_chunks`, `setup_v2m_table`, `create_v2m_table`, `lookup_v2m_table`, `destroy_v2m`, `kvm_get_dgvma`) | For one pid, enumerates the mapped pages and coalesces them into virtually contiguous chunks, each made of physically contiguous sub-chunks. Each chunk is mapped into one contiguous host region with `MAP_FIXED` overlays of the snapshot file. |
| KVM queries | `kvm.c` (ids, names, memsize, `kvm_get_vcpureg`, `exec_qmp_cmd`) | virsh/libvirt round trips and register-dump parsing. |
| Linux OS view | `os/linux/memory.c` | `linux_pid_to_pgd` and `linux_pgd_to_pid` walk the circular `task_struct->tasks` list, starting and ending at `init_task`. |
| Windows OS view | `os/windows/core.c`, `os/windows/memory.c`, `os/windows/unicode.c` | Initialisation tries strategies in order (page mode, kpgd, kernel base). Also pid/pgd translation over `EPROCESS` and a unicode conversion. |
| Rekall profiles | `rekall.c` | Looks up symbols and struct offsets in a JSON profile. |
| Headers | `libvmi.h`, `driver/driver_interface.h`, `os/os_interface.h`, Xen headers | Declarations only. The generic library (`libvmi.c`, the caches, `memory_cache_*`) and the Xen driver are not in the repository. |

How the parts interact:
- the library is single-threaded by contract (spec section 5), and every API call runs to completion;
- what runs concurrently with it is the guest (unless paused) and the host, which owns `/dev/shm` objects and descriptors;
- the KVM driver decides which page getter the memory cache uses;
- the OS views read guest memory through that getter;
- `kvm_get_dgvma` needs both sides: the pid's dtb (an OS-view walk) and the v2m builder.

## 2. Modules

### `V2MChunks` — the v2m table builder (`kvm.c` 402–730, 814–832)

**State:**
- `pages`: what `vmi_get_va_pages` returned (sorted, aligned, non-overlapping; sizes 1 and 2 frames);
- `pending`: the walk's loop cursor;
- `chunks`: the walk's local v2m chunk list, each chunk with its m2p list;
- `frees`: how often the walk has called `free` on each `page_info_t` of the list;
- `phase` (`"walk"`, `"done"`) and `status`, the result of `setup_v2m_table`.

**Actions:**
- `InsertPagePair`: one iteration of the walk's loop. It reads `pages->data` as the code does, and `free(page)` then frees that head page again;
- `SetupTable`: the walk returns success for a non-empty list. `setup_v2m_table` goes on with its own `v2m_chunk_list`, which the walk never wrote. Its mapping loop runs over NULL, and `insert_v2m_table` adds a table with no chunks;
- `SetupTableFails`: an empty page list, for which the walk and `setup_v2m_table` fail.

No action maps a chunk: the code's probe/mmap/delete loop never has a chunk to run on.

The helpers are pure operators: `insert_m2p`, `insert_v2m`, `MapFrom` (RECURSIVE, the `map_offset` loop with `@@` for MAP_FIXED overlays) and `lookup_v2m_table`. `BuildChunks` folds the insert helpers over a page list and is checked against the reference definition `RefTable`, which cuts the list into maximal virtually contiguous and then physically contiguous runs. `MapChunks` applies `mmap_m2p_chunks` to every chunk of such a list, as `setup_v2m_table`'s loop would if it were handed the list.

`walkthrough_result` and `walkthrough_status` give what the walk returns to its caller. The list is built in locals and never stored back, so the caller always gets NULL. `KvmSnapshot` uses them.

### `KvmSnapshot` — modes and snapshot lifecycle (`kvm.c` 266–391, 742–1309, 1717–1828)

It composes `V2MChunks` (`INSTANCE`) for the walk and the lookup.

**State:**
- `kvm`: the `kvm_instance_t` fields the lifecycle touches, under their C names:
  - `memory_cache`: which getter is installed;
  - `socket_fd`;
  - `shm_snapshot_path`, `_fd`, `_map` and `_cpu_regs`;
  - `v2m_tables`, as a function from pid;
  - the pid, sym, rva and v2p caches, each as the set of views its entries were read from.
- `host`: `/dev/shm` objects, open descriptors, names used, and the guest epoch each object froze. It also holds the libvirt handles (below) and `sockets`, the socket descriptors `init_domain_socket` left open after a failed connect.
- `guest`: an epoch counter and whether the guest is paused.
- `flags`: `VMI_INIT_SHM_SNAPSHOT`.
- `phase`.
- `lastDgvma`.

A view is 0 for the live guest and g for snapshot object g. Handles use the C conventions:
- 0 is NULL;
- -1 is `MAP_FAILED`, or the result of a failed `shm_open`;
- g is the object.

The driver functions are operators from a world `[kvm, host, guest]` to the set of `[w, ok]` results the environment allows. That lets a composite call be written the way the code nests it: `kvm_destroy_shm_snapshot(w) == kvm_setup_live_mode(kvm_teardown_shm_snapshot_mode(destroy_v2m(w)))`. `kvm_setup_live_mode` is written the same way, from `test_using_kvm_patch`, `exec_memory_access_success` and `init_domain_socket`.

**Environment faults**, a subset of `Faults`:
- `snapshot_cmd`: QMP snapshot-create fails;
- `shm_open`;
- `mmap`;
- `pmemaccess`: an unpatched QEMU, so the native fallback is used;
- `connect`;
- `pid_to_dtb`;
- `domain_lookup`, `libver` and `domain_info`: libvirt's `virDomainLookupByID`, `virConnectGetLibVersion` and `virDomainGetInfo` fail in `kvm_init_vmi`.

The libvirt handles are `kvm.conn` and `kvm.dom` (what `kvm_instance_t` holds) and `host.libvirt` (which of them are open in libvirt). `Init` is the state after `kvm_init` opened the connection. `host.leaked` counts the connections the domain queries left open.

**Actions:**
- `InitVmi` (`kvm_init_vmi`: the libvirt prefix `kvm_init_vmi_domain`, then the mode setup);
- `CreateSnapshot` and `DestroySnapshot`;
- `Dgvma(pid, vaddr)` (`kvm_get_dgvma` with `create_v2m_table`);
- `CachedRead(c)`: any read that fills a translation cache from the current view;
- `PauseVm` and `ResumeVm`;
- `GuestRuns`: the environment's step;
- `DomainQuery` (`kvm_get_id_from_name`, `kvm_get_name_from_id`, `kvm_check_id`): a lookup that finds the domain, does not, or gets no connection;
- `Destroy` (`kvm_destroy`: closes the socket, tears down under the flag, frees `dom`, closes `conn`).

Register capture: `kvm_setup_shm_snapshot_mode` dumps registers after snapshot-create returns. An unpaused guest may advance between the two, so the dump's epoch is chosen from the current epoch up to `MaxEpoch`.

### `KvmPatchSocket` — the live patch reader and writer (`kvm.c` 54–59, 248–260, 1037–1165)

In live mode with QEMU's pmemaccess patch, every page the memory cache fetches comes from `kvm_get_memory_patch`, and `kvm_write` goes to `kvm_put_memory`. Both speak the framed protocol of spec section 7 over a unix socket to a QEMU thread that runs concurrently with the library.

**State:**
- `toSrv`: the library-to-QEMU direction, as request records. A write's payload travels with its header.
- `toLib`: the QEMU-to-library direction, as a byte stream.
- `op`, `req`: the library's call in progress. `op` is `"read"` or `"put"` while the call blocks in `read()`.
- the environment: `mem` (guest RAM) and `srv` (QEMU's thread).
- history variables: `served` (what QEMU did for each request id) and `result` (what the last call returned).

**Actions:**
- `kvm_get_memory_patch` (up to its `read`), then `get_memory_patch_read`: the `read` of `length + 1` bytes, the count test and the status-byte test;
- `kvm_put_memory` (header and payload), then `put_memory_read_status`;
- `destroy_domain_socket`: quit;
- `read_interrupted`: a signal arrives while the library is blocked. `read()` returns -1 and consumes nothing. This step is only in `SpecSignals`. The library's own example installs its handlers with `sa_flags = 0`, so without SA_RESTART;
- QEMU's `QemuRead`, `QemuWrite` and `QemuQuit` (status 1 inside RAM, 0 outside), and the guest's `GuestStore`.

QEMU's server is not in this repository. It is modelled from the spec as the environment and has no map entries.

**Properties:**
- `CallsReportServerOutcome`: a successful call was carried out by QEMU for that very request, and a read returns the bytes QEMU read for it. It is checked only by the signal run; without signals the refinement below implies it;
- `SocketInStep`: nothing is queued from QEMU while the library is idle, and during a call only that call's reply is;
- `ImplementsDriverMemory`: the module refines `DriverMemory` (below), fairness included.

### `DriverMemory` — the contract of a driver's read and write (`driver_interface.h` 78–85)

The abstract specification of what the `read_page_ptr` and `write_ptr` entries promise the library: one call at a time; a call (`Call`) takes effect at one instant (`Apply`: a read copies RAM, a write stores its bytes, and either fails exactly when the range leaves RAM) and then returns that outcome (`Return`); `Close` ends the instance and `Store` is the guest writing RAM at any moment. Weak fairness of `Apply` and `Return` says a call returns.

`KvmPatchSocket` maps onto it with `Abstract == INSTANCE DriverMemory WITH ...`:
- a call has taken effect (`Taken`) once QEMU has taken its request off the socket;
- until the library reads the reply, the outcome is the one queued on the socket (`OutcomeOnSocket`);
- after that it is the call's result.

With a signal the mapping already fails at the interrupted call, which returns without having taken effect.

### `LinuxTasks` — task-list walks (`os/linux/memory.c`)

**State:**
- the guest: the task ring as functions of the task_struct address (`next`, `pid`, `mm`, `active_mm`, and `tstate`: linked, unlinked or freed);
- the library: `op`, `query`, `list_head`, `next_process`, and the stale `ts_addr`, `task_pgd` and `pgd` locals of the walks;
- history variables, used only by the properties: `subject`, `stable`, `present` and `last`.

**Guest steps** (unfair, bounded by `MaxGuestSteps`):
- `Fork`: `list_add_tail` before `init_task`;
- `ExitMm`: a task drops its mm;
- `Reap`: `list_del_rcu`, which keeps `next`;
- `Free`: the struct is freed and reused (garbage `next`/`pid`). Only `SpecReuse` has this step.

**Library steps:** the call, one step per loop iteration of `linux_get_taskstruct_addr_from_pid` / `_from_pgd` (the do-while with `next_process -= tasks_offset`), and the tails of `linux_pid_to_pgd` (mm, or active_mm when the page-mode width is 8, then `vmi_translate_kv2p`) and `linux_pgd_to_pid`. The driver's address width is a constant: KVM reports none, so `Width` is 0 and the pgd walk never falls back to `active_mm`, while `linux_pid_to_pgd` does.

**Properties:**
- `PidWalkComplete`: a pid present and linked throughout the walk is found;
- `RoundTripUserTask`: for a task with its own mm, `pgd_to_pid(pid_to_pgd(pid)) = pid` (spec section 8);
- `RoundTrip`: the same for every pid. It has no run: TLC finds it violated in 8 states with `MaxGuestSteps` 0, because a kernel thread borrows another task's `active_mm` and its pgd maps back to that task;
- `WalkTerminates`: every walk returns, under weak fairness of the library's steps.

### `WindowsInit` — `windows_init` (`os/windows/core.c`, `rekall.c`, `os/windows/memory.c`)

**State:** `env` (fixed at Init: guest page mode, live or file, page mode known or not, the Rekall profile as a set of symbols, the config keys, and which lookups fail), `pc`, `os_data`, `os_interface`, the offsets, `ntoskrnl`/`ntoskrnl_va`, `kpgd`, `init_task`, `page_mode` and `real_kpgd_found`.

**Actions**, in the order `windows_init` runs them:
1. `windows_init_enter`;
2. `check_pdbase_offset`;
3. `get_kpgd_bootstrap`: the driver's CR3, or in file mode `get_kpgd_method2` (`Method2`: 64-bit reads, masked only when the page mode is already 32-bit);
4. `init_core` (`init_core_uses_rekall`) picks `init_from_rekall_profile` or `init_from_kdbg`. `init_from_rekall_profile`: KPCR with KiInitialPCR, the XP KPCR, `windows_find_cr3` (method2 rerun), or the physical scan `get_ntoskrnl_base`, which starts at kpgd and steps a page while `page + PageSize < MaxPhys`, with KdVersionBlock; then the build number through `ntbuild2version` (a build it does not list fails init) and the offsets. `init_from_kdbg` is not in the tree and is taken from the spec;
5. `find_page_mode`: LEGACY, PAE, IA32E, with kpgd masked for the 32-bit trials;
6. `get_kpgd_method0`, `get_kpgd_method1`, `get_kpgd_method2`.

Any failure goes to `windows_teardown`, which frees only `os_data`.

**The OS view after init** (`os/windows/memory.c`). `windows_pid_to_pgd` and `windows_pgd_to_pid` are operators on the state `windows_init` leaves. The guest's active process list is a ring of two EPROCESSes (`Eprocess`): System (pid 4, `SysMem`'s DirectoryTableBase) and the process its Flink points to (`UserPid`, `UserPdbase`). The walkers `windows_find_eprocess_list_pid/_pgd` are not in the repository. They are taken from the spec as `ListFrom`: a walk from `init_task` round the ring, which ends at once when kernel reads do not translate. A field is read at the offset init found, and the pgd is read as an address (32 bits in LEGACY and PAE).

Guest memory is abstracted to a few words of the System EPROCESS (`SysMem`: low and high halves). A page-table walk translates only in the guest's own mode, through the System or boot dtb. `Half` stands for 2^32, so `x % Half` is the code's 32-bit mask.

**Properties:**
- `TypeOK` includes "a 32-bit page mode has a 32-bit kpgd";
- `KpgdIsSystemDtb`: after success, kpgd is the System dtb (not the bootstrap CR3), the page mode is the guest's, and the kernel base translates;
- `ProfileSnapshotInitialises`: an IA-32e memory snapshot of a supported build, with a profile holding the kernel symbols and no failing source, is initialised (spec section 8, scenario 2). It fails if the scan misses the kernel image, for instance when it stops a page early;
- `RoundTripPidPgd`: after success, `windows_pgd_to_pid(windows_pid_to_pgd(pid)) = pid` for every pid enumerated from the list (spec section 8). Its mutant reads the pgd with a 64-bit read, as `get_kpgd_method2` does, and breaks it on 32-bit guests;
- `InitTaskInProcessList`: after success, init_task is System or the next process (violated in file mode on 32-bit guests). When it fails the walk from `init_task` enumerates nothing, so `windows_pid_to_pgd` returns 0 for every pid.

### Later modules (plan)

1. **`WindowsInit` abstraction.** An abstract spec of `windows_init` ("succeeds iff some strategy's preconditions hold, and then kpgd, page mode and kernel base agree") refined by `WindowsInit` with `INSTANCE ... WITH`.
2. **`KvmReaders`.** The byte-level readers as pure operators with 64-bit arithmetic:
   - the `kvm_get_memory_shm_snapshot` bound check, which can wrap;
   - `kvm_get_dgpma`, which can underflow;
   - the `kvm_get_memory_native` word count, which can overflow its buffer;

   each checked against a reference over bounded inputs.

## 3. Runs

| Run | Cfg | Expect | What it shows |
|---|---|---|---|
| `v2m_table` | `V2MChunks_table.cfg` | pass | See below. |
| `v2m_walk` | `V2MChunks_walk.cfg` | violation | With two pages, the walk's chunk list is the first page twice. |
| `v2m_free` | `V2MChunks_free.cfg` | violation | With two pages, `free(page)` frees the head page a second time, and the second page is never freed. |
| `kvm_lifecycle` | `KvmSnapshot_lifecycle.cfg` | pass | See below. |
| `kvm_fd_leak` | `KvmSnapshot_fd_leak.cfg` | violation | Spec §8 says create-then-destroy leaves no descriptor open. The descriptor of the object stays open: `munmap_unlink_shm_snapshot_dev` never closes it. The property also counts the socket a failed connect leaves open (violated alone in 2 states with `Faults = {"connect"}`). |
| `kvm_shm_open_fail` | `KvmSnapshot_shm_open_fail.cfg` | violation | Create with a failed `shm_open`, then destroy: live mode keeps the register dump and the `/dev/shm` object. Teardown was skipped because `test_using_shm_snapshot` failed on the NULL map. |
| `kvm_patch` | `KvmPatchSocket_calls.cfg` | pass | See below. |
| `kvm_patch_signal` | `KvmPatchSocket_signal.cfg` | violation | A signal interrupts the blocked `read` of `kvm_get_memory_patch`. Its reply stays on the socket, and the next read returns it as its own success; every later reply is then one request late. |
| `linux_walks` | `LinuxTasks_walks.cfg` | pass | See below. |
| `linux_reuse` | `LinuxTasks_reuse.cfg` | violation | A walker standing on an exited task whose struct is freed and reused follows a garbage `next` that points to itself, and loops forever. |
| `windows_kpgd` | `WindowsInit_kpgd.cfg` | pass | See below. |
| `windows_init_task` | `WindowsInit_init_task.cfg` | violation | File mode on a LEGACY guest: method2 runs before the page mode is known, so init_task = (Flink \| Blink<<32) − tasks_offset; `find_page_mode` masks kpgd but not init_task, and init succeeds. |

**`v2m_table`** (`V2MChunks_table.cfg`, expect pass) runs the walk and `setup_v2m_table` as the code runs them, over every sorted page list of up to 3 pages (6.7k states). `TypeOK` holds there; its mutant never advances the loop cursor. The run also checks the helpers as pure operators against the reference:
- `BuilderMatchesReference`;
- `LookupCorrect`: every in-RAM frame is found, with the right frame and run length.

**`kvm_lifecycle`** (`KvmSnapshot_lifecycle.cfg`, expect pass) runs init, create, destroy, reads, dgvma, one domain query and destroy. Snapshot-create, pmemaccess, pid lookups, the domain lookup and `virDomainGetInfo` may fail. Besides `TypeOK` it checks:
- `NoStaleCaches`: no translation cache holds entries of another view;
- `ShmObjectOwned`: every `/dev/shm` object is the one the instance names and uses;

**`kvm_patch`** (`KvmPatchSocket_calls.cfg`, expect pass): up to 3 reads or writes of 1 or 2 bytes at 0 or 1 in 2 bytes of RAM, one guest store, then quit. It checks `SocketInStep` and `ImplementsDriverMemory`, the refinement of `DriverMemory` (61k states, about 10 s).

**`linux_walks`** (`LinuxTasks_walks.cfg`, expect pass): a 3-task ring, up to 2 guest forks/exits/reaps during any walk. It checks `TypeOK`, `PidWalkComplete`, `RoundTripUserTask` and `WalkTerminates` (396k states, about 45 s).

**`windows_kpgd`** (`WindowsInit_kpgd.cfg`, expect pass): every combination of guest mode, live/file, known/unknown page mode, four profiles (Win7, XP, one without UniqueProcessId, none), empty or full config and any subset of 5 failing lookups, and a Windows 7 or a Windows 10 build. It checks `TypeOK`, `KpgdIsSystemDtb`, `ProfileSnapshotInitialises` and `RoundTripPidPgd` (30k states).

Other properties are stated in the modules and violated by TLC, but have no run of their own (the `hazards` of `PROJECT.json` say why):
- `RegsMatchSnapshot`: the register dump of a running guest is taken after the snapshot (at the first snapshot);
- `MemCacheInstalled`: a failed re-create leaves no memory reader (2 steps);
- `SnapshotReadsValid` and `ReadsServedBySnapshot` with `Faults = {"mmap"}`: a failed mmap leaves `MAP_FAILED` as the map, which the mode test accepts, so reads go to the shm reader without a snapshot (2 steps);
- `V2MTablesCurrent`: tables survive a re-create (4 steps);
- `DgvmaFindsMappedPages`: `kvm_get_dgvma` returns 0 for a mapped address in a freshly created table, because the walk's list is never stored (3 steps);
- `PatchReadsHaveSocket`: destroying a snapshot when the socket connect fails leaves the patch reader installed with `socket_fd` 0 (spec §7 promises a fallback);
- `NoShmLeakAfterDestroy`: `kvm_destroy` tears a snapshot down only under `VMI_INIT_SHM_SNAPSHOT` (3 steps);
- with `Faults = {"libver"}`, the check `phase = "destroyed" => host.libvirt = {}`: `kvm_init_vmi` returns on a failed `virConnectGetLibVersion` before `kvm->dom` is set, so the domain is never freed (16 states);
- `QueriesCloseConnections`: a domain query whose lookup fails returns without `virConnectClose` (one query, 8 states).

To reproduce one, copy a violation cfg and name that property.

**Mutants.** Each property of a passing run has a mutant: a defective variant of a mapped operator, defined just before it in the module (for example `kvm_teardown_keep_v2p`, `insert_m2p_any` or `InsertPagePair_no_advance`). Substituted for the original, it makes TLC report the property violated.

## 4. Bounds, and why they are enough

**`V2MChunks`:**
- 4 virtual frames, 6 physical frames, page sizes 1 and 2, up to 3 pages;
- that gives every combination of virtual and physical adjacency between three pages: joins, breaks, a large page joining small ones, pages outside RAM;
- `MemSize` 4 puts pages at frames 4 and 5 outside RAM;
- two pages are enough for the double free and for the walk's repeated head page.

**`KvmSnapshot`:**
- 2 pids (the kernel and one process), one virtual frame;
- up to 3 snapshot names (2 in violation runs): enough to re-create twice, so that a teardown of snapshot 1 followed by snapshot 2 is exercised;
- 2 guest epochs: enough for the guest to run between snapshot and register dump;
- one domain query in the lifecycle run (none in the violation runs): the queries touch only their own connections, so one that can fail shows the leak and its interleavings with the instance;
- the lifecycle run reaches 1.6M distinct states in about 1 min.

**`KvmPatchSocket`:**
- 2 bytes of RAM and requests of 1 or 2 bytes at 0 or 1: in range, and past the end (status 0);
- byte values 0 and 1, so a stale data byte can pass as a status byte;
- 3 calls: enough for an interrupted call, a call that reads its reply, and a third call after that;
- one guest store, so that memory can change between requests.

**`LinuxTasks`:**
- 4 task_struct addresses: 3 in the initial ring plus one for a fork; 2 mm structs;
- 2 guest steps in the passing run are enough for a fork and an exit, or an exit and a reap, to fall inside one walk; the reuse run needs 3 (exit, reap, free).

**`WindowsInit`:**
- one System process, one kernel base, and `Half` = 16 for 2^32: enough for a 32-bit field read with a 64-bit read to differ from its mask;
- every subset of 5 failure points, so every strategy is reached both with and without its predecessors failing;
- physical memory of 4 pages (`PageSize` 4, `MaxPhys` 16) with the System dtb on page 1 and ntoskrnl on page 2: the scan must step once, the last page is the one it never reads, and an unmasked 64-bit kpgd (149) lies above the top of RAM;
- the boot CR3 is page-aligned above ntoskrnl for LEGACY and IA-32e and only 32-byte aligned for PAE, so a scan started from it misses the kernel;
- builds 7601 (known) and 10240 (not listed by `ntbuild2version`).

## 5. Fairness

The passing runs of the first two modules check safety only. The lifecycle has no obligation to progress: every operation is a user's call. `CHECK_DEADLOCK FALSE` is used because the model really stops:
- `V2MChunks` stops once `setup_v2m_table` has returned;
- `KvmSnapshot` stops after `kvm_destroy`, and nothing of the instance runs afterwards.

`WindowsInit` is one call that returns (`CHECK_DEADLOCK FALSE`: "done" and "error" are final).

`KvmPatchSocket` assumes weak fairness of the library's blocked reads (a `read()` with bytes queued returns) and of QEMU's thread (it is scheduled while a request waits). The caller's calls, the guest and signals get no fairness. This fairness is needed only for the liveness half of `ImplementsDriverMemory` (a call takes effect and returns). It is an assumption about QEMU: the code blocks in `read()` with no timeout, so no property claims that calls return on their own. `CHECK_DEADLOCK FALSE`: nothing runs after quit.

`LinuxTasks` adds liveness. Weak fairness of the walker's steps is justified because the library is single-threaded and an API call runs until it returns; the guest's steps get no fairness.

## 6. Not modelled, and why

- **The v2m cache.** It never receives an entry: `lookup_v2m_table` never finds a chunk because the walk's list is lost. Its missing flush in teardown cannot be observed.
- **Text round trips:**
  - the QMP/virsh text layer (`exec_qmp_cmd`, register-dump parsing);
  - the ids and names the libvirt queries return (their connections are modelled), and `kvm_get_name`/`kvm_set_name`, which only copy a string;
  - `windows/unicode.c` (iconv);
  - the JSON parsing of `rekall.c` (a profile is a set of symbols in `WindowsInit`).

  These are pure I/O.
- **Headers only.** The Xen driver and the event API have only headers here.
- **Not in the repository.** The generic library code (`libvmi.c`, caches, `memory_cache_*`, `vmi_get_va_pages`, `vmi_destroy`). The parts the models need are taken from the spec and marked `spec_modelled` in `PROJECT.json`.
- **The callers' out-parameters of the domain queries.** `DomainQuery` keeps the libvirt connection each query opens, not what it writes for its caller. So `kvm_test` probing by id, which makes `kvm_get_name_from_id` store through a NULL name pointer, is a hazard without a property.
- **Other threads.** Threads of the embedding application: the probe's munmap-then-MAP_FIXED window is a hazard only for them.
