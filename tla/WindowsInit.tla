----------------------------- MODULE WindowsInit -----------------------------
(***************************************************************************)
(* Initialisation of the Windows OS view (os/windows/core.c): finding the *)
(* kernel image, the page mode and the kernel directory-table base        *)
(* (kpgd), and the first process (init_task), with the fallbacks the code  *)
(* takes when the driver, the Rekall profile or a memory search fails.    *)
(*                                                                         *)
(* The guest is fixed by constants: its page mode, the System process's   *)
(* EPROCESS (physical SysprocPa, virtual SysprocVa) and the words stored   *)
(* in it.  Which sources fail is chosen once, in Init, from `Faults`.     *)
(* Addresses are integers of two Half-sized words, so that a 64-bit read   *)
(* of a 32-bit field also returns the word that follows it.               *)
(***************************************************************************)
EXTENDS Integers, FiniteSets, Functions, TLC

CONSTANTS
    GuestModes,   \* page modes of the guests considered
    Profiles,     \* Rekall profiles: the symbols each one holds ({} = none)
    Configs,      \* the libvmi.conf keys given for the guest
    Faults,       \* sources that may fail
    Half,         \* 2^32, scaled down
    SysDtb,       \* the System process's DirectoryTableBase (the real kpgd)
    BootCr3,      \* per guest page mode: CR3 of whatever process the VCPU
                  \* runs (under PAE only 32-byte aligned)
    PageSize,     \* VMI_PS_4KB, scaled down
    MaxPhys,      \* vmi->max_physical_address
    Builds,       \* NtBuildNumber of the guests considered
    NtPa, NtVa,   \* ntoskrnl's physical and virtual base
    GarbageVa,    \* kpcr - KiInitialPCR when kpcr was never read
    SysprocPa, SysprocVa,
    TasksOff, PdbaseOff,   \* the profile's _EPROCESS.ActiveProcessLinks and
                           \* _KPROCESS.DirectoryTableBase
    SysMem,       \* SysMem[off]: <<word at off, word after it>> in System's
                  \* EPROCESS, for off in {0, TasksOff, PdbaseOff}
    UserPid,      \* the pid of the process after System in the list
    UserPdbase    \* its DirectoryTableBase, as SysMem gives System's

Word64 == Half * Half
Is32(m) == m \in {"LEGACY", "PAE"}
PageModes == {"UNKNOWN", "LEGACY", "PAE", "IA32E"}
OffsetKeys == {"win_pdbase", "win_tasks", "win_pid", "win_pname"}
NextEprocess == (SysMem[TasksOff][1] - TasksOff) % Word64
SystemPid == 4
VMI_FAILURE == 1

(* The guest's active process list, a ring of two EPROCESSes by virtual   *)
(* base: System and the process its ActiveProcessLinks.Flink points to.   *)
Eprocess ==
    (SysprocVa :> [pid |-> SystemPid, pdbase |-> SysMem[PdbaseOff],
                   flink |-> NextEprocess])
    @@ (NextEprocess :> [pid |-> UserPid, pdbase |-> UserPdbase,
                         flink |-> SysprocVa])

ASSUME /\ GuestModes \subseteq PageModes \ {"UNKNOWN"}
       /\ DOMAIN SysMem = {0, TasksOff, PdbaseOff} /\ SysMem[PdbaseOff][1] = SysDtb
       /\ \A c \in Configs : c \subseteq OffsetKeys \cup {"win_sysproc"}
       /\ BootCr3 \in [GuestModes -> 1..(MaxPhys - 1)] /\ SysDtb \notin Range(BootCr3)
       /\ 0 \notin {SysDtb, NtPa, NtVa, SysprocPa} /\ NtPa % PageSize = 0
       /\ NextEprocess # SysprocVa /\ UserPid \notin {SystemPid, -1}
       /\ UserPdbase[1] \notin {0, SysDtb}

VARIABLES
    env,          \* the guest and the failing sources of this run
    pc,           \* where windows_init is
    os_data,      \* vmi->os_data allocated
    os_interface, \* vmi->os_interface installed
    offs,         \* windows->{pdbase,tasks,pid,pname}_offset (0: unset)
    ntoskrnl, ntoskrnl_va,
    kpgd, init_task, page_mode,
    real_kpgd_found

vars == <<env, pc, os_data, os_interface, offs, ntoskrnl, ntoskrnl_va,
          kpgd, init_task, page_mode, real_kpgd_found>>

Envs == [mode : GuestModes, live : BOOLEAN, pm_known : BOOLEAN,
         prof : Profiles, cfg : Configs, faults : SUBSET Faults,
         build : Builds]

Fails(f) == f \in env.faults

(* rekall_profile_symbol_to_rva: found iff the profile holds the symbol   *)
Has(sym) == sym \in env.prof

(* 64-bit physical read at SysprocPa + off (vmi_read_64_pa)               *)
Read64(off) == IF Is32(env.mode) THEN SysMem[off][1] + SysMem[off][2] * Half
                                  ELSE SysMem[off][1]
(* pointer-width read (vmi_read_addr_pa) once the page mode is known       *)
ReadAddr(off) == SysMem[off][1]

(* vmi_translate_kv2p / vmi_pagetable_lookup through directory table dtb  *)
(* in page mode m: only the guest's own mode walks the tables correctly.  *)
Lookup(m, dtb, va) ==
    IF m = env.mode /\ dtb \in {SysDtb, BootCr3[env.mode]}
    THEN CASE va = NtVa -> NtPa [] va = SysprocVa -> SysprocPa [] OTHER -> 0
    ELSE 0
kv2p(va) == Lookup(page_mode, kpgd, va)

(* windows_kernel_symbol_to_address (memory.c): Rekall profile, then the  *)
(* KDBG block, then the kernel's export table; all need ntoskrnl_va.      *)
KsymFound(sym) ==
    ntoskrnl_va = NtVa /\ (Has(sym) \/ ~Fails("ksym_fallback"))

Init ==
    /\ env \in Envs
    /\ pc = "start" /\ os_data = FALSE /\ os_interface = FALSE
    /\ offs = [o \in OffsetKeys |-> 0]
    /\ ntoskrnl = 0 /\ ntoskrnl_va = 0 /\ kpgd = 0 /\ init_task = 0
    /\ page_mode = IF env.pm_known THEN env.mode ELSE "UNKNOWN"
    /\ real_kpgd_found = FALSE
-----------------------------------------------------------------------------
(* windows_teardown on error_exit: frees os_data, leaves the rest of vmi  *)
windows_teardown ==
    /\ os_data' = FALSE /\ pc' = "error"

(* the entry of windows_init: allocate os_data, read the config keys into *)
(* it (windows_read_config_ghashtable_entries), install os_interface      *)
windows_init_enter ==
    /\ pc = "start"
    /\ os_data' = TRUE /\ os_interface' = TRUE
    /\ offs' = [o \in OffsetKeys |->
                  IF o \notin env.cfg THEN 0
                  ELSE CASE o = "win_tasks" -> TasksOff
                         [] o = "win_pdbase" -> PdbaseOff
                         [] OTHER -> 1]
    /\ pc' = "pdbase"
    /\ UNCHANGED <<env, ntoskrnl, ntoskrnl_va, kpgd, init_task, page_mode,
                   real_kpgd_found>>

check_pdbase_offset ==
    /\ pc = "pdbase"
    /\ IF offs["win_pdbase"] # 0 \/ Has("DirectoryTableBase")
       THEN /\ offs' = [offs EXCEPT !["win_pdbase"] = PdbaseOff]
            /\ pc' = "cr3" /\ UNCHANGED os_data
       ELSE windows_teardown /\ UNCHANGED offs
    /\ UNCHANGED <<env, os_interface, ntoskrnl, ntoskrnl_va, kpgd, init_task,
                   page_mode, real_kpgd_found>>

(* get_kpgd_method2: the System process found by a physical search (or   *)
(* win_sysproc), kpgd and init_task read from it with 64-bit reads and    *)
(* masked to 32 bits only when the page mode is already known to be 32-bit.*)
(* kpgd is written before its zero check.                                 *)
Method2 ==
    LET haveSys == "win_sysproc" \in env.cfg \/ ~Fails("sysproc_scan")
        dtb == Read64(offs["win_pdbase"])
        links == (Read64(offs["win_tasks"]) - offs["win_tasks"]) % Word64
        Mask(x) == IF Is32(page_mode) THEN x % Half ELSE x
    IN CASE ~haveSys -> [ok |-> FALSE, kpgd |-> kpgd, init_task |-> init_task]
         [] dtb = 0 -> [ok |-> FALSE, kpgd |-> 0, init_task |-> init_task]
         [] OTHER -> [ok |-> TRUE, kpgd |-> Mask(dtb), init_task |-> Mask(links)]

(* windows_find_cr3: rerun get_kpgd_method2 and return the kpgd it left  *)
windows_find_cr3 == Method2.kpgd

(* the driver's CR3 taken as the real kpgd, with no replacement later      *)
get_kpgd_bootstrap_is_real ==
    /\ pc = "cr3"
    /\ IF env.live
       THEN /\ kpgd' = BootCr3[env.mode] /\ real_kpgd_found' = TRUE /\ pc' = "core"
            /\ UNCHANGED <<os_data, init_task>>
       ELSE LET r == Method2 IN
            /\ kpgd' = r.kpgd /\ init_task' = r.init_task
            /\ IF r.ok THEN real_kpgd_found' = TRUE /\ pc' = "core" /\ UNCHANGED os_data
                       ELSE windows_teardown /\ UNCHANGED real_kpgd_found
    /\ UNCHANGED <<env, os_interface, offs, ntoskrnl, ntoskrnl_va, page_mode>>

(* windows_init: a dtb from the driver's CR3 serves only during init; when *)
(* the driver has none (file mode) method2 must find the real one now.    *)
get_kpgd_bootstrap ==
    /\ pc = "cr3"
    /\ IF env.live
       THEN /\ kpgd' = BootCr3[env.mode] /\ pc' = "core"
            /\ UNCHANGED <<os_data, init_task, real_kpgd_found>>
       ELSE LET r == Method2 IN
            /\ kpgd' = r.kpgd /\ init_task' = r.init_task
            /\ IF r.ok THEN real_kpgd_found' = TRUE /\ pc' = "core" /\ UNCHANGED os_data
                       ELSE windows_teardown /\ UNCHANGED real_kpgd_found
    /\ UNCHANGED <<env, os_interface, offs, ntoskrnl, ntoskrnl_va, page_mode>>

(* ntbuild2version: the Windows release of an NtBuildNumber              *)
ntbuild2version(b) ==
    CASE b = 2195 -> "2000"
      [] b \in {2600, 3790} -> "XP"
      [] b \in {6000, 6001, 6002} -> "VISTA"
      [] b \in {7600, 7601} -> "7"
      [] b \in {9200, 9600} -> "8"
      [] OTHER -> "UNKNOWN"

(* the scan stopping one page earlier                                    *)
get_ntoskrnl_base_short(page_paddr) ==
    IF \E k \in 0..(MaxPhys \div PageSize) :
          /\ page_paddr + k * PageSize = NtPa
          /\ page_paddr + k * PageSize + 2 * PageSize < MaxPhys
    THEN NtPa ELSE 0

(* get_ntoskrnl_base(vmi, page_paddr): pages page_paddr, page_paddr + 4KB, *)
(* ... while page_paddr + 4KB < max_physical_address; the first whose PE  *)
(* export name is ntoskrnl.exe, else 0.  Only ntoskrnl's image page has   *)
(* that name.                                                             *)
get_ntoskrnl_base(page_paddr) ==
    IF \E k \in 0..(MaxPhys \div PageSize) :
          /\ page_paddr + k * PageSize = NtPa
          /\ page_paddr + k * PageSize + PageSize < MaxPhys
    THEN NtPa ELSE 0

(* init_core: the Rekall profile if one is configured, else the KDBG      *)
init_core_uses_rekall == env.prof # {}

(* the profile symbol that supplies each offset left unset by the config  *)
ProfSym(o) == CASE o = "win_pdbase" -> "DirectoryTableBase"
                [] o = "win_tasks" -> "ActiveProcessLinks"
                [] o = "win_pid" -> "UniqueProcessId"
                [] o = "win_pname" -> "ImageFileName"
OffsetValue(o) == CASE o = "win_tasks" -> TasksOff
                    [] o = "win_pdbase" -> PdbaseOff
                    [] OTHER -> 1

(* init_core with a Rekall profile: init_from_rekall_profile.  In live    *)
(* mode the kernel base comes from the KPCR (GS/FS base, read only when   *)
(* the page mode is known) and KiInitialPCR, or on XP/Vista from the KPCR *)
(* at 0xffdff000; if it does not translate, windows_find_cr3 reruns       *)
(* method2.  Otherwise a physical scan for ntoskrnl.exe and KdVersionBlock *)
(* give it.  The build number is checked and missing offsets are taken     *)
(* from the profile.                                                       *)
init_from_rekall_profile ==
    /\ pc = "core" /\ init_core_uses_rekall
    /\ LET kpcrRead == page_mode # "UNKNOWN"
           branch == CASE ~env.live -> "file"
                       [] Has("KiInitialPCR") -> "pcr"
                       [] kpcrRead /\ Is32(env.mode) -> "xp"
                       [] OTHER -> "fail"
           va1 == CASE branch = "pcr" -> IF kpcrRead THEN NtVa ELSE GarbageVa
                    [] branch = "xp" -> IF Has("_KPCR.KdVersionBlock") /\ Has("KernBase")
                                        THEN NtVa ELSE GarbageVa
                    [] OTHER -> 0
           nt1 == kv2p(va1)
           findCr3 == va1 # 0 /\ nt1 = 0
           r == Method2
           kpgd2 == IF findCr3 THEN windows_find_cr3 ELSE kpgd
           nt2 == IF findCr3 THEN Lookup(page_mode, kpgd2, va1) ELSE nt1
           nt3 == IF nt2 # 0 THEN nt2 ELSE get_ntoskrnl_base(kpgd2)
           kdvbOk == nt3 # 0 /\ Has("KdVersionBlock") /\ Has("KernBase")
           va3 == IF nt2 = 0 /\ kdvbOk THEN NtVa ELSE va1
           baseOk == nt2 # 0 \/ kdvbOk
           buildOk == /\ Has("NtBuildNumber")
                      /\ ntbuild2version(env.build) # "UNKNOWN"
           offs2 == [o \in OffsetKeys |->
                       IF offs[o] # 0 THEN offs[o]
                       ELSE IF Has(ProfSym(o)) THEN OffsetValue(o) ELSE 0]
       IN IF branch = "fail"
          THEN windows_teardown
               /\ UNCHANGED <<ntoskrnl, ntoskrnl_va, kpgd, init_task, offs>>
          ELSE /\ ntoskrnl' = nt3 /\ ntoskrnl_va' = va3
               /\ kpgd' = kpgd2
               /\ init_task' = IF findCr3 THEN r.init_task ELSE init_task
               /\ offs' = IF baseOk /\ buildOk THEN offs2 ELSE offs
               /\ IF baseOk /\ buildOk /\ \A o \in OffsetKeys : offs2[o] # 0
                  THEN pc' = "pagemode" /\ UNCHANGED os_data
                  ELSE windows_teardown
    /\ UNCHANGED <<env, os_interface, page_mode, real_kpgd_found>>

(* init_core without a profile: init_from_kdbg locates the kernel from the *)
(* in-memory KDBG block (spec section 4).                                 *)
init_from_kdbg ==
    /\ pc = "core" /\ ~init_core_uses_rekall
    /\ IF Fails("kdbg")
       THEN windows_teardown /\ UNCHANGED <<ntoskrnl, ntoskrnl_va>>
       ELSE ntoskrnl' = NtPa /\ ntoskrnl_va' = NtVa /\ pc' = "pagemode"
            /\ UNCHANGED os_data
    /\ UNCHANGED <<env, os_interface, offs, kpgd, init_task, page_mode,
                   real_kpgd_found>>

PageModeTrials == <<"LEGACY", "PAE", "IA32E">>

(* the candidate kpgd of a trial: masked to 32 bits for LEGACY and PAE    *)
TrialDtb(m) == IF Is32(m) THEN kpgd % Half ELSE kpgd
Matches(m) == Lookup(m, TrialDtb(m), ntoskrnl_va) = ntoskrnl

(* find_page_mode keeping the unmasked kpgd after a 32-bit trial succeeds *)
FoundKpgd_unmasked(m) == kpgd

(* the kpgd find_page_mode leaves after trial m succeeds                  *)
FoundKpgd(m) == TrialDtb(m)

(* windows_init calls find_page_mode only for an unknown page mode.  It   *)
(* needs ntoskrnl, ntoskrnl_va and kpgd, and tries LEGACY, PAE, IA32E in  *)
(* that order, leaving page_mode at the last mode tried when none fits.   *)
(* With the kpgd found during init the real one is kept; otherwise       *)
(* method0, 1 and 2 are tried next.                                       *)
find_page_mode ==
    /\ pc = "pagemode"
    /\ LET after == IF real_kpgd_found THEN "done" ELSE "m0"
           fit == {i \in DOMAIN PageModeTrials : Matches(PageModeTrials[i])}
       IN CASE page_mode # "UNKNOWN" ->
                 pc' = after /\ UNCHANGED <<page_mode, kpgd, os_data>>
            [] ntoskrnl = 0 \/ ntoskrnl_va = 0 \/ kpgd = 0 ->
                 windows_teardown /\ UNCHANGED <<page_mode, kpgd>>
            [] fit = {} ->
                 windows_teardown /\ page_mode' = "IA32E" /\ UNCHANGED kpgd
            [] OTHER ->
                 LET m == PageModeTrials[CHOOSE i \in fit : \A j \in fit : i <= j]
                 IN /\ page_mode' = m /\ kpgd' = FoundKpgd(m)
                    /\ pc' = after /\ UNCHANGED os_data
    /\ UNCHANGED <<env, os_interface, offs, ntoskrnl, ntoskrnl_va, init_task,
                   real_kpgd_found>>

(* get_kpgd_method0: PsActiveProcessHead, the list searched for pid 4,    *)
(* its EPROCESS translated and DirectoryTableBase read; init_task is the  *)
(* System process itself.  kpgd is written only on success.                *)
get_kpgd_method0 ==
    /\ pc = "m0"
    /\ IF /\ KsymFound("PsActiveProcessHead") /\ ~Fails("list_search")
          /\ offs["win_tasks"] = TasksOff
          /\ kv2p(SysprocVa) # 0 /\ ReadAddr(offs["win_pdbase"]) # 0
       THEN /\ kpgd' = ReadAddr(offs["win_pdbase"]) /\ init_task' = SysprocVa
            /\ pc' = "done"
       ELSE pc' = "m1" /\ UNCHANGED <<kpgd, init_task>>
    /\ UNCHANGED <<env, os_data, os_interface, offs, ntoskrnl, ntoskrnl_va,
                   page_mode, real_kpgd_found>>

(* get_kpgd_method1: PsInitialSystemProcess read and translated, then     *)
(* DirectoryTableBase and ActiveProcessLinks.Flink read from it, so       *)
(* init_task is the process after System.                                 *)
get_kpgd_method1 ==
    /\ pc = "m1"
    /\ IF KsymFound("PsInitialSystemProcess") /\ ~Fails("PsInitialSystemProcess")
       THEN /\ kpgd' = ReadAddr(offs["win_pdbase"])
            /\ init_task' = (ReadAddr(offs["win_tasks"]) - offs["win_tasks"]) % Word64
            /\ pc' = "done"
       ELSE pc' = "m2" /\ UNCHANGED <<kpgd, init_task>>
    /\ UNCHANGED <<env, os_data, os_interface, offs, ntoskrnl, ntoskrnl_va,
                   page_mode, real_kpgd_found>>

(* the last strategy of windows_init: method2 now that the page mode is   *)
(* known; when it fails too kpgd is reset to 0 and init fails.            *)
get_kpgd_method2 ==
    /\ pc = "m2"
    /\ LET r == Method2 IN
       /\ init_task' = r.init_task
       /\ IF r.ok THEN kpgd' = r.kpgd /\ pc' = "done" /\ UNCHANGED os_data
                  ELSE kpgd' = 0 /\ windows_teardown
    /\ UNCHANGED <<env, os_interface, offs, ntoskrnl, ntoskrnl_va, page_mode,
                   real_kpgd_found>>

Next ==
    \/ windows_init_enter \/ check_pdbase_offset \/ get_kpgd_bootstrap
    \/ init_from_rekall_profile \/ init_from_kdbg \/ find_page_mode
    \/ get_kpgd_method0 \/ get_kpgd_method1 \/ get_kpgd_method2

(* windows_init runs once and returns: the terminal states are "done" and *)
(* "error".                                                               *)
Spec == Init /\ [][Next]_vars
-----------------------------------------------------------------------------
(***************************************************************************)
(* The OS view windows_init installs (memory.c), called once it returned  *)
(* success.  Kernel virtual reads go through kpgd in page_mode; a field is *)
(* read at the offset windows_init found for it.                          *)
(***************************************************************************)
KernelReads == kv2p(SysprocVa) # 0

(* vmi_read_32_va of UniqueProcessId at eprocess + pid_offset             *)
ReadPid(e) == IF offs["win_pid"] = OffsetValue("win_pid") THEN Eprocess[e].pid ELSE 0

(* vmi_read_addr_va of DirectoryTableBase at eprocess + pdbase_offset:     *)
(* an address is 32 bits wide in LEGACY and PAE, 64 in IA-32e             *)
ReadPdbase(e) ==
    IF offs["win_pdbase"] # PdbaseOff THEN 0 ELSE Eprocess[e].pdbase[1]

(* windows_find_eprocess_list_pid / _pgd walk ActiveProcessLinks from      *)
(* init_task until the list head comes round again; a base whose reads    *)
(* fail ends the walk at once.                                             *)
RECURSIVE ListFrom(_, _)
ListFrom(e, seen) ==
    IF ~KernelReads \/ e \notin DOMAIN Eprocess \/ e \in seen THEN seen
    ELSE ListFrom(Eprocess[e].flink, seen \cup {e})
ProcessList == ListFrom(init_task, {})

(* Defective variant (mutation runs): the pgd read with vmi_read_64_va,   *)
(* as get_kpgd_method2 reads it, whatever the page mode.                  *)
windows_pid_to_pgd_read64(pid) ==
    LET found == {e \in ProcessList : ReadPid(e) = pid}
        f == Eprocess[CHOOSE e \in found : TRUE].pdbase
    IN  CASE ~os_data -> VMI_FAILURE
          [] found = {} -> 0
          [] offs["win_pdbase"] # PdbaseOff -> 0
          [] Is32(page_mode) -> f[1] + f[2] * Half
          [] OTHER -> f[1]

(* windows_pid_to_pgd: VMI_FAILURE without os_data; 0 when no EPROCESS    *)
(* has the pid, else its DirectoryTableBase.                               *)
windows_pid_to_pgd(pid) ==
    LET found == {e \in ProcessList : ReadPid(e) = pid}
    IN  CASE ~os_data -> VMI_FAILURE
          [] found = {} -> 0
          [] OTHER -> ReadPdbase(CHOOSE e \in found : TRUE)

(* windows_pgd_to_pid: VMI_FAILURE without os_data; -1 when no EPROCESS   *)
(* has the pgd, else its UniqueProcessId.                                  *)
windows_pgd_to_pid(pgd) ==
    LET found == {e \in ProcessList : ReadPdbase(e) = pgd}
    IN  CASE ~os_data -> VMI_FAILURE
          [] found = {} -> -1
          [] OTHER -> ReadPid(CHOOSE e \in found : TRUE)
-----------------------------------------------------------------------------
TypeOK ==
    /\ env \in Envs
    /\ pc \in {"start", "pdbase", "cr3", "core", "pagemode", "m0", "m1", "m2",
               "done", "error"}
    /\ offs \in [OffsetKeys -> {0, 1, TasksOff, PdbaseOff}]
    /\ page_mode \in PageModes
    /\ kpgd \in 0..(Word64 - 1) /\ init_task \in 0..(Word64 - 1)
    \* a 32-bit page mode comes with a 32-bit directory table base
    /\ Is32(page_mode) => kpgd < Half

(* After windows_init succeeds, kpgd is the System process's directory    *)
(* table base, not the driver's bootstrap CR3 nor a 64-bit read of a       *)
(* 32-bit field, and the page mode is the guest's, so the kernel base     *)
(* translates through kpgd to ntoskrnl (spec section 3), whichever of     *)
(* driver CR3, KPCR, physical scan, method0, 1 or 2 got it there.         *)
KpgdIsSystemDtb ==
    pc = "done" =>
        /\ kpgd = SysDtb /\ page_mode = env.mode
        /\ Lookup(page_mode, kpgd, ntoskrnl_va) = ntoskrnl /\ ntoskrnl = NtPa

(* An IA-32e memory snapshot of a supported Windows build, with a profile *)
(* that has the kernel symbols and offsets and no failing source, is      *)
(* initialised (spec section 8, scenario 2): init_from_rekall_profile's   *)
(* physical scan, which get_ntoskrnl_base starts at kpgd and stops one    *)
(* page short of max_physical_address, still reaches ntoskrnl.            *)
ProfileSnapshotInitialises ==
    LET needed == {"DirectoryTableBase", "ActiveProcessLinks", "UniqueProcessId",
                   "ImageFileName", "NtBuildNumber", "KdVersionBlock", "KernBase"}
    IN /\ env.mode = "IA32E" /\ ~env.live /\ env.faults = {}
       /\ needed \subseteq env.prof /\ ntbuild2version(env.build) # "UNKNOWN"
       => pc # "error"

(* Round-trip law (spec section 8): once windows_init has succeeded, for  *)
(* every pid enumerated from the process list windows_pgd_to_pid maps      *)
(* windows_pid_to_pgd's result back to that pid.  Both read through the    *)
(* kpgd, page mode, init_task and offsets the init left, and the pgd is    *)
(* read as an address, whose width the page mode gives.                    *)
RoundTripPidPgd ==
    pc = "done" =>
        \A pid \in {ReadPid(e) : e \in ProcessList} :
            windows_pgd_to_pid(windows_pid_to_pgd(pid)) = pid

(* After windows_init succeeds, init_task is a process of the active      *)
(* process list: System (method0) or the process its links point to       *)
(* (method1, method2).                                                    *)
InitTaskInProcessList ==
    pc = "done" => init_task \in {SysprocVa, NextEprocess}
=============================================================================
