----------------------------- MODULE LinuxTasks -----------------------------
(***************************************************************************)
(* The Linux OS view of libvmi (os/linux/memory.c): the walks of the      *)
(* guest's task list that map a pid to its page directory (linux_pid_to_pgd*)
(* and a page directory back to a pid (linux_pgd_to_pid).                 *)
(*                                                                         *)
(* The library is single-threaded, but the guest it reads is not paused:  *)
(* the guest forks, exits and reaps tasks between any two reads of the    *)
(* walk.  Each loop iteration of the two do-while walks is one step, so   *)
(* guest steps interleave with them at every iteration boundary.          *)
(*                                                                         *)
(* Addresses are integers.  A task_struct lives at a base address in      *)
(* TaskAddrs; its `tasks` list_head lies TasksOffset bytes further, and   *)
(* that is what a `next` pointer holds, so the walk must subtract         *)
(* TasksOffset to get back to a base (memory.c:72, 138).  A read at an    *)
(* address that is not a task base returns an arbitrary value.            *)
(***************************************************************************)
EXTENDS Integers, Sequences, SequencesExt, FiniteSets

CONSTANTS
    TaskAddrs,      \* base addresses of task_structs the guest may use
    InitTask,       \* vmi->init_task: the swapper task, head of the ring
    TasksOffset,    \* linux_instance->tasks_offset
    InitRing,       \* the initial ring order, starting at InitTask
    InitPid,        \* the pid stored in each task_struct at start
    Pids,           \* pid values the guest may use
    MmAddrs,        \* addresses of mm_structs (0 is NULL)
    MmPgd,          \* MmPgd[m]: the kernel VA stored in m->pgd
    KernelMap,      \* vmi_translate_kv2p on kernel VAs that translate
    Width,          \* driver_get_address_width (0 for the KVM driver)
    PageModeWidth,  \* width chosen from vmi->page_mode (0: unknown mode)
    MaxGuestSteps   \* bound on guest fork/exit/reap/free steps

Entry(t) == t + TasksOffset
Entries == {Entry(t) : t \in TaskAddrs}
Addrs == TaskAddrs \cup Entries
PhysPgds == Range(KernelMap)

ASSUME /\ InitTask \in TaskAddrs /\ InitRing[1] = InitTask
       /\ Range(InitRing) \subseteq TaskAddrs /\ IsInjective(InitRing)
       /\ TaskAddrs \cap Entries = {}
       /\ 0 \notin MmAddrs /\ 0 \notin DOMAIN KernelMap /\ 0 \notin PhysPgds
       \* a physical address is never itself a kernel VA that translates
       /\ PhysPgds \cap DOMAIN KernelMap = {}
       /\ Width \in {0, 4, 8} /\ PageModeWidth \in {0, 4, 8}

VARIABLES
    next, pid, mm, active_mm,   \* guest memory: fields of each task_struct
    tstate,                     \* "unused", "linked", "removed" or "freed"
    gsteps,                     \* guest steps taken
    op,         \* where the client is: "idle", "pid_walk", "pid_tail",
                \* "have_pgd", "pgd_walk", "pgd_tail"
    query,      \* the pid the client asked for
    list_head, next_process,    \* the walk's locals
    ts_addr,    \* the task the walk returned (0: not found)
    task_pgd,   \* local of the pgd walk, kept across iterations
    pgd,        \* result of linux_pid_to_pgd
    walkLinked, \* history: tasks linked for the whole of the pid walk
    subject,    \* history: the user task holding `query` at the call
    stable,     \* history: subject stayed linked with its mm throughout
    present,    \* history: some linked task held `query` at the call
    last        \* history: the outcome of the last round trip

guest == <<next, pid, mm, active_mm, tstate, gsteps>>
lib == <<op, query, list_head, next_process, ts_addr, task_pgd, pgd>>
hist == <<walkLinked, subject, stable, present, last>>
vars == <<guest, lib, hist>>

Linked == {t \in TaskAddrs : tstate[t] = "linked"}

(* Reads of guest memory: a read at a task base returns the field, a read *)
(* anywhere else returns whatever bytes lie there.                        *)
ReadPid(a) == IF a \in TaskAddrs THEN {pid[a]} ELSE Pids
ReadNext(a) == IF a \in TaskAddrs THEN {next[a]} ELSE Entries
ReadMm(a) == IF a \in TaskAddrs THEN {mm[a]} ELSE MmAddrs \cup {0}
ReadActiveMm(a) == IF a \in TaskAddrs THEN {active_mm[a]} ELSE MmAddrs \cup {0}

(* vmi_translate_kv2p: 0 when the VA does not translate                   *)
kv2p(v) == IF v \in DOMAIN KernelMap THEN KernelMap[v] ELSE 0

NoResult == [pid |-> -1, present |-> FALSE, subject |-> 0,
             stable |-> FALSE, back |-> -1]

Succ(i) == InitRing[(i % Len(InitRing)) + 1]

Init ==
    /\ tstate = [t \in TaskAddrs |->
                    IF t \in Range(InitRing) THEN "linked" ELSE "unused"]
    /\ next = [t \in TaskAddrs |->
                 IF t \in Range(InitRing)
                 THEN Entry(Succ(CHOOSE i \in DOMAIN InitRing : InitRing[i] = t))
                 ELSE Entry(t)]
    /\ pid = InitPid
    \* init_task and kernel threads have mm NULL and borrow an active_mm;
    \* every user task owns its own mm
    /\ mm \in {f \in [TaskAddrs -> MmAddrs \cup {0}] :
                 /\ f[InitTask] = 0
                 /\ \A t \in TaskAddrs \ Range(InitRing) : f[t] = 0
                 /\ \A t, u \in TaskAddrs : t # u /\ f[t] # 0 => f[t] # f[u]}
    /\ active_mm \in {f \in [TaskAddrs -> MmAddrs \cup {0}] :
                 \A t \in TaskAddrs :
                    /\ mm[t] # 0 => f[t] = mm[t]
                    /\ t \in Range(InitRing) /\ mm[t] = 0 => f[t] # 0
                    /\ t \notin Range(InitRing) => f[t] = 0}
    /\ gsteps = 0
    /\ op = "idle" /\ query = -1 /\ list_head = 0 /\ next_process = 0
    /\ ts_addr = 0 /\ task_pgd = 0 /\ pgd = 0
    /\ walkLinked = {} /\ subject = 0 /\ stable = FALSE /\ present = FALSE
    /\ last = NoResult
-----------------------------------------------------------------------------
(***************************************************************************)
(* The guest.  Its steps are not fair: the guest may stop changing the    *)
(* list at any time.                                                       *)
(***************************************************************************)
TailOf == CHOOSE u \in Linked : next[u] = Entry(InitTask)
PrevOf(t) == CHOOSE u \in Linked : next[u] = Entry(t)

(* copy_process: a new task linked at the tail (list_add_tail_rcu), as a  *)
(* user task with a fresh mm or a kernel thread borrowing one             *)
Fork(t) ==
    /\ gsteps < MaxGuestSteps
    /\ tstate[t] \in {"unused", "freed"}
    /\ \E p \in Pids \ {pid[u] : u \in Linked},
          m \in MmAddrs, kthread \in BOOLEAN :
          /\ kthread \/ m \notin {mm[u] : u \in TaskAddrs}
          /\ next' = [next EXCEPT ![TailOf] = Entry(t), ![t] = Entry(InitTask)]
          /\ pid' = [pid EXCEPT ![t] = p]
          /\ mm' = [mm EXCEPT ![t] = IF kthread THEN 0 ELSE m]
          /\ active_mm' = [active_mm EXCEPT ![t] = m]
    /\ tstate' = [tstate EXCEPT ![t] = "linked"]
    /\ gsteps' = gsteps + 1
    /\ UNCHANGED <<lib, hist>>

(* exit_mm: a dying task drops its mm and stays linked as a zombie        *)
ExitMm(t) ==
    /\ gsteps < MaxGuestSteps
    /\ t \in Linked \ {InitTask} /\ mm[t] # 0
    /\ mm' = [mm EXCEPT ![t] = 0]
    /\ gsteps' = gsteps + 1
    /\ stable' = (stable /\ t # subject)
    /\ UNCHANGED <<next, pid, active_mm, tstate, lib, walkLinked, subject,
                   present, last>>

(* release_task: list_del_rcu unlinks the zombie and keeps its next       *)
Reap(t) ==
    /\ gsteps < MaxGuestSteps
    /\ t \in Linked \ {InitTask} /\ mm[t] = 0
    /\ next' = [next EXCEPT ![PrevOf(t)] = next[t]]
    /\ tstate' = [tstate EXCEPT ![t] = "removed"]
    /\ gsteps' = gsteps + 1
    /\ walkLinked' = walkLinked \ {t}
    /\ stable' = (stable /\ t # subject)
    /\ UNCHANGED <<pid, mm, active_mm, lib, subject, present, last>>

(* the RCU grace period ends and the slab reuses the task_struct: its     *)
(* fields become arbitrary bytes                                          *)
Free(t) ==
    /\ gsteps < MaxGuestSteps
    /\ tstate[t] = "removed"
    /\ \E n \in Entries, p \in Pids :
          /\ next' = [next EXCEPT ![t] = n]
          /\ pid' = [pid EXCEPT ![t] = p]
    /\ tstate' = [tstate EXCEPT ![t] = "freed"]
    /\ gsteps' = gsteps + 1
    /\ UNCHANGED <<mm, active_mm, lib, hist>>
-----------------------------------------------------------------------------
(***************************************************************************)
(* The library.  A client asks linux_pid_to_pgd(query) and hands the      *)
(* result to linux_pgd_to_pid, the round trip of the spec's law.          *)
(***************************************************************************)
UserTaskWith(p) == {u \in Linked : pid[u] = p /\ mm[u] # 0}

(* the call of linux_pid_to_pgd, entering linux_get_taskstruct_addr_from_pid*)
linux_pid_to_pgd(p) ==
    /\ op = "idle"
    /\ op' = "pid_walk" /\ query' = p
    /\ list_head' = InitTask /\ next_process' = InitTask /\ ts_addr' = 0
    /\ walkLinked' = Linked
    /\ present' = (\E u \in Linked : pid[u] = p)
    /\ subject' = IF UserTaskWith(p) = {} THEN 0 ELSE CHOOSE u \in UserTaskWith(p) : TRUE
    /\ stable' = TRUE
    /\ UNCHANGED <<guest, task_pgd, pgd, last>>

(* Advance the walk to the task whose list_head is the entry read at n.   *)
Advance(n, walking, done) ==
    /\ next_process' = n - TasksOffset
    /\ op' = IF next_process' = list_head THEN done ELSE walking
    /\ ts_addr' = 0

(* the mix-up of list_head for next_process in the read of ->tasks.next   *)
pid_walk_step_reads_head ==
    /\ op = "pid_walk"
    /\ \E task_pid \in ReadPid(next_process) :
          \/ task_pid = query /\ op' = "pid_tail" /\ ts_addr' = next_process
             /\ UNCHANGED next_process
          \/ task_pid # query /\ \E n \in ReadNext(list_head) :
                Advance(n, "pid_walk", "pid_tail")
    /\ UNCHANGED <<guest, hist, query, list_head, task_pgd, pgd>>

(* the end-of-list test moved ahead of the pid comparison                 *)
pid_walk_step_late_match ==
    /\ op = "pid_walk"
    /\ \E task_pid \in ReadPid(next_process), n \in ReadNext(next_process) :
          IF n - TasksOffset # list_head /\ task_pid = query
          THEN op' = "pid_tail" /\ ts_addr' = next_process /\ UNCHANGED next_process
          ELSE Advance(n, "pid_walk", "pid_tail")
    /\ UNCHANGED <<guest, hist, query, list_head, task_pgd, pgd>>

(* One iteration of the do-while of linux_get_taskstruct_addr_from_pid:   *)
(* read the pid, return on a match, else follow ->tasks.next, subtract    *)
(* tasks_offset and stop at the list head.                                *)
pid_walk_step ==
    /\ op = "pid_walk"
    /\ \E task_pid \in ReadPid(next_process) :
          \/ task_pid = query /\ op' = "pid_tail" /\ ts_addr' = next_process
             /\ UNCHANGED next_process
          \/ task_pid # query /\ \E n \in ReadNext(next_process) :
                Advance(n, "pid_walk", "pid_tail")
    /\ UNCHANGED <<guest, hist, query, list_head, task_pgd, pgd>>

(* pid_to_pgd without the final vmi_translate_kv2p                         *)
MmToPgd_untranslated(ptr, aptr) ==
    CASE ptr # 0 -> MmPgd[ptr]
      [] PageModeWidth = 0 \/ aptr = 0 -> 0
      [] OTHER -> MmPgd[aptr]

(* The rest of linux_pid_to_pgd on a found task: mm, else active_mm one   *)
(* pointer width further (width from the page mode; an unknown page mode  *)
(* or a NULL active_mm fails with 0), then ->pgd translated to physical.  *)
MmToPgd(ptr, aptr) ==
    CASE ptr # 0 -> kv2p(MmPgd[ptr])
      [] PageModeWidth = 0 \/ aptr = 0 -> 0
      [] OTHER -> kv2p(MmPgd[aptr])

linux_pid_to_pgd_tail ==
    /\ op = "pid_tail"
    /\ IF ts_addr = 0
       THEN pgd' = 0
       ELSE \E ptr \in ReadMm(ts_addr), aptr \in ReadActiveMm(ts_addr) :
               pgd' = MmToPgd(ptr, aptr)
    /\ op' = "have_pgd"
    /\ UNCHANGED <<guest, hist, query, list_head, next_process, ts_addr, task_pgd>>

(* the call of linux_pgd_to_pid on the pgd just returned                  *)
linux_pgd_to_pid ==
    /\ op = "have_pgd"
    /\ op' = "pgd_walk"
    /\ list_head' = InitTask /\ next_process' = InitTask /\ task_pgd' = 0
    /\ UNCHANGED <<guest, hist, query, ts_addr, pgd>>

(* the active_mm fallback taken whatever width the driver reports         *)
WalkMm_any_width(p1, p2) == IF p1 = 0 THEN p2 ELSE p1

(* The pointer whose ->pgd the pgd walk reads: mm, or active_mm when mm is *)
(* NULL and the driver reported a width.                                   *)
WalkMm(p1, p2) == IF p1 = 0 /\ Width # 0 THEN p2 ELSE p1

(* One iteration of the do-while of linux_get_taskstruct_addr_from_pgd.   *)
(* When the pointer is NULL the read of ->pgd fails and task_pgd keeps    *)
(* the value of the previous iteration, which is translated again.        *)
pgd_walk_step ==
    /\ op = "pgd_walk"
    /\ \E p1 \in ReadMm(next_process), p2 \in ReadActiveMm(next_process) :
          LET ptr == WalkMm(p1, p2)
              tp == kv2p(IF ptr # 0 THEN MmPgd[ptr] ELSE task_pgd)
          IN /\ task_pgd' = tp
             /\ \/ tp = pgd /\ op' = "pgd_tail" /\ ts_addr' = next_process
                   /\ UNCHANGED next_process
                \/ tp # pgd /\ \E n \in ReadNext(next_process) :
                      Advance(n, "pgd_walk", "pgd_tail")
    /\ UNCHANGED <<guest, hist, query, list_head, pgd>>

(* The rest of linux_pgd_to_pid: the pid of the found task, else -1; the  *)
(* client records the round trip.                                          *)
linux_pgd_to_pid_tail ==
    /\ op = "pgd_tail"
    /\ \E b \in IF ts_addr = 0 THEN {-1} ELSE ReadPid(ts_addr) :
          last' = [pid |-> query, present |-> present, subject |-> subject,
                   stable |-> stable, back |-> b]
    /\ op' = "idle"
    /\ UNCHANGED <<guest, query, list_head, next_process, ts_addr, task_pgd,
                   pgd, walkLinked, subject, stable, present>>

LibraryStep ==
    \/ pid_walk_step \/ linux_pid_to_pgd_tail \/ linux_pgd_to_pid
    \/ pgd_walk_step \/ linux_pgd_to_pid_tail

GuestStep == \E t \in TaskAddrs : Fork(t) \/ ExitMm(t) \/ Reap(t)

Next == (\E p \in Pids : linux_pid_to_pgd(p)) \/ LibraryStep \/ GuestStep

(* The walk is a synchronous loop of driver reads that each return, so    *)
(* the library steps are weakly fair; the client and the guest are not.   *)
Spec == Init /\ [][Next]_vars /\ WF_vars(LibraryStep)

(* The same system when exited task_structs are freed and reused.         *)
NextReuse == Next \/ \E t \in TaskAddrs : Free(t)
SpecReuse == Init /\ [][NextReuse]_vars /\ WF_vars(LibraryStep)
-----------------------------------------------------------------------------
TypeOK ==
    /\ next \in [TaskAddrs -> Entries] /\ pid \in [TaskAddrs -> Pids]
    /\ mm \in [TaskAddrs -> MmAddrs \cup {0}]
    /\ active_mm \in [TaskAddrs -> MmAddrs \cup {0}]
    /\ tstate \in [TaskAddrs -> {"unused", "linked", "removed", "freed"}]
    /\ InitTask \in Linked
    /\ op \in {"idle", "pid_walk", "pid_tail", "have_pgd", "pgd_walk", "pgd_tail"}
    /\ next_process \in Addrs \cup {0} /\ ts_addr \in Addrs \cup {0}
    /\ task_pgd \in PhysPgds \cup {0} /\ pgd \in PhysPgds \cup {0}

(* A pid walk that answers "not found" (memory.c:75-78) has visited every *)
(* task that stayed linked for the whole walk, although the guest forked, *)
(* exited and reaped tasks between its reads: list_del_rcu keeps the      *)
(* unlinked task's next, so a walk standing on it rejoins the ring.       *)
PidWalkComplete ==
    op = "pid_tail" /\ ts_addr = 0 => \A u \in walkLinked : pid[u] # query

(* The round trip pgd_to_pid(pid_to_pgd(p)) = p holds for a user task that *)
(* keeps its mm and stays linked while both walks run, on a driver that   *)
(* reports no address width, so the pgd walk never looks at active_mm.    *)
RoundTripUserTask ==
    last.subject # 0 /\ last.stable => last.back = last.pid

(* The spec's law: for every pid enumerated from the task list,           *)
(* pgd_to_pid(pid_to_pgd(pid)) = pid, here with the guest not changing.   *)
RoundTrip == last.present => last.back = last.pid

(* Every walk of the task list (memory.c:63-75, 118-141) returns.         *)
WalkTerminates == op \in {"pid_walk", "pgd_walk"} ~> op = "idle"
=============================================================================
