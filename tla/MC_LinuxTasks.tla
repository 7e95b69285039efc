--------------------------- MODULE MC_LinuxTasks ---------------------------
(* Instantiation of LinuxTasks for TLC: four task_struct slots 16 bytes    *)
(* apart, three of them in the initial ring, with the tasks list_head at  *)
(* offset 8; two mm_structs whose pgd VAs translate to distinct frames. *)
EXTENDS LinuxTasks

MC_TaskAddrs == {16, 32, 48, 64}
MC_InitRing == <<16, 32, 48>>
MC_InitPid == [t \in MC_TaskAddrs |-> IF t = 64 THEN 0 ELSE (t \div 16) - 1]
MC_Pids == {0, 1, 2, 3}
MC_MmAddrs == {1, 2}
MC_MmPgd == [m \in MC_MmAddrs |-> 100 + m]
MC_KernelMap == [v \in {101, 102} |-> v + 100]
=============================================================================
