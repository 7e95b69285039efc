---------------------------- MODULE MC_KvmSnapshot ----------------------------
(* Model-checking instance of KvmSnapshot: the kernel and one process, one *)
(* mapped page each, one virtual frame looked up.                          *)
EXTENDS KvmSnapshot

MC_Pids == {0, 1}
MC_VAddrs == {0}
MC_AddressSpace == [p \in MC_Pids |-> << [vaddr |-> 0, paddr |-> p, size |-> 1] >>]
=============================================================================
