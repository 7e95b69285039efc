-------------------------- MODULE MC_KvmPatchSocket --------------------------
(* Two bytes of guest RAM with values 0 and 1; reads and writes of one or *)
(* two bytes at 0 or 1, so that 1 + 2 runs past the end of RAM.           *)
EXTENDS KvmPatchSocket

MC_Vals == {0, 1}
MC_Paddrs == {0, 1}
MC_Lengths == {1, 2}
====
