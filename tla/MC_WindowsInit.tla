-------------------------- MODULE MC_WindowsInit --------------------------
(* Instantiation of WindowsInit for TLC: words of 4 bits (Half = 16), a   *)
(* System EPROCESS whose 32-bit fields are followed by a nonzero word, a *)
(* Windows 7 profile, an XP profile, one lacking UniqueProcessId, and no  *)
(* profile (the KDBG path).                                               *)
EXTENDS WindowsInit, TLC

MC_Common == {"DirectoryTableBase", "ActiveProcessLinks", "UniqueProcessId",
              "ImageFileName", "KernBase", "NtBuildNumber",
              "PsActiveProcessHead", "PsInitialSystemProcess", "KdVersionBlock"}
MC_Win7 == MC_Common \cup {"KiInitialPCR"}
MC_WinXP == MC_Common \cup {"_KPCR.KdVersionBlock"}
MC_Profiles == {MC_Win7, MC_WinXP, MC_Win7 \ {"UniqueProcessId"}, {}}
MC_Configs == {{}, {"win_pdbase", "win_tasks", "win_pid", "win_pname"}}
MC_Faults == {"sysproc_scan", "kdbg", "list_search",
              "PsInitialSystemProcess", "ksym_fallback"}
\* a Windows 7 SP1 build and a Windows 10 build ntbuild2version lacks
MC_Builds == {7601, 10240}
\* the VCPU's CR3 at attach: a page-aligned directory above ntoskrnl for
\* LEGACY and IA-32e, a 32-byte-aligned PDPT for PAE
MC_BootCr3 == [m \in {"LEGACY", "PAE", "IA32E"} |-> IF m = "PAE" THEN 6 ELSE 12]
\* header word, ActiveProcessLinks (Flink, Blink), DirectoryTableBase[0..1]
MC_SysMem == (0 :> <<2, 1>>) @@ (4 :> <<15, 13>>) @@ (2 :> <<4, 9>>)
\* the process after System: pid 8, DirectoryTableBase 5 followed by word 3
MC_UserPdbase == <<5, 3>>
=============================================================================
