-------------------------- MODULE MCVirtualMemory --------------------------
(* VirtualMemory for TLC: the processes are interchangeable. *)
EXTENDS VirtualMemory, TLC

ProcessSymmetry == Permutations(Process)
=============================================================================
