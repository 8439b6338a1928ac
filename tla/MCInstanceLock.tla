---------------------------- MODULE MCInstanceLock ----------------------------
(* Instances of InstanceLock: interchangeable processes.                   *)
EXTENDS InstanceLock, TLC

Symmetry == Permutations(Procs)
=============================================================================
