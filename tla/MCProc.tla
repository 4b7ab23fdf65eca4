------------------------------- MODULE MCProc -------------------------------
(* Instances of Proc for TLC. *)
EXTENDS Proc, TLC

Symm == Permutations(Procs \ {Initproc}) \cup Permutations(CPUs)

=============================================================================
