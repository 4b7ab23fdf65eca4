-------------------------------- MODULE MCLog --------------------------------
(***************************************************************************)
(* Small instances of Log for TLC.                                         *)
(***************************************************************************)
EXTENDS Log, TLC

Symm == Permutations(Procs) \cup Permutations(Blocks)

=============================================================================
