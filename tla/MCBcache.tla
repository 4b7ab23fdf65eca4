------------------------------ MODULE MCBcache -------------------------------
(***************************************************************************)
(* Small instances of Bcache for TLC.                                      *)
(***************************************************************************)
EXTENDS Bcache, TLC

Symm == Permutations(Procs) \cup Permutations(Blocks)
=============================================================================
