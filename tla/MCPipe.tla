------------------------------- MODULE MCPipe -------------------------------
(***************************************************************************)
(* Small instances of Pipe for TLC.                                        *)
(***************************************************************************)
EXTENDS Pipe, TLC

Symm == Permutations(Writers) \cup Permutations(Readers)

=============================================================================
