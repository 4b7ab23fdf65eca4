------------------------------ MODULE MCBlocks ------------------------------
(* Two processes and two struct files, on a disk with four free blocks: a  *)
(* file of one block and an empty one can each grow into their indirect    *)
(* block, not both.                                                        *)
EXTENDS Blocks, TLC

CONSTANTS p1, p2, f1, f2

MCProcs == {p1, p2}
MCFiles == {f1, f2}
OneFile == <<1>>
MCWrites == {3, 4}
MCReads == {6}
Symmetry == Permutations(MCProcs) \cup Permutations(MCFiles)

(* Which free block balloc takes makes no difference: states that agree on *)
(* what each slot of each inode holds count as one, if no block is shared. *)
Slots == 0..(NDIRECT + NINDIRECT)
Held(i) == [k \in Slots |->
  LET a == Address(inode[i], k) IN
  <<a # 0, IF a = 0 \/ k = NDIRECT THEN <<>> ELSE disk[a]>>]
Thread(p) == <<[th[p] EXCEPT !.logged = {b \in @ : b < nmeta}],
               {k \in Slots : th[p].i # 0 /\ Address(inode[th[p].i], k) \in th[p].logged}>>
MCView == IF BlocksOwnedOnce
          THEN <<[i \in Inums |-> <<Held(i), inode[i].size, lock[i], want[i]>>],
                 file, [p \in Procs |-> Thread(p)], panic>>
          ELSE vars
==============================================================================
