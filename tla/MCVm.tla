-------------------------------- MODULE MCVm --------------------------------
(* Two processes; so many pages that both fit when small, and every        *)
(* allocation of fork, sbrk and exec fails in some state.                  *)
EXTENDS Vm

MCPrograms == {<<[vaddr |-> 0, memsz |-> 1, value |-> 8], [vaddr |-> 2, memsz |-> 1, value |-> 9]>>}
MCGrow == {1, 6, -7}

(* Which page holds what makes no difference: states with the same shape   *)
(* and the same verdicts count as one.                                     *)
Shape(p) == IF proc[p].used
            THEN <<proc[p].sz, [x \in Places |-> PageAt(p, x) # 0],
                   [v \in 0..7 |-> Pte(mem, proc[p].pagetable, v).u], image[p]>>
            ELSE <<>>
MCView == <<mem.panic, PagesOwnedOnce, MemoryIsImage, [p \in Procs |-> Shape(p)]>>
==============================================================================
