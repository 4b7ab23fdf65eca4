------------------------------ MODULE MCVirtio -------------------------------
(***************************************************************************)
(* Small instances of Virtio for TLC.                                      *)
(***************************************************************************)
EXTENDS Virtio, TLC

(***************************************************************************)
(* The view leaves out what no step reads again: ring entries both sides   *)
(* have passed, and ops and info of chains that have been freed.  With two *)
(* contents, which of them a block has does not matter either, only where  *)
(* buffer, disk and request agree.                                         *)
(***************************************************************************)
Unread(ring, from, to) ==
  [n \in 0 .. ((to - from) % IDX) - 1 |-> ring[(from + n) % NUM]]
Writing == IF \E p \in Procs : pc[p] = "publish" THEN 1 ELSE 0
Heads == {req[p].idx[1] : p \in Sent}
OnDisk(p) ==
  LET b == req[p].b IN b # NoBuf /\ sectors[b] = req[p].v

View ==
  <<free, desc, addr, [i \in Heads |-> <<ops[i], info[i]>>],
    Unread(avail, taken, avail_idx + Writing), taken, avail_idx,
    Unread(used, used_idx, used_top), used_top, bdisk,
    [b \in Bufs |-> data[b] = sectors[b]], [p \in Procs |-> OnDisk(p)],
    [p \in Procs |-> <<req[p].b, req[p].write, req[p].idx>>],
    lock, pc, kicked, working, owed, irq, intr, panic>>

Symm == Permutations(Procs) \cup Permutations(Bufs)
=============================================================================
