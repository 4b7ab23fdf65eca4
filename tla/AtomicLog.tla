------------------------------ MODULE AtomicLog ------------------------------
(***************************************************************************)
(* What kernel/log.c promises to the file system.  A file-system call      *)
(* (begin_op ... end_op) sees one array of blocks; the blocks that survive *)
(* a crash are a second array.  The second one takes over the first in one *)
(* step, and only while no call is in progress, so that a crash never      *)
(* leaves part of a call's writes on the disk.                             *)
(***************************************************************************)

CONSTANTS
  Procs,     \* processes that make file-system calls
  Blocks,    \* block numbers outside the log
  Data,      \* block contents
  InitData   \* the contents mkfs gives a block

VARIABLES
  durable,   \* contents a restart would come back with
  current,   \* contents the running system sees
  active     \* processes between begin_op and end_op

absVars == <<durable, current, active>>

AbsInit ==
  /\ durable = [b \in Blocks |-> InitData]
  /\ current = durable
  /\ active = {}

Begin(p) ==
  /\ p \notin active
  /\ active' = active \cup {p}
  /\ UNCHANGED <<durable, current>>

Write(p, b, v) ==
  /\ p \in active
  /\ current' = [current EXCEPT ![b] = v]
  /\ UNCHANGED <<durable, active>>

End(p) ==
  /\ p \in active
  /\ active' = active \ {p}
  /\ UNCHANGED <<durable, current>>

CommitAll ==
  /\ active = {}
  /\ durable' = current
  /\ UNCHANGED <<current, active>>

Crash ==
  /\ current' = durable
  /\ active' = {}
  /\ UNCHANGED durable

AbsNext ==
  \/ \E p \in Procs : Begin(p) \/ End(p)
  \/ \E p \in Procs, b \in Blocks, v \in Data : Write(p, b, v)
  \/ CommitAll
  \/ Crash

AbsSpec == AbsInit /\ [][AbsNext]_absVars

=============================================================================
