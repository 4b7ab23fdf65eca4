--------------------------------- MODULE Log ---------------------------------
(***************************************************************************)
(* kernel/log.c: the redo log under the file system.  Several processes    *)
(* run file-system calls; the last one to leave commits the blocks all of  *)
(* them logged; the machine may crash between any two disk writes, during  *)
(* recovery too, and restarts with recover_from_log.                       *)
(*                                                                         *)
(* The buffer cache is kept to what the log depends on: the contents of a  *)
(* cached block, its pins, its sleep lock, and that a block nobody uses    *)
(* may be recycled at any time (bget).  A sequence stands for the first n  *)
(* entries of a struct logheader.  A disk write of one block is atomic.    *)
(***************************************************************************)
EXTENDS Integers, Sequences, FiniteSets

CONSTANTS
  Procs,        \* processes that make file-system calls
  Blocks,       \* block numbers outside the log
  Data,         \* block contents
  InitData,     \* the contents mkfs gives a block
  NoData,       \* "not in the cache"
  NoProc,       \* "nobody holds the buffer's sleep lock"
  MAXOPBLOCKS,  \* what begin_op reserves for one call (param.h)
  LOGSIZE,      \* what begin_op lets all calls reserve (param.h)
  NLOG,         \* log blocks on the disk, the header included (mkfs: LOGSIZE)
  OpBlocks      \* distinct blocks a call really logs, at most

ASSUME DataAssumption == InitData \in Data /\ NoData \notin Data
ASSUME ProcAssumption == IsFiniteSet(Procs) /\ NoProc \notin Procs
ASSUME SizeAssumption ==
  /\ MAXOPBLOCKS \in Nat \ {0}
  /\ LOGSIZE \in Nat /\ MAXOPBLOCKS <= LOGSIZE
  /\ NLOG \in Nat \ {0}
  /\ OpBlocks \in 0..MAXOPBLOCKS

VARIABLES
  disk,         \* contents of the home blocks on the disk
  logdata,      \* contents of the log's data blocks on the disk
  head,         \* the log header on the disk
  cache,        \* contents of the home blocks in the buffer cache, or NoData
  pin,          \* references bpin has added to a block's refcnt
  owner,        \* holder of a buffer's sleep lock
  lh,           \* log.lh
  outstanding,  \* log.outstanding
  committing,   \* log.committing
  pc,           \* where each process is
  wrote,        \* the blocks each process has logged in its current call
  tail,         \* loop index of write_log and install_trans, from 1
  boot,         \* where recovery is; "up" once it is over
  panic         \* the panic() that was called, if any

diskVars == <<disk, logdata, head>>
vars == <<disk, logdata, head, cache, pin, owner, lh, outstanding, committing,
          pc, wrote, tail, boot, panic>>

LogSlots == 1 .. NLOG - 1
OpPc == {"trans", "buf"}
CommitPc == {"write_log", "write_head", "install_trans", "clear", "done"}

TypeOK ==
  /\ disk \in [Blocks -> Data]
  /\ logdata \in [LogSlots -> Data]
  /\ head \in Seq(Blocks)
  /\ cache \in [Blocks -> Data \cup {NoData}]
  /\ pin \in [Blocks -> Nat]
  /\ owner \in [Blocks -> Procs \cup {NoProc}]
  /\ lh \in Seq(Blocks)
  /\ outstanding \in Nat
  /\ committing \in {0, 1}
  /\ pc \in [Procs -> {"idle", "asleep", "woken"} \cup OpPc \cup CommitPc]
  /\ wrote \in [Procs -> SUBSET Blocks]
  /\ tail \in Nat
  /\ boot \in {"read_head", "install_trans", "clear", "up"}
  /\ panic \in {"none", "log.committing", "too big a transaction", "log_write outside of trans"}

Init ==
  /\ disk = [b \in Blocks |-> InitData]
  /\ logdata = [i \in LogSlots |-> InitData]
  /\ head = <<>>
  /\ cache = [b \in Blocks |-> NoData]
  /\ pin = [b \in Blocks |-> 0]
  /\ owner = [b \in Blocks |-> NoProc]
  /\ lh = <<>>
  /\ outstanding = 0
  /\ committing = 0
  /\ pc = [p \in Procs |-> "idle"]
  /\ wrote = [p \in Procs |-> {}]
  /\ tail = 0
  /\ boot = "read_head"
  /\ panic = "none"

Goto(p, l) == pc' = [pc EXCEPT ![p] = l]

\* Every process asleep on &log becomes runnable; p itself moves to l.
WakeupGoto(p, l) ==
  pc' = [q \in Procs |-> IF q = p THEN l
                         ELSE IF pc[q] = "asleep" THEN "woken" ELSE pc[q]]

\* What bread(b) puts in, or finds in, the cache.
Contents(b) == IF cache[b] = NoData THEN disk[b] ELSE cache[b]

(***************************************************************************)
(* begin_op and end_op.  Each runs under log.lock from one sleep() to the  *)
(* next, which makes each pass of its loop one step.                       *)
(***************************************************************************)
\* Mutant: begin_op does not wait for a commit in progress.
LogBusyIgnoresCommit == Len(lh) + (outstanding + 1) * MAXOPBLOCKS > LOGSIZE

\* Mutant: begin_op counts the calls in progress, not itself.
LogBusyOffByOne == committing = 1 \/ Len(lh) + outstanding * MAXOPBLOCKS > LOGSIZE

LogBusy == committing = 1 \/ Len(lh) + (outstanding + 1) * MAXOPBLOCKS > LOGSIZE

Admit(p) ==
  /\ IF LogBusy
       THEN Goto(p, "asleep") /\ UNCHANGED <<outstanding, wrote>>
       ELSE /\ outstanding' = outstanding + 1
            /\ wrote' = [wrote EXCEPT ![p] = {}]
            /\ Goto(p, "trans")
  /\ UNCHANGED <<diskVars, cache, pin, owner, lh, committing, tail, boot, panic>>

begin_op(p) == boot = "up" /\ pc[p] = "idle" /\ Admit(p)

begin_op_again(p) == pc[p] = "woken" /\ Admit(p)

\* Mutant: commit() writes the header without the blocks.
CommitStartNoData == IF lh = <<>> THEN "done" ELSE "write_head"

\* commit() does nothing when the log is empty.
CommitStart == IF lh = <<>> THEN "done" ELSE "write_log"

end_op(p) ==
  /\ pc[p] = "trans"
  /\ outstanding' = outstanding - 1
  /\ panic' = IF committing = 1 THEN "log.committing" ELSE "none"
  /\ IF outstanding' = 0
       THEN /\ committing' = 1
            /\ tail' = 1
            /\ Goto(p, CommitStart)
       ELSE /\ WakeupGoto(p, "idle")
            /\ UNCHANGED <<committing, tail>>
  /\ UNCHANGED <<diskVars, cache, pin, owner, lh, wrote, boot>>

(***************************************************************************)
(* What a call does in between: bread, modify and log_write, brelse.       *)
(***************************************************************************)
bread(p, b) ==
  /\ pc[p] = "trans"
  /\ owner[b] = NoProc
  /\ owner' = [owner EXCEPT ![b] = p]
  /\ cache' = [cache EXCEPT ![b] = Contents(b)]
  /\ Goto(p, "buf")
  /\ UNCHANGED <<diskVars, pin, lh, outstanding, committing, wrote, tail, boot, panic>>

TooBig == Len(lh) >= LOGSIZE \/ Len(lh) >= NLOG - 1

log_write(p, b, v) ==
  /\ pc[p] = "buf"
  /\ owner[b] = p
  /\ Cardinality(wrote[p] \cup {b}) <= OpBlocks
  /\ cache' = [cache EXCEPT ![b] = v]
  /\ wrote' = [wrote EXCEPT ![p] = @ \cup {b}]
  /\ panic' = IF TooBig THEN "too big a transaction"
              ELSE IF outstanding < 1 THEN "log_write outside of trans" ELSE "none"
  /\ IF panic' # "none" \/ \E i \in DOMAIN lh : lh[i] = b
       THEN UNCHANGED <<lh, pin>>
       ELSE /\ lh' = Append(lh, b)
            /\ pin' = [pin EXCEPT ![b] = @ + 1]
  /\ UNCHANGED <<diskVars, owner, outstanding, committing, pc, tail, boot>>

brelse(p, b) ==
  /\ pc[p] = "buf"
  /\ owner[b] = p
  /\ owner' = [owner EXCEPT ![b] = NoProc]
  /\ Goto(p, "trans")
  /\ UNCHANGED <<diskVars, cache, pin, lh, outstanding, committing, wrote, tail, boot, panic>>

\* bget recycles a buffer whose refcnt is zero.
bget_recycle(b) ==
  /\ pin[b] = 0 /\ owner[b] = NoProc /\ cache[b] # NoData
  /\ cache' = [cache EXCEPT ![b] = NoData]
  /\ UNCHANGED <<diskVars, pin, owner, lh, outstanding, committing, pc, wrote, tail, boot, panic>>

(***************************************************************************)
(* commit(), by the process whose end_op was the last one: one step per    *)
(* disk write.                                                             *)
(***************************************************************************)
write_log(p) ==
  /\ pc[p] = "write_log"
  /\ owner[lh[tail]] = NoProc
  /\ logdata' = [logdata EXCEPT ![tail] = Contents(lh[tail])]
  /\ cache' = [cache EXCEPT ![lh[tail]] = Contents(lh[tail])]
  /\ tail' = tail + 1
  /\ Goto(p, IF tail = Len(lh) THEN "write_head" ELSE "write_log")
  /\ UNCHANGED <<disk, head, pin, owner, lh, outstanding, committing, wrote, boot, panic>>

write_head(p) ==
  /\ pc[p] = "write_head"
  /\ head' = lh
  /\ tail' = 1
  /\ Goto(p, "install_trans")
  /\ UNCHANGED <<disk, logdata, cache, pin, owner, lh, outstanding, committing, wrote, boot, panic>>

\* The body of install_trans's loop, bunpin aside.
InstallOne ==
  /\ owner[lh[tail]] = NoProc
  /\ disk' = [disk EXCEPT ![lh[tail]] = logdata[tail]]
  /\ cache' = [cache EXCEPT ![lh[tail]] = logdata[tail]]
  /\ tail' = tail + 1

\* Mutant: commit() calls install_trans(1), which unpins nothing.
install_trans_keeps_pins(p) ==
  /\ pc[p] = "install_trans"
  /\ InstallOne
  /\ Goto(p, IF tail = Len(lh) THEN "clear" ELSE "install_trans")
  /\ UNCHANGED <<logdata, head, pin, owner, lh, outstanding, committing, wrote, boot, panic>>

install_trans(p) ==
  /\ pc[p] = "install_trans"
  /\ InstallOne
  /\ pin' = [pin EXCEPT ![lh[tail]] = @ - 1]
  /\ Goto(p, IF tail = Len(lh) THEN "clear" ELSE "install_trans")
  /\ UNCHANGED <<logdata, head, owner, lh, outstanding, committing, wrote, boot, panic>>

\* log.lh.n = 0; write_head().
ClearLog == lh' = <<>> /\ head' = <<>>

commit_clear(p) ==
  /\ pc[p] = "clear"
  /\ ClearLog
  /\ Goto(p, "done")
  /\ UNCHANGED <<disk, logdata, cache, pin, owner, outstanding, committing, wrote, tail, boot, panic>>

\* Mutant: nobody is woken up after a commit.
end_op_done_silent(p) ==
  /\ pc[p] = "done"
  /\ committing' = 0
  /\ tail' = 0
  /\ Goto(p, "idle")
  /\ UNCHANGED <<diskVars, cache, pin, owner, lh, outstanding, wrote, boot, panic>>

\* The end of end_op, after commit().
end_op_done(p) ==
  /\ pc[p] = "done"
  /\ committing' = 0
  /\ tail' = 0
  /\ WakeupGoto(p, "idle")
  /\ UNCHANGED <<diskVars, cache, pin, owner, lh, outstanding, wrote, boot, panic>>

(***************************************************************************)
(* A crash loses everything but the disk.  initlog then runs recovery      *)
(* before any process can make a file-system call.                         *)
(***************************************************************************)
Crash ==
  /\ cache' = [b \in Blocks |-> NoData]
  /\ pin' = [b \in Blocks |-> 0]
  /\ owner' = [b \in Blocks |-> NoProc]
  /\ lh' = <<>>
  /\ outstanding' = 0
  /\ committing' = 0
  /\ pc' = [p \in Procs |-> "idle"]
  /\ wrote' = [p \in Procs |-> {}]
  /\ tail' = 0
  /\ boot' = "read_head"
  /\ UNCHANGED <<diskVars, panic>>

recover_read_head ==
  /\ boot = "read_head"
  /\ lh' = head
  /\ tail' = 1
  /\ boot' = IF head = <<>> THEN "clear" ELSE "install_trans"
  /\ UNCHANGED <<diskVars, cache, pin, owner, outstanding, committing, pc, wrote, panic>>

recover_install ==
  /\ boot = "install_trans"
  /\ InstallOne
  /\ boot' = IF tail = Len(lh) THEN "clear" ELSE "install_trans"
  /\ UNCHANGED <<logdata, head, pin, owner, lh, outstanding, committing, pc, wrote, panic>>

recover_clear ==
  /\ boot = "clear"
  /\ ClearLog
  /\ tail' = 0
  /\ boot' = "up"
  /\ UNCHANGED <<disk, logdata, cache, pin, owner, outstanding, committing, pc, wrote, panic>>

Commit(p) == write_log(p) \/ write_head(p) \/ install_trans(p) \/ commit_clear(p) \/ end_op_done(p)

Recover == recover_read_head \/ recover_install \/ recover_clear

Next ==
  /\ panic = "none"
  /\ \/ \E p \in Procs :
          \/ begin_op(p) \/ begin_op_again(p) \/ end_op(p)
          \/ \E b \in Blocks : bread(p, b) \/ brelse(p, b) \/ \E v \in Data : log_write(p, b, v)
          \/ Commit(p)
     \/ \E b \in Blocks : bget_recycle(b)
     \/ Recover
     \/ Crash

Spec == Init /\ [][Next]_vars

(***************************************************************************)
(* Fairness: a runnable process is eventually run (the scheduler scans     *)
(* every slot), and a file-system call, being a bounded loop over blocks,  *)
(* eventually releases its buffers and reaches end_op.                     *)
(***************************************************************************)
Fairness ==
  /\ WF_vars(panic = "none" /\ Recover)
  /\ \A p \in Procs :
       /\ WF_vars(panic = "none" /\ begin_op_again(p))
       /\ WF_vars(panic = "none" /\ Commit(p))
       /\ SF_vars(panic = "none" /\ end_op(p))
       /\ WF_vars(panic = "none" /\ \E b \in Blocks : brelse(p, b))

FairSpec == Spec /\ Fairness

(***************************************************************************)
(* Properties.                                                             *)
(***************************************************************************)

\* The blocks a restart would come back with: recover_from_log copies the log
\* blocks the header on the disk names over their home blocks.
Recovered(d, l, h) ==
  [b \in Blocks |->
     IF \E i \in 1 .. Len(h) : h[i] = b
       THEN l[CHOOSE i \in 1 .. Len(h) : h[i] = b]
       ELSE d[b]]

Durable == Recovered(disk, logdata, head)

\* The blocks bread() gives the file system now, or will once recovery is over.
Current == IF boot = "up" THEN [b \in Blocks |-> Contents(b)] ELSE Durable

Active == {p \in Procs : pc[p] \in OpPc}

AL == INSTANCE AtomicLog WITH durable <- Durable, current <- Current, active <- Active

\* Crash atomicity: log.c implements AtomicLog.  What survives a crash changes
\* only at write_head, to everything the finished calls wrote, while no call is
\* in progress; installing, clearing and recovering the log, recycling buffers
\* and crashing again in the middle of any of them change nothing.
CrashAtomic == AL!AbsSpec

\* No call that logs at most OpBlocks blocks reaches one of the panics of
\* log_write and end_op: begin_op's reservations leave room for all of them.
NoPanic == panic = "none"

\* While a process is in commit() it is alone there and no call is between
\* begin_op and end_op, so write_log copies only finished calls' blocks.
CommitAlone ==
  \A p \in Procs : pc[p] \in CommitPc =>
    committing = 1 /\ Active = {} /\ \A q \in Procs \ {p} : pc[q] \notin CommitPc

\* A buffer that differs from its home block on the disk is pinned, and only
\* such a block's update can be lost by recycling; the pins are all gone when
\* the log is empty, so commits do not leak buffers.
PinsProtectDirty ==
  boot = "up" /\ panic = "none" =>
    /\ \A b \in Blocks : cache[b] \notin {NoData, disk[b]} => pin[b] > 0
    /\ lh = <<>> => \A b \in Blocks : pin[b] = 0

\* A process asleep in begin_op always has somebody left who will wake it: a
\* call in progress, or a commit.
SleeperHasWaker ==
  (\E p \in Procs : pc[p] = "asleep") => outstanding > 0 \/ committing = 1

\* A process asleep in begin_op is woken up (a crash counts: it ends the call).
SleeperWoken == \A p \in Procs : pc[p] = "asleep" ~> pc[p] # "asleep"

=============================================================================
