------------------------------- MODULE Bcache --------------------------------
(***************************************************************************)
(* kernel/bio.c with kernel/sleeplock.c: the buffer cache.  A process asks *)
(* for a block with bread, may change and write it, pin or unpin it, and   *)
(* gives it back with brelse.  The sections under bcache.lock, under a     *)
(* sleep lock's lk, and the disk transfers are the steps.                  *)
(*                                                                         *)
(* There is one device, so a buffer is named by its block number alone.  A *)
(* process has one buffer at a time.  What a caller changed it writes or   *)
(* pins before it calls brelse, and it unpins only what it has written:    *)
(* the log does both.                                                      *)
(***************************************************************************)
EXTENDS Integers, FiniteSets, FiniteSetsExt

CONSTANTS
  Procs,     \* processes
  Blocks,    \* block numbers
  NBUF,      \* buffers (param.h)
  Data,      \* block contents
  InitData,  \* the contents of every block at first
  MaxPins,   \* buffers the log pins at a time, at most
  NoBlock,   \* the block of a buffer never used
  NoProc     \* "nobody"

ASSUME BcacheAssumption ==
  /\ InitData \in Data /\ NoBlock \notin Blocks /\ NoProc \notin Procs
  /\ NBUF \in Nat \ {0} /\ MaxPins \in Nat /\ IsFiniteSet(Procs)

Bufs == 1 .. NBUF

VARIABLES
  blockno,  \* b->blockno
  valid,    \* b->valid
  refcnt,   \* b->refcnt
  data,     \* b->data
  lru,      \* the list, bcache.head.next first
  locked,   \* b->lock.locked
  pid,      \* b->lock.pid
  disk,     \* the blocks on the disk
  pc,       \* where each process is
  want,     \* the block each process asked bread for
  buf,      \* the buffer bget found for it
  pinned,   \* buffers the log has pinned
  panic     \* the panic() that was called, if any

vars == <<blockno, valid, refcnt, data, lru, locked, pid, disk, pc, want, buf,
          pinned, panic>>
procVars == <<want, buf>>
listVars == <<blockno, refcnt, lru>>
lockVars == <<locked, pid>>

HoldPc == {"got", "reading", "held", "writing"}
UsePc == HoldPc \cup {"lock", "asleep", "woken", "put"}

TypeOK ==
  /\ blockno \in [Bufs -> Blocks \cup {NoBlock}]
  /\ valid \in [Bufs -> {0, 1}]
  /\ refcnt \in [Bufs -> Nat]
  /\ data \in [Bufs -> Data]
  /\ lru \in [Bufs -> Bufs] /\ \A b \in Bufs : \E i \in Bufs : lru[i] = b
  /\ locked \in [Bufs -> {0, 1}]
  /\ pid \in [Bufs -> Procs \cup {NoProc}]
  /\ disk \in [Blocks -> Data]
  /\ pc \in [Procs -> {"idle"} \cup UsePc]
  /\ want \in [Procs -> Blocks \cup {NoBlock}]
  /\ buf \in [Procs -> Bufs]
  /\ pinned \in SUBSET Bufs
  /\ panic \in {"none", "bget", "bwrite", "brelse"}

\* binit puts each buffer at the front of the list.
Init ==
  /\ blockno = [b \in Bufs |-> NoBlock]
  /\ valid = [b \in Bufs |-> 0]
  /\ refcnt = [b \in Bufs |-> 0]
  /\ data = [b \in Bufs |-> InitData]
  /\ lru = [i \in Bufs |-> NBUF + 1 - i]
  /\ locked = [b \in Bufs |-> 0]
  /\ pid = [b \in Bufs |-> NoProc]
  /\ disk = [k \in Blocks |-> InitData]
  /\ pc = [p \in Procs |-> "idle"]
  /\ want = [p \in Procs |-> NoBlock]
  /\ buf = [p \in Procs |-> 1]
  /\ pinned = {}
  /\ panic = "none"

Goto(p, l) == pc' = [pc EXCEPT ![p] = l]

(***************************************************************************)
(* bget                                                                    *)
(***************************************************************************)
\* Mutant: an unused buffer is not looked at.
Find_in_use(k) == {i \in Bufs : blockno[lru[i]] = k /\ refcnt[lru[i]] > 0}

\* The places of the list that have block k, and those of unused buffers: bget
\* takes the first of the former or else the last of the latter.
Find(k) == {i \in Bufs : blockno[lru[i]] = k}
Unused == {i \in Bufs : refcnt[lru[i]] = 0}

bget_hit(p, k) ==
  /\ pc[p] = "idle" /\ Find(k) # {}
  /\ buf' = [buf EXCEPT ![p] = lru[Min(Find(k))]]
  /\ refcnt' = [refcnt EXCEPT ![lru[Min(Find(k))]] = @ + 1]
  /\ want' = [want EXCEPT ![p] = k]
  /\ Goto(p, "lock")
  /\ UNCHANGED <<blockno, valid, data, lru, lockVars, disk, pinned, panic>>

\* Mutant: the old contents stay valid.
bget_recycle_valid(p, k) ==
  /\ pc[p] = "idle" /\ Find(k) = {} /\ Unused # {}
  /\ LET b == lru[Max(Unused)] IN
       /\ buf' = [buf EXCEPT ![p] = b]
       /\ blockno' = [blockno EXCEPT ![b] = k]
       /\ refcnt' = [refcnt EXCEPT ![b] = 1]
  /\ want' = [want EXCEPT ![p] = k]
  /\ Goto(p, "lock")
  /\ UNCHANGED <<valid, data, lru, lockVars, disk, pinned, panic>>

bget_recycle(p, k) ==
  /\ pc[p] = "idle" /\ Find(k) = {} /\ Unused # {}
  /\ LET b == lru[Max(Unused)] IN
       /\ buf' = [buf EXCEPT ![p] = b]
       /\ blockno' = [blockno EXCEPT ![b] = k]
       /\ valid' = [valid EXCEPT ![b] = 0]
       /\ refcnt' = [refcnt EXCEPT ![b] = 1]
  /\ want' = [want EXCEPT ![p] = k]
  /\ Goto(p, "lock")
  /\ UNCHANGED <<data, lru, lockVars, disk, pinned, panic>>

bget_none(p, k) ==
  /\ pc[p] = "idle" /\ Find(k) = {} /\ Unused = {}
  /\ panic' = "bget"
  /\ UNCHANGED <<listVars, valid, data, lockVars, disk, pc, procVars, pinned>>

(***************************************************************************)
(* Sleep locks.  sleep() gives lk up and marks the process asleep in one   *)
(* step as far as releasesleep can see.                                    *)
(***************************************************************************)
acquiresleep(p) ==
  /\ pc[p] \in {"lock", "woken"}
  /\ IF locked[buf[p]] = 1
       THEN Goto(p, "asleep") /\ UNCHANGED lockVars
       ELSE /\ locked' = [locked EXCEPT ![buf[p]] = 1]
            /\ pid' = [pid EXCEPT ![buf[p]] = p]
            /\ Goto(p, "got")
  /\ UNCHANGED <<listVars, valid, data, disk, procVars, pinned, panic>>

\* Mutant: nobody is woken.
releasesleep_silent(p) ==
  /\ locked' = [locked EXCEPT ![buf[p]] = 0]
  /\ pid' = [pid EXCEPT ![buf[p]] = NoProc]
  /\ Goto(p, "put")

releasesleep(p) ==
  /\ locked' = [locked EXCEPT ![buf[p]] = 0]
  /\ pid' = [pid EXCEPT ![buf[p]] = NoProc]
  /\ pc' = [q \in Procs |->
              IF q = p THEN "put"
              ELSE IF pc[q] = "asleep" /\ buf[q] = buf[p] THEN "woken" ELSE pc[q]]

holdingsleep(p) == locked[buf[p]] = 1 /\ pid[buf[p]] = p

(***************************************************************************)
(* bread, after bget; bwrite; the caller; brelse; bpin and bunpin.         *)
(***************************************************************************)
bread(p) ==
  /\ pc[p] = "got"
  /\ Goto(p, IF valid[buf[p]] = 1 THEN "held" ELSE "reading")
  /\ UNCHANGED <<listVars, valid, data, lockVars, disk, procVars, pinned, panic>>

\* virtio_disk_rw(b, 0) has returned.
bread_done(p) ==
  /\ pc[p] = "reading"
  /\ data' = [data EXCEPT ![buf[p]] = disk[blockno[buf[p]]]]
  /\ valid' = [valid EXCEPT ![buf[p]] = 1]
  /\ Goto(p, "held")
  /\ UNCHANGED <<listVars, lockVars, disk, procVars, pinned, panic>>

\* The caller changes the block.
modify(p, v) ==
  /\ pc[p] = "held"
  /\ data' = [data EXCEPT ![buf[p]] = v]
  /\ UNCHANGED <<listVars, valid, lockVars, disk, pc, procVars, pinned, panic>>

bwrite(p) ==
  /\ pc[p] = "held"
  /\ IF holdingsleep(p)
       THEN Goto(p, "writing") /\ UNCHANGED panic
       ELSE panic' = "bwrite" /\ UNCHANGED pc
  /\ UNCHANGED <<listVars, valid, data, lockVars, disk, procVars, pinned>>

\* virtio_disk_rw(b, 1) has returned.
bwrite_done(p) ==
  /\ pc[p] = "writing"
  /\ disk' = [disk EXCEPT ![blockno[buf[p]]] = data[buf[p]]]
  /\ Goto(p, "held")
  /\ UNCHANGED <<listVars, valid, data, lockVars, procVars, pinned, panic>>

\* The caller has written or pinned what it changed.
Clean(b) == data[b] = disk[blockno[b]]

brelse(p) ==
  /\ pc[p] = "held" /\ (Clean(buf[p]) \/ buf[p] \in pinned)
  /\ IF holdingsleep(p)
       THEN releasesleep(p) /\ UNCHANGED panic
       ELSE panic' = "brelse" /\ UNCHANGED <<lockVars, pc>>
  /\ UNCHANGED <<listVars, valid, data, disk, procVars, pinned>>

\* b at the front of the list.
MoveToFront(b) ==
  LET n == CHOOSE i \in Bufs : lru[i] = b
  IN [i \in Bufs |-> IF i = 1 THEN b ELSE IF i <= n THEN lru[i - 1] ELSE lru[i]]

\* Mutant: a buffer somebody waits for becomes unused.
brelse_put_zero(p) ==
  /\ pc[p] = "put"
  /\ refcnt' = [refcnt EXCEPT ![buf[p]] = 0]
  /\ lru' = MoveToFront(buf[p])
  /\ Goto(p, "idle")
  /\ UNCHANGED <<blockno, valid, data, lockVars, disk, procVars, pinned, panic>>

\* brelse's section under bcache.lock.
brelse_put(p) ==
  /\ pc[p] = "put"
  /\ refcnt' = [refcnt EXCEPT ![buf[p]] = @ - 1]
  /\ lru' = IF refcnt'[buf[p]] = 0 THEN MoveToFront(buf[p]) ELSE lru
  /\ Goto(p, "idle")
  /\ UNCHANGED <<blockno, valid, data, lockVars, disk, procVars, pinned, panic>>

bpin(p) ==
  /\ pc[p] = "held" /\ buf[p] \notin pinned /\ Cardinality(pinned) < MaxPins
  /\ refcnt' = [refcnt EXCEPT ![buf[p]] = @ + 1]
  /\ pinned' = pinned \cup {buf[p]}
  /\ UNCHANGED <<blockno, lru, valid, data, lockVars, disk, pc, procVars, panic>>

bunpin(p) ==
  /\ pc[p] = "held" /\ buf[p] \in pinned /\ Clean(buf[p])
  /\ refcnt' = [refcnt EXCEPT ![buf[p]] = @ - 1]
  /\ pinned' = pinned \ {buf[p]}
  /\ UNCHANGED <<blockno, lru, valid, data, lockVars, disk, pc, procVars, panic>>

Next ==
  /\ panic = "none"
  /\ \E p \in Procs :
       \/ \E k \in Blocks : bget_hit(p, k) \/ bget_recycle(p, k) \/ bget_none(p, k)
       \/ acquiresleep(p) \/ bread(p) \/ bread_done(p)
       \/ \E v \in Data : modify(p, v)
       \/ bwrite(p) \/ bwrite_done(p) \/ brelse(p) \/ brelse_put(p)
       \/ bpin(p) \/ bunpin(p)

Spec == Init /\ [][Next]_vars

(***************************************************************************)
(* Properties                                                              *)
(***************************************************************************)
\* No two buffers are for the same block, although bget lets go of
\* bcache.lock before it has the buffer's lock.
OneBufferPerBlock ==
  \A b, c \in Bufs : blockno[b] = blockno[c] /\ blockno[b] # NoBlock => b = c

\* A process that bread has given a buffer to holds its lock alone, and the
\* buffer is still the one of the block it asked for, however long it slept in
\* acquiresleep.
HolderHasItsBlock ==
  \A p \in Procs : pc[p] \in HoldPc =>
    /\ blockno[buf[p]] = want[p] /\ holdingsleep(p)
    /\ \A q \in Procs : pc[q] \in HoldPc /\ buf[q] = buf[p] => q = p

\* refcnt is the number of processes between bget and the end of brelse,
\* plus the log's pin; so bget recycles only what nobody uses.
RefcntCounts ==
  \A b \in Bufs :
    refcnt[b] = Cardinality({p \in Procs : pc[p] \in UsePc /\ buf[p] = b})
                + IF b \in pinned THEN 1 ELSE 0

\* No process sleeps in acquiresleep for a lock that is free.
AsleepOnlyIfLocked ==
  \A p \in Procs : pc[p] = "asleep" => locked[buf[p]] = 1

\* bread would return this for block k.
Cached(k) == {b \in Bufs : blockno[b] = k /\ valid[b] = 1}
Current(k) == IF Cached(k) = {} THEN disk[k] ELSE data[CHOOSE b \in Cached(k) : TRUE]

\* The contents of a block change only when the process that has it changes
\* them: recycling, reading and writing buffers lose nothing.
NothingLost ==
  [][\A k \in Blocks : Current(k)' # Current(k) =>
       \E p \in Procs : pc[p] = "held" /\ want[p] = k /\ data'[buf[p]] # data[buf[p]]]_vars

=============================================================================
