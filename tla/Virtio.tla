------------------------------- MODULE Virtio --------------------------------
(***************************************************************************)
(* kernel/virtio_disk.c: the disk driver, between the processes that call  *)
(* virtio_disk_rw, the device, and the interrupt that reports finished     *)
(* requests.  Driver and device share the descriptors and two rings whose  *)
(* indices wrap.  vdisk_lock orders processes and interrupt; the device    *)
(* takes no lock.                                                          *)
(*                                                                         *)
(* Buffer b is the one of block b (the buffer cache has one per block) and *)
(* the caller holds its sleep lock.  The device may finish requests in any *)
(* order and reports success.                                              *)
(***************************************************************************)
EXTENDS Integers, FiniteSets, FiniteSetsExt

CONSTANTS
  Procs,    \* processes
  Bufs,     \* buffers, and the blocks they are for
  Data,     \* block contents
  InitData, \* the contents of every block and buffer at first
  NUM,      \* descriptors, and entries of a ring (virtio.h)
  IDX,      \* values of a ring index, 2^16 in the code
  NoBuf,    \* a null b
  NoProc,   \* nobody holds vdisk_lock
  Intr      \* the interrupt handler, as holder of vdisk_lock

ASSUME VirtioAssumption ==
  /\ NUM \in Nat \ {0} /\ IDX \in Nat \ {0} /\ IDX % NUM = 0
  /\ InitData \in Data /\ NoBuf \notin Bufs /\ NoProc \notin Procs /\ Intr \notin Procs \cup {NoProc}

Descs == 0 .. NUM - 1

VARIABLES
  free,      \* disk.free
  desc,      \* disk.desc: the NEXT flag and the next field
  ops,       \* disk.ops: type and sector
  addr,      \* disk.desc[i].addr of a data descriptor: the buffer
  info,      \* disk.info: b and status, 255 until the device sets it
  avail,     \* disk.avail->ring
  avail_idx, \* disk.avail->idx
  used,      \* disk.used->ring[].id
  used_top,  \* disk.used->idx
  used_idx,  \* disk.used_idx
  bdisk,     \* b->disk
  data,      \* b->data
  lock,      \* holder of vdisk_lock
  pc,        \* where each process is
  req,       \* b, b's contents, write and idx[] of each process's call
  kicked,    \* the device has been notified and looks at the avail ring
  taken,     \* how far the device has read the avail ring
  working,   \* heads of the chains the device works on
  sectors,   \* the blocks on the disk
  owed,      \* the device has yet to interrupt for a finished request
  irq,       \* the device's interrupt status
  intr,      \* where virtio_disk_intr is
  panic      \* the panic() that was called, if any

chainVars == <<desc, ops, addr>>
ringVars == <<avail, avail_idx, used, used_top, used_idx>>
devVars == <<kicked, taken, working, sectors, owed, irq>>
vars == <<free, chainVars, info, ringVars, bdisk, data, lock, pc, req, devVars,
          intr, panic>>

SentPc == {"publish", "notify", "check", "asleep_data", "woken_data"}

NoReq == [b |-> NoBuf, v |-> InitData, write |-> 0, idx |-> <<0, 0, 0>>]

\* virtio_disk_init has run.
Init ==
  /\ free = [i \in Descs |-> 1]
  /\ desc = [i \in Descs |-> [more |-> 0, next |-> 0]]
  /\ ops = [i \in Descs |-> [write |-> 0, sector |-> NoBuf]]
  /\ addr = [i \in Descs |-> NoBuf]
  /\ info = [i \in Descs |-> [b |-> NoBuf, status |-> 0]]
  /\ avail = [i \in Descs |-> 0] /\ used = [i \in Descs |-> 0]
  /\ avail_idx = 0 /\ used_top = 0 /\ used_idx = 0 /\ taken = 0
  /\ bdisk = [b \in Bufs |-> 0]
  /\ data = [b \in Bufs |-> InitData] /\ sectors = [b \in Bufs |-> InitData]
  /\ lock = NoProc
  /\ pc = [p \in Procs |-> "idle"]
  /\ req = [p \in Procs |-> NoReq]
  /\ kicked = 0 /\ owed = 0 /\ irq = 0
  /\ working = {}
  /\ intr = "idle"
  /\ panic = "none"

Goto(p, l) == pc' = [pc EXCEPT ![p] = l]

\* wakeup(&disk.free[0]): f with the processes asleep there woken.
WakeFree(f) == [q \in Procs |-> IF f[q] = "asleep_free" THEN "woken_free" ELSE f[q]]

(***************************************************************************)
(* virtio_disk_rw up to the avail ring, under vdisk_lock.                  *)
(***************************************************************************)
FreeDescs == {i \in Descs : free[i] = 1}

\* The three descriptors alloc_desc finds in turn.
alloc3_desc ==
  LET i == Min(FreeDescs)
      j == Min(FreeDescs \ {i})
  IN  <<i, j, Min(FreeDescs \ {i, j})>>

\* r has its descriptors: the chain is laid out and put in the avail ring.
Submit(p, r) ==
  LET idx == alloc3_desc IN
  /\ Cardinality(FreeDescs) >= 3
  /\ free' = [i \in Descs |-> IF i \in {idx[1], idx[2], idx[3]} THEN 0 ELSE free[i]]
  /\ desc' = [desc EXCEPT ![idx[1]] = [more |-> 1, next |-> idx[2]],
                          ![idx[2]] = [more |-> 1, next |-> idx[3]],
                          ![idx[3]] = [more |-> 0, next |-> 0]]
  /\ ops' = [ops EXCEPT ![idx[1]] = [write |-> r.write, sector |-> r.b]]
  /\ addr' = [addr EXCEPT ![idx[2]] = r.b]
  /\ info' = [info EXCEPT ![idx[1]] = [b |-> r.b, status |-> 255]]
  /\ bdisk' = [bdisk EXCEPT ![r.b] = 1]
  /\ avail' = [avail EXCEPT ![avail_idx % NUM] = idx[1]]
  /\ req' = [req EXCEPT ![p] = [r EXCEPT !.idx = idx]]
  /\ lock' = p
  /\ Goto(p, "publish")

\* alloc3_desc gives back what it got, which wakes the others, and p sleeps.
Short(p, r) ==
  /\ Cardinality(FreeDescs) < 3
  /\ pc' = [(IF FreeDescs = {} THEN pc ELSE WakeFree(pc)) EXCEPT ![p] = "asleep_free"]
  /\ req' = [req EXCEPT ![p] = r]
  /\ UNCHANGED <<free, chainVars, info, bdisk, avail, lock>>

\* The caller holds b's sleep lock; v is what it has in b->data.
virtio_disk_rw(p, b, write, v) ==
  /\ pc[p] = "idle" /\ lock = NoProc
  /\ \A q \in Procs : req[q].b # b
  /\ data' = [data EXCEPT ![b] = v]
  /\ LET r == [b |-> b, v |-> v, write |-> write, idx |-> <<0, 0, 0>>]
     IN  Submit(p, r) \/ Short(p, r)
  /\ UNCHANGED <<avail_idx, used, used_top, used_idx, devVars, intr, panic>>

rw_again(p) ==
  /\ pc[p] = "woken_free" /\ lock = NoProc
  /\ Submit(p, req[p]) \/ Short(p, req[p])
  /\ UNCHANGED <<avail_idx, used, used_top, used_idx, data, devVars, intr, panic>>

rw_publish(p) ==
  /\ pc[p] = "publish"
  /\ avail_idx' = (avail_idx + 1) % IDX
  /\ Goto(p, "notify")
  /\ UNCHANGED <<free, chainVars, info, avail, used, used_top, used_idx, bdisk, data,
                 lock, req, devVars, intr, panic>>

\* Mutant: the device is not told.
rw_notify_silent(p) ==
  /\ pc[p] = "notify"
  /\ Goto(p, "check")
  /\ UNCHANGED <<free, chainVars, info, ringVars, bdisk, data, lock, req, devVars, intr, panic>>

rw_notify(p) ==
  /\ pc[p] = "notify"
  /\ kicked' = 1
  /\ Goto(p, "check")
  /\ UNCHANGED <<free, chainVars, info, ringVars, bdisk, data, lock, req, taken,
                 working, sectors, owed, irq, intr, panic>>

(***************************************************************************)
(* virtio_disk_rw from the avail ring on.                                  *)
(***************************************************************************)
\* Mutant: virtio_disk_rw does not wait.
Finished_always(p) == TRUE

Finished(p) == bdisk[req[p].b] # 1

rw_sleep(p) ==
  /\ pc[p] = "check" /\ ~Finished(p)
  /\ lock' = NoProc
  /\ Goto(p, "asleep_data")
  /\ UNCHANGED <<free, chainVars, info, ringVars, bdisk, data, req, devVars, intr, panic>>

rw_woken(p) ==
  /\ pc[p] = "woken_data" /\ lock = NoProc
  /\ lock' = p
  /\ Goto(p, "check")
  /\ UNCHANGED <<free, chainVars, info, ringVars, bdisk, data, req, devVars, intr, panic>>

\* Mutant: only the head is freed.
Chain_head(i) == {i}

\* The descriptors free_chain(i) visits.
Chain(i) ==
  LET visited[n \in Descs] ==
        IF n = 0 THEN {i}
        ELSE LET v == visited[n - 1]
             IN  v \cup {desc[j].next : j \in {k \in v : desc[k].more = 1}}
  IN  visited[NUM - 1]

\* The request is finished: free_chain, and virtio_disk_rw returns.
rw_done(p) ==
  LET head == req[p].idx[1]
      chain == Chain(head)
  IN
  /\ pc[p] = "check" /\ Finished(p)
  /\ IF \E i \in chain : free[i] = 1
       THEN panic' = "free_desc 2" /\ UNCHANGED <<free, desc, addr, info, lock, pc, req>>
       ELSE /\ free' = [i \in Descs |-> IF i \in chain THEN 1 ELSE free[i]]
            /\ desc' = [i \in Descs |-> IF i \in chain THEN [more |-> 0, next |-> 0]
                                        ELSE desc[i]]
            /\ addr' = [i \in Descs |-> IF i \in chain THEN NoBuf ELSE addr[i]]
            /\ info' = [info EXCEPT ![head].b = NoBuf]
            /\ lock' = NoProc
            /\ pc' = [WakeFree(pc) EXCEPT ![p] = "idle"]
            /\ req' = [req EXCEPT ![p] = NoReq]
            /\ UNCHANGED panic
  /\ UNCHANGED <<ops, ringVars, bdisk, data, devVars, intr>>

(***************************************************************************)
(* The device.                                                             *)
(***************************************************************************)
device_take ==
  /\ kicked = 1 /\ taken # avail_idx
  /\ working' = working \cup {avail[taken % NUM]}
  /\ taken' = (taken + 1) % IDX
  /\ UNCHANGED <<free, chainVars, info, ringVars, bdisk, data, lock, pc, req, kicked,
                 sectors, owed, irq, intr, panic>>

\* It has read the whole ring and waits to be notified again.
device_idle ==
  /\ kicked = 1 /\ taken = avail_idx
  /\ kicked' = 0
  /\ UNCHANGED <<free, chainVars, info, ringVars, bdisk, data, lock, pc, req, taken,
                 working, sectors, owed, irq, intr, panic>>

\* It transfers a block, sets the status and adds to the used ring.
device_done(i) ==
  LET b == addr[desc[i].next]
      k == ops[i].sector
  IN
  /\ i \in working
  /\ working' = working \ {i}
  /\ IF ops[i].write = 1
       THEN sectors' = [sectors EXCEPT ![k] = data[b]] /\ UNCHANGED data
       ELSE data' = [data EXCEPT ![b] = sectors[k]] /\ UNCHANGED sectors
  /\ info' = [info EXCEPT ![i].status = 0]
  /\ used' = [used EXCEPT ![used_top % NUM] = i]
  /\ used_top' = (used_top + 1) % IDX
  /\ owed' = 1
  /\ UNCHANGED <<free, chainVars, avail, avail_idx, used_idx, bdisk, lock, pc, req,
                 kicked, taken, irq, intr, panic>>

device_irq ==
  /\ owed = 1
  /\ owed' = 0
  /\ irq' = 1
  /\ UNCHANGED <<free, chainVars, info, ringVars, bdisk, data, lock, pc, req, kicked,
                 taken, working, sectors, intr, panic>>

(***************************************************************************)
(* virtio_disk_intr.  The PLIC hands an interrupt to one CPU at a time.    *)
(***************************************************************************)
virtio_disk_intr ==
  /\ intr = "idle" /\ irq = 1 /\ lock = NoProc
  /\ lock' = Intr
  /\ irq' = 0
  /\ intr' = "loop"
  /\ UNCHANGED <<free, chainVars, info, ringVars, bdisk, data, pc, req, kicked, taken,
                 working, sectors, owed, panic>>

\* The head of the request the used ring reports next.
Reported == used[used_idx % NUM]

used_next == (used_idx + 1) % IDX

intr_one ==
  LET id == Reported
      b == info[id].b
  IN
  /\ intr = "loop" /\ used_idx # used_top
  /\ IF info[id].status # 0
       THEN panic' = "virtio_disk_intr status" /\ UNCHANGED <<bdisk, pc, used_idx>>
       ELSE /\ bdisk' = [bdisk EXCEPT ![b] = 0]
            /\ pc' = [q \in Procs |-> IF pc[q] = "asleep_data" /\ req[q].b = b
                                      THEN "woken_data" ELSE pc[q]]
            /\ used_idx' = used_next
            /\ UNCHANGED panic
  /\ UNCHANGED <<free, chainVars, info, avail, avail_idx, used, used_top, data, lock,
                 req, devVars, intr>>

intr_return ==
  /\ intr = "loop" /\ used_idx = used_top
  /\ intr' = "idle"
  /\ lock' = NoProc
  /\ UNCHANGED <<free, chainVars, info, ringVars, bdisk, data, pc, req, devVars, panic>>

Device == device_take \/ device_idle \/ (\E i \in Descs : device_done(i)) \/ device_irq

Next ==
  /\ panic = "none"
  /\ \/ \E p \in Procs :
          \/ \E b \in Bufs, write \in {0, 1}, v \in Data : virtio_disk_rw(p, b, write, v)
          \/ rw_again(p) \/ rw_publish(p) \/ rw_notify(p)
          \/ rw_sleep(p) \/ rw_woken(p) \/ rw_done(p)
     \/ Device
     \/ virtio_disk_intr \/ intr_one \/ intr_return

Spec == Init /\ [][Next]_vars

(***************************************************************************)
(* Properties                                                              *)
(***************************************************************************)
Sent == {p \in Procs : pc[p] \in SentPc}
Idx(p) == {req[p].idx[1], req[p].idx[2], req[p].idx[3]}

\* Every descriptor is free or part of one request between alloc3_desc and
\* free_chain: none is leaked, no two requests share one, and free_desc meets no
\* free one ("free_desc 2").
DescOwnedOnce ==
  /\ panic = "none"
  /\ Descs \ FreeDescs = UNION {Idx(p) : p \in Sent}
  /\ \A p, q \in Sent : p # q => Idx(p) \cap Idx(q) = {}

\* Entries of ring between the indices from and to that name i.
InRing(ring, from, to, i) ==
  {n \in Descs : n < (to - from) % IDX /\ ring[(from + n) % NUM] = i}

\* When virtio_disk_rw returns, a write is on the disk and a read is in b->data.
RequestServed ==
  [][\A p \in Procs : pc[p] = "check" /\ pc'[p] = "idle" =>
       LET r == req[p] IN
       IF r.write = 1 THEN sectors[r.b] = r.v /\ data[r.b] = r.v
       ELSE data[r.b] = sectors[r.b]]_vars

\* A request is neither lost nor repeated nor forgotten while its process waits.
\* Until virtio_disk_intr clears b->disk it is in exactly one of the avail ring,
\* the device and the used ring, however the indices wrap.  In the avail ring
\* the device has been notified or is about to be; in the used ring an interrupt
\* is due or the handler is still in its loop, also when the entry was added as
\* the handler acknowledged an earlier interrupt.  And a process sleeps on
\* &disk.free[0] only while three descriptors are not free.
NotForgotten ==
  /\ \A p \in Sent : pc[p] # "publish" =>
       LET i == req[p].idx[1]
           waiting == InRing(avail, taken, avail_idx, i)
           done == InRing(used, used_idx, used_top, i)
       IN
       /\ Cardinality(waiting) + Cardinality(working \cap {i}) + Cardinality(done)
            = bdisk[req[p].b]
       /\ waiting # {} => kicked = 1 \/ \E q \in Procs : pc[q] = "notify"
       /\ done # {} => owed = 1 \/ irq = 1 \/ intr = "loop"
       /\ pc[p] = "asleep_data" => ~Finished(p)
  /\ (\E p \in Procs : pc[p] = "asleep_free") => Cardinality(FreeDescs) < 3
=============================================================================
