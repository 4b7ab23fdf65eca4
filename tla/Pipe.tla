-------------------------------- MODULE Pipe --------------------------------
(***************************************************************************)
(* kernel/pipe.c: processes that share the two ends of a pipe, each with a *)
(* reference to the end it uses (the file's ref count is the number of     *)
(* them).  The pipe's lock is held from one sleep() to the next; kill()    *)
(* takes no pipe lock, so a process may be killed between any two passes   *)
(* of the loops of pipewrite and piperead.                                 *)
(*                                                                         *)
(* nread and nwrite are C unsigned ints: UINT is the number of values they *)
(* have.  sleep() and wakeup() are the ones of kernel/proc.c: a process    *)
(* asleep on a channel is moved by every wakeup on that channel.           *)
(***************************************************************************)
EXTENDS Integers, Sequences, FiniteSets

CONSTANTS
  Writers, Readers,  \* processes that hold the write end, the read end
  Killable,          \* processes that kill() may be called on
  Bytes,             \* byte values
  Junk,              \* the byte kalloc fills a page with
  PIPESIZE,          \* bytes in the buffer
  UINT,              \* values of an unsigned int
  MaxN,              \* bytes asked for in one call, at most
  Free               \* "nobody holds the pipe's lock"

Procs == Writers \cup Readers

ASSUME RolesAssumption == Writers \cap Readers = {} /\ Free \notin Procs /\ Killable \subseteq Procs
ASSUME BytesAssumption == Junk \in Bytes
ASSUME SizeAssumption ==
  /\ PIPESIZE \in Nat \ {0} /\ MaxN \in Nat
  /\ \E k \in 2 .. UINT : UINT = k * PIPESIZE

VARIABLES
  data,       \* pi->data
  nread,      \* pi->nread
  nwrite,     \* pi->nwrite
  readopen,   \* pi->readopen
  writeopen,  \* pi->writeopen
  lock,       \* holder of pi->lock
  allocated,  \* 1 from pipealloc to kfree
  pc,         \* where each process is
  left,       \* bytes its call still has to move (n - i)
  killed      \* its p->killed

vars == <<data, nread, nwrite, readopen, writeopen, lock, allocated, pc, left, killed>>

Asleep == {"read_sleep", "write_sleep"}
InPipe == {"read", "read_go", "copy", "write", "write_go", "read_woken", "write_woken", "pipeclose"} \cup Asleep

Init ==
  /\ data = [i \in 0 .. PIPESIZE - 1 |-> Junk]
  /\ nread = 0 /\ nwrite = 0
  /\ readopen = 0 /\ writeopen = 0
  /\ lock = Free
  /\ allocated = 0
  /\ pc = [p \in Procs |-> "closed"]
  /\ left = [p \in Procs |-> 0]
  /\ killed = [p \in Procs |-> 0]

\* sys_pipe and the forks that hand the two ends out to new processes.
pipealloc ==
  /\ allocated = 0 /\ \A p \in Procs : pc[p] = "closed"
  /\ data' = [i \in 0 .. PIPESIZE - 1 |-> Junk]
  /\ nread' = 0 /\ nwrite' = 0
  /\ readopen' = 1 /\ writeopen' = 1
  /\ allocated' = 1
  /\ pc' = [p \in Procs |-> "user"]
  /\ killed' = [p \in Procs |-> 0]
  /\ UNCHANGED <<lock, left>>

Goto(p, l) == pc' = [pc EXCEPT ![p] = l]

\* wakeup(chan), after which p itself is at l.
WakeupGoto(chan, p, l) ==
  pc' = [q \in Procs |->
           IF q = p THEN l
           ELSE IF chan = "nread" /\ pc[q] = "read_sleep" THEN "read_woken"
           ELSE IF chan = "nwrite" /\ pc[q] = "write_sleep" THEN "write_woken"
           ELSE pc[q]]

\* Mutant: one byte too many.
FullOffByOne == nwrite = (nread + PIPESIZE + 1) % UINT

Full == nwrite = (nread + PIPESIZE) % UINT
Empty == nread = nwrite

(***************************************************************************)
(* pipewrite                                                               *)
(***************************************************************************)
write_call(p, n) ==
  /\ p \in Writers /\ pc[p] = "user" /\ killed[p] = 0 /\ lock = Free
  /\ lock' = p
  /\ left' = [left EXCEPT ![p] = n]
  /\ Goto(p, "write")
  /\ UNCHANGED <<data, nread, nwrite, readopen, writeopen, allocated, killed>>

write_resume(p) ==
  /\ pc[p] = "write_woken" /\ lock = Free
  /\ lock' = p
  /\ Goto(p, "write")
  /\ UNCHANGED <<data, nread, nwrite, readopen, writeopen, allocated, left, killed>>

\* release(&pi->lock); return -1.
pipewrite_abort(p) ==
  /\ pc[p] = "write" /\ left[p] > 0
  /\ readopen = 0 \/ killed[p] = 1
  /\ lock' = Free
  /\ left' = [left EXCEPT ![p] = 0]
  /\ Goto(p, "user")
  /\ UNCHANGED <<data, nread, nwrite, readopen, writeopen, allocated, killed>>

\* The test is over: a kill() from here on is not seen before the next pass.
pipewrite_check(p) ==
  /\ pc[p] = "write" /\ left[p] > 0
  /\ readopen = 1 /\ killed[p] = 0
  /\ Goto(p, "write_go")
  /\ UNCHANGED <<data, nread, nwrite, readopen, writeopen, lock, allocated, left, killed>>

pipewrite_full(p) ==
  /\ pc[p] = "write_go" /\ Full
  /\ lock' = Free
  /\ WakeupGoto("nread", p, "write_sleep")
  /\ UNCHANGED <<data, nread, nwrite, readopen, writeopen, allocated, left, killed>>

pipewrite_byte(p, ch) ==
  /\ pc[p] = "write_go" /\ ~Full
  /\ data' = [data EXCEPT ![nwrite % PIPESIZE] = ch]
  /\ nwrite' = (nwrite + 1) % UINT
  /\ left' = [left EXCEPT ![p] = @ - 1]
  /\ Goto(p, "write")
  /\ UNCHANGED <<nread, readopen, writeopen, lock, allocated, killed>>

\* The loop is over, or copyin failed and broke out of it.
pipewrite_done(p) ==
  /\ \/ pc[p] = "write" /\ left[p] = 0
     \/ pc[p] = "write_go" /\ ~Full
  /\ lock' = Free
  /\ left' = [left EXCEPT ![p] = 0]
  /\ WakeupGoto("nread", p, "user")
  /\ UNCHANGED <<data, nread, nwrite, readopen, writeopen, allocated, killed>>

(***************************************************************************)
(* piperead: "read" is the loop that waits, "copy" the one that copies.    *)
(***************************************************************************)
read_call(p, n) ==
  /\ p \in Readers /\ pc[p] = "user" /\ killed[p] = 0 /\ lock = Free
  /\ lock' = p
  /\ left' = [left EXCEPT ![p] = n]
  /\ Goto(p, "read")
  /\ UNCHANGED <<data, nread, nwrite, readopen, writeopen, allocated, killed>>

read_resume(p) ==
  /\ pc[p] = "read_woken" /\ lock = Free
  /\ lock' = p
  /\ Goto(p, "read")
  /\ UNCHANGED <<data, nread, nwrite, readopen, writeopen, allocated, left, killed>>

MustWait == Empty /\ writeopen = 1

piperead_abort(p) ==
  /\ pc[p] = "read" /\ MustWait /\ killed[p] = 1
  /\ lock' = Free
  /\ left' = [left EXCEPT ![p] = 0]
  /\ Goto(p, "user")
  /\ UNCHANGED <<data, nread, nwrite, readopen, writeopen, allocated, killed>>

\* As in pipewrite, a kill() after the test is not seen before sleep().
piperead_check(p) ==
  /\ pc[p] = "read" /\ MustWait /\ killed[p] = 0
  /\ Goto(p, "read_go")
  /\ UNCHANGED <<data, nread, nwrite, readopen, writeopen, lock, allocated, left, killed>>

piperead_sleep(p) ==
  /\ pc[p] = "read_go"
  /\ lock' = Free
  /\ Goto(p, "read_sleep")
  /\ UNCHANGED <<data, nread, nwrite, readopen, writeopen, allocated, left, killed>>

piperead_go(p) ==
  /\ pc[p] = "read" /\ ~MustWait
  /\ Goto(p, "copy")
  /\ UNCHANGED <<data, nread, nwrite, readopen, writeopen, lock, allocated, left, killed>>

\* One byte taken; if copyout fails (fault) the loop ends and the byte is gone.
piperead_byte(p) ==
  /\ pc[p] = "copy" /\ left[p] > 0 /\ ~Empty
  /\ nread' = (nread + 1) % UINT
  /\ \E fault \in BOOLEAN : left' = [left EXCEPT ![p] = IF fault THEN 0 ELSE @ - 1]
  /\ UNCHANGED <<data, nwrite, readopen, writeopen, lock, allocated, pc, killed>>

\* Mutant: no wakeup(&pi->nwrite).
piperead_done_silent(p) ==
  /\ pc[p] = "copy"
  /\ left[p] = 0 \/ Empty
  /\ lock' = Free
  /\ left' = [left EXCEPT ![p] = 0]
  /\ Goto(p, "user")
  /\ UNCHANGED <<data, nread, nwrite, readopen, writeopen, allocated, killed>>

piperead_done(p) ==
  /\ pc[p] = "copy"
  /\ left[p] = 0 \/ Empty
  /\ lock' = Free
  /\ left' = [left EXCEPT ![p] = 0]
  /\ WakeupGoto("nwrite", p, "user")
  /\ UNCHANGED <<data, nread, nwrite, readopen, writeopen, allocated, killed>>

(***************************************************************************)
(* close() or exit: fileclose drops the reference; whoever drops the last  *)
(* one of an end calls pipeclose.                                          *)
(***************************************************************************)
SameEnd(p) == IF p \in Writers THEN Writers ELSE Readers

fileclose(p) ==
  /\ pc[p] = "user"
  /\ Goto(p, IF \A q \in SameEnd(p) \ {p} : pc[q] \in {"closed", "pipeclose"}
             THEN "pipeclose" ELSE "closed")
  /\ UNCHANGED <<data, nread, nwrite, readopen, writeopen, lock, allocated, left, killed>>

\* Mutant: the page is freed as soon as one end is closed.
pipeclose_early(p) ==
  /\ pc[p] = "pipeclose" /\ lock = Free
  /\ IF p \in Writers
       THEN writeopen' = 0 /\ UNCHANGED readopen /\ WakeupGoto("nread", p, "closed")
       ELSE readopen' = 0 /\ UNCHANGED writeopen /\ WakeupGoto("nwrite", p, "closed")
  /\ allocated' = 0
  /\ UNCHANGED <<data, nread, nwrite, lock, left, killed>>

\* Mutant: nobody is woken.
pipeclose_silent(p) ==
  /\ pc[p] = "pipeclose" /\ lock = Free
  /\ IF p \in Writers
       THEN writeopen' = 0 /\ UNCHANGED readopen
       ELSE readopen' = 0 /\ UNCHANGED writeopen
  /\ Goto(p, "closed")
  /\ allocated' = IF readopen' = 0 /\ writeopen' = 0 THEN 0 ELSE 1
  /\ UNCHANGED <<data, nread, nwrite, lock, left, killed>>

pipeclose(p) ==
  /\ pc[p] = "pipeclose" /\ lock = Free
  /\ IF p \in Writers
       THEN writeopen' = 0 /\ UNCHANGED readopen /\ WakeupGoto("nread", p, "closed")
       ELSE readopen' = 0 /\ UNCHANGED writeopen /\ WakeupGoto("nwrite", p, "closed")
  /\ allocated' = IF readopen' = 0 /\ writeopen' = 0 THEN 0 ELSE 1
  /\ UNCHANGED <<data, nread, nwrite, lock, left, killed>>

\* kill(): sets p->killed and makes a sleeping process runnable.
kill(p) ==
  /\ p \in Killable /\ pc[p] # "closed" /\ killed[p] = 0
  /\ killed' = [killed EXCEPT ![p] = 1]
  /\ Goto(p, IF pc[p] = "read_sleep" THEN "read_woken"
             ELSE IF pc[p] = "write_sleep" THEN "write_woken" ELSE pc[p])
  /\ UNCHANGED <<data, nread, nwrite, readopen, writeopen, lock, allocated, left>>

\* The steps a process takes inside the pipe code once it is scheduled.
Inside(p) ==
  \/ pipewrite_abort(p) \/ pipewrite_check(p) \/ pipewrite_full(p) \/ pipewrite_done(p)
  \/ \E ch \in Bytes : pipewrite_byte(p, ch)
  \/ piperead_abort(p) \/ piperead_check(p) \/ piperead_sleep(p) \/ piperead_go(p)
  \/ piperead_byte(p) \/ piperead_done(p)

Resume(p) == write_resume(p) \/ read_resume(p)

Next ==
  \/ pipealloc
  \/ \E p \in Procs :
       \/ \E n \in 0 .. MaxN : write_call(p, n) \/ read_call(p, n)
       \/ Inside(p) \/ Resume(p)
       \/ fileclose(p) \/ pipeclose(p) \/ kill(p)

Spec == Init /\ [][Next]_vars

(***************************************************************************)
(* Properties.                                                             *)
(***************************************************************************)
Count == (nwrite - nread) % UINT

Queue == [i \in 1 .. Count |-> data[((nread + i - 1) % UINT) % PIPESIZE]]

Open == (IF readopen = 1 THEN {"read"} ELSE {}) \cup (IF writeopen = 1 THEN {"write"} ELSE {})

BS == INSTANCE ByteStream WITH
        Capacity <- PIPESIZE, queue <- IF allocated = 1 THEN Queue ELSE <<>>, open <- Open

\* The ring buffer with its wrapping unsigned indices is a FIFO stream of at
\* most PIPESIZE bytes: no byte is lost, duplicated, reordered or overwritten
\* by any interleaving of writers, readers, closes and kills.
PipeIsStream == BS!StreamSpec

\* Nobody is in the pipe code, or waits for the lock of a pipe, whose page has
\* gone back to the allocator; and only one of the two last closers frees it.
NoUseAfterFree ==
  /\ allocated = 0 => \A p \in Procs : pc[p] \notin InPipe
  /\ \A p \in Procs : pc[p] \in InPipe \ {"pipeclose"} =>
       IF p \in Writers THEN writeopen = 1 ELSE readopen = 1

\* A process is asleep in piperead only while the pipe is empty and the write
\* end open ("pipe-empty"), once whoever holds the lock has released it.
ReaderSleepsOnlyWhenEmpty ==
  lock = Free => \A p \in Readers : pc[p] = "read_sleep" => Empty /\ writeopen = 1

(***************************************************************************)
(* Liveness, for a program whose readers go on reading, one byte or more   *)
(* at a time, until they close: the scheduler runs every runnable process, *)
(* and a spin lock that is free again and again is eventually taken by     *)
(* each process that wants it; a killed process exits on its way back to   *)
(* user space, which closes its files.                                     *)
(***************************************************************************)
Fairness ==
  \A p \in Procs :
    /\ WF_vars(Inside(p))
    /\ SF_vars(Resume(p))
    /\ SF_vars(pipeclose(p))
    /\ WF_vars(killed[p] = 1 /\ fileclose(p))
    /\ p \in Readers => SF_vars(\E n \in 1 .. MaxN : read_call(p, n))

FairSpec == Spec /\ Fairness

\* A call of pipewrite returns: a full pipe does not block the last writer for
\* ever while readers go on reading or close.  With others still writing it may
\* never find room, since piperead's wakeup is no hand-over.
WriteReturns ==
  \A p \in Writers :
    (/\ pc[p] \in {"write", "write_go", "write_sleep", "write_woken"}
     /\ \A q \in Writers \ {p} : pc[q] = "closed") ~> pc[p] = "user"

\* End of file ends every read: a reader that is anywhere in piperead when the
\* last writer has closed, asleep, just woken or with bytes still to copy,
\* returns; none waits for bytes that can no longer come.
EofEndsReads ==
  \A p \in Readers :
    (pc[p] \in {"read", "read_go", "read_sleep", "read_woken", "copy"} /\ writeopen = 0) ~> pc[p] = "user"

=============================================================================
