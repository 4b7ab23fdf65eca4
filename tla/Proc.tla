-------------------------------- MODULE Proc --------------------------------
(***************************************************************************)
(* kernel/proc.c: the process table.  Processes fork, exit, wait for their *)
(* children and kill each other on several CPUs; every CPU's scheduler     *)
(* picks runnable processes; the timer preempts whoever holds no spin      *)
(* lock.                                                                   *)
(*                                                                         *)
(* Granularity.  wait_lock is a variable, because it is held across steps. *)
(* A p->lock is a variable only from sleep() or exit() to the scheduler,   *)
(* which releases it after the switch; every other critical section of a   *)
(* p->lock is short and takes no further lock, so it is one step whose     *)
(* guard is that the lock is free.                                         *)
(*                                                                         *)
(* exit() closes the process's files before it takes wait_lock; that, and  *)
(* the memory a process owns, are left out.                                *)
(***************************************************************************)
EXTENDS Integers, FiniteSets

CONSTANTS
  Procs,     \* slots of the process table
  Initproc,  \* the slot of the first process
  CPUs,      \* processors
  NoProc,    \* the null struct proc pointer
  Targets,   \* process ids kill() is called with
  MaxPid     \* bound on nextpid - 1

ASSUME ProcsAssumption == Initproc \in Procs /\ NoProc \notin Procs
ASSUME PidAssumption == MaxPid \in Nat \ {0} /\ Targets \subseteq Nat

VARIABLES
  state,     \* p->state
  pid,       \* p->pid
  parent,    \* p->parent
  chan,      \* p->chan, NoProc for 0: wait() sleeps on the caller's own slot
  killed,    \* p->killed
  plock,     \* 1 while p->lock is held across a switch to the scheduler
  wlock,     \* holder of wait_lock
  cpu,       \* c->proc
  nextpid,
  pc,        \* where the kernel thread of p is
  kid,       \* fork's np
  todo       \* the slots wakeup() still has to look at

vars == <<state, pid, parent, chan, killed, plock, wlock, cpu, nextpid, pc, kid, todo>>

\* After procinit and userinit.
Init ==
  /\ state = [p \in Procs |-> IF p = Initproc THEN "RUNNABLE" ELSE "UNUSED"]
  /\ pid = [p \in Procs |-> IF p = Initproc THEN 1 ELSE 0]
  /\ parent = [p \in Procs |-> NoProc]
  /\ chan = [p \in Procs |-> NoProc]
  /\ killed = [p \in Procs |-> 0]
  /\ plock = [p \in Procs |-> 0]
  /\ wlock = NoProc
  /\ cpu = [c \in CPUs |-> NoProc]
  /\ nextpid = 2
  /\ pc = [p \in Procs |-> "user"]
  /\ kid = [p \in Procs |-> NoProc]
  /\ todo = [p \in Procs |-> {}]

Goto(p, l) == pc' = [pc EXCEPT ![p] = l]

Children(p) == {q \in Procs : parent[q] = p}

\* p's thread executes at label l.
At(p, l) == state[p] = "RUNNING" /\ pc[p] = l

(***************************************************************************)
(* fork                                                                    *)
(***************************************************************************)

\* allocproc found np and the copies succeeded; np->lock is released.
fork(p, np) ==
  /\ At(p, "user") /\ killed[p] = 0
  /\ state[np] = "UNUSED" /\ nextpid <= MaxPid
  /\ state' = [state EXCEPT ![np] = "USED"]
  /\ pid' = [pid EXCEPT ![np] = nextpid]
  /\ nextpid' = nextpid + 1
  /\ kid' = [kid EXCEPT ![p] = np]
  /\ pc' = [pc EXCEPT ![p] = "forked", ![np] = "user"]
  /\ UNCHANGED <<parent, chan, killed, plock, wlock, cpu, todo>>

\* freeproc(np), with np->lock held.
freeproc(np) ==
  /\ state' = [state EXCEPT ![np] = "UNUSED"]
  /\ pid' = [pid EXCEPT ![np] = 0]
  /\ parent' = [parent EXCEPT ![np] = NoProc]
  /\ chan' = [chan EXCEPT ![np] = NoProc]
  /\ killed' = [killed EXCEPT ![np] = 0]

\* allocproc or uvmcopy ran out of memory and gave np back.
fork_fail(p, np) ==
  /\ At(p, "user") /\ killed[p] = 0
  /\ state[np] = "UNUSED" /\ nextpid <= MaxPid
  /\ nextpid' = nextpid + 1
  /\ freeproc(np)
  /\ UNCHANGED <<plock, wlock, cpu, pc, kid, todo>>

fork_acquire(p) ==
  /\ At(p, "forked")
  /\ Goto(p, "fork_parent")
  /\ UNCHANGED <<state, pid, parent, chan, killed, plock, wlock, cpu, nextpid, kid, todo>>

\* Mutant: the parent is set after the child was made runnable.
fork_parent_late(p) ==
  /\ At(p, "fork_parent") /\ wlock = NoProc
  /\ state' = [state EXCEPT ![kid[p]] = "RUNNABLE"]
  /\ Goto(p, "user")
  /\ UNCHANGED <<pid, parent, chan, killed, plock, wlock, cpu, nextpid, kid, todo>>

fork_parent(p) ==
  /\ At(p, "fork_parent") /\ wlock = NoProc
  /\ parent' = [parent EXCEPT ![kid[p]] = p]
  /\ Goto(p, "fork_runnable")
  /\ UNCHANGED <<state, pid, chan, killed, plock, wlock, cpu, nextpid, kid, todo>>

fork_runnable(p) ==
  /\ At(p, "fork_runnable")
  /\ state' = [state EXCEPT ![kid[p]] = "RUNNABLE"]
  /\ kid' = [kid EXCEPT ![p] = NoProc]
  /\ Goto(p, "user")
  /\ UNCHANGED <<pid, parent, chan, killed, plock, wlock, cpu, nextpid, todo>>

(***************************************************************************)
(* wait.  While it holds wait_lock no child can become a zombie, so one    *)
(* step stands for a whole scan that finds none.                           *)
(***************************************************************************)
wait_call(p) ==
  /\ At(p, "user") /\ killed[p] = 0
  /\ Goto(p, "wait")
  /\ UNCHANGED <<state, pid, parent, chan, killed, plock, wlock, cpu, nextpid, kid, todo>>

wait_acquire(p) ==
  /\ At(p, "wait") /\ wlock = NoProc
  /\ wlock' = p
  /\ Goto(p, "scan")
  /\ UNCHANGED <<state, pid, parent, chan, killed, plock, cpu, nextpid, kid, todo>>

\* Mutant: the child's lock is not taken.
wait_found_unlocked(p, pp) ==
  /\ At(p, "scan")
  /\ parent[pp] = p /\ state[pp] = "ZOMBIE"
  /\ freeproc(pp)
  /\ wlock' = NoProc
  /\ Goto(p, "user")
  /\ UNCHANGED <<plock, cpu, nextpid, kid, todo>>

\* acquire(&pp->lock) makes sure the child is not still in exit() or swtch().
wait_found(p, pp) ==
  /\ At(p, "scan")
  /\ parent[pp] = p /\ plock[pp] = 0 /\ state[pp] = "ZOMBIE"
  /\ freeproc(pp)
  /\ wlock' = NoProc
  /\ Goto(p, "user")
  /\ UNCHANGED <<plock, cpu, nextpid, kid, todo>>

\* A zombie was found but copyout() of its status failed; init passes no
\* address to copy to.
wait_fault(p, pp) ==
  /\ At(p, "scan") /\ p # Initproc
  /\ parent[pp] = p /\ plock[pp] = 0 /\ state[pp] = "ZOMBIE"
  /\ wlock' = NoProc
  /\ Goto(p, "user")
  /\ UNCHANGED <<state, pid, parent, chan, killed, plock, cpu, nextpid, kid, todo>>

\* Mutant: wait_lock is released before sleep() is called.
wait_none_released(p) ==
  /\ At(p, "scan")
  /\ \A q \in Children(p) : state[q] # "ZOMBIE"
  /\ wlock' = NoProc
  /\ Goto(p, IF Children(p) = {} \/ killed[p] = 1 THEN "user" ELSE "wait_sleep")
  /\ UNCHANGED <<state, pid, parent, chan, killed, plock, cpu, nextpid, kid, todo>>

\* No zombie: return -1 without children or when killed, else go to sleep.
wait_none(p) ==
  /\ At(p, "scan")
  /\ \A q \in Children(p) : state[q] # "ZOMBIE"
  /\ IF Children(p) = {} \/ killed[p] = 1
       THEN wlock' = NoProc /\ Goto(p, "user")
       ELSE UNCHANGED wlock /\ Goto(p, "wait_sleep")
  /\ UNCHANGED <<state, pid, parent, chan, killed, plock, cpu, nextpid, kid, todo>>

\* sleep(p, &wait_lock), up to the switch.
wait_sleep(p) ==
  /\ At(p, "wait_sleep")
  /\ plock' = [plock EXCEPT ![p] = 1]
  /\ wlock' = NoProc
  /\ chan' = [chan EXCEPT ![p] = p]
  /\ state' = [state EXCEPT ![p] = "SLEEPING"]
  /\ Goto(p, "asleep")
  /\ UNCHANGED <<pid, parent, killed, cpu, nextpid, kid, todo>>

(***************************************************************************)
(* exit, by a call or because usertrap found the process killed.  init's   *)
(* own program is taken never to call it; panic() loops for ever.          *)
(***************************************************************************)
exit(p) ==
  /\ At(p, "user") /\ (p = Initproc => killed[p] = 1)
  /\ Goto(p, IF p = Initproc THEN "panic" ELSE "exit")
  /\ UNCHANGED <<state, pid, parent, chan, killed, plock, wlock, cpu, nextpid, kid, todo>>

exit_acquire(p) ==
  /\ At(p, "exit") /\ wlock = NoProc
  /\ wlock' = p
  /\ Goto(p, "reparent")
  /\ UNCHANGED <<state, pid, parent, chan, killed, plock, cpu, nextpid, kid, todo>>

\* One child handed to init; wakeup(initproc) follows.
reparent(p, pp) ==
  /\ At(p, "reparent") /\ parent[pp] = p
  /\ parent' = [parent EXCEPT ![pp] = Initproc]
  /\ todo' = [todo EXCEPT ![p] = Procs \ {p}]
  /\ Goto(p, "reparent_wakeup")
  /\ UNCHANGED <<state, pid, chan, killed, plock, wlock, cpu, nextpid, kid>>

\* No child left; wakeup(p->parent) follows.
reparent_done(p) ==
  /\ At(p, "reparent") /\ Children(p) = {}
  /\ todo' = [todo EXCEPT ![p] = Procs \ {p}]
  /\ Goto(p, "exit_wakeup")
  /\ UNCHANGED <<state, pid, parent, chan, killed, plock, wlock, cpu, nextpid, kid>>

\* The channel of the wakeup() p is in.
WakeChan(p) == IF pc[p] = "reparent_wakeup" THEN Initproc ELSE parent[p]

\* One slot visited by wakeup().
wakeup(p, q) ==
  /\ At(p, "reparent_wakeup") \/ At(p, "exit_wakeup")
  /\ q \in todo[p] /\ plock[q] = 0
  /\ todo' = [todo EXCEPT ![p] = @ \ {q}]
  /\ state' = IF state[q] = "SLEEPING" /\ chan[q] = WakeChan(p)
                THEN [state EXCEPT ![q] = "RUNNABLE"] ELSE state
  /\ UNCHANGED <<pid, parent, chan, killed, plock, wlock, cpu, nextpid, pc, kid>>

reparent_next(p) ==
  /\ At(p, "reparent_wakeup") /\ todo[p] = {}
  /\ Goto(p, "reparent")
  /\ UNCHANGED <<state, pid, parent, chan, killed, plock, wlock, cpu, nextpid, kid, todo>>

\* From acquire(&p->lock) to the switch.
exit_zombie(p) ==
  /\ At(p, "exit_wakeup") /\ todo[p] = {}
  /\ plock' = [plock EXCEPT ![p] = 1]
  /\ state' = [state EXCEPT ![p] = "ZOMBIE"]
  /\ wlock' = NoProc
  /\ Goto(p, "zombie")
  /\ UNCHANGED <<pid, parent, chan, killed, cpu, nextpid, kid, todo>>

\* kill(n), called by p.  The first slot with that pid may be an unused one.
kill(p, q) ==
  /\ At(p, "user") /\ killed[p] = 0
  /\ pid[q] \in Targets /\ plock[q] = 0
  /\ killed' = [killed EXCEPT ![q] = 1]
  /\ state' = IF state[q] = "SLEEPING" THEN [state EXCEPT ![q] = "RUNNABLE"] ELSE state
  /\ UNCHANGED <<pid, parent, chan, plock, wlock, cpu, nextpid, pc, kid, todo>>

(***************************************************************************)
(* The scheduler of CPU c, and the timer.                                  *)
(***************************************************************************)

\* From acquire(&p->lock) to p's release of it: in forkret, yield or sleep.
scheduler_run(c, p) ==
  /\ cpu[c] = NoProc /\ state[p] = "RUNNABLE" /\ plock[p] = 0
  /\ cpu' = [cpu EXCEPT ![c] = p]
  /\ state' = [state EXCEPT ![p] = "RUNNING"]
  /\ chan' = [chan EXCEPT ![p] = NoProc]
  /\ Goto(p, IF pc[p] = "asleep" THEN "wait" ELSE pc[p])
  /\ UNCHANGED <<pid, parent, killed, plock, wlock, nextpid, kid, todo>>

\* Back from swtch: c->proc = 0; release(&p->lock).
scheduler_back(c) ==
  /\ cpu[c] # NoProc /\ plock[cpu[c]] = 1
  /\ cpu' = [cpu EXCEPT ![c] = NoProc]
  /\ plock' = [plock EXCEPT ![cpu[c]] = 0]
  /\ UNCHANGED <<state, pid, parent, chan, killed, wlock, nextpid, pc, kid, todo>>

\* p is in acquire(&wait_lock) or holds it: push_off keeps interrupts off.
IntrOff(p) == wlock = p \/ pc[p] \in {"fork_parent", "wait", "exit"}

\* A timer interrupt.
yield(c) ==
  /\ cpu[c] # NoProc /\ state[cpu[c]] = "RUNNING" /\ ~IntrOff(cpu[c])
  /\ state' = [state EXCEPT ![cpu[c]] = "RUNNABLE"]
  /\ cpu' = [cpu EXCEPT ![c] = NoProc]
  /\ UNCHANGED <<pid, parent, chan, killed, plock, wlock, nextpid, pc, kid, todo>>

\* The steps a process takes inside the kernel once it is on a CPU.
Inside(p) ==
  \/ fork_acquire(p) \/ fork_parent(p) \/ fork_runnable(p)
  \/ wait_acquire(p) \/ wait_none(p) \/ wait_sleep(p)
  \/ \E q \in Procs : wait_found(p, q) \/ wait_fault(p, q)
  \/ exit_acquire(p) \/ reparent_done(p) \/ reparent_next(p) \/ exit_zombie(p)
  \/ \E q \in Procs : reparent(p, q) \/ wakeup(p, q)

Call(p) ==
  \/ wait_call(p) \/ exit(p)
  \/ \E q \in Procs : fork(p, q) \/ fork_fail(p, q) \/ kill(p, q)

Switch(c) ==
  \/ scheduler_back(c) \/ yield(c)
  \/ \E p \in Procs : scheduler_run(c, p)

Next ==
  \/ \E p \in Procs : Call(p) \/ Inside(p)
  \/ \E c \in CPUs : Switch(c)

Spec == Init /\ [][Next]_vars

\* Interrupts keep arriving, a spin lock starves nobody, every scheduler keeps
\* scanning the whole table, and init's program comes back to wait(); other
\* programs may run for ever, but the timer brings a killed one into
\* usertrap, which calls exit.
Fairness ==
  /\ \A p \in Procs : SF_vars(Inside(p)) /\ SF_vars(exit(p) /\ killed[p] = 1)
  /\ \A c \in CPUs : WF_vars(scheduler_back(c)) /\ WF_vars(yield(c))
  /\ \A p \in Procs : SF_vars(\E c \in CPUs : scheduler_run(c, p))
  /\ SF_vars(wait_call(Initproc))

FairSpec == Spec /\ Fairness

(***************************************************************************)
(* Properties                                                              *)
(***************************************************************************)

\* A kernel stack is used by one CPU at a time, and by none once wait() has
\* freed the slot: no process is on two CPUs, and the process on a CPU is
\* running or is on its way to that CPU's scheduler with its lock held
\* (scheduler, sched and the zombie's lock taken in wait).
StackInUseOnce ==
  /\ \A c, d \in CPUs : cpu[c] = cpu[d] /\ cpu[c] # NoProc => c = d
  /\ \A c \in CPUs : cpu[c] # NoProc =>
       \/ state[cpu[c]] = "RUNNING" /\ plock[cpu[c]] = 0
       \/ state[cpu[c]] \in {"SLEEPING", "ZOMBIE"} /\ plock[cpu[c]] = 1

\* Every process that has run has a parent that can still wait for it: exit
\* and reparent leave no child behind, and fork's parent assignment comes
\* before the child can run.
NoOrphans ==
  \A p \in Procs \ {Initproc} :
    state[p] \in {"RUNNABLE", "RUNNING", "SLEEPING", "ZOMBIE"} =>
      /\ parent[p] # NoProc
      /\ state[parent[p]] \in {"RUNNABLE", "RUNNING", "SLEEPING"}

\* No lost wakeup: a parent asleep in wait has no zombie child, unless one
\* has just been handed to it by a reparent whose wakeup has yet to reach it
\* (wait_lock covers exit's wakeup, the change to ZOMBIE and wait's sleep).
NoMissedExit ==
  \A p, q \in Procs :
    state[p] = "SLEEPING" /\ parent[q] = p /\ state[q] = "ZOMBIE" =>
      \E w \in Procs : At(w, "reparent_wakeup") /\ p = Initproc /\ p \in todo[w]

\* A killed process exits: kill wakes it from sleep() and every loop that
\* sleeps looks at killed.
KilledExits ==
  \A p \in Procs : (killed[p] = 1 /\ state[p] # "UNUSED") ~> (state[p] \in {"ZOMBIE", "UNUSED"})

=============================================================================
