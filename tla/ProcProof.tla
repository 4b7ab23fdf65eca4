------------------------------ MODULE ProcProof ------------------------------
(***************************************************************************)
(* The safety properties of the process table, proved for every number of  *)
(* slots and of CPUs: a kernel stack is used by one CPU at a time, exit    *)
(* leaves no orphans, and no parent sleeps through the exit of a child.    *)
(***************************************************************************)
EXTENDS Proc, TLAPS

\* The backend of the leaves that name no other, and its time limit.
USE SMTT(60)

(***************************************************************************)
(* The inductive invariant.                                                *)
(***************************************************************************)
ForkPc == {"forked", "fork_parent", "fork_runnable"}
WlockPc == {"scan", "wait_sleep", "reparent", "reparent_wakeup", "exit_wakeup"}
Labels == {"user", "wait", "asleep", "exit", "zombie", "panic"} \cup ForkPc \cup WlockPc
States == {"UNUSED", "USED", "RUNNABLE", "RUNNING", "SLEEPING", "ZOMBIE"}
Alive == {"RUNNABLE", "RUNNING", "SLEEPING"}

TypeOK ==
  /\ state \in [Procs -> States]
  /\ parent \in [Procs -> Procs \cup {NoProc}]
  /\ chan \in [Procs -> Procs \cup {NoProc}]
  /\ plock \in [Procs -> {0, 1}]
  /\ wlock \in Procs \cup {NoProc}
  /\ cpu \in [CPUs -> Procs \cup {NoProc}]
  /\ pc \in [Procs -> Labels]
  /\ kid \in [Procs -> Procs \cup {NoProc}]
  /\ todo \in [Procs -> SUBSET Procs]

\* wait_lock is held by the process whose code says so, and with interrupts
\* off that process stays on its CPU; who is asleep sleeps in wait.
Holders ==
  \A p \in Procs :
    /\ pc[p] \in WlockPc => wlock = p /\ state[p] = "RUNNING"
    /\ state[p] = "SLEEPING" => pc[p] = "asleep" /\ chan[p] = p

\* A process in fork has a slot of its own that nobody can run yet.
Forks ==
  \A p \in Procs : pc[p] \in ForkPc =>
    /\ state[p] \in {"RUNNABLE", "RUNNING"}
    /\ kid[p] \in Procs /\ state[kid[p]] = "USED"
    /\ pc[p] = "fork_runnable" => parent[kid[p]] = p
    /\ \A q \in Procs \ {p} : pc[q] \in ForkPc => kid[q] # kid[p]

\* init stays, and nobody is their own parent.
Family ==
  /\ state[Initproc] \in Alive /\ parent[Initproc] = NoProc
  /\ \A p \in Procs : parent[p] # p

\* exit gives its children away before it wakes its parent; a parent that
\* exit has yet to wake is still to be visited; wait sleeps without zombies.
Exits ==
  \A p \in Procs :
    /\ pc[p] \in {"exit", "reparent", "reparent_wakeup", "exit_wakeup"} => p # Initproc
    /\ pc[p] = "exit_wakeup" => \A q \in Procs : parent[q] # p
    /\ pc[p] = "exit_wakeup" /\ parent[p] \in Procs /\ state[parent[p]] = "SLEEPING" =>
         parent[p] \in todo[p]
    /\ pc[p] = "wait_sleep" => \A q \in Procs : parent[q] = p => state[q] # "ZOMBIE"

IInv ==
  /\ TypeOK /\ StackInUseOnce /\ Holders /\ Forks /\ Family /\ Exits
  /\ NoOrphans /\ NoMissedExit

(***************************************************************************)
(* Every step of proc.c preserves the invariant.                           *)
(***************************************************************************)

\* fork's allocproc takes an unused slot, which nobody runs and nobody waits for.
LEMMA ForkStep ==
  ASSUME IInv, NEW p \in Procs, NEW q \in Procs, fork(p, q)
  PROVE  IInv'
<1>1. TypeOK'
  BY DEF IInv, TypeOK, States, Labels, ForkPc, fork
<1>2. StackInUseOnce'
  BY DEF IInv, StackInUseOnce, fork
<1>3. Holders'
  BY DEF IInv, TypeOK, Holders, WlockPc, At, fork
<1>4. Forks'
  BY DEF IInv, TypeOK, Forks, ForkPc, At, fork
<1>5. Family'
  BY DEF IInv, Family, Alive, fork
<1>6. Exits'
  BY DEF IInv, TypeOK, Exits, fork
<1>7. NoOrphans'
  BY DEF IInv, NoOrphans, fork
<1>8. NoMissedExit'
  BY DEF IInv, TypeOK, NoMissedExit, At, fork
<1> QED
  BY <1>1, <1>2, <1>3, <1>4, <1>5, <1>6, <1>7, <1>8 DEF IInv

\* A failed uvmcopy frees a slot that was unused before.
LEMMA ForkFailStep ==
  ASSUME IInv, NEW p \in Procs, NEW q \in Procs, fork_fail(p, q)
  PROVE  IInv'
<1>1. TypeOK'
  BY DEF IInv, TypeOK, fork_fail, freeproc
<1>2. StackInUseOnce'
  BY DEF IInv, StackInUseOnce, fork_fail, freeproc
<1>3. Holders'
  BY DEF IInv, Holders, fork_fail, freeproc
<1>4. Forks'
  BY DEF IInv, Forks, fork_fail, freeproc
<1>5. Family'
  BY ProcsAssumption DEF IInv, Family, fork_fail, freeproc
<1>6. Exits'
  BY ProcsAssumption DEF IInv, Exits, fork_fail, freeproc
<1>7. NoOrphans'
  BY DEF IInv, NoOrphans, fork_fail, freeproc
<1>8. NoMissedExit'
  BY DEF IInv, NoMissedExit, At, fork_fail, freeproc
<1> QED
  BY <1>1, <1>2, <1>3, <1>4, <1>5, <1>6, <1>7, <1>8 DEF IInv

\* fork names the caller as the parent of a slot that is still USED.
LEMMA ForkParentStep ==
  ASSUME IInv, NEW p \in Procs, fork_parent(p)
  PROVE  IInv'
<1>1. TypeOK'
  BY DEF IInv, TypeOK, Forks, States, Labels, ForkPc, At, fork_parent, Goto
<1>2. StackInUseOnce'
  BY DEF IInv, StackInUseOnce, fork_parent
<1>3. Holders'
  BY DEF IInv, Holders, WlockPc, At, fork_parent, Goto
<1>4. Forks'
  BY DEF IInv, TypeOK, Forks, ForkPc, At, fork_parent, Goto
<1>5. Family'
  BY DEF IInv, Family, Forks, Alive, ForkPc, At, fork_parent
<1>6. Exits'
  BY DEF IInv, Exits, At, fork_parent, Goto
<1>7. NoOrphans'
  BY ProcsAssumption DEF IInv, NoOrphans, At, fork_parent
<1>8. NoMissedExit'
  BY DEF IInv, NoMissedExit, At, fork_parent, Goto
<1> QED
  BY <1>1, <1>2, <1>3, <1>4, <1>5, <1>6, <1>7, <1>8 DEF IInv

\* The child becomes RUNNABLE when its parent is set and still alive.
LEMMA ForkRunnableStep ==
  ASSUME IInv, NEW p \in Procs, fork_runnable(p)
  PROVE  IInv'
<1>1. TypeOK'
  BY DEF IInv, TypeOK, Forks, States, Labels, ForkPc, At, fork_runnable, Goto
<1>2. StackInUseOnce'
  BY DEF IInv, StackInUseOnce, Forks, ForkPc, At, fork_runnable
<1>3. Holders'
  BY DEF IInv, Holders, Forks, ForkPc, WlockPc, At, fork_runnable, Goto
<1>4. Forks'
  BY DEF IInv, TypeOK, Forks, ForkPc, At, fork_runnable, Goto
<1>5. Family'
  BY ProcsAssumption DEF IInv, Family, Forks, ForkPc, At, fork_runnable
<1>6. Exits'
  BY DEF IInv, Exits, fork_runnable, Goto
<1>7. NoOrphans'
  BY ProcsAssumption DEF IInv, NoOrphans, Forks, ForkPc, At, fork_runnable
<1>8. NoMissedExit'
  BY DEF IInv, NoMissedExit, Forks, ForkPc, At, fork_runnable, Goto
<1> QED
  BY <1>1, <1>2, <1>3, <1>4, <1>5, <1>6, <1>7, <1>8 DEF IInv

\* wait frees a zombie of its own; the exits made sure it has no children.
LEMMA WaitFoundStep ==
  ASSUME IInv, NEW p \in Procs, NEW q \in Procs, wait_found(p, q)
  PROVE  IInv'
<1>1. TypeOK'
  BY DEF IInv, TypeOK, States, Labels, wait_found, freeproc, Goto
<1>2. StackInUseOnce'
  BY DEF IInv, StackInUseOnce, wait_found, freeproc
<1>3. Holders'
  BY DEF IInv, TypeOK, Holders, WlockPc, At, wait_found, freeproc, Goto
<1>4. Forks'
  BY DEF IInv, Forks, ForkPc, wait_found, freeproc, Goto
<1>5. Family'
  BY ProcsAssumption DEF IInv, Family, wait_found, freeproc
<1>6. Exits'
  BY ProcsAssumption DEF IInv, Exits, wait_found, freeproc, Goto
<1>7. NoOrphans'
  BY DEF IInv, TypeOK, NoOrphans, wait_found, freeproc
<1>8. NoMissedExit'
  BY DEF IInv, TypeOK, NoMissedExit, At, wait_found, freeproc, Goto
<1> QED
  BY <1>1, <1>2, <1>3, <1>4, <1>5, <1>6, <1>7, <1>8 DEF IInv

\* wait goes to sleep holding wait_lock, so no exit is half way.
LEMMA WaitSleepStep ==
  ASSUME IInv, NEW p \in Procs, wait_sleep(p)
  PROVE  IInv'
<1>1. TypeOK'
  BY DEF IInv, TypeOK, States, Labels, wait_sleep, Goto
<1>2. StackInUseOnce'
  BY DEF IInv, TypeOK, StackInUseOnce, wait_sleep
<1>3. Holders'
  BY DEF IInv, TypeOK, Holders, WlockPc, At, wait_sleep, Goto
<1>4. Forks'
  BY DEF IInv, Forks, ForkPc, At, wait_sleep, Goto
<1>5. Family'
  BY DEF IInv, Family, Alive, wait_sleep
<1>6. Exits'
  BY DEF IInv, Exits, Holders, WlockPc, At, wait_sleep, Goto
<1>7. NoOrphans'
  BY DEF IInv, NoOrphans, At, wait_sleep
<1>8. NoMissedExit'
  BY DEF IInv, NoMissedExit, Exits, At, wait_sleep, Goto
<1> QED
  BY <1>1, <1>2, <1>3, <1>4, <1>5, <1>6, <1>7, <1>8 DEF IInv

\* reparent hands a child to init, which is there, and must then wake it.
LEMMA ReparentStep ==
  ASSUME IInv, NEW p \in Procs, NEW q \in Procs, reparent(p, q)
  PROVE  IInv'
<1>1. TypeOK'
  BY ProcsAssumption DEF IInv, TypeOK, Labels, WlockPc, reparent, Goto
<1>2. StackInUseOnce'
  BY DEF IInv, StackInUseOnce, reparent
<1>3. Holders'
  BY DEF IInv, Holders, WlockPc, At, reparent, Goto
<1>4. Forks'
  BY DEF IInv, TypeOK, Forks, ForkPc, reparent, Goto
<1>5. Family'
  BY ProcsAssumption DEF IInv, Family, reparent
<1>6. Exits'
  BY DEF IInv, Exits, Holders, WlockPc, At, reparent, Goto
<1>7. NoOrphans'
  BY ProcsAssumption DEF IInv, NoOrphans, Family, Alive, reparent
<1>8. NoMissedExit'
  BY DEF IInv, TypeOK, NoMissedExit, At, reparent, Goto
<1> QED
  BY <1>1, <1>2, <1>3, <1>4, <1>5, <1>6, <1>7, <1>8 DEF IInv

\* reparent has found no more children.
LEMMA ReparentDoneStep ==
  ASSUME IInv, NEW p \in Procs, reparent_done(p)
  PROVE  IInv'
<1>1. TypeOK'
  BY DEF IInv, TypeOK, Labels, WlockPc, reparent_done, Goto
<1>2. StackInUseOnce'
  BY DEF IInv, StackInUseOnce, reparent_done
<1>3. Holders'
  BY DEF IInv, Holders, WlockPc, At, reparent_done, Goto
<1>4. Forks'
  BY DEF IInv, Forks, ForkPc, reparent_done, Goto
<1>5. Family'
  BY DEF IInv, Family, reparent_done
<1>6. Exits'
  BY DEF IInv, TypeOK, Exits, At, reparent_done, Goto, Children
<1>7. NoOrphans'
  BY DEF IInv, NoOrphans, reparent_done
<1>8. NoMissedExit'
  BY DEF IInv, NoMissedExit, At, reparent_done, Goto
<1> QED
  BY <1>1, <1>2, <1>3, <1>4, <1>5, <1>6, <1>7, <1>8 DEF IInv

\* wakeup looks at one slot; the sleeper it passes is no longer asleep.
LEMMA WakeupStep ==
  ASSUME IInv, NEW p \in Procs, NEW q \in Procs, wakeup(p, q)
  PROVE  IInv'
<1>1. TypeOK'
  BY DEF IInv, TypeOK, States, wakeup
<1>2. StackInUseOnce'
  BY DEF IInv, StackInUseOnce, wakeup
<1>3. Holders'
  BY DEF IInv, Holders, wakeup
<1>4. Forks'
  BY DEF IInv, Forks, wakeup
<1>5. Family'
  BY DEF IInv, Family, Alive, wakeup
<1>6. Exits'
  BY DEF IInv, TypeOK, Exits, Holders, wakeup, WakeChan
<1>7. NoOrphans'
  BY DEF IInv, NoOrphans, wakeup
<1>8. NoMissedExit'
  BY DEF IInv, TypeOK, NoMissedExit, Holders, At, wakeup, WakeChan
<1> QED
  BY <1>1, <1>2, <1>3, <1>4, <1>5, <1>6, <1>7, <1>8 DEF IInv

\* exit becomes a zombie after its wakeup, still holding wait_lock.
LEMMA ZombieStep ==
  ASSUME IInv, NEW p \in Procs, exit_zombie(p)
  PROVE  IInv'
<1>1. TypeOK'
  BY DEF IInv, TypeOK, States, Labels, exit_zombie, Goto
<1>2. StackInUseOnce'
  BY DEF IInv, TypeOK, StackInUseOnce, exit_zombie
<1>3. Holders'
  BY DEF IInv, TypeOK, Holders, WlockPc, At, exit_zombie, Goto
<1>4. Forks'
  BY DEF IInv, Forks, ForkPc, At, exit_zombie, Goto
<1>5. Family'
  BY DEF IInv, Family, Exits, At, exit_zombie
<1>6. Exits'
  BY DEF IInv, Exits, Holders, WlockPc, At, exit_zombie, Goto
<1>7. NoOrphans'
  BY DEF IInv, NoOrphans, Exits, At, exit_zombie
<1>8. NoMissedExit'
  BY DEF IInv, NoMissedExit, Exits, At, exit_zombie, Goto
<1> QED
  BY <1>1, <1>2, <1>3, <1>4, <1>5, <1>6, <1>7, <1>8 DEF IInv

\* kill wakes its target, wherever that sleeps.
LEMMA KillStep ==
  ASSUME IInv, NEW p \in Procs, NEW q \in Procs, kill(p, q)
  PROVE  IInv'
<1>1. TypeOK'
  BY DEF IInv, TypeOK, States, kill
<1>2. StackInUseOnce'
  BY DEF IInv, StackInUseOnce, kill
<1>3. Holders'
  BY DEF IInv, Holders, kill
<1>4. Forks'
  BY DEF IInv, Forks, kill
<1>5. Family'
  BY DEF IInv, Family, Alive, kill
<1>6. Exits'
  BY DEF IInv, Exits, kill
<1>7. NoOrphans'
  BY DEF IInv, NoOrphans, kill
<1>8. NoMissedExit'
  BY DEF IInv, NoMissedExit, At, kill
<1> QED
  BY <1>1, <1>2, <1>3, <1>4, <1>5, <1>6, <1>7, <1>8 DEF IInv

\* A scheduler takes a RUNNABLE slot, which no other CPU runs.
LEMMA RunStep ==
  ASSUME IInv, NEW c \in CPUs, NEW p \in Procs, scheduler_run(c, p)
  PROVE  IInv'
<1>1. TypeOK'
  BY DEF IInv, TypeOK, States, Labels, scheduler_run, Goto
<1>2. StackInUseOnce'
  BY DEF IInv, TypeOK, StackInUseOnce, scheduler_run
<1>3. Holders'
  BY DEF IInv, Holders, WlockPc, scheduler_run, Goto
<1>4. Forks'
  BY DEF IInv, Forks, ForkPc, scheduler_run, Goto
<1>5. Family'
  BY DEF IInv, Family, Alive, scheduler_run
<1>6. Exits'
  BY DEF IInv, Exits, scheduler_run, Goto
<1>7. NoOrphans'
  BY DEF IInv, NoOrphans, scheduler_run
<1>8. NoMissedExit'
  BY DEF IInv, NoMissedExit, At, scheduler_run, Goto
<1> QED
  BY <1>1, <1>2, <1>3, <1>4, <1>5, <1>6, <1>7, <1>8 DEF IInv

\* A CPU is back in its scheduler, and the slot's lock is released.
LEMMA BackStep ==
  ASSUME IInv, NEW c \in CPUs, scheduler_back(c)
  PROVE  IInv'
<1>1. TypeOK'
  BY DEF IInv, TypeOK, scheduler_back
<1>2. StackInUseOnce'
  BY DEF IInv, TypeOK, StackInUseOnce, scheduler_back
<1>3. Holders'
  BY DEF IInv, Holders, scheduler_back
<1>4. Forks'
  BY DEF IInv, Forks, scheduler_back
<1>5. Family'
  BY DEF IInv, Family, scheduler_back
<1>6. Exits'
  BY DEF IInv, Exits, scheduler_back
<1>7. NoOrphans'
  BY DEF IInv, NoOrphans, scheduler_back
<1>8. NoMissedExit'
  BY DEF IInv, NoMissedExit, At, scheduler_back
<1> QED
  BY <1>1, <1>2, <1>3, <1>4, <1>5, <1>6, <1>7, <1>8 DEF IInv

\* A process without spin locks gives up its CPU.
LEMMA YieldStep ==
  ASSUME IInv, NEW c \in CPUs, yield(c)
  PROVE  IInv'
<1>1. TypeOK'
  BY DEF IInv, TypeOK, States, yield
<1>2. StackInUseOnce'
  BY DEF IInv, TypeOK, StackInUseOnce, yield
<1>3. Holders'
  BY DEF IInv, Holders, yield, IntrOff
<1>4. Forks'
  BY DEF IInv, Forks, yield
<1>5. Family'
  BY DEF IInv, Family, Alive, yield
<1>6. Exits'
  BY DEF IInv, Exits, yield
<1>7. NoOrphans'
  BY DEF IInv, NoOrphans, yield
<1>8. NoMissedExit'
  BY DEF IInv, NoMissedExit, Holders, WlockPc, At, yield, IntrOff
<1> QED
  BY <1>1, <1>2, <1>3, <1>4, <1>5, <1>6, <1>7, <1>8 DEF IInv

\* The steps that change only who holds wait_lock and what wakeup has to visit.
LEMMA MoveStep ==
  ASSUME IInv, NEW p \in Procs,
         \/ fork_acquire(p) \/ wait_call(p) \/ wait_acquire(p) \/ wait_none(p)
         \/ exit(p) \/ exit_acquire(p) \/ reparent_next(p)
         \/ \E q \in Procs : wait_fault(p, q)
  PROVE  IInv'
<1> USE DEF fork_acquire, wait_call, wait_acquire, wait_none, wait_fault, exit, exit_acquire,
            reparent_next, Goto
<1>1. TypeOK'
  BY DEF IInv, TypeOK, Labels, ForkPc, WlockPc
<1>2. StackInUseOnce'
  BY DEF IInv, StackInUseOnce
<1>3. Holders'
  BY ProcsAssumption DEF IInv, TypeOK, Holders, WlockPc, At
<1>4. Forks'
  BY DEF IInv, TypeOK, Forks, ForkPc, At
<1>5. Family'
  BY DEF IInv, Family
<1>6. Exits'
  BY DEF IInv, TypeOK, Exits, At, Children
<1>7. NoOrphans'
  BY DEF IInv, NoOrphans
<1>8. NoMissedExit'
  BY DEF IInv, TypeOK, NoMissedExit, At
<1> QED
  BY <1>1, <1>2, <1>3, <1>4, <1>5, <1>6, <1>7, <1>8 DEF IInv

\* The process table userinit leaves is in the invariant.
LEMMA InitIInv == Init => IInv
<1> SUFFICES ASSUME Init PROVE IInv
  OBVIOUS
<1>1. TypeOK
  BY ProcsAssumption DEF Init, TypeOK, States, Labels
<1>2. StackInUseOnce /\ NoOrphans /\ NoMissedExit
  BY DEF Init, StackInUseOnce, NoOrphans, NoMissedExit
<1>3. Holders /\ Forks /\ Family /\ Exits
  BY ProcsAssumption DEF Init, Holders, WlockPc, Forks, ForkPc, Family, Alive, Exits
<1> QED
  BY <1>1, <1>2, <1>3 DEF IInv

\* Every step of the processes and the harts keeps the invariant.
LEMMA StepIInv == IInv /\ [Next]_vars => IInv'
<1> SUFFICES ASSUME IInv, [Next]_vars PROVE IInv'
  OBVIOUS
<1>1. CASE UNCHANGED vars
  BY <1>1 DEF vars, IInv, TypeOK, StackInUseOnce, Holders, Forks, Family, Exits, NoOrphans,
              NoMissedExit, At
<1>2. ASSUME NEW p \in Procs, Call(p) PROVE IInv'
  BY Zenon, <1>2, ForkStep, ForkFailStep, KillStep, MoveStep DEF Call
<1>3. ASSUME NEW p \in Procs, Inside(p) PROVE IInv'
  BY Zenon, <1>3, ForkParentStep, ForkRunnableStep, WaitFoundStep, WaitSleepStep, ReparentStep,
     ReparentDoneStep, WakeupStep, ZombieStep, MoveStep DEF Inside
<1>4. ASSUME NEW c \in CPUs, Switch(c) PROVE IInv'
  BY Zenon, <1>4, RunStep, BackStep, YieldStep DEF Switch
<1> QED
  BY <1>1, <1>2, <1>3, <1>4 DEF Next

\* The inductive invariant holds throughout.
LEMMA Inductive == Spec => []IInv
BY InitIInv, StepIInv, PTL DEF Spec

(***************************************************************************)
(* The properties.                                                         *)
(***************************************************************************)

\* sched and scheduler hand p->lock over with the switch, so no CPU runs on a
\* kernel stack that another CPU still uses or that has been given up.
THEOREM StacksAreExclusive == Spec => []StackInUseOnce
<1>1. IInv => StackInUseOnce
  BY DEF IInv
<1> QED
  BY <1>1, Inductive, PTL

\* fork sets np->parent before the child can run, and exit's reparent gives
\* every child to init: each process has a parent that can wait for it.
THEOREM ChildrenHaveParents == Spec => []NoOrphans
<1>1. IInv => NoOrphans
  BY DEF IInv
<1> QED
  BY <1>1, Inductive, PTL

\* wait_lock is held from exit's wakeup to its change to ZOMBIE, and from
\* wait's scan to its sleep: no parent sleeps beside a zombie child.
THEOREM ExitsAreNoticed == Spec => []NoMissedExit
<1>1. IInv => NoMissedExit
  BY DEF IInv
<1> QED
  BY <1>1, Inductive, PTL

==============================================================================
