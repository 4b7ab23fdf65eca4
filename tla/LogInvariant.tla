---------------------------- MODULE LogInvariant ----------------------------
(***************************************************************************)
(* The inductive invariant of Log, and the safety properties that follow   *)
(* from it whatever crashes and recoveries happen, for every number of     *)
(* processes, blocks and log blocks.                                       *)
(***************************************************************************)
EXTENDS Log, TLAPS

\* The backend of the leaves that name no other, and its time limit.
USE SMTT(60)

(***************************************************************************)
(* The inductive invariant.                                                *)
(***************************************************************************)
\* S has n elements: 1 .. n lists them, each of them once.
Counts(n, S) ==
  \E f \in [1 .. n -> S] :
    /\ \A x \in S : \E i \in 1 .. n : f[i] = x
    /\ \A i, j \in 1 .. n : f[i] = f[j] => i = j

NoDup(s) == \A i, j \in 1 .. Len(s) : s[i] = s[j] => i = j

\* Who is in begin_op ... end_op, who is in commit(), and that recovery runs
\* alone.
Control ==
  /\ Counts(outstanding, Active)
  /\ committing = 1 => Active = {}
  /\ \A p \in Procs : pc[p] \in CommitPc => committing = 1
  /\ \A p, q \in Procs : pc[p] \in CommitPc /\ pc[q] \in CommitPc => p = q
  /\ boot # "up" => committing = 0 /\ \A p \in Procs : pc[p] = "idle"

\* The log in memory and on the disk fits, and names a block at most once.
HeaderOK ==
  /\ Len(lh) <= NLOG - 1 /\ NoDup(lh)
  /\ Len(head) <= NLOG - 1 /\ NoDup(head)

\* The transaction has reached the disk.
Committed == \E p \in Procs : pc[p] \in {"install_trans", "clear"}

\* Entry i of the log is still to be installed by this run of the machine.
Uninstalled(i) ==
  \A p \in Procs : /\ pc[p] = "install_trans" => i >= tail
                   /\ pc[p] # "clear"

\* Exactly the logged blocks not yet installed are pinned; the others have
\* nothing in the cache that the disk does not have.
Pins ==
  /\ \A b \in Blocks :
       \/ pin[b] = 1 /\ boot = "up" /\ cache[b] # NoData
          /\ \E i \in 1 .. Len(lh) : lh[i] = b /\ Uninstalled(i)
       \/ pin[b] = 0 /\ cache[b] \in {NoData, disk[b]}
  /\ boot = "up" =>
       \A i \in 1 .. Len(lh) : Uninstalled(i) => pin[lh[i]] = 1

Logged(i) == logdata[i] = Contents(lh[i])
Home(i) == disk[lh[i]] = logdata[i]

\* How far each step of commit() has come.
CommitPhase ==
  \A p \in Procs :
    /\ pc[p] = "write_log" =>
         tail \in 1 .. Len(lh) /\ \A i \in 1 .. tail - 1 : Logged(i)
    /\ pc[p] = "write_head" => \A i \in 1 .. Len(lh) : Logged(i)
    /\ pc[p] = "write_head" => Len(lh) > 0
    /\ pc[p] = "install_trans" =>
         /\ tail \in 1 .. Len(lh)
         /\ \A i \in 1 .. Len(lh) : Logged(i)
         /\ \A i \in 1 .. tail - 1 : Home(i)
    /\ pc[p] = "clear" => \A i \in 1 .. Len(lh) : Home(i) /\ Logged(i)
    /\ pc[p] = "done" => Len(lh) = 0

\* How far each step of recover_from_log has come.
RecoverPhase ==
  /\ boot = "read_head" => \A b \in Blocks : cache[b] = NoData
  /\ boot = "install_trans" =>
       lh = head /\ tail \in 1 .. Len(lh) /\ \A i \in 1 .. tail - 1 : Home(i)
  /\ boot = "clear" => lh = head /\ \A i \in 1 .. Len(lh) : Home(i)
  /\ boot = "up" => head = IF Committed THEN lh ELSE <<>>

LogInv == HeaderOK /\ Pins /\ CommitPhase /\ RecoverPhase

\* log_write's panic leaves the block the caller modified unlogged, and
\* nothing follows it.
IInv == TypeOK /\ Control /\ (panic = "none" => LogInv)

\* Counting by one: a set with no elements, one more and one fewer.
LEMMA CountsNone ==
  ASSUME NEW n \in Nat, NEW S, Counts(n, S)
  PROVE  n = 0 <=> S = {}
BY DEF Counts

\* Nothing counts the empty set: outstanding after initlog and after a crash.
LEMMA CountsEmpty == Counts(0, {})
<1> DEFINE f == [i \in 1 .. 0 |-> i]
<1>1. f \in [1 .. 0 -> {}] /\ 1 .. 0 = {}
  OBVIOUS
<1> HIDE DEF f
<1> QED
  BY Zenon, <1>1 DEF Counts

\* outstanding += 1 in begin_op counts the caller, who was not counted before.
LEMMA CountsMore ==
  ASSUME NEW n \in Nat, NEW S, Counts(n, S), NEW x, x \notin S
  PROVE  Counts(n + 1, S \cup {x})
<1>1. PICK f \in [1 .. n -> S] :
        /\ \A y \in S : \E i \in 1 .. n : f[i] = y
        /\ \A i, j \in 1 .. n : f[i] = f[j] => i = j
  BY Zenon DEF Counts
<1> DEFINE g == [i \in 1 .. n + 1 |-> IF i = n + 1 THEN x ELSE f[i]]
<1>2. g \in [1 .. n + 1 -> S \cup {x}]
  BY <1>1
<1>3. \A y \in S \cup {x} : \E i \in 1 .. n + 1 : g[i] = y
  <2>1. g[n + 1] = x /\ \A i \in 1 .. n : i \in 1 .. n + 1 /\ g[i] = f[i]
    OBVIOUS
  <2> QED
    BY <1>1, <2>1
<1>4. \A i, j \in 1 .. n + 1 : g[i] = g[j] => i = j
  BY <1>1
<1> HIDE DEF g
<1> QED
  BY Zenon, <1>2, <1>3, <1>4 DEF Counts

\* outstanding -= 1 in end_op forgets the caller, who was counted.
LEMMA CountsFewer ==
  ASSUME NEW n \in Nat, NEW S, Counts(n, S), NEW x \in S
  PROVE  n - 1 \in Nat /\ Counts(n - 1, S \ {x})
<1>1. PICK f \in [1 .. n -> S] :
        /\ \A y \in S : \E i \in 1 .. n : f[i] = y
        /\ \A i, j \in 1 .. n : f[i] = f[j] => i = j
  BY Zenon DEF Counts
<1>2. PICK k \in 1 .. n : f[k] = x
  BY <1>1, Zenon
\* The last element takes the place of x.
<1> DEFINE g == [i \in 1 .. n - 1 |-> IF i = k THEN f[n] ELSE f[i]]
<1>3. n - 1 \in Nat /\ n \in 1 .. n /\ \A i \in 1 .. n - 1 : i \in 1 .. n /\ i # n
  BY <1>2
<1>4. g \in [1 .. n - 1 -> S \ {x}]
  BY <1>1, <1>2, <1>3, Zenon
<1>5. \A y \in S \ {x} : \E i \in 1 .. n - 1 : g[i] = y
  <2> TAKE y \in S \ {x}
  <2>1. PICK i \in 1 .. n : f[i] = y
    BY <1>1, Zenon
  <2>2. CASE i = n
    BY <1>2, <1>3, <2>1, <2>2
  <2>3. CASE i # n
    BY <1>2, <1>3, <2>1, <2>3
  <2> QED
    BY <2>2, <2>3, Zenon
<1>6. \A i, j \in 1 .. n - 1 : g[i] = g[j] => i = j
  BY <1>1, <1>2, <1>3, Zenon
<1> HIDE DEF g
<1> QED
  BY Zenon, <1>3, <1>4, <1>5, <1>6 DEF Counts

\* A machine that has just booted, its log not yet recovered, is in the invariant.
LEMMA InitInv == Init => IInv
<1> SUFFICES ASSUME Init PROVE TypeOK /\ Control /\ LogInv
  BY Zenon DEF IInv
<1>1. TypeOK
  BY DataAssumption, SizeAssumption DEF Init, TypeOK, OpPc, CommitPc, LogSlots
<1>2. Control
  <2>1. Active = {}
    BY Zenon DEF Init, Active, OpPc
  <2> QED
    BY <2>1, CountsEmpty, Zenon DEF Init, Control, CommitPc
<1>3. HeaderOK
  BY SizeAssumption DEF Init, HeaderOK, NoDup
<1>4. Pins /\ CommitPhase /\ RecoverPhase
  BY Zenon DEF Init, Pins, CommitPhase, RecoverPhase
<1> QED
  BY <1>1, <1>2, <1>3, <1>4, Zenon DEF LogInv

\* begin_op: the caller is counted, or sleeps.
LEMMA StepAdmit ==
  ASSUME IInv, panic = "none", NEW p \in Procs, boot = "up", pc[p] \in {"idle", "woken"}, Admit(p)
  PROVE  IInv'
<1>1. TypeOK'
  <2>1. CASE LogBusy
    BY <2>1, Zenon DEF TypeOK, Admit, Goto, diskVars, IInv
  <2>2. CASE ~LogBusy
    <3>1. wrote' \in [Procs -> SUBSET Blocks]
      BY ZenonT(60), <2>2 DEF TypeOK, Admit, IInv
    <3>2. pc' \in [Procs -> {"idle", "asleep", "woken"} \cup OpPc \cup CommitPc]
      BY ZenonT(60), <2>2 DEF TypeOK, Admit, Goto, OpPc, IInv
    <3> QED
      BY <2>2, <3>1, <3>2 DEF TypeOK, Admit, diskVars, IInv
  <2> QED
    BY <2>1, <2>2, Zenon
<1>2. Control'
  <2>1. CASE LogBusy
    <3>1. Active' = Active
      BY <2>1, Zenon DEF Admit, Goto, Active, OpPc, TypeOK, IInv
    <3>2. Counts(outstanding', Active')
      BY <2>1, <3>1, Zenon DEF Control, Admit, IInv
    <3>3. /\ \A q \in Procs : pc'[q] \in CommitPc => pc[q] \in CommitPc
          /\ UNCHANGED <<committing, boot>>
      BY <2>1, Zenon DEF Admit, Goto, CommitPc, TypeOK, IInv
    <3> QED
      BY <3>1, <3>2, <3>3, Zenon DEF Control, IInv
  <2>2. CASE ~LogBusy
    <3>1. Active' = Active \cup {p} /\ p \notin Active
      BY <2>2, Zenon DEF Admit, Goto, Active, OpPc, TypeOK, IInv
    <3>2. Counts(outstanding', Active')
      <4>1. Counts(outstanding, Active) /\ outstanding \in Nat /\ outstanding' = outstanding + 1
        BY <2>2, Zenon DEF Control, Admit, TypeOK, IInv
      <4> QED
        BY <3>1, <4>1, CountsMore, Zenon
    <3>3. committing = 0
      BY <2>2, Zenon DEF LogBusy, TypeOK, IInv
    <3> QED
      BY <2>2, <3>2, <3>3 DEF Control, Admit, Goto, OpPc, CommitPc, TypeOK, IInv
  <2> QED
    BY <2>1, <2>2, Zenon
<1>3. HeaderOK'
  BY Zenon DEF HeaderOK, NoDup, Admit, diskVars, IInv, LogInv
<1>4. \A q \in Procs, l \in CommitPc : pc'[q] = l <=> pc[q] = l
  BY Zenon DEF Admit, Goto, CommitPc, TypeOK, IInv
<1>5. Pins' /\ CommitPhase' /\ RecoverPhase'
  BY <1>4 DEF Pins, CommitPhase, RecoverPhase, Uninstalled, Committed, Logged, Home,
              Contents, Admit, diskVars, CommitPc, IInv, LogInv
<1> QED
  BY <1>1, <1>2, <1>3, <1>5, Zenon DEF Admit, IInv, LogInv

\* end_op: the last caller out takes the commit, any other wakes the sleepers.
LEMMA StepEndOp ==
  ASSUME IInv, panic = "none", NEW p \in Procs, end_op(p)
  PROVE  IInv'
<1>0. p \in Active /\ boot = "up" /\ committing = 0
  BY Zenon DEF end_op, Active, OpPc, Control, TypeOK, IInv
<1>1. /\ Active' = Active \ {p}
      /\ pc' \in [Procs -> {"idle", "asleep", "woken"} \cup OpPc \cup CommitPc]
      /\ \A q \in Procs \ {p} : pc'[q] \in CommitPc <=> pc[q] \in CommitPc
  <2>1. /\ pc \in [Procs -> {"idle", "asleep", "woken"} \cup OpPc \cup CommitPc]
        /\ pc[p] = "trans"
    BY Zenon DEF TypeOK, end_op, IInv
  <2>2. \/ pc' = [pc EXCEPT ![p] = CommitStart] \/ WakeupGoto(p, "idle")
    BY Zenon DEF end_op, Goto
  <2>3. CommitStart \in CommitPc
    BY Zenon DEF CommitStart, CommitPc
  <2>4. CASE pc' = [pc EXCEPT ![p] = CommitStart]
    BY <2>1, <2>3, <2>4, Zenon DEF Active, OpPc, CommitPc
  <2>5. CASE WakeupGoto(p, "idle")
    BY <2>1, <2>5, Zenon DEF WakeupGoto, Active, OpPc, CommitPc
  <2> QED
    BY <2>2, <2>4, <2>5, Zenon
<1>2. Counts(outstanding, Active) /\ outstanding \in Nat /\ outstanding' = outstanding - 1
  BY Zenon DEF end_op, Control, TypeOK, IInv
<1>3. Counts(outstanding', Active') /\ outstanding' \in Nat
  BY <1>0, <1>1, <1>2, CountsFewer, Zenon
<1>4. outstanding' = 0 => Active' = {}
  BY <1>3, CountsNone, Zenon
<1>5. TypeOK'
  BY <1>1, <1>2, <1>3 DEF TypeOK, end_op, diskVars, IInv
<1>6. \A q \in Procs : pc[q] \notin CommitPc
  BY <1>0, Zenon DEF Control, IInv
<1>7. Control'
  BY <1>0, <1>1, <1>3, <1>4, <1>6 DEF Control, end_op, Goto, WakeupGoto, CommitPc, TypeOK, IInv
<1>8. HeaderOK'
  BY Zenon DEF HeaderOK, NoDup, end_op, diskVars, IInv, LogInv
<1>9. /\ \A q \in Procs : pc'[q] \notin {"install_trans", "clear", "write_head"}
      /\ \A q \in Procs : pc'[q] = "write_log" => tail' = 1 /\ lh # <<>>
      /\ \A q \in Procs : pc'[q] = "done" => lh = <<>>
  BY ZenonT(60), <1>6 DEF end_op, Goto, WakeupGoto, CommitStart, CommitPc, TypeOK, IInv
<1>10. Pins'
  BY <1>6, <1>9 DEF Pins, Uninstalled, end_op, diskVars, CommitPc, IInv, LogInv
<1>11. CommitPhase'
  BY <1>9 DEF CommitPhase, end_op, TypeOK, IInv, LogInv
<1>12. RecoverPhase'
  BY <1>0, <1>6, <1>9, Zenon DEF RecoverPhase, Committed, end_op, diskVars, CommitPc, IInv, LogInv
<1> QED
  BY <1>5, <1>7, <1>8, <1>10, <1>11, <1>12, Zenon DEF IInv, LogInv

\* A process moving between "trans" and "buf" disturbs nothing but pc.
LEMMA StepBuffer ==
  ASSUME IInv, panic = "none", NEW p \in Procs, pc[p] \in OpPc,
         NEW l \in OpPc, pc' = [pc EXCEPT ![p] = l],
         UNCHANGED <<outstanding, committing, boot>>
  PROVE  /\ Control' /\ boot = "up"
         /\ pc' \in [Procs -> {"idle", "asleep", "woken"} \cup OpPc \cup CommitPc]
         /\ \A q \in Procs : pc[q] \notin CommitPc /\ pc'[q] \notin CommitPc
<1>1. Active' = Active /\ p \in Active
  BY Zenon DEF Active, OpPc, TypeOK, IInv
<1>2. boot = "up" /\ committing = 0
  BY <1>1, Zenon DEF Control, TypeOK, OpPc, IInv
<1>3. \A q \in Procs : pc[q] \notin CommitPc
  BY <1>2 DEF Control, IInv
<1>4. \A q \in Procs : pc'[q] \notin CommitPc
  BY <1>3, Zenon DEF TypeOK, OpPc, CommitPc, IInv
<1>5. Control'
  BY <1>1, <1>2, <1>4, Zenon DEF Control, IInv
<1>6. pc' \in [Procs -> {"idle", "asleep", "woken"} \cup OpPc \cup CommitPc]
  BY Zenon DEF TypeOK, OpPc, IInv
<1> QED
  BY <1>2, <1>3, <1>4, <1>5, <1>6, Zenon DEF IInv, LogInv

\* bread takes a reference to a cached buffer, or reads the disk into one.
LEMMA StepBread ==
  ASSUME IInv, panic = "none", NEW p \in Procs, NEW b \in Blocks, bread(p, b)
  PROVE  IInv'
<1>1. /\ Control' /\ boot = "up"
      /\ pc' \in [Procs -> {"idle", "asleep", "woken"} \cup OpPc \cup CommitPc]
      /\ \A q \in Procs : pc[q] \notin CommitPc /\ pc'[q] \notin CommitPc
  <2>1. /\ pc[p] \in OpPc /\ "buf" \in OpPc /\ pc' = [pc EXCEPT ![p] = "buf"]
        /\ UNCHANGED <<outstanding, committing, boot>>
    BY Zenon DEF bread, Goto, OpPc
  <2> QED
    BY ZenonT(60), <2>1, StepBuffer
<1>2. TypeOK'
  BY <1>1, Zenon DEF TypeOK, bread, Contents, diskVars, IInv
<1>3. HeaderOK'
  BY Zenon DEF HeaderOK, NoDup, bread, diskVars, IInv, LogInv
<1>4. Pins'
  <2>1. \A i \in 1 .. Len(lh) : Uninstalled(i) /\ Uninstalled(i)'
    BY <1>1, Zenon DEF Uninstalled, CommitPc
  <2>2. UNCHANGED <<pin, lh, disk, boot>>
    BY Zenon DEF bread, diskVars
  <2>3. \A c \in Blocks : cache'[c] = IF c = b /\ cache[c] = NoData THEN disk[c] ELSE cache[c]
    BY Zenon DEF bread, Contents, TypeOK, IInv
  <2>4. \A c \in Blocks : disk[c] # NoData
    BY DataAssumption, Zenon DEF TypeOK, IInv
  <2> QED
    BY ZenonT(60), <2>1, <2>2, <2>3, <2>4 DEF Pins, IInv, LogInv
<1>5. CommitPhase' /\ RecoverPhase'
  BY <1>1, Zenon DEF CommitPhase, RecoverPhase, Committed, bread, diskVars, CommitPc, IInv, LogInv
<1> QED
  BY <1>1, <1>2, <1>3, <1>4, <1>5, Zenon DEF IInv, LogInv

\* brelse gives up the buffer of its caller and leaves the pins alone.
LEMMA StepBrelse ==
  ASSUME IInv, panic = "none", NEW p \in Procs, NEW b \in Blocks, brelse(p, b)
  PROVE  IInv'
<1>1. /\ Control' /\ boot = "up"
      /\ pc' \in [Procs -> {"idle", "asleep", "woken"} \cup OpPc \cup CommitPc]
      /\ \A q \in Procs : pc[q] \notin CommitPc /\ pc'[q] \notin CommitPc
  <2>1. /\ pc[p] \in OpPc /\ "trans" \in OpPc /\ pc' = [pc EXCEPT ![p] = "trans"]
        /\ UNCHANGED <<outstanding, committing, boot>>
    BY Zenon DEF brelse, Goto, OpPc
  <2> QED
    BY ZenonT(60), <2>1, StepBuffer
<1>2. TypeOK'
  BY <1>1, Zenon DEF TypeOK, brelse, diskVars, IInv
<1>3. HeaderOK'
  BY Zenon DEF HeaderOK, NoDup, brelse, diskVars, IInv, LogInv
<1>4. UNCHANGED <<disk, logdata, head, cache, pin, lh, boot, tail>>
  BY Zenon DEF brelse, diskVars
<1>5. Pins'
  BY <1>1, <1>4 DEF Pins, Uninstalled, CommitPc, IInv, LogInv
<1>6. CommitPhase'
  BY <1>1, Zenon DEF CommitPhase, CommitPc, IInv, LogInv
<1>7. RecoverPhase'
  BY <1>1, <1>4, Zenon DEF RecoverPhase, Committed, CommitPc, Home, IInv, LogInv
<1> QED
  BY <1>1, <1>2, <1>3, <1>5, <1>6, <1>7, Zenon DEF IInv, LogInv

\* bget reuses only a buffer nobody refers to, so never one that waits to be
\* installed.
LEMMA StepRecycle ==
  ASSUME IInv, panic = "none", NEW b \in Blocks, bget_recycle(b)
  PROVE  IInv'
<1>1. TypeOK' /\ Control' /\ HeaderOK'
  BY DEF TypeOK, Control, Active, HeaderOK, NoDup, bget_recycle, diskVars, IInv, LogInv
<1>2. UNCHANGED <<disk, logdata, head, pin, lh, pc, tail, boot>>
  BY Zenon DEF bget_recycle, diskVars
<1>3. \A c \in Blocks : Contents(c)' = Contents(c)
  <2> SUFFICES ASSUME NEW c \in Blocks PROVE Contents(c)' = Contents(c)
    OBVIOUS
  <2>1. pin[b] = 0 /\ cache[b] = disk[b]
    BY DEF Pins, bget_recycle, IInv, LogInv
  <2> QED
    BY <2>1, <1>2, Zenon DEF Contents, bget_recycle, TypeOK, IInv
<1>4. \A i : Uninstalled(i)' <=> Uninstalled(i)
  BY <1>2, Zenon DEF Uninstalled
<1>5. Pins'
  <2>1. \A c \in Blocks : cache'[c] = IF c = b THEN NoData ELSE cache[c]
    BY Zenon DEF bget_recycle, TypeOK, IInv
  <2>2. pin[b] = 0
    BY Zenon DEF bget_recycle
  <2> QED
    BY <1>2, <1>4, <2>1, <2>2, Zenon DEF Pins, IInv, LogInv
<1>6. CommitPhase'
  <2>1. \A i \in 1 .. Len(lh) : lh[i] \in Blocks /\ Len(lh) \in Nat
    BY DEF TypeOK, IInv
  <2>2. \A i \in 1 .. Len(lh) : (Logged(i)' <=> Logged(i)) /\ (Home(i)' <=> Home(i))
    BY <1>2, <1>3, <2>1, Zenon DEF Logged, Home
  <2> QED
    BY <1>2, <2>2 DEF CommitPhase, TypeOK, IInv, LogInv
<1>7. RecoverPhase'
  BY <1>2, Zenon DEF RecoverPhase, Committed, Home, bget_recycle, TypeOK, IInv, LogInv
<1> QED
  BY <1>1, <1>5, <1>6, <1>7, Zenon DEF IInv, LogInv

\* log_write absorbs a block already in the header, or appends and pins it.
LEMMA StepLogWrite ==
  ASSUME IInv, panic = "none", NEW p \in Procs, NEW b \in Blocks, NEW v \in Data,
         log_write(p, b, v)
  PROVE  IInv'
<1>1. /\ Control' /\ boot = "up"
      /\ \A q \in Procs : pc[q] \notin CommitPc /\ pc'[q] \notin CommitPc
  <2>1. /\ pc[p] \in OpPc /\ "buf" \in OpPc /\ pc' = [pc EXCEPT ![p] = "buf"]
        /\ UNCHANGED <<outstanding, committing, boot>>
    BY ZenonT(60) DEF log_write, OpPc, TypeOK, IInv
  <2> QED
    BY ZenonT(60), <2>1, StepBuffer
<1>2. UNCHANGED <<disk, logdata, head, pc, tail, boot>>
  BY ZenonT(60) DEF log_write, diskVars
<1>3. TypeOK'
  <2>1. wrote' \in [Procs -> SUBSET Blocks]
    BY ZenonT(60) DEF TypeOK, log_write, IInv
  <2>2. panic' \in {"none", "log.committing", "too big a transaction", "log_write outside of trans"}
    BY ZenonT(60) DEF log_write
  <2>3. \/ UNCHANGED <<lh, pin>>
        \/ lh' = Append(lh, b) /\ pin' = [pin EXCEPT ![b] = @ + 1]
    BY ZenonT(60) DEF log_write
  <2>4. lh' \in Seq(Blocks)
    <3>1. lh \in Seq(Blocks) /\ Append(lh, b) \in Seq(Blocks)
      BY DEF TypeOK, IInv
    <3> QED
      BY <2>3, <3>1, Zenon
  <2>5. pin' \in [Blocks -> Nat]
    <3>1. pin \in [Blocks -> Nat] /\ [pin EXCEPT ![b] = @ + 1] \in [Blocks -> Nat]
      BY DEF TypeOK, IInv
    <3> QED
      BY <2>3, <3>1, Zenon
  <2> QED
    BY ZenonT(60), <1>2, <2>1, <2>2, <2>4, <2>5 DEF TypeOK, log_write, IInv
<1>4. SUFFICES ASSUME panic' = "none" PROVE HeaderOK' /\ Pins' /\ CommitPhase' /\ RecoverPhase'
  BY <1>1, <1>3, Zenon DEF IInv, LogInv
<1>5. Len(lh) < NLOG - 1
  BY <1>4, SizeAssumption DEF log_write, TooBig, TypeOK, IInv
<1>6. \A i : Uninstalled(i) /\ Uninstalled(i)'
  BY <1>1, Zenon DEF Uninstalled, CommitPc
<1>7. CommitPhase' /\ RecoverPhase'
  <2>1. CommitPhase'
    BY <1>1, Zenon DEF CommitPhase, CommitPc
  <2>2. boot' = "up" /\ head' = head /\ head = <<>>
    BY <1>1, <1>2, Zenon DEF RecoverPhase, Committed, CommitPc, IInv, LogInv
  <2>3. RecoverPhase'
    BY <1>1, <2>2, Zenon DEF RecoverPhase, Committed, CommitPc
  <2> QED
    BY <2>1, <2>3, Zenon
<1>8. \A c \in Blocks : cache'[c] = IF c = b THEN v ELSE cache[c]
  BY ZenonT(60) DEF log_write, TypeOK, IInv
<1>9. CASE \E i \in 1 .. Len(lh) : lh[i] = b
  <2>1. lh' = lh /\ pin' = pin
    <3>1. DOMAIN lh = 1 .. Len(lh)
      BY DEF TypeOK, IInv
    <3> QED
      BY ZenonT(60), <1>9, <3>1 DEF log_write
  <2>2. pin[b] = 1
    BY <1>9, <1>1, <1>6, Zenon DEF Pins, IInv, LogInv
  <2>3. HeaderOK'
    BY <2>1, <1>2, Zenon DEF HeaderOK, NoDup, IInv, LogInv
  <2>4. Pins'
    BY <1>1, <1>2, <1>6, <1>8, <2>1, <2>2, DataAssumption DEF Pins, IInv, LogInv
  <2> QED
    BY <2>3, <2>4, <1>7, Zenon
<1>10. CASE ~ \E i \in 1 .. Len(lh) : lh[i] = b
  <2>1. lh' = Append(lh, b) /\ pin' = [pin EXCEPT ![b] = @ + 1]
    BY <1>4, <1>10 DEF log_write, TypeOK, IInv
  <2>2. /\ Len(lh') = Len(lh) + 1 /\ lh'[Len(lh) + 1] = b /\ Len(lh) \in Nat
        /\ \A i \in 1 .. Len(lh) : lh'[i] = lh[i] /\ lh[i] \in Blocks
    BY <2>1 DEF TypeOK, IInv
  <2>3. pin[b] = 0
    BY <1>10, Zenon DEF Pins, IInv, LogInv
  <2>4. \A c \in Blocks : pin'[c] = IF c = b THEN 1 ELSE pin[c]
    BY <2>1, <2>3 DEF TypeOK, IInv
  <2>5. HeaderOK'
    <3>1. NoDup(lh')
      <4>1. NoDup(lh)
        BY Zenon DEF HeaderOK, IInv, LogInv
      <4> QED
        BY <1>10, <2>2, <4>1 DEF NoDup
    <3>2. Len(lh') <= NLOG - 1
      BY <1>5, <2>2, SizeAssumption
    <3>3. Len(head') <= NLOG - 1 /\ NoDup(head')
      BY <1>2, Zenon DEF HeaderOK, NoDup, IInv, LogInv
    <3> QED
      BY <3>1, <3>2, <3>3, Zenon DEF HeaderOK, NoDup
  <2>6. Pins'
    <3>1. ASSUME NEW c \in Blocks, c # b
          PROVE  \/ pin'[c] = 1 /\ cache'[c] # NoData /\ \E i \in 1 .. Len(lh') : lh'[i] = c
                 \/ pin'[c] = 0 /\ cache'[c] \in {NoData, disk[c]}
      BY <1>8, <2>2, <2>4, <3>1 DEF Pins, IInv, LogInv
    <3>2. /\ pin'[b] = 1 /\ cache'[b] # NoData
          /\ \E i \in 1 .. Len(lh') : lh'[i] = b
      BY <1>8, <2>2, <2>4, DataAssumption
    <3>3. \A i \in 1 .. Len(lh') : pin'[lh'[i]] = 1
      BY <1>1, <1>6, <2>2, <2>4 DEF Pins, IInv, LogInv
    <3> QED
      <4>1. ASSUME NEW c \in Blocks
            PROVE  \/ pin'[c] = 1 /\ cache'[c] # NoData /\ \E i \in 1 .. Len(lh') : lh'[i] = c
                   \/ pin'[c] = 0 /\ cache'[c] \in {NoData, disk[c]}
        BY <3>1, <3>2, Zenon
      <4>2. boot' = "up" /\ disk' = disk
        BY <1>1, <1>2, Zenon
      <4> QED
        BY <1>6, <3>3, <4>1, <4>2, Zenon DEF Pins
  <2> QED
    BY <2>5, <2>6, <1>7, Zenon
<1> QED
  BY <1>9, <1>10, Zenon DEF IInv, LogInv

(***************************************************************************)
(* The steps of commit() preserve the invariant of the log.                *)
(***************************************************************************)

\* The committing process moving on within commit() disturbs nothing but pc.
LEMMA StepCommit ==
  ASSUME IInv, panic = "none", NEW p \in Procs, pc[p] \in CommitPc,
         NEW l \in CommitPc, pc' = [pc EXCEPT ![p] = l],
         UNCHANGED <<outstanding, committing, boot>>
  PROVE  /\ Control' /\ boot = "up" /\ pc'[p] = l
         /\ pc' \in [Procs -> {"idle", "asleep", "woken"} \cup OpPc \cup CommitPc]
         /\ \A q \in Procs : q # p => pc[q] \notin CommitPc /\ pc'[q] \notin CommitPc
<1>1. Active' = Active
  BY Zenon DEF Active, OpPc, CommitPc, TypeOK, IInv
<1>2. boot = "up" /\ committing = 1
  BY Zenon DEF Control, CommitPc, IInv
<1>3. \A q \in Procs : q # p => pc[q] \notin CommitPc /\ pc'[q] = pc[q]
  BY Zenon DEF Control, TypeOK, IInv
<1>4. pc'[p] = l /\ pc' \in [Procs -> {"idle", "asleep", "woken"} \cup OpPc \cup CommitPc]
  BY Zenon DEF TypeOK, IInv
<1>5. Control'
  BY <1>1, <1>2, <1>3, <1>4, Zenon DEF Control, IInv
<1> QED
  BY <1>2, <1>3, <1>4, <1>5, Zenon DEF IInv, LogInv

\* write_log copies one more buffer to its log slot, with the header on disk empty.
LEMMA StepWriteLog ==
  ASSUME IInv, panic = "none", NEW p \in Procs, write_log(p)
  PROVE  IInv'
<1> DEFINE l == IF tail = Len(lh) THEN "write_head" ELSE "write_log"
<1>1. /\ Control' /\ boot = "up" /\ pc'[p] = l
      /\ pc' \in [Procs -> {"idle", "asleep", "woken"} \cup OpPc \cup CommitPc]
      /\ \A q \in Procs : q # p => pc[q] \notin CommitPc /\ pc'[q] \notin CommitPc
  <2>1. /\ pc[p] \in CommitPc /\ l \in CommitPc /\ pc' = [pc EXCEPT ![p] = l]
        /\ UNCHANGED <<outstanding, committing, boot>>
    BY Zenon DEF write_log, Goto, CommitPc
  <2> QED
    BY ZenonT(60), <2>1, StepCommit
<1>2. /\ tail \in 1 .. Len(lh) /\ lh[tail] \in Blocks /\ tail \in LogSlots
      /\ \A i \in 1 .. tail - 1 : Logged(i)
      /\ Len(lh) \in Nat /\ \A i \in 1 .. Len(lh) : lh[i] \in Blocks
  BY SizeAssumption DEF write_log, CommitPhase, TypeOK, HeaderOK, LogSlots, IInv, LogInv
<1>3. /\ \A i \in 1 .. Len(lh) : Uninstalled(i) /\ Uninstalled(i)'
      /\ ~Committed /\ ~Committed'
  BY <1>1, Zenon DEF Uninstalled, Committed, CommitPc, write_log
<1>4. cache' = cache
  <2>1. cache[lh[tail]] # NoData
    BY <1>1, <1>2, <1>3 DEF Pins, IInv, LogInv
  <2> QED
    BY <1>2, <2>1, Zenon DEF write_log, Contents, TypeOK, IInv
<1>5. UNCHANGED <<disk, head, pin, lh, boot>> /\ tail' = tail + 1
  BY Zenon DEF write_log
<1>6. TypeOK'
  <2>1. Contents(lh[tail]) \in Data
    BY <1>2, Zenon DEF Contents, TypeOK, IInv
  <2> QED
    BY <1>1, <1>2, <1>4, <1>5, <2>1 DEF TypeOK, write_log, IInv
<1>7. HeaderOK'
  BY <1>5, Zenon DEF HeaderOK, NoDup, IInv, LogInv
<1>8. Pins'
  BY <1>1, <1>3, <1>4, <1>5, Zenon DEF Pins, IInv, LogInv
<1>9. CommitPhase'
  <2>1. \A i \in 1 .. tail : Logged(i)'
    <3>1. \A i \in 1 .. tail : logdata'[i] = IF i = tail THEN Contents(lh[i]) ELSE logdata[i]
      BY <1>2, SizeAssumption DEF write_log, TypeOK, LogSlots, HeaderOK, IInv, LogInv
    <3>2. \A i \in 1 .. tail : Contents(lh[i])' = Contents(lh[i])
      BY <1>4, <1>5, Zenon DEF Contents
    <3> QED
      BY <1>2, <1>5, <3>1, <3>2 DEF Logged
  <2>2. \A q \in Procs : q # p => pc'[q] \notin CommitPc
    BY <1>1, Zenon
  <2> QED
    BY <1>1, <1>2, <1>5, <2>1, <2>2 DEF CommitPhase, CommitPc, IInv, LogInv
<1>10. RecoverPhase'
  BY ZenonT(60), <1>1, <1>3, <1>5 DEF RecoverPhase, IInv, LogInv
<1> QED
  BY <1>1, <1>6, <1>7, <1>8, <1>9, <1>10, Zenon DEF IInv, LogInv

\* write_head publishes a header whose slots are all written: the commit point.
LEMMA StepWriteHead ==
  ASSUME IInv, panic = "none", NEW p \in Procs, write_head(p)
  PROVE  IInv'
<1>1. /\ Control' /\ boot = "up" /\ pc'[p] = "install_trans"
      /\ pc' \in [Procs -> {"idle", "asleep", "woken"} \cup OpPc \cup CommitPc]
      /\ \A q \in Procs : q # p => pc[q] \notin CommitPc /\ pc'[q] \notin CommitPc
  <2>1. /\ pc[p] \in CommitPc /\ "install_trans" \in CommitPc
        /\ pc' = [pc EXCEPT ![p] = "install_trans"]
        /\ UNCHANGED <<outstanding, committing, boot>>
    BY Zenon DEF write_head, Goto, CommitPc
  <2> QED
    BY ZenonT(60), <2>1, StepCommit
<1>2. UNCHANGED <<disk, logdata, cache, pin, lh, boot>> /\ tail' = 1 /\ head' = lh
  BY Zenon DEF write_head
<1>3. /\ \A i \in 1 .. Len(lh) : Uninstalled(i) /\ Uninstalled(i)'
      /\ Committed'
  BY <1>1, <1>2 DEF Uninstalled, Committed, CommitPc, write_head
<1>4. TypeOK'
  BY <1>1, <1>2 DEF TypeOK, write_head, IInv
<1>5. HeaderOK'
  BY <1>2, Zenon DEF HeaderOK, NoDup, IInv, LogInv
<1>6. Pins'
  BY <1>1, <1>2, <1>3, Zenon DEF Pins, IInv, LogInv
<1>7. CommitPhase'
  <2>1. Len(lh) \in Nat /\ Len(lh) > 0 /\ \A i \in 1 .. Len(lh) : Logged(i)
    BY DEF CommitPhase, write_head, TypeOK, IInv, LogInv
  <2>2. \A i \in 1 .. Len(lh) : Logged(i)'
    BY <1>2, <2>1, Zenon DEF Logged, Contents
  <2> QED
    BY <1>1, <1>2, <2>1, <2>2 DEF CommitPhase, CommitPc, IInv, LogInv
<1>8. RecoverPhase'
  BY <1>1, <1>2, <1>3, Zenon DEF RecoverPhase, IInv, LogInv
<1> QED
  BY <1>1, <1>4, <1>5, <1>6, <1>7, <1>8, Zenon DEF IInv, LogInv

\* install_trans copies one more slot home and unpins its buffer.
LEMMA StepInstall ==
  ASSUME IInv, panic = "none", NEW p \in Procs, install_trans(p)
  PROVE  IInv'
<1> DEFINE l == IF tail = Len(lh) THEN "clear" ELSE "install_trans"
<1>1. /\ Control' /\ boot = "up" /\ pc'[p] = l
      /\ pc' \in [Procs -> {"idle", "asleep", "woken"} \cup OpPc \cup CommitPc]
      /\ \A q \in Procs : q # p => pc[q] \notin CommitPc /\ pc'[q] \notin CommitPc
  <2>1. /\ pc[p] \in CommitPc /\ l \in CommitPc /\ pc' = [pc EXCEPT ![p] = l]
        /\ UNCHANGED <<outstanding, committing, boot>>
    BY Zenon DEF install_trans, Goto, CommitPc
  <2> QED
    BY ZenonT(60), <2>1, StepCommit
<1>2. /\ tail \in 1 .. Len(lh) /\ tail \in LogSlots /\ Len(lh) \in Nat
      /\ \A i \in 1 .. Len(lh) : lh[i] \in Blocks /\ Logged(i)
      /\ \A i \in 1 .. tail - 1 : Home(i)
  BY SizeAssumption DEF install_trans, CommitPhase, TypeOK, HeaderOK, LogSlots, IInv, LogInv
<1>3. UNCHANGED <<logdata, head, lh, boot>> /\ tail' = tail + 1
  BY Zenon DEF install_trans, InstallOne
<1>4. /\ \A i \in 1 .. Len(lh) : (Uninstalled(i) <=> i >= tail) /\ (Uninstalled(i)' <=> i > tail)
      /\ Committed /\ Committed'
  BY <1>1, <1>2, <1>3 DEF Uninstalled, Committed, CommitPc, install_trans
<1>5. pin[lh[tail]] = 1 /\ cache[lh[tail]] # NoData /\ logdata[tail] = cache[lh[tail]]
  <2>1. Uninstalled(tail) /\ Logged(tail)
    BY <1>2, <1>4
  <2>2. pin[lh[tail]] = 1
    BY <2>1, <1>1, <1>2, Zenon DEF Pins, IInv, LogInv
  <2>3. cache[lh[tail]] # NoData
    BY <2>2, <1>2 DEF Pins, IInv, LogInv
  <2> QED
    BY <2>1, <2>2, <2>3, Zenon DEF Logged, Contents
<1>6. cache' = cache
  BY <1>2, <1>5, Zenon DEF install_trans, InstallOne, TypeOK, IInv
<1>7. /\ \A c \in Blocks : disk'[c] = IF c = lh[tail] THEN cache[c] ELSE disk[c]
      /\ \A c \in Blocks : pin'[c] = IF c = lh[tail] THEN 0 ELSE pin[c]
  BY <1>2, <1>5 DEF install_trans, InstallOne, TypeOK, IInv
<1>8. TypeOK'
  <2>1. pin' \in [Blocks -> Nat]
    BY <1>2, <1>5 DEF install_trans, TypeOK, IInv
  <2>2. disk' \in [Blocks -> Data]
    BY <1>2, Zenon DEF install_trans, InstallOne, TypeOK, IInv
  <2> QED
    BY <1>1, <1>2, <1>3, <1>6, <2>1, <2>2 DEF TypeOK, install_trans, IInv
<1>9. HeaderOK'
  BY <1>3, Zenon DEF HeaderOK, NoDup, IInv, LogInv
<1>10. \A i \in 1 .. Len(lh) : lh[i] = lh[tail] => i = tail
  BY <1>2, Zenon DEF HeaderOK, NoDup, IInv, LogInv
<1>11. Pins'
  <2>1. ASSUME NEW c \in Blocks
        PROVE  \/ pin'[c] = 1 /\ cache'[c] # NoData
                  /\ \E i \in 1 .. Len(lh') : lh'[i] = c /\ Uninstalled(i)'
               \/ pin'[c] = 0 /\ cache'[c] \in {NoData, disk'[c]}
    <3>1. CASE c = lh[tail]
      BY <3>1, <1>2, <1>6, <1>7, Zenon
    <3>2. CASE c # lh[tail] /\ pin[c] = 0
      BY <3>2, <1>6, <1>7 DEF Pins, IInv, LogInv
    <3>3. CASE c # lh[tail] /\ pin[c] # 0
      <4>1. PICK i \in 1 .. Len(lh) : lh[i] = c /\ Uninstalled(i)
        BY <3>3, Zenon DEF Pins, IInv, LogInv
      <4>2. i > tail
        BY <3>3, <4>1, <1>2, <1>4
      <4> QED
        BY <3>3, <4>1, <4>2, <1>3, <1>4, <1>6, <1>7, Zenon DEF Pins, IInv, LogInv
    <3> QED
      BY <3>1, <3>2, <3>3, Zenon
  <2>2. ASSUME NEW i \in 1 .. Len(lh'), Uninstalled(i)'
        PROVE  pin'[lh'[i]] = 1
    <3>1. i > tail /\ Uninstalled(i) /\ lh[i] # lh[tail]
      BY <2>2, <1>2, <1>3, <1>4, <1>10
    <3> QED
      BY <3>1, <1>1, <1>2, <1>3, <1>7, Zenon DEF Pins, IInv, LogInv
  <2> QED
    BY <2>1, <2>2, <1>1, <1>3, Zenon DEF Pins, IInv, LogInv
<1>12. CommitPhase'
  <2>1. \A i \in 1 .. Len(lh) : Logged(i)'
    <3> SUFFICES ASSUME NEW i \in 1 .. Len(lh) PROVE Logged(i)'
      OBVIOUS
    <3>1. logdata'[i] = logdata[i] /\ lh'[i] = lh[i] /\ lh[i] \in Blocks
      BY <1>2, <1>3, Zenon
    <3>2. logdata[i] = IF cache[lh[i]] = NoData THEN disk[lh[i]] ELSE cache[lh[i]]
      BY <1>2, Zenon DEF Logged, Contents
    <3>3. cache[lh[i]] = NoData => disk'[lh[i]] = disk[lh[i]]
      BY <3>1, <1>5, <1>7, Zenon
    <3> QED
      BY <3>1, <3>2, <3>3, <1>6, Zenon DEF Logged, Contents
  <2>2. \A i \in 1 .. tail : Home(i)'
    <3> SUFFICES ASSUME NEW i \in 1 .. tail PROVE disk'[lh'[i]] = logdata'[i]
      BY Zenon DEF Home
    <3>1. i \in 1 .. Len(lh) /\ lh'[i] = lh[i] /\ lh[i] \in Blocks /\ logdata'[i] = logdata[i]
      BY <1>2, <1>3
    <3>2. CASE i = tail
      BY <3>1, <3>2, <1>5, <1>7, Zenon
    <3>3. CASE i # tail
      <4>1. Home(i) /\ lh[i] # lh[tail]
        BY <3>1, <3>3, <1>2, <1>10
      <4> QED
        BY <3>1, <4>1, <1>7, Zenon DEF Home
    <3> QED
      BY <3>2, <3>3, Zenon
  <2>3. tail = Len(lh) \/ tail + 1 \in 1 .. Len(lh)
    BY <1>2
  <2> QED
    BY <1>1, <1>2, <1>3, <2>1, <2>2, <2>3 DEF CommitPhase, CommitPc, IInv, LogInv
<1>13. RecoverPhase'
  BY <1>1, <1>3, <1>4, Zenon DEF RecoverPhase, IInv, LogInv
<1> QED
  BY <1>1, <1>8, <1>9, <1>11, <1>12, <1>13, Zenon DEF IInv, LogInv

\* The second write_head of commit erases a log that is installed.
LEMMA StepClear ==
  ASSUME IInv, panic = "none", NEW p \in Procs, commit_clear(p)
  PROVE  IInv'
<1>1. /\ Control' /\ boot = "up" /\ pc'[p] = "done"
      /\ pc' \in [Procs -> {"idle", "asleep", "woken"} \cup OpPc \cup CommitPc]
      /\ \A q \in Procs : q # p => pc[q] \notin CommitPc /\ pc'[q] \notin CommitPc
  <2>1. /\ pc[p] \in CommitPc /\ "done" \in CommitPc /\ pc' = [pc EXCEPT ![p] = "done"]
        /\ UNCHANGED <<outstanding, committing, boot>>
    BY Zenon DEF commit_clear, Goto, CommitPc
  <2> QED
    BY ZenonT(60), <2>1, StepCommit
<1>2. UNCHANGED <<disk, logdata, cache, pin, boot, tail>> /\ lh' = <<>> /\ head' = <<>>
  BY Zenon DEF commit_clear, ClearLog
<1>3. (\A i \in 1 .. Len(lh) : ~Uninstalled(i)) /\ ~Committed'
  BY <1>1, Zenon DEF Uninstalled, Committed, CommitPc, commit_clear
<1>4. TypeOK'
  BY <1>1, <1>2 DEF TypeOK, commit_clear, IInv
<1>5. HeaderOK'
  BY <1>2, SizeAssumption DEF HeaderOK, NoDup, IInv, LogInv
<1>6. Pins'
  BY <1>2, <1>3 DEF Pins, IInv, LogInv
<1>7. CommitPhase' /\ RecoverPhase'
  BY <1>1, <1>2, <1>3, Zenon DEF CommitPhase, RecoverPhase, CommitPc, IInv, LogInv
<1> QED
  BY <1>1, <1>4, <1>5, <1>6, <1>7, Zenon DEF IInv, LogInv

\* end_op after commit: committing is cleared and the sleepers are woken.
LEMMA StepEndOpDone ==
  ASSUME IInv, panic = "none", NEW p \in Procs, end_op_done(p)
  PROVE  IInv'
<1>1. boot = "up" /\ \A q \in Procs : q # p => pc[q] \notin CommitPc
  BY Zenon DEF end_op_done, Control, CommitPc, IInv
<1>2. /\ pc' \in [Procs -> {"idle", "asleep", "woken"} \cup OpPc \cup CommitPc]
      /\ \A q \in Procs : pc'[q] \notin CommitPc
      /\ Active' = Active
  BY <1>1, Zenon DEF end_op_done, WakeupGoto, Active, OpPc, CommitPc, TypeOK, IInv
<1>3. UNCHANGED <<disk, logdata, head, cache, pin, boot, lh>> /\ lh = <<>> /\ head = <<>>
  <2>1. Len(lh) = 0
    BY Zenon DEF CommitPhase, end_op_done, IInv, LogInv
  <2>2. lh = <<>>
    BY <2>1 DEF TypeOK, IInv
  <2>3. ~Committed
    BY <1>1, Zenon DEF Committed, CommitPc, end_op_done
  <2> QED
    BY <1>1, <2>2, <2>3, Zenon DEF RecoverPhase, end_op_done, diskVars, IInv, LogInv
<1>4. TypeOK'
  BY <1>2, Zenon DEF TypeOK, end_op_done, diskVars, IInv
<1>5. Control'
  BY <1>1, <1>2 DEF Control, end_op_done, IInv
<1>6. HeaderOK'
  BY <1>3 DEF HeaderOK, NoDup, IInv, LogInv
<1>7. Pins'
  BY <1>1, <1>2, <1>3 DEF Pins, CommitPc, IInv, LogInv
<1>8. CommitPhase'
  BY <1>1, <1>2, <1>3, Zenon DEF CommitPhase, CommitPc, IInv, LogInv
<1>9. RecoverPhase'
  BY <1>1, <1>2, <1>3, Zenon DEF RecoverPhase, Committed, CommitPc, IInv, LogInv
<1> QED
  BY <1>4, <1>5, <1>6, <1>7, <1>8, <1>9, Zenon DEF IInv, LogInv

\* A crash, at any step.
LEMMA StepCrash ==
  ASSUME IInv, panic = "none", Crash
  PROVE  IInv'
<1>1. TypeOK'
  BY DEF Crash, TypeOK, diskVars, IInv
<1>2. Control'
  <2>1. Active' = {}
    BY Zenon DEF Crash, Active, OpPc
  <2> QED
    BY <2>1, CountsEmpty, Zenon DEF Crash, Control, CommitPc, IInv
<1>3. HeaderOK'
  BY SizeAssumption DEF Crash, HeaderOK, NoDup, diskVars, IInv, LogInv
<1>4. Pins' /\ CommitPhase' /\ RecoverPhase'
  BY Zenon DEF Crash, Pins, CommitPhase, RecoverPhase, IInv, LogInv
<1> QED
  BY <1>1, <1>2, <1>3, <1>4, Zenon DEF IInv, LogInv

\* recover_from_log, step by step.
LEMMA StepRecover ==
  ASSUME IInv, panic = "none", Recover
  PROVE  IInv'
<1>1. /\ UNCHANGED <<pc, outstanding, committing, pin, wrote, owner, panic>>
      /\ boot # "up"
  BY Zenon DEF Recover, recover_read_head, recover_install, recover_clear, InstallOne
<1>2. committing = 0 /\ (\A q \in Procs : pc[q] = "idle") /\ Active' = Active
  BY <1>1, Zenon DEF Control, Active, IInv
<1>3. Control'
  BY <1>1, <1>2, Zenon DEF Control, CommitPc, IInv
<1>4. \A c \in Blocks : pin[c] = 0 /\ cache[c] \in {NoData, disk[c]}
  BY <1>1, Zenon DEF Pins, IInv, LogInv
<1>5. CommitPhase' /\ ~Committed'
  BY <1>1, <1>2, Zenon DEF CommitPhase, Committed, IInv, LogInv
<1>6. CASE recover_read_head
  <2>1. lh' = head /\ tail' = 1 /\ UNCHANGED <<disk, logdata, head, cache>>
        /\ boot' = IF head = <<>> THEN "clear" ELSE "install_trans"
    BY <1>6, Zenon DEF recover_read_head, diskVars
  <2>2. TypeOK'
    BY <1>1, <2>1, Zenon DEF TypeOK, IInv
  <2>3. HeaderOK'
    BY <2>1, Zenon DEF HeaderOK, NoDup, IInv, LogInv
  <2>4. Pins'
    BY <1>1, <1>4, <2>1, Zenon DEF Pins, IInv, LogInv
  <2>5. RecoverPhase'
    <3>1. head \in Seq(Blocks)
      BY Zenon DEF TypeOK, IInv
    <3>2. head # <<>> => 1 \in 1 .. Len(head)
      BY <3>1
    <3> QED
      BY <2>1, <3>2 DEF RecoverPhase, IInv, LogInv
  <2> QED
    BY <1>3, <1>5, <2>2, <2>3, <2>4, <2>5, Zenon DEF IInv, LogInv
<1>7. CASE recover_install
  <2>1. /\ lh = head /\ tail \in 1 .. Len(lh) /\ tail \in LogSlots /\ Len(lh) \in Nat
        /\ \A i \in 1 .. Len(lh) : lh[i] \in Blocks
        /\ \A i \in 1 .. tail - 1 : Home(i)
    <3>1. lh = head /\ tail \in 1 .. Len(lh) /\ \A i \in 1 .. tail - 1 : Home(i)
      BY <1>7, Zenon DEF recover_install, RecoverPhase, IInv, LogInv
    <3>2. lh \in Seq(Blocks) /\ Len(lh) <= NLOG - 1
      BY Zenon DEF TypeOK, HeaderOK, IInv, LogInv
    <3>3. Len(lh) \in Nat /\ \A i \in 1 .. Len(lh) : lh[i] \in Blocks
      BY <3>2
    <3>4. tail \in LogSlots
      BY <3>1, <3>2, <3>3, SizeAssumption DEF LogSlots
    <3> QED
      BY <3>1, <3>3, <3>4, Zenon
  <2>2. /\ UNCHANGED <<lh, head, logdata>> /\ tail' = tail + 1
        /\ boot' = IF tail = Len(lh) THEN "clear" ELSE "install_trans"
        /\ \A c \in Blocks : disk'[c] = IF c = lh[tail] THEN logdata[tail] ELSE disk[c]
        /\ \A c \in Blocks : cache'[c] = IF c = lh[tail] THEN logdata[tail] ELSE cache[c]
    BY <1>7, <2>1, Zenon DEF recover_install, InstallOne, TypeOK, IInv
  <2>3. TypeOK'
    <3>1. disk' \in [Blocks -> Data] /\ cache' \in [Blocks -> Data \cup {NoData}]
      BY <1>7, <2>1, Zenon DEF recover_install, InstallOne, TypeOK, IInv
    <3> QED
      BY <1>1, <2>1, <2>2, <3>1 DEF TypeOK, IInv
  <2>4. HeaderOK'
    BY <2>2 DEF HeaderOK, NoDup, IInv, LogInv
  <2>5. Pins'
    BY <1>1, <1>4, <2>2, Zenon DEF Pins, IInv, LogInv
  <2>6. \A i \in 1 .. tail : Home(i)'
    <3> SUFFICES ASSUME NEW i \in 1 .. tail PROVE disk'[lh'[i]] = logdata'[i]
      BY Zenon DEF Home
    <3>0. i \in 1 .. Len(lh)
      BY <2>1
    <3>1. i \in 1 .. Len(lh) /\ lh'[i] = lh[i] /\ lh[i] \in Blocks /\ logdata'[i] = logdata[i]
      BY <2>1, <2>2, <3>0, Zenon
    <3>2. CASE i = tail
      BY <3>1, <3>2, <2>2, Zenon
    <3>3. CASE i # tail
      <4>1. Home(i) /\ lh[i] # lh[tail]
        BY <3>1, <3>3, <2>1 DEF HeaderOK, NoDup, IInv, LogInv
      <4> QED
        BY <3>1, <4>1, <2>2, Zenon DEF Home
    <3> QED
      BY <3>2, <3>3, Zenon
  <2>7. RecoverPhase'
    <3>1. CASE tail = Len(lh)
      <4>1. boot' = "clear" /\ lh' = head' /\ \A i \in 1 .. Len(lh') : Home(i)'
        BY <2>1, <2>2, <2>6, <3>1, Zenon
      <4> QED
        BY <4>1, Zenon DEF RecoverPhase, IInv, LogInv
    <3>2. CASE tail # Len(lh)
      <4>1. boot' = "install_trans" /\ lh' = head' /\ tail' \in 1 .. Len(lh')
        BY <2>1, <2>2, <3>2
      <4>2. \A i \in 1 .. tail' - 1 : Home(i)'
        BY <2>1, <2>2, <2>6
      <4> QED
        BY ZenonT(60), <4>1, <4>2 DEF RecoverPhase, IInv, LogInv
    <3> QED
      BY <3>1, <3>2, Zenon
  <2> QED
    BY <1>3, <1>5, <2>3, <2>4, <2>5, <2>7, Zenon DEF IInv, LogInv
<1>8. CASE recover_clear
  <2>1. UNCHANGED <<disk, logdata, cache>> /\ lh' = <<>> /\ head' = <<>> /\ tail' = 0 /\ boot' = "up"
    BY <1>8, Zenon DEF recover_clear, ClearLog
  <2>2. TypeOK'
    BY <1>1, <2>1 DEF TypeOK, IInv
  <2>3. HeaderOK'
    BY <2>1, SizeAssumption DEF HeaderOK, NoDup, IInv, LogInv
  <2>4. Pins'
    BY <1>1, <1>4, <2>1 DEF Pins, IInv, LogInv
  <2>5. RecoverPhase'
    BY <1>5, <2>1, Zenon DEF RecoverPhase, IInv, LogInv
  <2> QED
    BY <1>3, <1>5, <2>2, <2>3, <2>4, <2>5, Zenon DEF IInv, LogInv
<1> QED
  BY <1>6, <1>7, <1>8, Zenon DEF Recover, IInv, LogInv

\* Every step of the log layer keeps the invariant.
LEMMA NextInv == IInv /\ [Next]_vars => IInv'
<1> SUFFICES ASSUME IInv, [Next]_vars PROVE IInv'
  OBVIOUS
<1>1. CASE UNCHANGED vars
  <2> USE <1>1 DEF vars
  <2>1. TypeOK => TypeOK'
    BY ZenonT(60) DEF TypeOK
  <2>2. Control => Control'
    BY Zenon DEF Control, Active
  <2>3. HeaderOK => HeaderOK'
    BY Zenon DEF HeaderOK, NoDup
  <2>4. Pins => Pins'
    BY DEF Pins, Uninstalled
  <2>5. CommitPhase => CommitPhase'
    BY Zenon DEF CommitPhase, Logged, Home, Contents
  <2>6. RecoverPhase => RecoverPhase'
    BY Zenon DEF RecoverPhase, Committed, Home
  <2> QED
    BY <2>1, <2>2, <2>3, <2>4, <2>5, <2>6, Zenon DEF IInv, LogInv
<1> SUFFICES ASSUME Next PROVE IInv'
  BY <1>1, Zenon
<1>2. panic = "none"
  BY Zenon DEF Next
<1>3. ASSUME NEW p \in Procs, begin_op(p) \/ begin_op_again(p) PROVE IInv'
  <2>1. boot = "up" /\ pc[p] \in {"idle", "woken"} /\ Admit(p)
    BY <1>3, Zenon DEF begin_op, begin_op_again, IInv, Control
  <2> QED
    BY <1>2, <2>1, StepAdmit, Zenon
<1>4. ASSUME NEW p \in Procs, Commit(p) PROVE IInv'
  BY <1>2, <1>4, StepWriteLog, StepWriteHead, StepInstall, StepClear, StepEndOpDone, Zenon DEF Commit
<1> QED
  BY Zenon, <1>2, <1>3, <1>4, StepEndOp, StepBread, StepBrelse, StepLogWrite, StepRecycle, StepRecover,
     StepCrash DEF Next

\* The inductive invariant holds throughout.
LEMMA Invariance == Spec => []IInv
BY InitInv, NextInv, PTL DEF Spec

(***************************************************************************)
(* What follows from the invariant alone.                                  *)
(***************************************************************************)

\* Every variable of the log keeps its type: no unpinning below zero, no write
\* outside the log's blocks.
THEOREM TypeCorrect == Spec => []TypeOK
<1>1. IInv => TypeOK
  BY Zenon DEF IInv
<1> QED
  BY <1>1, Invariance, PTL

\* end_op's flag and count keep commit() to one process, with no call running.
THEOREM CommitIsAlone == Spec => []CommitAlone
<1>1. IInv => CommitAlone
  BY Zenon DEF IInv, Control, CommitAlone
<1> QED
  BY <1>1, Invariance, PTL

\* bpin in log_write and bunpin in install_trans keep every dirty buffer in the
\* cache until it is installed, and leak no reference.
THEOREM PinsAreRight == Spec => []PinsProtectDirty
<1>1. IInv => PinsProtectDirty
  BY DEF IInv, LogInv, Pins, PinsProtectDirty
<1> QED
  BY <1>1, Invariance, PTL

(***************************************************************************)
(* Nobody sleeps in begin_op for ever for want of a wakeup.                *)
(***************************************************************************)

\* An idle log is an empty log, so a lone process is always admitted.
Drained ==
  /\ boot = "up" /\ outstanding = 0 /\ committing = 0 => lh = <<>>
  /\ SleeperHasWaker

\* end_op and the commit wake the sleepers of begin_op whenever they leave nobody
\* behind who would.
LEMMA DrainedStep == IInv /\ IInv' /\ Drained /\ [Next]_vars => Drained'
<1> SUFFICES ASSUME IInv, IInv', Drained, [Next]_vars PROVE Drained'
  OBVIOUS
<1> USE DEF Drained, SleeperHasWaker
<1>1. CASE UNCHANGED vars
  BY <1>1, Zenon DEF vars
<1>2. TypeOK /\ TypeOK' /\ Control /\ Control'
  BY Zenon DEF IInv
<1>a. /\ outstanding \in Nat /\ committing \in {0, 1}
      /\ outstanding' \in Nat /\ committing' \in {0, 1}
  <2>1. outstanding \in Nat /\ committing \in {0, 1}
    BY ZenonT(60), <1>2 DEF TypeOK
  <2>2. outstanding' \in Nat /\ committing' \in {0, 1}
    BY ZenonT(60), <1>2 DEF TypeOK
  <2> QED
    BY <2>1, <2>2, Zenon
<1>3. ASSUME NEW p \in Procs, Admit(p), boot = "up" PROVE Drained'
  <2>1. CASE LogBusy
    <3>1. outstanding > 0 \/ committing = 1
      <4> SUFFICES ASSUME outstanding = 0, committing = 0 PROVE FALSE
        BY <1>a
      <4>1. Len(lh) = 0
        BY <1>3
      <4>2. (0 + 1) * MAXOPBLOCKS = MAXOPBLOCKS
        BY SizeAssumption
      <4> QED
        BY <2>1, <4>1, <4>2, SizeAssumption DEF LogBusy
    <3> QED
      BY <1>3, <2>1, <3>1, Zenon DEF Admit
  <2>2. CASE ~LogBusy
    <3>1. outstanding' > 0
      BY <1>a, <1>3, <2>2 DEF Admit
    <3> QED
      BY <3>1
  <2> QED
    BY <2>1, <2>2, Zenon
<1>4. ASSUME NEW p \in Procs, begin_op(p) \/ begin_op_again(p) PROVE Drained'
  BY <1>2, <1>3, <1>4, Zenon DEF begin_op, begin_op_again, Control
<1>5. ASSUME NEW p \in Procs, end_op(p) PROVE Drained'
  <2>1. outstanding' > 0 \/ committing' = 1
    BY <1>a, <1>5 DEF end_op
  <2> QED
    BY <2>1
<1>6. ASSUME NEW p \in Procs, NEW b \in Blocks,
             bread(p, b) \/ brelse(p, b) \/ \E v \in Data : log_write(p, b, v)
      PROVE  Drained'
  <2>1. pc[p] \in OpPc /\ outstanding' = outstanding
    BY ZenonT(60), <1>6 DEF bread, brelse, log_write, OpPc
  <2>2. Active # {}
    BY <2>1, Zenon DEF Active
  <2>3. Counts(outstanding, Active)
    BY <1>2, Zenon DEF Control
  <2>4. outstanding' > 0
    BY <1>a, <2>1, <2>2, <2>3, CountsNone
  <2> QED
    BY <1>a, <2>4
<1>7. ASSUME NEW p \in Procs, Commit(p) PROVE Drained'
  <2>1. CASE end_op_done(p)
    <3>1. \A q \in Procs : pc'[q] # "asleep"
      <4>1. pc' = [q \in Procs |-> IF q = p THEN "idle"
                                   ELSE IF pc[q] = "asleep" THEN "woken" ELSE pc[q]]
        BY <2>1, Zenon DEF end_op_done, WakeupGoto
      <4> QED
        BY <4>1, Zenon
    <3>2. panic = "none" => lh = <<>>
      <4>1. panic = "none" => Len(lh) = 0
        BY <2>1, Zenon DEF IInv, LogInv, CommitPhase, end_op_done
      <4>2. lh \in Seq(Blocks)
        BY ZenonT(60), <1>2 DEF TypeOK
      <4> QED
        BY <4>1, <4>2
    <3>3. panic = "none" \/ UNCHANGED vars
      BY Zenon DEF Next
    <3> QED
      BY <1>1, <2>1, <3>1, <3>2, <3>3, Zenon DEF end_op_done
  <2>2. CASE ~end_op_done(p)
    <3>1. write_log(p) \/ write_head(p) \/ install_trans(p) \/ commit_clear(p)
      BY <1>7, <2>2, Zenon DEF Commit
    <3>2. committing' = committing
      BY <3>1, Zenon DEF write_log, write_head, install_trans, commit_clear
    <3>3. pc[p] \in CommitPc
      BY <3>1, Zenon DEF write_log, write_head, install_trans, commit_clear, CommitPc
    <3>4. committing' = 1
      BY <1>2, <3>2, <3>3, Zenon DEF Control
    <3> QED
      BY <3>4
  <2> QED
    BY <2>1, <2>2, Zenon
<1>8. ASSUME NEW b \in Blocks, bget_recycle(b) PROVE Drained'
  BY <1>8, Zenon DEF bget_recycle
<1>9. CASE Recover
  <2>1. UNCHANGED pc /\ \A p \in Procs : pc[p] = "idle"
    BY <1>2, <1>9, Zenon DEF Recover, recover_read_head, recover_install, recover_clear, Control
  <2>2. boot' = "up" => lh' = <<>>
    BY <1>9, Zenon DEF Recover, recover_read_head, recover_install, recover_clear, ClearLog
  <2> QED
    BY <2>1, <2>2, Zenon
<1>10. CASE Crash
  BY <1>10, Zenon DEF Crash
<1> QED
  BY ZenonT(60), <1>1, <1>4, <1>5, <1>6, <1>7, <1>8, <1>9, <1>10 DEF Next

\* A process that begin_op has put to sleep always has a call in progress or a
\* commit left that will wake it: the system cannot be stuck with every process
\* asleep on the log.
THEOREM SleepersHaveWakers == Spec => []SleeperHasWaker
<1>1. Init => Drained
  BY Zenon DEF Init, Drained, SleeperHasWaker
<1>2. Drained => SleeperHasWaker
  BY Zenon DEF Drained
<1> QED
  BY <1>1, <1>2, DrainedStep, Invariance, PTL DEF Spec

=============================================================================
