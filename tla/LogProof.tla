------------------------------ MODULE LogProof ------------------------------
(***************************************************************************)
(* The log implements AtomicLog, and begin_op's reservations keep log_write*)
(* from its panic: for every number of processes and blocks.               *)
(***************************************************************************)
EXTENDS LogInvariant, FiniteSetTheorems

\* The backend of the leaves that name no other, and its time limit.
USE SMTT(60)

(***************************************************************************)
(* The log implements AtomicLog.                                           *)
(***************************************************************************)

\* What recovery makes of the blocks: f, when the log's entries agree with f
\* and so do the home blocks that are not in the log.
LEMMA RecoveredIs ==
  ASSUME NEW d, NEW l, NEW h, NEW f,
         \A i \in 1 .. Len(h) : l[i] = f[h[i]],
         \A b \in Blocks : (\A i \in 1 .. Len(h) : h[i] # b) => d[b] = f[b]
  PROVE  Recovered(d, l, h) = [b \in Blocks |-> f[b]]
<1>1. ASSUME NEW b \in Blocks, NEW k \in 1 .. Len(h), h[k] = b
      PROVE  l[CHOOSE i \in 1 .. Len(h) : h[i] = b] = f[b]
  <2>1. PICK j : j = CHOOSE i \in 1 .. Len(h) : h[i] = b
    OBVIOUS
  <2>2. j \in 1 .. Len(h) /\ h[j] = b
    BY <1>1, <2>1, Zenon
  <2> QED
    BY <2>1, <2>2, Zenon
<1> QED
  BY <1>1 DEF Recovered

\* An empty header recovers nothing.
LEMMA RecoveredEmpty ==
  ASSUME NEW d, NEW l
  PROVE  Recovered(d, l, <<>>) = [b \in Blocks |-> d[b]]
<1>1. ~ \E i \in 1 .. Len(<<>>) : TRUE
  OBVIOUS
<1> QED
  BY <1>1, Zenon DEF Recovered

\* Installing an entry again changes nothing.
LEMMA RecoveredAgain ==
  ASSUME NEW d, NEW e, NEW l, NEW h,
         \A b \in Blocks : (\A i \in 1 .. Len(h) : h[i] # b) => d[b] = e[b]
  PROVE  Recovered(d, l, h) = Recovered(e, l, h)
BY Zenon DEF Recovered

\* Steps that leave every block as it is, on the disk and in the cache.
LEMMA SameBlocks ==
  ASSUME UNCHANGED <<disk, logdata, head, boot>>,
         boot = "up" => \A b \in Blocks : Contents(b)' = Contents(b)
  PROVE  UNCHANGED <<Durable, Current>>
<1>1. Durable' = Durable
  BY Zenon DEF Durable
<1> QED
  BY <1>1, Zenon DEF Current

\* Writing a log slot shows nothing while the header on disk is empty.
LEMMA RefineWriteLog ==
  ASSUME IInv, panic = "none", NEW p \in Procs, write_log(p)
  PROVE  UNCHANGED <<Durable, Current, Active>>
<1>1. boot = "up" /\ head = <<>> /\ UNCHANGED <<disk, head, boot>>
  BY ZenonT(60) DEF write_log, Control, RecoverPhase, Committed, CommitPc, IInv, LogInv
<1>2. Active' = Active
  BY Zenon DEF Active, OpPc, write_log, Goto, TypeOK, IInv
<1>3. Durable' = Durable
  BY <1>1, RecoveredEmpty, Zenon DEF Durable
<1>4. \A b \in Blocks : Contents(b)' = Contents(b)
  BY <1>1, Zenon DEF write_log, Contents, TypeOK, IInv
<1> QED
  BY <1>1, <1>2, <1>3, <1>4, Zenon DEF Current, IInv, LogInv

\* write_head is the commit point.
LEMMA RefineWriteHead ==
  ASSUME IInv, panic = "none", NEW p \in Procs, write_head(p)
  PROVE  AL!CommitAll
<1>1. boot = "up" /\ Active = {} /\ UNCHANGED <<disk, logdata, cache, boot>> /\ head' = lh
  BY Zenon DEF write_head, Control, CommitPc, IInv
<1>2. Active' = Active
  BY Zenon DEF Active, OpPc, write_head, Goto, TypeOK, IInv
<1>3. Current' = Current
  BY <1>1, Zenon DEF Current, Contents
<1>4. Recovered(disk, logdata, lh) = [b \in Blocks |-> Current[b]]
  <2>1. Current = [b \in Blocks |-> Contents(b)]
    BY <1>1, Zenon DEF Current
  <2>2. \A i \in 1 .. Len(lh) : lh[i] \in Blocks /\ logdata[i] = Contents(lh[i])
    BY DEF TypeOK, CommitPhase, Logged, write_head, IInv, LogInv
  <2>3. \A i \in 1 .. Len(lh) : logdata[i] = Current[lh[i]]
    BY <2>1, <2>2, Zenon
  <2>4. ASSUME NEW b \in Blocks, \A i \in 1 .. Len(lh) : lh[i] # b PROVE disk[b] = Current[b]
    <3>1. cache[b] \in {NoData, disk[b]}
      BY <2>4, Zenon DEF Pins, IInv, LogInv
    <3>2. Contents(b) = disk[b]
      BY <3>1, Zenon DEF Contents
    <3> QED
      BY <2>1, <3>2, Zenon
  <2> QED
    BY <2>3, <2>4, RecoveredIs
<1>5. Durable' = Current
  <2>1. Durable' = Recovered(disk, logdata, lh)
    BY <1>1, Zenon DEF Durable
  <2>2. Current = [b \in Blocks |-> Contents(b)]
    BY <1>1, Zenon DEF Current
  <2> QED
    BY <1>4, <2>1, <2>2, Zenon
<1> QED
  BY <1>1, <1>2, <1>3, <1>5, Zenon DEF AL!CommitAll, IInv, LogInv

\* Installing a block shows nothing: recovery would have copied the same slot.
LEMMA RefineInstall ==
  ASSUME IInv, panic = "none", NEW p \in Procs, install_trans(p)
  PROVE  UNCHANGED <<Durable, Current, Active>>
<1>1. boot = "up" /\ head = lh /\ UNCHANGED <<logdata, head, boot>>
  BY Zenon DEF install_trans, InstallOne, Control, RecoverPhase, Committed, CommitPc, IInv, LogInv
<1>2. Active' = Active
  BY Zenon DEF Active, OpPc, install_trans, Goto, TypeOK, IInv
<1>3. tail \in 1 .. Len(lh) /\ lh[tail] \in Blocks /\ Logged(tail)
  <2>1. tail \in 1 .. Len(lh) /\ \A i \in 1 .. Len(lh) : Logged(i)
    BY Zenon DEF install_trans, CommitPhase, IInv, LogInv
  <2>2. lh \in Seq(Blocks)
    BY Zenon DEF TypeOK, IInv
  <2> QED
    BY <2>1, <2>2
<1>4. /\ \A b \in Blocks : disk'[b] = IF b = lh[tail] THEN logdata[tail] ELSE disk[b]
      /\ \A b \in Blocks : cache'[b] = IF b = lh[tail] THEN logdata[tail] ELSE cache[b]
  BY <1>3, Zenon DEF install_trans, InstallOne, TypeOK, IInv
<1>5. Recovered(disk', logdata, lh) = Recovered(disk, logdata, lh)
  BY <1>3, <1>4, RecoveredAgain
<1>6. Durable' = Durable
  BY <1>1, <1>5, Zenon DEF Durable
<1>7. \A b \in Blocks : Contents(b)' = Contents(b)
  BY <1>3, <1>4, Zenon DEF Contents, Logged
<1> QED
  BY <1>1, <1>2, <1>6, <1>7, Zenon DEF Current, IInv, LogInv

\* Erasing an installed log shows nothing.
LEMMA RefineClear ==
  ASSUME IInv, panic = "none", NEW p \in Procs, commit_clear(p)
  PROVE  UNCHANGED <<Durable, Current, Active>>
<1>1. boot = "up" /\ head = lh /\ UNCHANGED <<disk, logdata, cache, boot>> /\ head' = <<>>
  BY Zenon DEF commit_clear, ClearLog, Control, RecoverPhase, Committed, CommitPc, IInv, LogInv
<1>2. Active' = Active
  BY Zenon DEF Active, OpPc, commit_clear, Goto, TypeOK, IInv
<1>3. \A i \in 1 .. Len(lh) : logdata[i] = disk[lh[i]]
  BY Zenon DEF commit_clear, CommitPhase, Home, IInv, LogInv
<1>4. Recovered(disk, logdata, lh) = [b \in Blocks |-> disk[b]]
  BY <1>3, RecoveredIs
<1>5. Durable' = Durable
  BY <1>1, <1>4, RecoveredEmpty, Zenon DEF Durable
<1> QED
  BY <1>1, <1>2, <1>5, Zenon DEF Current, Contents, IInv, LogInv

\* recover_from_log shows nothing: it does what the header on disk promised.
LEMMA RefineRecover ==
  ASSUME IInv, panic = "none", Recover
  PROVE  UNCHANGED <<Durable, Current, Active>>
<1>1. boot # "up" /\ Active' = Active /\ UNCHANGED logdata
  BY Zenon DEF Recover, recover_read_head, recover_install, recover_clear, InstallOne, diskVars, Active
<1>2. CASE recover_read_head
  <2>1. Durable' = Durable /\ boot' # "up"
    BY <1>2, Zenon DEF recover_read_head, diskVars, Durable
  <2> QED
    BY <1>1, <2>1, Zenon DEF Current
<1>3. CASE recover_install
  <2>0. head = lh /\ head' = head /\ boot' # "up" /\ tail \in 1 .. Len(lh)
    BY <1>3, Zenon DEF recover_install, RecoverPhase, IInv, LogInv
  <2>1. lh[tail] \in Blocks
    <3>1. lh \in Seq(Blocks)
      BY Zenon DEF TypeOK, IInv
    <3> QED
      BY <2>0, <3>1
  <2>2. \A b \in Blocks : disk'[b] = IF b = lh[tail] THEN logdata[tail] ELSE disk[b]
    BY <1>3, <2>1, Zenon DEF recover_install, InstallOne, TypeOK, IInv
  <2>3. Recovered(disk', logdata, lh) = Recovered(disk, logdata, lh)
    BY <2>0, <2>2, RecoveredAgain
  <2>4. Durable' = Durable
    BY <1>1, <2>0, <2>3, Zenon DEF Durable
  <2> QED
    BY <1>1, <2>0, <2>4, Zenon DEF Current
<1>4. CASE recover_clear
  <2>1. head = lh /\ head' = <<>> /\ boot' = "up" /\ UNCHANGED <<disk, cache>>
    BY <1>4, Zenon DEF recover_clear, ClearLog, RecoverPhase, IInv, LogInv
  <2>2. \A i \in 1 .. Len(lh) : logdata[i] = disk[lh[i]]
    BY <1>4, Zenon DEF recover_clear, RecoverPhase, Home, IInv, LogInv
  <2>3. Durable = [b \in Blocks |-> disk[b]]
    BY <2>1, <2>2, RecoveredIs DEF Durable
  <2>4. Durable' = Durable
    BY <1>1, <2>1, <2>3, RecoveredEmpty, Zenon DEF Durable
  <2>5. ASSUME NEW b \in Blocks PROVE Contents(b)' = disk[b]
    <3>1. cache[b] \in {NoData, disk[b]}
      BY <1>1, Zenon DEF Pins, IInv, LogInv
    <3> QED
      BY <2>1, <3>1, Zenon DEF Contents
  <2>6. Current' = [b \in Blocks |-> disk[b]]
    BY <2>1, <2>5, Zenon DEF Current
  <2> QED
    BY <1>1, <2>3, <2>4, <2>6, Zenon DEF Current
<1> QED
  BY <1>2, <1>3, <1>4, Zenon DEF Recover, IInv, LogInv

\* The steps of a file-system call, of the buffer cache and of a crash.
LEMMA RefineCall ==
  ASSUME IInv, panic = "none", NEW p \in Procs,
         begin_op(p) \/ begin_op_again(p) \/ end_op(p)
  PROVE  AL!Begin(p) \/ AL!End(p) \/ UNCHANGED <<Durable, Current, Active>>
<1>1. UNCHANGED <<Durable, Current>>
  <2>1. UNCHANGED <<disk, logdata, head, cache, boot>>
    BY Zenon DEF begin_op, begin_op_again, Admit, end_op, diskVars
  <2> QED
    BY <2>1, SameBlocks, Zenon DEF Contents
<1>2. CASE end_op(p)
  <2>1. p \in Active /\ Active' = Active \ {p}
    BY <1>2, Zenon DEF end_op, Goto, WakeupGoto, CommitStart, Active, OpPc, TypeOK, IInv
  <2> QED
    BY <1>1, <2>1, Zenon DEF AL!End
<1>3. CASE begin_op(p) \/ begin_op_again(p)
  <2>1. CASE LogBusy
    <3>1. Active' = Active
      BY <1>3, <2>1, Zenon DEF begin_op, begin_op_again, Admit, Goto, Active, OpPc, TypeOK, IInv
    <3> QED
      BY <1>1, <3>1, Zenon
  <2>2. CASE ~LogBusy
    <3>1. p \notin Active /\ Active' = Active \cup {p}
      BY <1>3, <2>2, Zenon DEF begin_op, begin_op_again, Admit, Goto, Active, OpPc, TypeOK, IInv
    <3> QED
      BY <1>1, <3>1, Zenon DEF AL!Begin
  <2> QED
    BY <2>1, <2>2, Zenon
<1> QED
  BY <1>2, <1>3, Zenon DEF IInv, LogInv

\* bread and brelse show nothing: a buffer read in holds what the disk holds.
LEMMA RefineBuffer ==
  ASSUME IInv, NEW p \in Procs, NEW b \in Blocks, bread(p, b) \/ brelse(p, b)
  PROVE  UNCHANGED <<Durable, Current, Active>>
<1>1. Active' = Active
  BY ZenonT(60) DEF bread, brelse, Goto, Active, OpPc, TypeOK, IInv
<1>2. UNCHANGED <<disk, logdata, head, boot>>
  BY Zenon DEF bread, brelse, diskVars
<1>3. \A c \in Blocks : Contents(c)' = Contents(c)
  <2>1. CASE bread(p, b)
    BY ZenonT(60), <1>2, <2>1 DEF bread, Contents, TypeOK, IInv
  <2>2. CASE brelse(p, b)
    BY ZenonT(60), <1>2, <2>2 DEF brelse, Contents
  <2> QED
    BY <2>1, <2>2, Zenon
<1> QED
  BY <1>1, <1>2, <1>3, SameBlocks, Zenon DEF IInv, LogInv

\* log_write is the abstract write.
LEMMA RefineLogWrite ==
  ASSUME IInv, NEW p \in Procs, NEW b \in Blocks, NEW v \in Data, log_write(p, b, v)
  PROVE  AL!Write(p, b, v)
<1>1. Active' = Active /\ p \in Active
  BY ZenonT(60) DEF log_write, Active, OpPc
<1>2. UNCHANGED <<disk, logdata, head, boot>> /\ boot = "up"
  BY ZenonT(60) DEF log_write, diskVars, Control, IInv
<1>3. Durable' = Durable
  BY <1>2, Zenon DEF Durable
<1>4. \A c \in Blocks : Contents(c)' = IF c = b THEN v ELSE Contents(c)
  BY ZenonT(60), <1>2, DataAssumption DEF log_write, Contents, TypeOK, IInv
<1>5. Current' = [Current EXCEPT ![b] = v]
  BY ZenonT(60), <1>2, <1>4 DEF Current
<1> QED
  BY <1>1, <1>3, <1>5, Zenon DEF AL!Write, IInv, LogInv

\* A crash is the abstract crash: what was not committed is gone.
LEMMA RefineCrash ==
  ASSUME Crash
  PROVE  AL!Crash
<1>1. Durable' = Durable
  BY Zenon DEF Crash, diskVars, Durable
<1>2. Current' = Durable
  BY <1>1, Zenon DEF Crash, Current
<1>3. Active' = {}
  BY Zenon DEF Crash, Active, OpPc
<1> QED
  BY <1>1, <1>2, <1>3, Zenon DEF AL!Crash

\* Every step of the log layer is a step of the abstract one, or shows nothing.
LEMMA RefineNext == IInv /\ [Next]_vars => [AL!AbsNext]_(AL!absVars)
<1> SUFFICES ASSUME IInv, [Next]_vars
             PROVE  AL!AbsNext \/ UNCHANGED <<Durable, Current, Active>>
  BY Zenon DEF AL!absVars
<1>1. CASE UNCHANGED vars
  <2>1. UNCHANGED <<disk, logdata, head, boot, cache, pc>>
    BY <1>1, Zenon DEF vars
  <2> QED
    BY <2>1, SameBlocks, Zenon DEF Active, Contents
<1> SUFFICES ASSUME Next PROVE AL!AbsNext \/ UNCHANGED <<Durable, Current, Active>>
  BY <1>1, Zenon
<1>2. panic = "none"
  BY Zenon DEF Next
<1>3. ASSUME NEW p \in Procs, begin_op(p) \/ begin_op_again(p) \/ end_op(p)
      PROVE  AL!AbsNext \/ UNCHANGED <<Durable, Current, Active>>
  BY <1>2, <1>3, RefineCall, Zenon DEF AL!AbsNext
<1>4. ASSUME NEW p \in Procs, NEW b \in Blocks, NEW v \in Data, log_write(p, b, v)
      PROVE  AL!AbsNext
  BY <1>4, RefineLogWrite, Zenon DEF AL!AbsNext
<1>5. ASSUME NEW p \in Procs, Commit(p)
      PROVE  AL!AbsNext \/ UNCHANGED <<Durable, Current, Active>>
  <2>1. CASE end_op_done(p)
    <3>1. UNCHANGED <<disk, logdata, head, cache, boot>>
      BY <2>1, Zenon DEF end_op_done, diskVars
    <3>2. Active' = Active
      BY ZenonT(60), <2>1 DEF end_op_done, WakeupGoto, Active, OpPc, IInv, TypeOK
    <3> QED
      BY <3>1, <3>2, SameBlocks, Zenon DEF Contents
  <2> QED
    BY <1>2, <1>5, <2>1, RefineWriteLog, RefineWriteHead, RefineInstall, RefineClear, Zenon
    DEF Commit, AL!AbsNext
<1>6. ASSUME NEW b \in Blocks, bget_recycle(b)
      PROVE  UNCHANGED <<Durable, Current, Active>>
  <2>0. UNCHANGED <<disk, logdata, head, boot, pc>> /\ pin[b] = 0 /\ cache[b] # NoData
    BY ZenonT(60), <1>6 DEF bget_recycle, diskVars
  <2>a. Pins
    BY <1>2, Zenon DEF IInv, LogInv
  <2>1. UNCHANGED <<disk, logdata, head, boot, pc>> /\ cache[b] = disk[b]
    BY <2>0, <2>a DEF Pins
  <2>2. \A c \in Blocks : Contents(c)' = Contents(c)
    BY ZenonT(60), <1>6, <2>1 DEF bget_recycle, Contents, IInv, TypeOK
  <2> QED
    BY <2>1, <2>2, SameBlocks, Zenon DEF Active
<1>7. ASSUME NEW p \in Procs, NEW b \in Blocks, bread(p, b) \/ brelse(p, b)
      PROVE  UNCHANGED <<Durable, Current, Active>>
  BY <1>7, RefineBuffer, Zenon
<1>8. CASE Recover
  BY <1>2, <1>8, RefineRecover, Zenon
<1>9. CASE Crash
  BY <1>9, RefineCrash, Zenon DEF AL!AbsNext
<1> QED
  BY <1>3, <1>4, <1>5, <1>6, <1>7, <1>8, <1>9, Zenon DEF Next

\* Crash atomicity for every number of processes, blocks and log blocks: what
\* a crash leaves behind is what it was at the last write_head, and that is all
\* the writes of the calls that had ended by then and none of any other call.
THEOREM LogImplementsAtomicLog == Spec => CrashAtomic
<1>1. Init => AL!AbsInit
  <2> SUFFICES ASSUME Init PROVE AL!AbsInit
    OBVIOUS
  <2>1. Durable = [b \in Blocks |-> InitData]
    BY DEF Init, Durable, Recovered
  <2>2. Current = Durable /\ Active = {}
    BY Zenon DEF Init, Current, Active, OpPc
  <2> QED
    BY <2>1, <2>2, Zenon DEF AL!AbsInit
<1> QED
  BY <1>1, RefineNext, Invariance, PTL DEF Spec, CrashAtomic, AL!AbsSpec

(***************************************************************************)
(* begin_op's reservations are enough.                                     *)
(***************************************************************************)

\* mkfs gives the log LOGSIZE blocks, one of which is the header, and a call
\* logs fewer blocks than begin_op reserves for it.
Roomy == NLOG = LOGSIZE /\ OpBlocks < MAXOPBLOCKS /\ MAXOPBLOCKS < LOGSIZE

\* The blocks the calls in progress may still log, one pair for each.
Promised == {x \in Active \X (1 .. OpBlocks) : x[2] > Cardinality(wrote[x[1]])}

\* What the calls in progress have logged is in the log, and what they may
\* still log leaves log_write's test one block to spare.
Reserved ==
  /\ panic = "none"
  /\ \A p \in Active :
       IsFiniteSet(wrote[p]) /\ \A b \in wrote[p] : \E i \in 1 .. Len(lh) : lh[i] = b
  /\ Active # {} => Len(lh) + Cardinality(Promised) <= NLOG - 2

\* n calls of at most o blocks each use n blocks fewer than n reservations of m.
LEMMA Spare ==
  ASSUME NEW n \in Nat, NEW m \in Nat, NEW o \in Nat, o < m
  PROVE  n * o + n <= n * m /\ n * o \in Nat /\ n * m \in Nat
<1>1. PICK k \in Nat : m = o + 1 + k
  <2> WITNESS m - o - 1 \in Nat
  <2> QED
    OBVIOUS
<1>2. n * (o + 1 + k) = n * o + n + n * k /\ n * k \in Nat /\ n * o \in Nat
  OBVIOUS
<1> QED
  BY <1>1, <1>2

\* outstanding is the number of the calls in progress.
LEMMA ActiveFinite ==
  /\ IsFiniteSet(Active) /\ Cardinality(Active) \in Nat
  /\ Cardinality(Active) = 0 <=> Active = {}
<1>1. Active \subseteq Procs
  BY Zenon DEF Active
<1>2. IsFiniteSet(Active)
  BY <1>1, ProcAssumption, FS_Subset, Zenon
<1> QED
  BY <1>2, FS_CardinalityType, FS_EmptySet, Zenon

\* What Counts says is what Cardinality says.
LEMMA CountsCardinality ==
  ASSUME NEW n \in Nat, NEW S, Counts(n, S)
  PROVE  n = Cardinality(S)
<1>1. ExistsBijection(1 .. n, S)
  BY Zenon DEF Counts, ExistsBijection, Bijection, Injection, Surjection, IsInjective
<1> QED
  BY <1>1, FS_CountingElements, Zenon

\* What the argument needs of the invariant.
LEMMA Known ==
  ASSUME IInv
  PROVE  /\ lh \in Seq(Blocks) /\ Len(lh) \in Nat
         /\ wrote \in [Procs -> SUBSET Blocks]
         /\ pc \in [Procs -> {"idle", "asleep", "woken"} \cup OpPc \cup CommitPc]
         /\ committing \in {0, 1} /\ outstanding = Cardinality(Active)
         /\ committing = 1 => Active = {}
<1>1. TypeOK /\ Control
  BY Zenon DEF IInv
<1>2. /\ lh \in Seq(Blocks)
      /\ wrote \in [Procs -> SUBSET Blocks]
      /\ pc \in [Procs -> {"idle", "asleep", "woken"} \cup OpPc \cup CommitPc]
      /\ committing \in {0, 1}
  BY ZenonT(60), <1>1 DEF TypeOK
<1>3. Counts(outstanding, Active) /\ (committing = 1 => Active = {})
  BY ZenonT(60), <1>1 DEF Control
<1>4. outstanding \in Nat
  BY ZenonT(60), <1>1 DEF TypeOK
<1> QED
  BY <1>2, <1>3, <1>4, CountsCardinality

\* The calls in progress may still log at most OpBlocks blocks each.
LEMMA PromisedFinite ==
  /\ IsFiniteSet(Promised) /\ Cardinality(Promised) \in Nat
  /\ Cardinality(Promised) <= Cardinality(Active) * OpBlocks
<1>1. IsFiniteSet(1 .. OpBlocks) /\ Cardinality(1 .. OpBlocks) = OpBlocks
  BY SizeAssumption, FS_Interval
<1>2. /\ IsFiniteSet(Active \X (1 .. OpBlocks))
      /\ Cardinality(Active \X (1 .. OpBlocks)) = Cardinality(Active) * OpBlocks
  BY ZenonT(60), <1>1, ActiveFinite, FS_Product
<1>3. Promised \subseteq Active \X (1 .. OpBlocks)
  BY Zenon DEF Promised
<1>4. Cardinality(Promised) <= Cardinality(Active \X (1 .. OpBlocks)) /\ IsFiniteSet(Promised)
  BY <1>2, <1>3, FS_Subset, Zenon
<1>5. Cardinality(Promised) \in Nat
  BY <1>4, FS_CardinalityType, Zenon
<1> QED
  BY ZenonT(60), <1>2, <1>4, <1>5

\* The same of the next state.
LEMMA PromisedFiniteNext ==
  ASSUME IsFiniteSet(Active')
  PROVE  /\ IsFiniteSet(Promised') /\ Cardinality(Promised') \in Nat
         /\ Cardinality(Promised') <= Cardinality(Active') * OpBlocks
<1>1. IsFiniteSet(1 .. OpBlocks) /\ Cardinality(1 .. OpBlocks) = OpBlocks
  BY SizeAssumption, FS_Interval
<1>2. /\ IsFiniteSet(Active' \X (1 .. OpBlocks))
      /\ Cardinality(Active' \X (1 .. OpBlocks)) = Cardinality(Active') * OpBlocks
  BY ZenonT(60), <1>1, FS_Product
<1>3. Promised' \subseteq Active' \X (1 .. OpBlocks)
  BY Zenon DEF Promised
<1>4. Cardinality(Promised') <= Cardinality(Active' \X (1 .. OpBlocks)) /\ IsFiniteSet(Promised')
  BY <1>2, <1>3, FS_Subset, Zenon
<1>5. Cardinality(Promised') \in Nat
  BY <1>4, FS_CardinalityType, Zenon
<1> QED
  BY ZenonT(60), <1>2, <1>4, <1>5

\* A step that lets nobody in and logs nothing makes no promise.
LEMMA KeepsPromises ==
  ASSUME IInv, Reserved, Active' \subseteq Active, UNCHANGED <<wrote, lh>>, panic' = "none"
  PROVE  Reserved'
<1>1. Promised' \subseteq Promised
  BY Zenon DEF Promised
<1>2. Cardinality(Promised') <= Cardinality(Promised) /\ Cardinality(Promised') \in Nat
  BY <1>1, PromisedFinite, FS_Subset, FS_CardinalityType, Zenon
<1>3. Len(lh) \in Nat
  BY Known, Zenon
<1> QED
  BY <1>2, <1>3, PromisedFinite, SizeAssumption DEF Reserved

\* begin_op's test leaves room for MAXOPBLOCKS more blocks of the call it admits.
LEMMA AdmitKeepsRoom ==
  ASSUME Roomy, IInv, Drained, Reserved, NEW p \in Procs, boot = "up", pc[p] \in {"idle", "woken"}, Admit(p)
  PROVE  Reserved'
<1>1. CASE LogBusy
  <2>1. Active' = Active /\ UNCHANGED <<wrote, lh, panic>>
    BY <1>1, Known, Zenon DEF Admit, Goto, Active, OpPc
  <2> QED
    BY <2>1, KeepsPromises, Zenon DEF Reserved
<1>2. CASE ~LogBusy
  <2>1. Active' = Active \cup {p} /\ p \notin Active
    BY <1>2, Known, Zenon DEF Admit, Goto, Active, OpPc
  <2>2. /\ wrote' = [wrote EXCEPT ![p] = {}] /\ UNCHANGED <<lh, panic>>
        /\ wrote \in [Procs -> SUBSET Blocks] /\ Len(lh) \in Nat
    BY <1>2, Known, Zenon DEF Admit
  <2>3. IsFiniteSet(Active') /\ Cardinality(Active') = outstanding + 1 /\ outstanding \in Nat
    BY <2>1, ActiveFinite, FS_AddElement, Known, Zenon
  <2>4. \A q \in Active' :
          IsFiniteSet(wrote'[q]) /\ \A b \in wrote'[q] : \E i \in 1 .. Len(lh') : lh'[i] = b
    <3> TAKE q \in Active'
    <3>1. CASE q = p
      BY <2>2, <3>1, FS_EmptySet, Zenon
    <3>2. CASE q # p
      BY <2>1, <2>2, <3>2, Zenon DEF Reserved, Active
    <3> QED
      BY <3>1, <3>2, Zenon
  <2>5. /\ Cardinality(Promised') <= (outstanding + 1) * OpBlocks
        /\ Cardinality(Promised') \in Nat
    BY <2>3, PromisedFiniteNext, Zenon
  <2>6. Len(lh) + (outstanding + 1) * OpBlocks <= NLOG - 2
    <3>1. CASE outstanding = 0
      <4>1. lh = <<>>
        BY <1>2, <3>1, Known, Zenon DEF LogBusy, Drained
      <4>2. Len(lh) = 0 /\ (0 + 1) * OpBlocks = OpBlocks
        BY <4>1, SizeAssumption
      <4> QED
        BY <3>1, <4>2, SizeAssumption DEF Roomy
    <3>2. CASE outstanding # 0
      <4> DEFINE n == outstanding + 1
      <4>1. n \in Nat /\ n >= 2
        BY <2>3, <3>2
      <4>2. n * OpBlocks + n <= n * MAXOPBLOCKS /\ n * OpBlocks \in Nat /\ n * MAXOPBLOCKS \in Nat
        BY <4>1, Spare, SizeAssumption DEF Roomy
      <4>3. Len(lh) + n * MAXOPBLOCKS <= LOGSIZE
        BY <1>2, <2>2, <4>2, SizeAssumption DEF LogBusy
      <4> HIDE DEF n
      <4>4. Len(lh) + n * OpBlocks <= NLOG - 2
        BY <2>2, <4>1, <4>2, <4>3, SizeAssumption DEF Roomy
      <4> QED
        BY <4>4, Zenon DEF n
    <3> QED
      BY <3>1, <3>2, Zenon
  <2>7. (outstanding + 1) * OpBlocks \in Nat
    BY <2>3, SizeAssumption
  <2> QED
    BY <2>2, <2>4, <2>5, <2>6, <2>7, SizeAssumption DEF Reserved
<1> QED
  BY <1>1, <1>2, Zenon

\* A block appended by log_write was promised by begin_op.
LEMMA LogWriteKeepsRoom ==
  ASSUME Roomy, IInv, Reserved, NEW p \in Procs, NEW b \in Blocks, NEW v \in Data, log_write(p, b, v)
  PROVE  Reserved'
<1>0. /\ pc[p] = "buf" /\ pc' = pc
      /\ Cardinality(wrote[p] \cup {b}) <= OpBlocks
      /\ wrote' = [wrote EXCEPT ![p] = wrote[p] \cup {b}]
      /\ TooBig \/ outstanding < 1 \/ panic' = "none"
      /\ IF panic' # "none" \/ \E i \in DOMAIN lh : lh[i] = b
           THEN lh' = lh ELSE lh' = Append(lh, b)
  BY ZenonT(60) DEF log_write
<1>1. p \in Active /\ Active' = Active
  BY <1>0, Zenon DEF Active, OpPc
<1>2. Len(lh) \in Nat /\ Len(lh) + Cardinality(Promised) <= NLOG - 2 /\ Cardinality(Promised) \in Nat
  BY <1>1, PromisedFinite, Known, Zenon DEF Reserved
<1>3. ~TooBig
  BY <1>2, SizeAssumption DEF TooBig, Roomy
<1>4. outstanding >= 1
  BY <1>1, ActiveFinite, Known
<1>5. panic' = "none"
  BY <1>0, <1>3, <1>4, ActiveFinite, Known
<1>6. /\ wrote' = [wrote EXCEPT ![p] = wrote[p] \cup {b}] /\ wrote \in [Procs -> SUBSET Blocks]
      /\ lh \in Seq(Blocks)
  BY <1>0, Known, Zenon
<1>7. IsFiniteSet(wrote[p]) /\ Cardinality(wrote[p]) \in Nat
  BY <1>1, FS_CardinalityType, Zenon DEF Reserved
<1>8. IsFiniteSet(wrote'[p]) /\ \A q \in Active \ {p} : wrote'[q] = wrote[q]
  BY <1>6, <1>7, FS_AddElement, Zenon DEF Active
<1>9. Cardinality(wrote'[p]) \in Nat /\ Cardinality(wrote'[p]) <= OpBlocks
  BY <1>0, <1>6, <1>8, FS_CardinalityType, Zenon
<1>10. CASE \E i \in DOMAIN lh : lh[i] = b
  <2>1. lh' = lh
    BY <1>0, <1>10, Zenon
  <2>2. \A q \in Active' :
          IsFiniteSet(wrote'[q]) /\ \A c \in wrote'[q] : \E i \in 1 .. Len(lh') : lh'[i] = c
    <3> TAKE q \in Active'
    <3>1. CASE q = p
      BY <1>1, <1>6, <1>8, <1>10, <2>1, <3>1 DEF Reserved
    <3>2. CASE q # p
      BY <1>1, <1>8, <2>1, <3>2, Zenon DEF Reserved
    <3> QED
      BY <3>1, <3>2, Zenon
  <2>3. Cardinality(wrote[p]) <= Cardinality(wrote'[p])
    BY <1>6, <1>8, FS_Subset, Zenon
  <2>4. Promised' \subseteq Promised
    BY <1>1, <1>7, <1>8, <1>9, <2>3 DEF Promised
  <2>5. Cardinality(Promised') <= Cardinality(Promised) /\ Cardinality(Promised') \in Nat
    BY <2>4, PromisedFinite, FS_Subset, FS_CardinalityType, Zenon
  <2> QED
    BY <1>2, <1>5, <2>1, <2>2, <2>5, SizeAssumption DEF Reserved
<1>11. CASE ~\E i \in DOMAIN lh : lh[i] = b
  <2>1. lh' = Append(lh, b)
    BY <1>0, <1>5, <1>11, Zenon
  <2>2. Len(lh') = Len(lh) + 1 /\ lh'[Len(lh) + 1] = b /\ \A i \in 1 .. Len(lh) : lh'[i] = lh[i]
    BY <1>6, <2>1
  <2>3. \A q \in Active' :
          IsFiniteSet(wrote'[q]) /\ \A c \in wrote'[q] : \E i \in 1 .. Len(lh') : lh'[i] = c
    <3> TAKE q \in Active'
    <3>1. \A c \in wrote[q] : \E i \in 1 .. Len(lh') : lh'[i] = c
      BY <1>1, <1>2, <2>2 DEF Reserved
    <3>2. CASE q = p
      BY <1>2, <1>6, <1>8, <2>2, <3>1, <3>2
    <3>3. CASE q # p
      BY <1>1, <1>8, <3>1, <3>3, Zenon DEF Reserved
    <3> QED
      BY <3>2, <3>3, Zenon
  <2>4. b \notin wrote[p]
    BY <1>1, <1>6, <1>11 DEF Reserved
  <2>5. Cardinality(wrote'[p]) = Cardinality(wrote[p]) + 1
    <3>1. wrote'[p] = wrote[p] \cup {b}
      BY <1>6, Zenon
    <3> QED
      BY ZenonT(60), <1>7, <2>4, <3>1, FS_AddElement
  <2> DEFINE x == <<p, Cardinality(wrote'[p])>>
  <2>6. x \in Promised
    BY <1>1, <1>7, <1>9, <2>5, SizeAssumption DEF Promised
  <2>7. Promised' \subseteq Promised \ {x}
    BY <1>1, <1>7, <1>8, <1>9, <2>5 DEF Promised
  <2> HIDE DEF x
  <2>8. /\ IsFiniteSet(Promised \ {x})
        /\ Cardinality(Promised \ {x}) = Cardinality(Promised) - 1
    BY <2>6, PromisedFinite, FS_RemoveElement, Zenon
  <2>9. Cardinality(Promised') <= Cardinality(Promised) - 1 /\ Cardinality(Promised') \in Nat
    BY <2>7, <2>8, FS_Subset, FS_CardinalityType
  <2> QED
    BY <1>2, <1>5, <2>2, <2>3, <2>9, SizeAssumption DEF Reserved
<1> QED
  BY <1>10, <1>11, Zenon

\* Every step keeps the room that begin_op reserved.
LEMMA RoomStep == Roomy /\ IInv /\ IInv' /\ Drained /\ Reserved /\ [Next]_vars => Reserved'
<1> SUFFICES ASSUME Roomy, IInv, IInv', Drained, Reserved, [Next]_vars PROVE Reserved'
  OBVIOUS
<1>0. panic = "none"
  BY Zenon DEF Reserved
<1>1. CASE UNCHANGED vars
  BY <1>1, <1>0, KeepsPromises, Zenon DEF vars, Active
<1>2. ASSUME NEW p \in Procs, begin_op(p) \/ begin_op_again(p) PROVE Reserved'
  <2>1. boot = "up" /\ pc[p] \in {"idle", "woken"} /\ Admit(p)
    BY <1>2, Zenon DEF begin_op, begin_op_again, IInv, Control
  <2> QED
    BY <2>1, AdmitKeepsRoom, Zenon
<1>3. ASSUME NEW p \in Procs, end_op(p) PROVE Reserved'
  <2>1. p \in Active
    BY <1>3, Zenon DEF end_op, Active, OpPc
  <2>2. panic' = "none"
    BY <1>3, <2>1, Known, Zenon DEF end_op
  <2>3. Active' \subseteq Active
    BY <1>3, Known, Zenon DEF end_op, Goto, WakeupGoto, CommitStart, Active, OpPc
  <2>4. UNCHANGED <<wrote, lh>>
    BY <1>3, Zenon DEF end_op
  <2> QED
    BY <2>2, <2>3, <2>4, KeepsPromises, Zenon
<1>4. ASSUME NEW p \in Procs, NEW b \in Blocks, bread(p, b) \/ brelse(p, b) PROVE Reserved'
  <2>1. Active' \subseteq Active
    BY <1>4, Known, Zenon DEF bread, brelse, Goto, Active, OpPc
  <2>2. UNCHANGED <<wrote, lh, panic>>
    BY <1>4, Zenon DEF bread, brelse
  <2> QED
    BY <1>0, <2>1, <2>2, KeepsPromises, Zenon
<1>5. ASSUME NEW p \in Procs, Commit(p) PROVE Reserved'
  <2>1. /\ pc[p] \in CommitPc /\ panic' = panic
        /\ \/ \E l \in CommitPc : pc' = [pc EXCEPT ![p] = l]
           \/ WakeupGoto(p, "idle")
    BY ZenonT(60), <1>5 DEF Commit, write_log, write_head, install_trans, commit_clear, end_op_done,
                            Goto, CommitPc
  <2>2. Active = {}
    BY ZenonT(60), <2>1 DEF IInv, Control
  <2>3. Active' \subseteq Active
    BY <2>1, Known, Zenon DEF WakeupGoto, Active, OpPc, CommitPc
  <2> QED
    BY <1>0, <2>1, <2>2, <2>3, Zenon DEF Reserved
<1>6. ASSUME NEW b \in Blocks, bget_recycle(b) PROVE Reserved'
  <2>1. UNCHANGED <<pc, wrote, lh, panic>>
    BY <1>6, Zenon DEF bget_recycle
  <2> QED
    BY <1>0, <2>1, KeepsPromises, Zenon DEF Active
<1>7. CASE Recover
  <2>1. UNCHANGED <<pc, panic>> /\ Active = {}
    BY <1>7, Zenon DEF Recover, recover_read_head, recover_install, recover_clear, Control, IInv, Active, OpPc
  <2> QED
    BY <1>0, <2>1, Zenon DEF Reserved, Active
<1>8. CASE Crash
  BY <1>0, <1>8, Zenon DEF Crash, Reserved, Active, OpPc
<1> QED
  BY ZenonT(60), <1>1, <1>2, <1>3, <1>4, <1>5, <1>6, <1>7, <1>8, LogWriteKeepsRoom DEF Next

\* begin_op's reservations keep every call out of the panics of log_write and
\* end_op, when the log has LOGSIZE blocks and a call logs fewer blocks than are
\* reserved for it.
THEOREM ReservationsSuffice == Roomy => (Spec => []NoPanic)
<1> SUFFICES ASSUME Roomy PROVE Spec => []NoPanic
  OBVIOUS
<1>1. Init => Drained
  BY Zenon DEF Init, Drained, SleeperHasWaker
<1>2. Init => Reserved
  <2> SUFFICES ASSUME Init PROVE Reserved
    OBVIOUS
  <2>1. Active = {}
    BY Zenon DEF Init, Active, OpPc
  <2> QED
    BY <2>1, Zenon DEF Init, Reserved
<1>3. IInv /\ IInv' /\ Drained /\ Reserved /\ [Next]_vars => Reserved'
  BY RoomStep, Zenon
<1>4. Reserved => NoPanic
  BY Zenon DEF Reserved, NoPanic
<1> QED
  BY <1>1, <1>2, <1>3, <1>4, DrainedStep, Invariance, PTL DEF Spec

=============================================================================
