---------------------------- MODULE BcacheProof -----------------------------
(***************************************************************************)
(* The inductive invariant of Bcache, and its properties proved for every  *)
(* number of processes, blocks and buffers.                                *)
(***************************************************************************)
EXTENDS Bcache, FiniteSetTheorems, WellFoundedInduction, TLAPS

\* The backend of the leaves that name no other, and its time limit.
USE SMTT(60)

(***************************************************************************)
(* The inductive invariant.                                                *)
(***************************************************************************)
Users(b) == {p \in Procs : pc[p] \in UsePc /\ buf[p] = b}

\* A process between bget and the end of brelse has the buffer of its block,
\* and one that bread gave a buffer to has the lock.
Claims ==
  \A p \in Procs :
    /\ pc[p] \in UsePc => want[p] \in Blocks /\ blockno[buf[p]] = want[p]
    /\ pc[p] \in HoldPc => locked[buf[p]] = 1 /\ pid[buf[p]] = p

\* What is valid is a block's; what nobody is changing and the log has not
\* pinned is also on the disk.
Contents ==
  /\ \A p \in Procs : /\ pc[p] = "reading" => valid[buf[p]] = 0
                      /\ pc[p] \in {"held", "writing"} => valid[buf[p]] = 1
  /\ \A b \in Bufs : valid[b] = 1 =>
       /\ blockno[b] \in Blocks
       /\ \/ b \in pinned \/ Clean(b)
          \/ \E p \in Procs : pc[p] \in {"held", "writing"} /\ buf[p] = b

IInv ==
  /\ TypeOK /\ OneBufferPerBlock /\ RefcntCounts /\ Claims
  /\ AsleepOnlyIfLocked /\ Contents

(***************************************************************************)
(* What the operators of the model return.                                 *)
(***************************************************************************)
\* A set of naturals that is not empty has a least element; the CHOOSE of Min
\* finds it.
LEMMA LeastIn == ASSUME NEW S \in SUBSET Nat, S # {} PROVE \E x \in S : \A y \in S : x <= y
<1> DEFINE R == OpToRel(<, Nat)
<1>1. R = {ss \in Nat \X Nat : ss[1] < ss[2]}
  BY Zenon DEF OpToRel
<1>2. IsWellFoundedOn(R, Nat)
  BY NatLessThanWellFounded, Zenon
<1> HIDE DEF R
<1>3. PICK x \in S : \A y \in S : ~ (<<y, x>> \in R)
  BY <1>2, WFMin, Zenon
<1>4. \A y \in S : <<y, x>> \in R <=> y < x
  BY <1>1
<1>5. \A y \in S : ~ (y < x)
  BY <1>3, <1>4, Zenon
<1> QED
  BY <1>5

\* Min is an element.
LEMMA MinIn == ASSUME NEW S \in SUBSET Nat, S # {} PROVE Min(S) \in S
<1>1. \E x : x \in S /\ \A y \in S : x <= y
  BY LeastIn
<1> QED
  BY <1>1, Zenon DEF Min

\* So has a bounded one a greatest element: the CHOOSE of Max finds one.
LEMMA MaxIn == ASSUME NEW n \in Nat, NEW S \in SUBSET (1 .. n), S # {} PROVE Max(S) \in S
<1> DEFINE T == {n - i : i \in S}
<1>1. T \subseteq Nat /\ T # {}
  <2>1. \A i \in S : n - i \in Nat
    OBVIOUS
  <2> QED
    BY <2>1, Zenon
<1>2. PICK x \in T : \A y \in T : x <= y
  BY <1>1, LeastIn, Zenon
<1>3. PICK i \in S : x = n - i
  BY <1>2
<1>4. \A j \in S : i >= j
  <2> TAKE j \in S
  <2>1. n - j \in T
    OBVIOUS
  <2> QED
    BY <2>1, <1>2, <1>3
<1>5. \E m : m \in S /\ \A j \in S : m >= j
  BY <1>4
<1> QED
  BY <1>5, Zenon DEF Max

\* bget finds a buffer of the block if there is one.
LEMMA FindsIt ==
  ASSUME TypeOK, NEW k
  PROVE  /\ Find(k) = {} => \A b \in Bufs : blockno[b] # k
         /\ Find(k) # {} => /\ lru[Min(Find(k))] \in Bufs
                            /\ blockno[lru[Min(Find(k))]] = k
<1>1. Find(k) = {} => \A b \in Bufs : blockno[b] # k
  BY DEF TypeOK, Find
<1>2. Find(k) \in SUBSET Nat
  BY BcacheAssumption DEF Find, Bufs
<1>3. Find(k) # {} => Min(Find(k)) \in Find(k)
  BY <1>2, MinIn
<1> QED
  BY <1>1, <1>3 DEF TypeOK, Find

\* The buffer bget recycles is unused.
LEMMA UnusedIsUnused ==
  ASSUME TypeOK, Unused # {}
  PROVE  lru[Max(Unused)] \in Bufs /\ refcnt[lru[Max(Unused)]] = 0
<1>1. Unused \in SUBSET (1 .. NBUF) /\ NBUF \in Nat
  BY BcacheAssumption DEF Unused, Bufs
<1>2. Max(Unused) \in Unused
  BY <1>1, MaxIn
<1> QED
  BY <1>2 DEF TypeOK, Unused

\* The list still has every buffer when brelse has moved one.
LEMMA ListComplete ==
  ASSUME TypeOK, NEW b \in Bufs
  PROVE  /\ MoveToFront(b) \in [Bufs -> Bufs]
         /\ \A c \in Bufs : \E i \in Bufs : MoveToFront(b)[i] = c
<1> DEFINE n == CHOOSE i \in Bufs : lru[i] = b
           f == [i \in Bufs |-> IF i = 1 THEN b ELSE IF i <= n THEN lru[i - 1] ELSE lru[i]]
<1>0. MoveToFront(b) = f
  BY DEF MoveToFront
<1>1. n \in Bufs /\ lru[n] = b
  BY DEF TypeOK
<1>2. lru \in [Bufs -> Bufs] /\ \A c \in Bufs : \E i \in Bufs : lru[i] = c
  BY DEF TypeOK
<1> HIDE DEF n
<1>3. f \in [Bufs -> Bufs]
  <2>1. ASSUME NEW i \in Bufs, i # 1 PROVE i - 1 \in Bufs
    BY <2>1, BcacheAssumption DEF Bufs
  <2>2. ASSUME NEW i \in Bufs
        PROVE (IF i = 1 THEN b ELSE IF i <= n THEN lru[i - 1] ELSE lru[i]) \in Bufs
    BY <2>1, <1>2
  <2> QED
    BY <2>2, Zenon
<1>4. ASSUME NEW c \in Bufs PROVE \E i \in Bufs : f[i] = c
  <2>1. CASE c = b
    <3>1. 1 \in Bufs /\ f[1] = b
      BY BcacheAssumption DEF Bufs
    <3> QED
      BY <3>1, <2>1
  <2>2. CASE c # b
    <3>1. PICK i \in Bufs : lru[i] = c
      BY <1>2
    <3>2. CASE i < n
      <4>1. i + 1 \in Bufs /\ f[i + 1] = c
        BY <3>1, <3>2, <1>1, BcacheAssumption DEF Bufs
      <4> QED
        BY <4>1
    <3>3. CASE i > n
      <4>1. f[i] = c
        BY <3>1, <3>3, <1>1, BcacheAssumption DEF Bufs
      <4> QED
        BY <4>1, Zenon
    <3> QED
      BY <3>1, <3>2, <3>3, <2>2, <1>1, BcacheAssumption DEF Bufs
  <2> QED
    BY <2>1, <2>2, Zenon
<1> QED
  BY <1>0, <1>3, <1>4, Zenon

(***************************************************************************)
(* Counting the users of a buffer.                                         *)
(***************************************************************************)
LEMMA UsersFinite ==
  ASSUME NEW b
  PROVE  IsFiniteSet(Users(b)) /\ Cardinality(Users(b)) \in Nat
<1>1. Users(b) \in SUBSET Procs /\ IsFiniteSet(Procs)
  BY BcacheAssumption, Zenon DEF Users
<1>2. IsFiniteSet(Users(b))
  BY <1>1, FS_Subset, Zenon
<1> QED
  BY <1>2, FS_CardinalityType, Zenon

\* RefcntCounts, with the set of users named.
LEMMA Counts ==
  RefcntCounts <=>
    \A b \in Bufs : refcnt[b] = Cardinality(Users(b)) + IF b \in pinned THEN 1 ELSE 0
  BY Zenon DEF RefcntCounts, Users

\* A buffer whose refcnt is 0 is used by no process and not pinned.
LEMMA ZeroIsFree ==
  ASSUME RefcntCounts, NEW b \in Bufs, refcnt[b] = 0
  PROVE  b \notin pinned /\ Users(b) = {}
<1>1. Cardinality(Users(b)) \in Nat /\ IsFiniteSet(Users(b))
  BY UsersFinite, Zenon
<1>2. refcnt[b] = Cardinality(Users(b)) + IF b \in pinned THEN 1 ELSE 0
  BY Counts, Zenon
<1>3. Cardinality(Users(b)) = 0 /\ b \notin pinned
  BY <1>1, <1>2
<1> QED
  BY <1>1, <1>3, FS_EmptySet, Zenon

\* A buffer that a process uses has a refcnt above 0.
LEMMA UsedIsCounted ==
  ASSUME RefcntCounts, NEW p \in Procs, pc[p] \in UsePc, buf[p] \in Bufs
  PROVE  refcnt[buf[p]] \in Nat \ {0} /\ p \in Users(buf[p])
<1>1. Cardinality(Users(buf[p])) \in Nat /\ IsFiniteSet(Users(buf[p]))
  BY UsersFinite, Zenon
<1>2. refcnt[buf[p]] = Cardinality(Users(buf[p])) + IF buf[p] \in pinned THEN 1 ELSE 0
  BY Counts, Zenon
<1>3. p \in Users(buf[p])
  BY Zenon DEF Users
<1>4. Cardinality(Users(buf[p])) # 0
  BY <1>1, <1>3, FS_EmptySet, Zenon
<1> QED
  BY <1>1, <1>2, <1>3, <1>4

\* A process comes to buffer b: it is one more user of b alone.
LEMMA Enter ==
  ASSUME TypeOK, RefcntCounts, NEW p \in Procs, NEW b \in Bufs,
         pc[p] = "idle", Goto(p, "lock"), buf' = [buf EXCEPT ![p] = b],
         refcnt' = [refcnt EXCEPT ![b] = @ + 1], UNCHANGED pinned
  PROVE  RefcntCounts'
<1> DEFINE card(c) == Cardinality(Users(c))
<1>1. Users(b)' = Users(b) \cup {p} /\ p \notin Users(b)
  BY DEF Users, TypeOK, Goto, UsePc, HoldPc
<1>2. \A c \in Bufs : c # b => Users(c)' = Users(c)
  BY Zenon DEF Users, TypeOK, Goto, UsePc, HoldPc
<1>3. Cardinality(Users(b)') = card(b) + 1
  <2>1. IsFiniteSet(Users(b))
    BY UsersFinite, Zenon
  <2> QED
    BY <1>1, <2>1, FS_AddElement, Zenon
<1>4. \A c \in Bufs : refcnt[c] = card(c) + IF c \in pinned THEN 1 ELSE 0
  BY Counts, Zenon
<1>5. \A c \in Bufs : card(c) \in Nat
  BY UsersFinite, Zenon
<1> HIDE DEF card
<1>6. \A c \in Bufs : card(c)' = IF c = b THEN card(c) + 1 ELSE card(c)
  BY <1>2, <1>3, Zenon DEF card
<1>7. \A c \in Bufs : refcnt'[c] = card(c)' + IF c \in pinned' THEN 1 ELSE 0
  BY <1>4, <1>5, <1>6 DEF TypeOK
<1> QED
  BY <1>7, Zenon DEF card, RefcntCounts, Users

\* The users stay; the log pins or unpins buffer b, or does neither.
LEMMA SameUsers ==
  ASSUME TypeOK, RefcntCounts, buf' = buf,
         \A q \in Procs : pc'[q] \in UsePc <=> pc[q] \in UsePc,
         \/ UNCHANGED <<refcnt, pinned>>
         \/ \E b \in Bufs : /\ b \notin pinned /\ pinned' = pinned \cup {b}
                            /\ refcnt' = [refcnt EXCEPT ![b] = @ + 1]
         \/ \E b \in Bufs : /\ b \in pinned /\ pinned' = pinned \ {b}
                            /\ refcnt' = [refcnt EXCEPT ![b] = @ - 1]
  PROVE  RefcntCounts'
<1> DEFINE card(c) == Cardinality(Users(c))
<1>1. \A c \in Bufs : Users(c)' = Users(c)
  BY Zenon DEF Users
<1>2. \A c \in Bufs : refcnt[c] = card(c) + IF c \in pinned THEN 1 ELSE 0
  BY Counts, Zenon
<1>3. \A c \in Bufs : card(c) \in Nat /\ card(c)' = card(c)
  BY <1>1, UsersFinite, Zenon
<1> HIDE DEF card
<1>4. \A c \in Bufs : refcnt'[c] = card(c)' + IF c \in pinned' THEN 1 ELSE 0
  BY <1>2, <1>3 DEF TypeOK
<1> QED
  BY <1>4, Zenon DEF card, RefcntCounts, Users

\* A process leaves its buffer, which then has one user less.
LEMMA LeaveBuf ==
  ASSUME TypeOK, RefcntCounts, NEW p \in Procs, NEW b \in Bufs,
         pc[p] = "put", buf[p] = b, Goto(p, "idle"), buf' = buf,
         refcnt' = [refcnt EXCEPT ![b] = @ - 1], UNCHANGED pinned
  PROVE  RefcntCounts'
<1> DEFINE card(c) == Cardinality(Users(c))
<1>1. Users(b)' = Users(b) \ {p} /\ p \in Users(b)
  BY Zenon DEF Users, TypeOK, Goto, UsePc, HoldPc
<1>2. \A c \in Bufs : c # b => Users(c)' = Users(c)
  BY Zenon DEF Users, TypeOK, Goto, UsePc, HoldPc
<1>3. Cardinality(Users(b)') = card(b) - 1
  <2>1. IsFiniteSet(Users(b))
    BY UsersFinite, Zenon
  <2>2. Cardinality(Users(b) \ {p}) =
          IF p \in Users(b) THEN Cardinality(Users(b)) - 1 ELSE Cardinality(Users(b))
    BY <2>1, FS_RemoveElement, Zenon
  <2> QED
    BY <1>1, <2>2, Zenon
<1>4. \A c \in Bufs : refcnt[c] = card(c) + IF c \in pinned THEN 1 ELSE 0
  BY Counts, Zenon
<1>5. \A c \in Bufs : card(c) \in Nat
  BY UsersFinite, Zenon
<1> HIDE DEF card
<1>6. \A c \in Bufs : card(c)' = IF c = b THEN card(c) - 1 ELSE card(c)
  BY <1>2, <1>3, Zenon DEF card
<1>7. \A c \in Bufs : refcnt'[c] = card(c)' + IF c \in pinned' THEN 1 ELSE 0
  BY <1>4, <1>5, <1>6 DEF TypeOK
<1> QED
  BY <1>7, Zenon DEF card, RefcntCounts, Users

(***************************************************************************)
(* Every step preserves the invariant.                                     *)
(***************************************************************************)
LEMMA InitIInv == Init => IInv
<1> SUFFICES ASSUME Init PROVE IInv
  OBVIOUS
<1>1. TypeOK
  <2>1. \A b \in Bufs : NBUF + 1 - b \in Bufs /\ lru[NBUF + 1 - b] = b
    BY BcacheAssumption DEF Init, Bufs
  <2>2. lru \in [Bufs -> Bufs] /\ 1 \in Bufs
    BY BcacheAssumption DEF Init, Bufs
  <2> QED
    BY <2>1, <2>2, BcacheAssumption, Zenon DEF Init, TypeOK
<1>2. RefcntCounts
  <2>1. \A b \in Bufs : Users(b) = {}
    BY Zenon DEF Init, Users, UsePc, HoldPc
  <2>2. \A b \in Bufs : Cardinality(Users(b)) = 0
    BY <2>1, FS_EmptySet, Zenon
  <2>3. \A b \in Bufs : refcnt[b] = Cardinality(Users(b)) + IF b \in pinned THEN 1 ELSE 0
    BY <2>2 DEF Init
  <2> QED
    BY <2>3, Counts, Zenon
<1>3. OneBufferPerBlock /\ Claims /\ AsleepOnlyIfLocked /\ Contents
  BY DEF Init, OneBufferPerBlock, Claims, AsleepOnlyIfLocked, Contents, UsePc, HoldPc
<1> QED
  BY <1>1, <1>2, <1>3, Zenon DEF IInv

\* bget finds the block in a buffer.
LEMMA HitStep ==
  ASSUME IInv, NEW p \in Procs, NEW k \in Blocks, bget_hit(p, k)
  PROVE  IInv'
<1> DEFINE b == lru[Min(Find(k))]
<1>1. b \in Bufs /\ blockno[b] = k
  BY FindsIt, Zenon DEF IInv, bget_hit
<1>2. /\ pc[p] = "idle" /\ Goto(p, "lock") /\ buf' = [buf EXCEPT ![p] = b]
      /\ refcnt' = [refcnt EXCEPT ![b] = @ + 1] /\ want' = [want EXCEPT ![p] = k]
      /\ UNCHANGED <<blockno, valid, data, lru, locked, pid, disk, pinned, panic>>
  BY Zenon DEF bget_hit, lockVars
<1> HIDE DEF b
<1>3. RefcntCounts'
  <2>1. TypeOK /\ RefcntCounts /\ UNCHANGED pinned
    BY <1>2, Zenon DEF IInv
  <2> QED
    BY <2>1, <1>1, <1>2, Enter, Zenon
<1>4. TypeOK'
  BY <1>1, <1>2 DEF IInv, TypeOK, Goto, UsePc
<1>5. OneBufferPerBlock' /\ AsleepOnlyIfLocked'
  BY <1>2, Zenon DEF IInv, TypeOK, OneBufferPerBlock, AsleepOnlyIfLocked, Goto
<1>6. Claims'
  BY <1>1, <1>2, Zenon DEF IInv, TypeOK, Claims, Goto, HoldPc
<1>7. Contents'
  BY <1>2, Zenon DEF IInv, TypeOK, Contents, Clean, Goto
<1> QED
  BY <1>3, <1>4, <1>5, <1>6, <1>7, Zenon DEF IInv

\* bget takes an unused buffer.
LEMMA RecycleStep ==
  ASSUME IInv, NEW p \in Procs, NEW k \in Blocks, bget_recycle(p, k)
  PROVE  IInv'
<1> DEFINE b == lru[Max(Unused)]
<1>1. b \in Bufs /\ refcnt[b] = 0
  BY UnusedIsUnused, Zenon DEF IInv, bget_recycle
<1>2. \A c \in Bufs : blockno[c] # k
  BY FindsIt, Zenon DEF IInv, bget_recycle
<1>3. /\ pc[p] = "idle" /\ Goto(p, "lock") /\ buf' = [buf EXCEPT ![p] = b]
      /\ refcnt' = [refcnt EXCEPT ![b] = 1] /\ want' = [want EXCEPT ![p] = k]
      /\ blockno' = [blockno EXCEPT ![b] = k] /\ valid' = [valid EXCEPT ![b] = 0]
      /\ UNCHANGED <<data, lru, locked, pid, disk, pinned, panic>>
  BY Zenon DEF bget_recycle, lockVars
<1> HIDE DEF b
<1>4. b \notin pinned /\ \A q \in Procs : pc[q] \in UsePc => buf[q] # b
  BY <1>1, ZeroIsFree, Zenon DEF IInv, Users
<1>5. RefcntCounts'
  <2>1. refcnt' = [refcnt EXCEPT ![b] = @ + 1]
    BY <1>1, <1>3 DEF IInv, TypeOK
  <2>2. TypeOK /\ RefcntCounts /\ UNCHANGED pinned
    BY <1>3, Zenon DEF IInv
  <2> QED
    BY <2>1, <2>2, <1>1, <1>3, Enter, Zenon
<1>6. TypeOK'
  BY <1>1, <1>3, Zenon DEF IInv, TypeOK, Goto, UsePc
<1>7. OneBufferPerBlock' /\ AsleepOnlyIfLocked'
  BY <1>1, <1>2, <1>3, Zenon DEF IInv, TypeOK, OneBufferPerBlock, AsleepOnlyIfLocked, Goto
<1>8. Claims'
  BY <1>1, <1>3, <1>4 DEF IInv, TypeOK, Claims, Goto, HoldPc
<1>9. Contents'
  BY <1>1, <1>3, <1>4 DEF IInv, TypeOK, Contents, Clean, Goto, UsePc, HoldPc
<1> QED
  BY <1>5, <1>6, <1>7, <1>8, <1>9, Zenon DEF IInv

\* acquiresleep takes the lock, or sleeps because it is taken.
LEMMA LockStep ==
  ASSUME IInv, NEW p \in Procs, acquiresleep(p)
  PROVE  IInv'
<1>1. RefcntCounts'
  BY SameUsers DEF IInv, TypeOK, acquiresleep, listVars, procVars, Goto, UsePc, HoldPc
<1>2. TypeOK'
  BY DEF IInv, TypeOK, acquiresleep, listVars, lockVars, procVars, Goto, UsePc, HoldPc
<1>3. OneBufferPerBlock'
  BY Zenon DEF IInv, OneBufferPerBlock, acquiresleep, listVars
<1>4. Claims'
  BY DEF IInv, TypeOK, Claims, acquiresleep, listVars, lockVars, procVars, Goto, UsePc, HoldPc
<1>5. AsleepOnlyIfLocked'
  BY DEF IInv, TypeOK, AsleepOnlyIfLocked, acquiresleep, lockVars, procVars, Goto
<1>6. Contents'
  <2>1. /\ \A q \in Procs : pc[q] \in {"held", "writing", "reading"} \/
                         pc'[q] \in {"held", "writing", "reading"} => pc'[q] = pc[q]
        /\ UNCHANGED <<blockno, valid, data, disk, buf, pinned>>
    BY DEF IInv, TypeOK, acquiresleep, listVars, procVars, Goto
  <2> QED
    BY <2>1 DEF IInv, Contents, Clean
<1> QED
  BY <1>1, <1>2, <1>3, <1>4, <1>5, <1>6, Zenon DEF IInv

\* bread, bread_done, modify, bwrite and bwrite_done leave the list and the
\* locks alone.
LEMMA HeldStep ==
  ASSUME IInv, NEW p \in Procs,
         \/ bread(p) \/ bread_done(p) \/ (\E v \in Data : modify(p, v))
         \/ bwrite(p) \/ bwrite_done(p)
  PROVE  IInv'
<1>1. /\ UNCHANGED <<blockno, refcnt, lru, locked, pid, want, buf, pinned>>
      /\ pc[p] \in HoldPc /\ \E l \in HoldPc : pc' = [pc EXCEPT ![p] = l]
  BY DEF bread, bread_done, modify, bwrite, bwrite_done, Goto, listVars, lockVars,
         procVars, HoldPc, IInv, TypeOK
<1>2. /\ valid' \in [Bufs -> {0, 1}] /\ data' \in [Bufs -> Data]
      /\ disk' \in [Blocks -> Data] /\ panic' \in {"none", "bget", "bwrite", "brelse"}
  <2>1. CASE bread(p) \/ bwrite(p)
    BY <2>1, Zenon DEF bread, bwrite, IInv, TypeOK
  <2>2. CASE bread_done(p)
    BY <2>2, Zenon DEF bread_done, IInv, TypeOK, Claims, UsePc, HoldPc
  <2>3. CASE (\E v \in Data : modify(p, v)) \/ bwrite_done(p)
    BY <2>3 DEF modify, bwrite_done, IInv, TypeOK
  <2> QED
    BY <2>1, <2>2, <2>3, Zenon
<1>3. TypeOK'
  BY <1>1, <1>2 DEF IInv, TypeOK, UsePc
<1>4. RefcntCounts'
  <2>1. \A q \in Procs : pc'[q] \in UsePc <=> pc[q] \in UsePc
    BY <1>1, Zenon DEF IInv, TypeOK, UsePc
  <2> QED
    BY <2>1, <1>1, SameUsers, Zenon DEF IInv
<1>5. OneBufferPerBlock'
  BY <1>1, Zenon DEF IInv, OneBufferPerBlock
<1>6. Claims'
  BY <1>1, Zenon DEF IInv, TypeOK, Claims, UsePc, HoldPc
<1>7. AsleepOnlyIfLocked'
  BY <1>1, Zenon DEF IInv, TypeOK, AsleepOnlyIfLocked, HoldPc
<1>8. blockno[buf[p]] \in Blocks /\ \A q \in Procs : pc[q] \in HoldPc /\ buf[q] = buf[p] => q = p
  BY <1>1, Zenon DEF IInv, Claims, UsePc
<1>9. Contents'
  <2>1. CASE bread(p)
    BY <2>1, <1>8 DEF IInv, TypeOK, Contents, Clean, bread, Goto, listVars, procVars
  <2>2. CASE bread_done(p)
    BY <2>2, <1>8 DEF IInv, TypeOK, Contents, Clean, bread_done, Goto, listVars, procVars, HoldPc
  <2>3. CASE \E v \in Data : modify(p, v)
    BY <2>3, <1>8 DEF IInv, TypeOK, Contents, Clean, modify, Goto, listVars, procVars
  <2>4. CASE bwrite(p)
    BY <2>4, <1>8 DEF IInv, TypeOK, Contents, Clean, bwrite, Goto, listVars, procVars
  <2>5. CASE bwrite_done(p)
    <3>1. /\ pc[p] = "writing" /\ pc' = [pc EXCEPT ![p] = "held"]
          /\ disk' = [disk EXCEPT ![blockno[buf[p]]] = data[buf[p]]]
          /\ UNCHANGED <<blockno, valid, data, buf, pinned>>
      BY <2>5, Zenon DEF bwrite_done, Goto, listVars, procVars
    <3>2. \A q \in Procs : /\ pc'[q] = "reading" => valid'[buf'[q]] = 0
                           /\ pc'[q] \in {"held", "writing"} => valid'[buf'[q]] = 1
      BY <3>1 DEF IInv, TypeOK, Contents
    <3>3. ASSUME NEW b \in Bufs, valid'[b] = 1, b # buf[p]
          PROVE  blockno[b] \in Blocks /\ disk'[blockno[b]] = disk[blockno[b]]
      BY <3>1, <3>3, <1>8, BcacheAssumption DEF IInv, TypeOK, Contents, OneBufferPerBlock
    <3>4. ASSUME NEW b \in Bufs, valid'[b] = 1
          PROVE  /\ blockno'[b] \in Blocks
                 /\ \/ b \in pinned' \/ Clean(b)'
                    \/ \E q \in Procs : pc'[q] \in {"held", "writing"} /\ buf'[q] = b
      <4>1. CASE b = buf[p]
        BY <4>1, <3>1, <1>8, Zenon DEF IInv, TypeOK
      <4>2. CASE b # buf[p]
        BY <4>2, <3>1, <3>3, <3>4 DEF IInv, TypeOK, Contents, Clean
      <4> QED
        BY <4>1, <4>2, Zenon
    <3> QED
      BY <3>2, <3>4, Zenon DEF Contents
  <2> QED
    BY <2>1, <2>2, <2>3, <2>4, <2>5, Zenon
<1> QED
  BY <1>3, <1>4, <1>5, <1>6, <1>7, <1>9, Zenon DEF IInv



\* The backend of the leaves that name no other, and its time limit.


\* brelse up to the end of releasesleep.
LEMMA ReleaseStep ==
  ASSUME IInv, NEW p \in Procs, brelse(p)
  PROVE  IInv'
<1>0. pc[p] = "held" /\ pid[buf[p]] = p /\ locked[buf[p]] = 1 /\ buf[p] \in Bufs
  BY Zenon DEF IInv, TypeOK, Claims, HoldPc, brelse
<1>1. /\ UNCHANGED <<blockno, refcnt, lru, valid, data, disk, want, buf, pinned, panic>>
      /\ releasesleep(p) /\ (Clean(buf[p]) \/ buf[p] \in pinned)
  BY <1>0, Zenon DEF brelse, holdingsleep, listVars, procVars
<1>2. \A q \in Procs : pc'[q] = IF q = p THEN "put"
         ELSE IF pc[q] = "asleep" /\ buf[q] = buf[p] THEN "woken" ELSE pc[q]
  BY <1>1, Zenon DEF releasesleep
<1>3. TypeOK'
  BY <1>0, <1>1, Zenon DEF IInv, TypeOK, releasesleep, UsePc
<1>4. RefcntCounts'
  <2>1. \A q \in Procs : pc'[q] \in UsePc <=> pc[q] \in UsePc
    BY <1>0, <1>2, Zenon DEF UsePc, HoldPc
  <2> QED
    BY <2>1, <1>1, SameUsers, Zenon DEF IInv
<1>5. OneBufferPerBlock'
  BY <1>1, Zenon DEF IInv, OneBufferPerBlock
<1>6. Claims'
  BY <1>0, <1>1, <1>2 DEF IInv, TypeOK, Claims, releasesleep, UsePc, HoldPc
<1>7. AsleepOnlyIfLocked'
  BY <1>0, <1>1, <1>2, Zenon DEF IInv, TypeOK, AsleepOnlyIfLocked, releasesleep
<1>8. Contents'
  BY <1>0, <1>1, <1>2 DEF IInv, TypeOK, Contents, Clean
<1> QED
  BY <1>3, <1>4, <1>5, <1>6, <1>7, <1>8, Zenon DEF IInv

\* brelse under bcache.lock.
LEMMA PutStep ==
  ASSUME IInv, NEW p \in Procs, brelse_put(p)
  PROVE  IInv'
<1>1. /\ pc[p] = "put" /\ Goto(p, "idle") /\ buf[p] \in Bufs
      /\ refcnt' = [refcnt EXCEPT ![buf[p]] = @ - 1]
      /\ lru' = lru \/ lru' = MoveToFront(buf[p])
      /\ UNCHANGED <<blockno, valid, data, locked, pid, disk, want, buf, pinned, panic>>
  BY Zenon DEF brelse_put, lockVars, procVars, IInv, TypeOK
<1>2. refcnt[buf[p]] \in Nat \ {0}
  BY <1>1, UsedIsCounted, Zenon DEF IInv, UsePc
<1>3. RefcntCounts'
  <2>1. TypeOK /\ RefcntCounts /\ UNCHANGED pinned /\ buf' = buf
    BY <1>1, Zenon DEF IInv
  <2> QED
    BY <2>1, <1>1, LeaveBuf, Zenon
<1>4. TypeOK'
  <2>1. lru' \in [Bufs -> Bufs] /\ \A b \in Bufs : \E i \in Bufs : lru'[i] = b
    <3>1. TypeOK
      BY Zenon DEF IInv
    <3>2. CASE lru' = lru
      BY <3>1, <3>2, Zenon DEF TypeOK
    <3>3. CASE lru' = MoveToFront(buf[p])
      <4>1. /\ MoveToFront(buf[p]) \in [Bufs -> Bufs]
            /\ \A b \in Bufs : \E i \in Bufs : MoveToFront(buf[p])[i] = b
        BY <3>1, <1>1, ListComplete, Zenon
      <4> QED
        BY <4>1, <3>3, Zenon
    <3> QED
      BY <3>2, <3>3, <1>1, Zenon
  <2>2. refcnt' \in [Bufs -> Nat]
    <3>1. refcnt[buf[p]] - 1 \in Nat /\ refcnt \in [Bufs -> Nat]
      BY <1>2 DEF IInv, TypeOK
    <3> QED
      BY <3>1, <1>1, Zenon
  <2> QED
    BY <2>1, <2>2, <1>1, Zenon DEF IInv, TypeOK, Goto
<1>5. OneBufferPerBlock' /\ AsleepOnlyIfLocked'
  BY <1>1, Zenon DEF IInv, TypeOK, OneBufferPerBlock, AsleepOnlyIfLocked, Goto
<1>6. Claims'
  BY <1>1 DEF IInv, TypeOK, Claims, Goto, UsePc, HoldPc
<1>7. Contents'
  BY <1>1, Zenon DEF IInv, TypeOK, Contents, Clean, Goto
<1> QED
  BY <1>3, <1>4, <1>5, <1>6, <1>7, Zenon DEF IInv

\* bpin and bunpin.
LEMMA PinStep ==
  ASSUME IInv, NEW p \in Procs, bpin(p) \/ bunpin(p)
  PROVE  IInv'
<1>1. /\ pc[p] = "held" /\ buf[p] \in Bufs
      /\ UNCHANGED <<blockno, lru, valid, data, locked, pid, disk, pc, want, buf, panic>>
      /\ \/ /\ buf[p] \notin pinned /\ pinned' = pinned \cup {buf[p]}
            /\ refcnt' = [refcnt EXCEPT ![buf[p]] = @ + 1]
         \/ /\ buf[p] \in pinned /\ pinned' = pinned \ {buf[p]} /\ Clean(buf[p])
            /\ refcnt' = [refcnt EXCEPT ![buf[p]] = @ - 1]
  BY Zenon DEF bpin, bunpin, lockVars, procVars, IInv, TypeOK
<1>2. refcnt[buf[p]] \in Nat \ {0}
  BY <1>1, UsedIsCounted, Zenon DEF IInv, UsePc, HoldPc
<1>3. RefcntCounts'
  BY <1>1, SameUsers, Zenon DEF IInv
<1>4. TypeOK'
  <2>1. refcnt \in [Bufs -> Nat] /\ pinned \in SUBSET Bufs
    BY Zenon DEF IInv, TypeOK
  <2>2. refcnt' \in [Bufs -> Nat] /\ pinned' \in SUBSET Bufs
    BY <1>1, <1>2, <2>1
  <2> QED
    BY <1>1, <2>2, Zenon DEF IInv, TypeOK
<1>5. OneBufferPerBlock' /\ AsleepOnlyIfLocked' /\ Claims'
  BY <1>1, Zenon DEF IInv, OneBufferPerBlock, AsleepOnlyIfLocked, Claims
<1>6. Contents'
  BY <1>1 DEF IInv, TypeOK, Contents, Clean
<1> QED
  BY <1>3, <1>4, <1>5, <1>6, Zenon DEF IInv

\* Every step preserves the invariant.
LEMMA StepIInv == IInv /\ [Next]_vars => IInv'
<1> SUFFICES ASSUME IInv, [Next]_vars PROVE IInv'
  OBVIOUS
<1>1. CASE UNCHANGED vars
  BY <1>1 DEF vars, IInv, TypeOK, OneBufferPerBlock, RefcntCounts, Claims,
              AsleepOnlyIfLocked, Contents, Clean
<1>2. ASSUME NEW p \in Procs, NEW k \in Blocks, bget_none(p, k) PROVE IInv'
  <2>1. /\ UNCHANGED <<blockno, valid, refcnt, data, lru, locked, pid, disk, pc, want, buf, pinned>>
        /\ panic' = "bget"
    BY <1>2, Zenon DEF bget_none, listVars, lockVars, procVars
  <2> QED
    BY <2>1 DEF IInv, TypeOK, OneBufferPerBlock, RefcntCounts, Claims,
                AsleepOnlyIfLocked, Contents, Clean
<1> QED
  BY <1>1, <1>2, HitStep, RecycleStep, LockStep, HeldStep, ReleaseStep, PutStep, PinStep, Zenon
  DEF Next

\* The invariant holds in every reachable state.
LEMMA Inductive == Spec => []IInv
  BY InitIInv, StepIInv, PTL DEF Spec

(***************************************************************************)
(* Theorems                                                                *)
(***************************************************************************)
\* Whatever buffers bget recycles, and however its callers interleave, no two
\* buffers are ever for the same block.
THEOREM BlocksCachedOnce == Spec => []OneBufferPerBlock
<1>1. IInv => OneBufferPerBlock
  BY Zenon DEF IInv
<1> QED
  BY <1>1, Inductive, PTL

\* A process that bread has given a buffer to holds its lock alone, and the
\* buffer is for the block it asked for.
THEOREM HoldersAreRight == Spec => []HolderHasItsBlock
<1>1. IInv => HolderHasItsBlock
  BY Zenon DEF IInv, Claims, HolderHasItsBlock, holdingsleep, UsePc
<1> QED
  BY <1>1, Inductive, PTL

\* A buffer's refcnt counts the processes between bget and the end of brelse
\* and the log's pin, so bget recycles only what nobody uses.
THEOREM RefcntIsExact == Spec => []RefcntCounts
<1>1. IInv => RefcntCounts
  BY Zenon DEF IInv
<1> QED
  BY <1>1, Inductive, PTL

\* releasesleep wakes everyone who waits: no process sleeps for a free lock.
THEOREM SleepersWaitForHolder == Spec => []AsleepOnlyIfLocked
<1>1. IInv => AsleepOnlyIfLocked
  BY Zenon DEF IInv
<1> QED
  BY <1>1, Inductive, PTL

(***************************************************************************)
(* The buffer cache loses no block's contents.                             *)
(***************************************************************************)

\* The buffer of block k, if it is valid, gives the contents of k.
LEMMA CurrentIs ==
  ASSUME OneBufferPerBlock, NEW k \in Blocks
  PROVE  /\ \A b \in Cached(k) : Current(k) = data[b]
         /\ Cached(k) = {} => Current(k) = disk[k]
<1>1. \A b, c \in Cached(k) : b = c
  BY BcacheAssumption, Zenon DEF OneBufferPerBlock, Cached
<1>2. ASSUME NEW b \in Cached(k) PROVE Current(k) = data[b]
  <2>1. (CHOOSE c \in Cached(k) : TRUE) \in Cached(k)
    BY <1>2, Zenon
  <2>2. (CHOOSE c \in Cached(k) : TRUE) = b
    BY <1>1, <2>1, Zenon
  <2> QED
    BY <2>2, <1>2, Zenon DEF Current
<1> QED
  BY <1>2, Zenon DEF Current

\* What bread would return stays when the valid buffer of the block stays, and
\* the disk's copy stays if there is none.
LEMMA KeepsCurrent ==
  ASSUME OneBufferPerBlock, OneBufferPerBlock', NEW k \in Blocks,
         Cached(k)' = Cached(k), \A b \in Cached(k) : data'[b] = data[b],
         Cached(k) = {} => disk'[k] = disk[k]
  PROVE  Current(k)' = Current(k)
<1>1. CASE Cached(k) = {}
  BY <1>1, Zenon DEF Current
<1>2. ASSUME NEW b \in Cached(k) PROVE Current(k)' = Current(k)
  <2>1. (CHOOSE c \in Cached(k) : TRUE) \in Cached(k)
    BY <1>2, Zenon
  <2> QED
    BY <1>2, <2>1, Zenon DEF Current
<1> QED
  BY <1>1, <1>2, Zenon

\* The buffer bget recycles has nothing that the disk does not have.
LEMMA RecycleKeeps ==
  ASSUME IInv, IInv', NEW p \in Procs, NEW j \in Blocks, bget_recycle(p, j), NEW k \in Blocks
  PROVE  Current(k)' = Current(k)
<1> DEFINE b == lru[Max(Unused)]
<1>1. b \in Bufs /\ refcnt[b] = 0
  BY UnusedIsUnused, Zenon DEF IInv, bget_recycle
<1>2. \A c \in Bufs : blockno[c] # j
  BY FindsIt, Zenon DEF IInv, bget_recycle
<1>3. /\ blockno' = [blockno EXCEPT ![b] = j] /\ valid' = [valid EXCEPT ![b] = 0]
      /\ UNCHANGED <<data, disk>>
  BY Zenon DEF bget_recycle
<1> HIDE DEF b
<1>4. b \notin pinned /\ \A q \in Procs : pc[q] \in UsePc => buf[q] # b
  BY <1>1, ZeroIsFree, Zenon DEF IInv, Users
<1>5. Cached(k)' = Cached(k) \ {b}
  BY <1>1, <1>2, <1>3 DEF IInv, TypeOK, Cached
<1>6. CASE b \in Cached(k)
  <2>1. data[b] = disk[k] /\ \A c \in Cached(k) : c = b
    BY <1>4, <1>6, BcacheAssumption
    DEF IInv, Contents, Clean, Cached, UsePc, HoldPc, OneBufferPerBlock
  <2>2. Current(k) = data[b]
    BY <1>6, CurrentIs, Zenon DEF IInv
  <2>3. Cached(k)' = {}
    BY <1>5, <2>1, Zenon
  <2> QED
    BY <2>1, <2>2, <2>3, <1>3, Zenon DEF Current
<1>7. CASE b \notin Cached(k)
  BY <1>3, <1>5, <1>7, KeepsCurrent, Zenon DEF IInv
<1> QED
  BY <1>6, <1>7, Zenon

\* A block is read into a buffer that was not valid.
LEMMA ReadKeeps ==
  ASSUME IInv, IInv', NEW p \in Procs, bread_done(p), NEW k \in Blocks
  PROVE  Current(k)' = Current(k)
<1> DEFINE b == buf[p]
<1>1. /\ b \in Bufs /\ valid[b] = 0 /\ valid' = [valid EXCEPT ![b] = 1]
      /\ data' = [data EXCEPT ![b] = disk[blockno[b]]] /\ UNCHANGED <<blockno, disk>>
  BY Zenon DEF IInv, TypeOK, Contents, bread_done, listVars
<1> HIDE DEF b
<1>2. CASE blockno[b] = k
  <2>1. Cached(k) = {} /\ b \in Cached(k)' /\ data'[b] = disk[k]
    <3>1. \A c \in Bufs : blockno[c] = k => c = b
      BY <1>1, <1>2, BcacheAssumption, Zenon DEF IInv, OneBufferPerBlock
    <3>2. Cached(k) = {}
      BY <3>1, <1>1 DEF Cached
    <3>3. valid'[b] = 1 /\ data'[b] = disk[k]
      BY <1>1, <1>2, Zenon DEF IInv, TypeOK
    <3> QED
      BY <3>2, <3>3, <1>1, <1>2, Zenon DEF Cached
  <2>2. Current(k) = disk[k]
    BY <2>1, Zenon DEF Current
  <2>3. \A c, d \in Cached(k)' : c = d
    BY <1>1, BcacheAssumption DEF IInv, OneBufferPerBlock, Cached
  <2>4. (CHOOSE c \in Cached(k)' : TRUE) = b
    BY <2>1, <2>3, Zenon
  <2>5. Current(k)' = data'[CHOOSE c \in Cached(k)' : TRUE]
    BY <2>1, Zenon DEF Current
  <2> QED
    BY <2>1, <2>2, <2>4, <2>5, Zenon
<1>3. CASE blockno[b] # k
  <2>1. Cached(k)' = Cached(k) /\ \A c \in Cached(k) : data'[c] = data[c]
    BY <1>1, <1>3 DEF IInv, TypeOK, Cached
  <2> QED
    BY <2>1, <1>1, KeepsCurrent, Zenon DEF IInv
<1> QED
  BY <1>2, <1>3, Zenon

\* bwrite changes the disk under a valid buffer.
LEMMA WriteKeeps ==
  ASSUME IInv, IInv', NEW p \in Procs, bwrite_done(p), NEW k \in Blocks
  PROVE  Current(k)' = Current(k)
<1>1. /\ UNCHANGED <<blockno, valid, data>> /\ buf[p] \in Bufs /\ valid[buf[p]] = 1
      /\ disk' = [disk EXCEPT ![blockno[buf[p]]] = data[buf[p]]]
  BY Zenon DEF IInv, TypeOK, Contents, bwrite_done, listVars
<1>2. Cached(k)' = Cached(k)
  BY <1>1, Zenon DEF Cached
<1>3. Cached(k) = {} => disk'[k] = disk[k]
  <2>1. disk \in [Blocks -> Data]
    BY Zenon DEF IInv, TypeOK
  <2> QED
    BY <1>1, <2>1, Zenon DEF Cached
<1> QED
  BY <1>1, <1>2, <1>3, KeepsCurrent, Zenon DEF IInv

\* Only the holder of the block changes it, and only by changing the data.
LEMMA ModifyChanges ==
  ASSUME IInv, IInv', NEW p \in Procs, NEW v \in Data, modify(p, v), NEW k \in Blocks,
         Current(k)' # Current(k)
  PROVE  pc[p] = "held" /\ want[p] = k /\ data'[buf[p]] # data[buf[p]]
<1>1. /\ UNCHANGED <<blockno, valid, disk>> /\ pc[p] = "held" /\ buf[p] \in Bufs
      /\ blockno[buf[p]] = want[p] /\ data' = [data EXCEPT ![buf[p]] = v]
  <2>1. /\ UNCHANGED <<blockno, valid, disk>> /\ pc[p] = "held"
        /\ data' = [data EXCEPT ![buf[p]] = v]
    BY Zenon DEF modify, listVars
  <2>2. buf[p] \in Bufs /\ blockno[buf[p]] = want[p]
    BY <2>1, Zenon DEF IInv, TypeOK, Claims, UsePc, HoldPc
  <2> QED
    BY <2>1, <2>2, Zenon
<1>2. Cached(k)' = Cached(k)
  BY <1>1, Zenon DEF Cached
<1>3. CASE want[p] # k \/ data'[buf[p]] = data[buf[p]]
  <2>1. \A b \in Cached(k) : data'[b] = data[b]
    BY <1>1, <1>3, Zenon DEF IInv, TypeOK, Cached
  <2> QED
    BY <2>1, <1>1, <1>2, KeepsCurrent, Zenon DEF IInv
<1> QED
  BY <1>1, <1>3, Zenon

\* The steps that touch neither the buffers' contents nor the disk.
LEMMA QuietSteps ==
  ASSUME NEW p \in Procs,
         \/ \E k \in Blocks : bget_hit(p, k) \/ bget_none(p, k)
         \/ acquiresleep(p) \/ bread(p) \/ bwrite(p) \/ brelse(p) \/ brelse_put(p)
         \/ bpin(p) \/ bunpin(p)
  PROVE  UNCHANGED <<blockno, valid, data, disk>>
<1>1. CASE \E k \in Blocks : bget_hit(p, k) \/ bget_none(p, k)
  BY <1>1, Zenon DEF bget_hit, bget_none, listVars
<1>2. CASE acquiresleep(p) \/ bread(p) \/ bwrite(p)
  BY <1>2, Zenon DEF acquiresleep, bread, bwrite, listVars
<1>3. CASE brelse(p) \/ brelse_put(p) \/ bpin(p) \/ bunpin(p)
  BY <1>3, Zenon DEF brelse, brelse_put, bpin, bunpin, listVars
<1> QED
  BY <1>1, <1>2, <1>3, Zenon

\* Recycling, reading and writing buffers lose nothing: only a process that
\* has the block, in its own step, changes what bread would return for it.
THEOREM CacheLosesNothing == Spec => NothingLost
<1> DEFINE Changed(k) == \E p \in Procs :
             pc[p] = "held" /\ want[p] = k /\ data'[buf[p]] # data[buf[p]]
<1>1. ASSUME IInv, IInv', [Next]_vars, NEW k \in Blocks, Current(k)' # Current(k)
      PROVE  Changed(k)
  <2>1. CASE UNCHANGED <<blockno, valid, data, disk>>
    <3>1. Cached(k)' = Cached(k)
      BY <2>1, Zenon DEF Cached
    <3> QED
      BY <2>1, <3>1, <1>1, KeepsCurrent, Zenon DEF IInv
  <2>2. ASSUME NEW p \in Procs, bread_done(p) \/ bwrite_done(p) \/ \E j \in Blocks : bget_recycle(p, j)
        PROVE  FALSE
    BY <2>2, <1>1, RecycleKeeps, ReadKeeps, WriteKeeps, Zenon
  <2>3. ASSUME NEW p \in Procs, \E v \in Data : modify(p, v)
        PROVE  Changed(k)
    BY <2>3, <1>1, ModifyChanges, Zenon
  <2>4. \/ UNCHANGED <<blockno, valid, data, disk>>
        \/ \E p \in Procs : \/ bread_done(p) \/ bwrite_done(p)
                            \/ \E j \in Blocks : bget_recycle(p, j)
                            \/ \E v \in Data : modify(p, v)
    BY <1>1, QuietSteps, Zenon DEF Next, vars
  <2> QED
    BY <2>1, <2>2, <2>3, <2>4, Zenon
<1>2. IInv /\ IInv' /\ [Next]_vars =>
        [\A k \in Blocks : Current(k)' # Current(k) => Changed(k)]_vars
  BY <1>1, Zenon
<1> QED
  BY <1>2, Inductive, PTL DEF Spec, NothingLost

=============================================================================
