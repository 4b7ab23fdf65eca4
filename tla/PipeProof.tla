------------------------------ MODULE PipeProof ------------------------------
(***************************************************************************)
(* No process is in a pipe whose page has been freed, and the ring buffer  *)
(* with its wrapping indices implements ByteStream: for every number of    *)
(* writers and readers, every buffer size and every width of the indices   *)
(* that is a multiple of it.                                               *)
(***************************************************************************)
EXTENDS Pipe, TLAPS

\* The backend of the leaves that name no other, and its time limit.
USE SMTT(60)

(***************************************************************************)
(* The inductive invariant.                                                *)
(***************************************************************************)
WritePc == {"write", "write_go", "write_sleep", "write_woken"}
ReadPc == {"read", "read_go", "copy", "read_sleep", "read_woken"}
LockedPc == {"read", "read_go", "copy", "write", "write_go"}

TypeOK ==
  /\ data \in [0 .. PIPESIZE - 1 -> Bytes]
  /\ nread \in 0 .. UINT - 1 /\ nwrite \in 0 .. UINT - 1
  /\ readopen \in {0, 1} /\ writeopen \in {0, 1} /\ allocated \in {0, 1}
  /\ lock \in Procs \cup {Free}
  /\ pc \in [Procs -> {"closed", "user", "pipeclose"} \cup WritePc \cup ReadPc]
  /\ left \in [Procs -> Int]
  /\ killed \in [Procs -> {0, 1}]

\* Who is between acquire and release, and which end each process uses.
Roles ==
  \A p \in Procs :
    /\ pc[p] \in LockedPc => lock = p
    /\ pc[p] \in WritePc => p \in Writers
    /\ pc[p] \in ReadPc => p \in Readers

\* The page is there while an end is open; an end is open until its last
\* process has been through pipeclose, and by then the others have closed.
Ends ==
  /\ allocated = 1 <=> readopen = 1 \/ writeopen = 1
  /\ \A p \in Writers : writeopen = 0 => pc[p] = "closed"
  /\ \A p \in Readers : readopen = 0 => pc[p] = "closed"
  /\ \A p \in Procs : pc[p] = "pipeclose" => \A q \in SameEnd(p) \ {p} : pc[q] = "closed"

\* At most PIPESIZE bytes are between the indices, and a writer past its test
\* of readopen still has a reader: pipeclose waits for the lock.
Ring ==
  /\ Count <= PIPESIZE
  /\ \A p \in Procs : pc[p] = "write_go" => readopen = 1

IInv == TypeOK /\ Roles /\ Ends /\ Ring

(***************************************************************************)
(* Arithmetic of the indices.                                              *)
(***************************************************************************)
\* What % returns.
LEMMA ModRange == ASSUME NEW n \in Int, n > 0, NEW a \in Int PROVE a % n \in 0 .. n - 1
  OBVIOUS

\* What % leaves out is a multiple of the divisor.
LEMMA Quotient == ASSUME NEW n \in Int, n > 0, NEW a \in Int PROVE \E q \in Int : a = q * n + (a % n)
  OBVIOUS

\* % of an argument that overshoots once, in either direction.
LEMMA ModOnce == ASSUME NEW n \in Int, n > 0, NEW a \in Int, - n <= a, a < 2 * n
                 PROVE  a % n = IF a < 0 THEN a + n ELSE IF a < n THEN a ELSE a - n
  OBVIOUS

\* There is no multiple of n strictly between 0 and n.
LEMMA NoMultiple == ASSUME NEW n \in Int, n > 0, NEW q \in Int, 0 < q * n, q * n < n PROVE FALSE
<1>1. q >= 1 => q * n >= n
  OBVIOUS
<1>2. q <= 0 => q * n <= 0
  OBVIOUS
<1> QED
  BY <1>1, <1>2

\* Two indices less than a buffer apart are in different places of it, also
\* when the second has wrapped: UINT is a multiple k * n of the buffer's size.
LEMMA Apart ==
  ASSUME NEW n \in Int, n > 0, NEW x \in Int, NEW y \in Int, NEW k \in Int,
         NEW d \in Int, 0 < d, d < n, y - x = d - k * n
  PROVE  x % n # y % n
<1> SUFFICES ASSUME x % n = y % n PROVE FALSE
  OBVIOUS
<1>1. PICK q \in Int : x = q * n + (x % n)
  BY Quotient, Zenon
<1>2. PICK r \in Int : y = r * n + (y % n)
  BY Quotient, Zenon
<1>3. x % n \in Int
  BY ModRange
<1>4. q * n \in Int /\ r * n \in Int /\ k * n \in Int
  OBVIOUS
<1>5. d = r * n - q * n + k * n
  BY <1>1, <1>2, <1>3, <1>4
<1>6. (r - q + k) * n = r * n - q * n + k * n
  OBVIOUS
<1> QED
  BY <1>5, <1>6, NoMultiple

\* The size of the buffer divides the range of its indices.
LEMMA Sizes ==
  /\ PIPESIZE \in Int /\ PIPESIZE > 0 /\ UINT \in Int /\ UINT >= 2 * PIPESIZE
  /\ \E k \in Int : UINT = k * PIPESIZE
<1>1. PICK k \in 2 .. UINT : UINT = k * PIPESIZE
  BY SizeAssumption
<1>2. PIPESIZE \in Int /\ PIPESIZE > 0 /\ k \in Int /\ k >= 2
  BY <1>1, SizeAssumption
<1>3. k * PIPESIZE \in Int /\ k * PIPESIZE >= 2 * PIPESIZE
  BY <1>2
<1> QED
  BY <1>1, <1>2, <1>3

\* The number of bytes between two indices.
Dist(r, w) == (w - r) % UINT

\* The distance with and without a wrap of the write index.
LEMMA DistIs ==
  ASSUME NEW r \in 0 .. UINT - 1, NEW w \in 0 .. UINT - 1
  PROVE  Dist(r, w) = IF r <= w THEN w - r ELSE w - r + UINT
<1>1. UINT \in Int /\ UINT > 0 /\ w - r \in Int /\ - UINT <= w - r /\ w - r < 2 * UINT
  BY Sizes
<1>2. (w - r) % UINT = IF w - r < 0 THEN w - r + UINT ELSE IF w - r < UINT THEN w - r ELSE w - r - UINT
  BY <1>1, ModOnce
<1> QED
  BY <1>1, <1>2 DEF Dist

\* The index of the i'th byte after r.
LEMMA IndexIs ==
  ASSUME NEW r \in 0 .. UINT - 1, NEW i \in 0 .. UINT
  PROVE  (r + i) % UINT = IF r + i < UINT THEN r + i ELSE r + i - UINT
<1>1. UINT \in Int /\ UINT > 0 /\ r + i \in Int /\ - UINT <= r + i /\ r + i < 2 * UINT /\ ~ (r + i < 0)
  BY Sizes
<1> QED
  BY <1>1, ModOnce

\* pipewrite's step: one byte more, in a place no unread byte is in.
LEMMA RingPut ==
  ASSUME NEW r \in 0 .. UINT - 1, NEW w \in 0 .. UINT - 1, Dist(r, w) < PIPESIZE
  PROVE  /\ (w + 1) % UINT \in 0 .. UINT - 1
         /\ Dist(r, (w + 1) % UINT) = Dist(r, w) + 1
         /\ (r + Dist(r, w)) % UINT = w
         /\ \A i \in 0 .. Dist(r, w) - 1 : ((r + i) % UINT) % PIPESIZE # w % PIPESIZE
<1> DEFINE c == Dist(r, w)
<1>1. c = IF r <= w THEN w - r ELSE w - r + UINT
  BY DistIs
<1>2. c \in 0 .. PIPESIZE - 1
  BY <1>1, Sizes
<1>3. (w + 1) % UINT = IF w + 1 < UINT THEN w + 1 ELSE w + 1 - UINT
  BY IndexIs, Sizes
<1>4. (w + 1) % UINT \in 0 .. UINT - 1
  BY <1>3, Sizes
<1>5. Dist(r, (w + 1) % UINT) = c + 1
  <2> DEFINE v == (w + 1) % UINT
  <2> HIDE DEF v
  <2>1. v \in 0 .. UINT - 1 /\ v = IF w + 1 < UINT THEN w + 1 ELSE w + 1 - UINT
    BY <1>3, <1>4 DEF v
  <2>2. Dist(r, v) = IF r <= v THEN v - r ELSE v - r + UINT
    BY <2>1, DistIs
  <2> QED
    BY <1>1, <1>2, <2>1, <2>2, Sizes DEF v
<1>6. (r + c) % UINT = w
  <2>1. c \in 0 .. UINT
    BY <1>2, Sizes
  <2>2. (r + c) % UINT = IF r + c < UINT THEN r + c ELSE r + c - UINT
    BY <2>1, IndexIs
  <2> QED
    BY <2>2, <1>1, Sizes
<1>7. ASSUME NEW i \in 0 .. c - 1
      PROVE  ((r + i) % UINT) % PIPESIZE # w % PIPESIZE
  <2> DEFINE x == (r + i) % UINT
  <2>1. i \in 0 .. UINT
    BY <1>2, Sizes
  <2>2. x = IF r + i < UINT THEN r + i ELSE r + i - UINT
    BY <2>1, IndexIs
  <2>3. w - x = c - i \/ w - x = c - i - UINT
    BY <1>1, <2>2, <2>1, Sizes
  <2>4. x \in Int /\ c - i \in Int /\ 0 < c - i /\ c - i < PIPESIZE
    BY <2>1, <2>2, <1>2, Sizes
  <2>5. PICK k \in Int : UINT = k * PIPESIZE
    BY Sizes
  <2> HIDE DEF x
  <2>6. w - x = (c - i) - 0 * PIPESIZE \/ w - x = (c - i) - k * PIPESIZE
    BY <2>3, <2>4, <2>5, Sizes
  <2>7. x % PIPESIZE # w % PIPESIZE
    <3> DEFINE d == c - i
    <3>1. /\ PIPESIZE \in Int /\ PIPESIZE > 0 /\ x \in Int /\ w \in Int /\ k \in Int /\ 0 \in Int
          /\ d \in Int /\ 0 < d /\ d < PIPESIZE
          /\ w - x = d - 0 * PIPESIZE \/ w - x = d - k * PIPESIZE
      BY <2>4, <2>6, Sizes
    <3> HIDE DEF d
    <3> QED
      BY <3>1, Apart, Zenon
  <2> QED
    BY <2>7 DEF x
<1> QED
  BY <1>4, <1>5, <1>6, <1>7

\* piperead's step: the first byte goes, the others keep their order.
LEMMA RingGet ==
  ASSUME NEW r \in 0 .. UINT - 1, NEW w \in 0 .. UINT - 1, r # w
  PROVE  /\ (r + 1) % UINT \in 0 .. UINT - 1
         /\ Dist((r + 1) % UINT, w) = Dist(r, w) - 1
         /\ \A i \in 0 .. Dist(r, w) - 2 : (((r + 1) % UINT) + i) % UINT = (r + 1 + i) % UINT
<1> DEFINE c == Dist(r, w)  s == (r + 1) % UINT
<1>1. c = IF r <= w THEN w - r ELSE w - r + UINT
  BY DistIs
<1>2. s = IF r + 1 < UINT THEN r + 1 ELSE r + 1 - UINT
  BY IndexIs, Sizes
<1>3. s \in 0 .. UINT - 1
  BY <1>2, Sizes
<1>4. Dist(s, w) = IF s <= w THEN w - s ELSE w - s + UINT
  BY <1>3, DistIs
<1>5. Dist(s, w) = c - 1
  BY <1>1, <1>2, <1>4, Sizes
<1>6. ASSUME NEW i \in 0 .. c - 2
      PROVE  (s + i) % UINT = (r + (i + 1)) % UINT
  <2>1. i \in 0 .. UINT /\ i + 1 \in 0 .. UINT
    BY <1>1, Sizes
  <2>2. (s + i) % UINT = IF s + i < UINT THEN s + i ELSE s + i - UINT
    BY <2>1, <1>3, IndexIs
  <2>3. (r + (i + 1)) % UINT = IF r + (i + 1) < UINT THEN r + (i + 1) ELSE r + (i + 1) - UINT
    BY <2>1, IndexIs
  <2> QED
    BY <2>2, <2>3, <1>2, <2>1, Sizes
<1>7. \A i \in 0 .. c - 2 : r + 1 + i = r + (i + 1)
  BY <1>1, Sizes
<1> QED
  BY <1>3, <1>5, <1>6, <1>7

\* pipewrite's test for a full buffer finds one.
LEMMA NotFull ==
  ASSUME TypeOK, Count <= PIPESIZE, ~Full
  PROVE  Dist(nread, nwrite) < PIPESIZE
<1>1. Count = IF nread <= nwrite THEN nwrite - nread ELSE nwrite - nread + UINT
  BY DistIs DEF TypeOK, Count, Dist
<1>2. (nread + PIPESIZE) % UINT = IF nread + PIPESIZE < UINT THEN nread + PIPESIZE
                                  ELSE nread + PIPESIZE - UINT
  BY IndexIs, Sizes DEF TypeOK
<1>3. Dist(nread, nwrite) = Count
  BY DEF Dist, Count
<1>4. nwrite # (nread + PIPESIZE) % UINT /\ nread \in 0 .. UINT - 1 /\ nwrite \in 0 .. UINT - 1
  BY DEF Full, TypeOK
<1> QED
  BY <1>1, <1>2, <1>3, <1>4, Sizes

\* An update stays in the type of the function.
LEMMA Update == ASSUME NEW S, NEW T, NEW f \in [S -> T], NEW k, NEW v \in T
                PROVE  [f EXCEPT ![k] = v] \in [S -> T]
  BY ZenonT(60)

(***************************************************************************)
(* Every step preserves the invariant.                                     *)
(***************************************************************************)
LEMMA InitIInv == Init => IInv
<1> SUFFICES ASSUME Init PROVE IInv
  OBVIOUS
<1>1. TypeOK
  BY Sizes, BytesAssumption DEF Init, TypeOK
<1>2. Roles /\ Ends
  BY DEF Init, Roles, Ends, LockedPc, WritePc, ReadPc, Procs
<1>3. Count = 0
  BY DistIs, Sizes DEF Init, Count, Dist
<1> QED
  BY <1>1, <1>2, <1>3, Sizes DEF Init, IInv, Ring

\* pipealloc: two open ends and an empty ring.
LEMMA AllocStep ==
  ASSUME IInv, pipealloc
  PROVE  IInv'
<1>1. TypeOK'
  BY Sizes, BytesAssumption DEF IInv, pipealloc, TypeOK
<1>2. Roles' /\ Ends'
  BY DEF IInv, pipealloc, Roles, Ends, LockedPc, WritePc, ReadPc
<1>3. Count' = 0
  BY DistIs, Sizes DEF pipealloc, Count, Dist
<1> QED
  BY <1>1, <1>2, <1>3, Sizes DEF pipealloc, IInv, Ring

\* A process takes the lock.
LEMMA AcquireStep ==
  ASSUME IInv, NEW p \in Procs, NEW n \in 0 .. MaxN,
         write_call(p, n) \/ read_call(p, n) \/ Resume(p)
  PROVE  IInv'
<1> DEFINE l == IF p \in Writers THEN "write" ELSE "read"
<1>1. /\ UNCHANGED <<data, nread, nwrite, readopen, writeopen, allocated, killed>>
      /\ lock = Free /\ lock' = p /\ pc' = [pc EXCEPT ![p] = l]
      /\ pc[p] \in {"user", "write_woken", "read_woken"} /\ left' \in [Procs -> Int]
  BY SizeAssumption, RolesAssumption
  DEF IInv, TypeOK, Roles, Resume, write_call, read_call, write_resume, read_resume, Goto,
      WritePc, ReadPc, Procs
<1>2. TypeOK'
  BY <1>1 DEF IInv, TypeOK, WritePc, ReadPc
<1>3. Roles'
  BY <1>1, RolesAssumption DEF IInv, TypeOK, Roles, LockedPc, WritePc, ReadPc, Procs
<1>4. Ends'
  BY <1>1, RolesAssumption DEF IInv, TypeOK, Ends, SameEnd, Procs
<1>5. Ring'
  BY <1>1 DEF IInv, TypeOK, Ring, Count
<1> QED
  BY <1>2, <1>3, <1>4, <1>5 DEF IInv

\* The holder of the lock moves on.
LEMMA CheckStep ==
  ASSUME IInv, NEW p \in Procs, pipewrite_check(p) \/ piperead_check(p) \/ piperead_go(p)
  PROVE  IInv'
<1>1. /\ UNCHANGED <<data, nread, nwrite, readopen, writeopen, lock, allocated, left, killed>>
      /\ \/ pc[p] = "write" /\ readopen = 1 /\ pc' = [pc EXCEPT ![p] = "write_go"]
         \/ pc[p] = "read" /\ \E l \in {"read_go", "copy"} : pc' = [pc EXCEPT ![p] = l]
  BY DEF pipewrite_check, piperead_check, piperead_go, Goto
<1>2. TypeOK'
  BY <1>1 DEF IInv, TypeOK, WritePc, ReadPc
<1>3. Roles'
  BY <1>1 DEF IInv, TypeOK, Roles, LockedPc, WritePc, ReadPc
<1>4. Ends'
  BY <1>1 DEF IInv, TypeOK, Ends, SameEnd, Procs
<1>5. Ring'
  BY <1>1 DEF IInv, TypeOK, Ring, Count
<1> QED
  BY <1>2, <1>3, <1>4, <1>5 DEF IInv

\* p goes to l, and others may be woken.
MovesTo(p, l) ==
  /\ pc' \in [Procs -> {"closed", "user", "pipeclose"} \cup WritePc \cup ReadPc]
  /\ pc'[p] = l
  /\ \A q \in Procs \ {p} : \/ pc'[q] = pc[q]
                            \/ pc[q] = "read_sleep" /\ pc'[q] = "read_woken"
                            \/ pc[q] = "write_sleep" /\ pc'[q] = "write_woken"

\* Goto and WakeupGoto move the caller and wake only who sleeps on the channel.
LEMMA Moving ==
  ASSUME IInv, NEW p \in Procs, NEW l \in {"closed", "user", "pipeclose"} \cup WritePc \cup ReadPc,
         Goto(p, l) \/ \E chan \in {"nread", "nwrite"} : WakeupGoto(chan, p, l)
  PROVE  MovesTo(p, l)
<1>1. CASE Goto(p, l)
  BY <1>1 DEF IInv, TypeOK, Goto, MovesTo
<1>2. ASSUME NEW chan, WakeupGoto(chan, p, l)
      PROVE  MovesTo(p, l)
  BY <1>2 DEF IInv, TypeOK, WakeupGoto, MovesTo, WritePc, ReadPc
<1> QED
  BY <1>1, <1>2

\* The holder of the lock releases it, to sleep or to return.
LEMMA ReleaseStep ==
  ASSUME IInv, NEW p \in Procs,
         \/ pipewrite_abort(p) \/ pipewrite_full(p) \/ pipewrite_done(p)
         \/ piperead_abort(p) \/ piperead_sleep(p) \/ piperead_done(p)
  PROVE  IInv'
<1>1. /\ UNCHANGED <<data, nread, nwrite, readopen, writeopen, allocated, killed>>
      /\ lock' = Free /\ left' \in [Procs -> Int]
  BY DEF IInv, TypeOK, pipewrite_abort, pipewrite_full, pipewrite_done, piperead_abort,
         piperead_sleep, piperead_done
<1>2. /\ pc[p] \in LockedPc
      /\ \/ MovesTo(p, "user")
         \/ pc[p] = "write_go" /\ MovesTo(p, "write_sleep")
         \/ pc[p] = "read_go" /\ MovesTo(p, "read_sleep")
  BY Moving DEF pipewrite_abort, pipewrite_full, pipewrite_done, piperead_abort,
                piperead_sleep, piperead_done, LockedPc, WritePc, ReadPc
<1>3. TypeOK'
  BY <1>1, <1>2 DEF IInv, TypeOK, MovesTo
<1>4. Roles'
  BY <1>1, <1>2 DEF IInv, TypeOK, Roles, MovesTo, LockedPc, WritePc, ReadPc
<1>5. Ends'
  <2>1. /\ \A q \in Procs : pc[q] = "closed" => pc'[q] = "closed"
        /\ \A q \in Procs : pc'[q] = "pipeclose" => pc[q] = "pipeclose"
    BY <1>2 DEF MovesTo, LockedPc
  <2> QED
    BY <1>1, <2>1 DEF IInv, Ends, SameEnd, Procs
<1>6. Ring'
  <2>1. Count' = Count
    BY <1>1 DEF Count
  <2> QED
    BY <1>1, <1>2, <2>1 DEF IInv, TypeOK, Ring, MovesTo
<1> QED
  BY <1>3, <1>4, <1>5, <1>6 DEF IInv

\* A byte is written.
LEMMA PutStep ==
  ASSUME IInv, NEW p \in Procs, NEW ch \in Bytes, pipewrite_byte(p, ch)
  PROVE  IInv' /\ Count' = Count + 1
<1>1. /\ UNCHANGED <<nread, readopen, writeopen, lock, allocated, killed>>
      /\ pc[p] = "write_go" /\ ~Full /\ nwrite' = (nwrite + 1) % UINT
      /\ pc' = [pc EXCEPT ![p] = "write"] /\ left' \in [Procs -> Int]
  BY DEF pipewrite_byte, IInv, TypeOK, Goto
<1>2. nread \in 0 .. UINT - 1 /\ nwrite \in 0 .. UINT - 1 /\ Dist(nread, nwrite) < PIPESIZE
  BY <1>1, NotFull DEF IInv, Ring, TypeOK
<1>3. nwrite' \in 0 .. UINT - 1 /\ Dist(nread', nwrite') = Dist(nread, nwrite) + 1
  BY <1>1, <1>2, RingPut, Zenon
<1>4. Count' = Count + 1 /\ Count \in Int /\ Count < PIPESIZE
  <2>1. Dist(nread, nwrite) \in Int
    BY <1>2, DistIs, Sizes
  <2> QED
    BY <1>2, <1>3, <2>1 DEF Count, Dist
<1>5. data' \in [0 .. PIPESIZE - 1 -> Bytes]
  <2>1. data \in [0 .. PIPESIZE - 1 -> Bytes] /\ \E k : data' = [data EXCEPT ![k] = ch]
    BY Zenon DEF pipewrite_byte, IInv, TypeOK
  <2> QED
    BY <2>1, Update, Zenon
<1>6. TypeOK'
  BY <1>1, <1>3, <1>5 DEF IInv, TypeOK, WritePc
<1>7. Roles'
  BY <1>1 DEF IInv, TypeOK, Roles, LockedPc, WritePc, ReadPc
<1>8. Ends'
  BY <1>1 DEF IInv, TypeOK, Ends, SameEnd, Procs
<1>9. Ring'
  <2>1. Count' <= PIPESIZE
    BY <1>4, Sizes
  <2> QED
    BY <1>1, <2>1 DEF IInv, TypeOK, Ring
<1> QED
  BY <1>4, <1>6, <1>7, <1>8, <1>9 DEF IInv

\* A byte is read.
LEMMA GetStep ==
  ASSUME IInv, NEW p \in Procs, piperead_byte(p)
  PROVE  IInv' /\ Count' = Count - 1 /\ Count > 0
<1>1. /\ UNCHANGED <<data, nwrite, readopen, writeopen, lock, allocated, pc, killed>>
      /\ pc[p] = "copy" /\ nread # nwrite /\ nread' = (nread + 1) % UINT
      /\ left' \in [Procs -> Int]
  BY DEF piperead_byte, IInv, TypeOK, Empty
<1>2. nread \in 0 .. UINT - 1 /\ nwrite \in 0 .. UINT - 1
  BY DEF IInv, TypeOK
<1>3. nread' \in 0 .. UINT - 1 /\ Dist(nread', nwrite') = Dist(nread, nwrite) - 1
  BY <1>1, <1>2, RingGet, Zenon
<1>4. Count' = Count - 1 /\ Count \in Int /\ Count > 0
  <2>1. Dist(nread, nwrite) \in Int /\ Dist(nread, nwrite) > 0
    BY <1>1, <1>2, DistIs, Sizes
  <2> QED
    BY <1>3, <2>1 DEF Count, Dist
<1>5. TypeOK' /\ Roles' /\ Ends'
  BY <1>1, <1>3 DEF IInv, TypeOK, Roles, Ends
<1>6. Ring'
  <2>1. Count' <= PIPESIZE
    BY <1>4, Sizes DEF IInv, Ring
  <2> QED
    BY <1>1, <2>1 DEF IInv, Ring
<1> QED
  BY <1>4, <1>5, <1>6 DEF IInv

\* A process drops its reference to its end: the last one goes on to pipeclose.
LEMMA FilecloseStep ==
  ASSUME IInv, NEW p \in Procs, fileclose(p)
  PROVE  IInv'
<1> DEFINE l == IF \A q \in SameEnd(p) \ {p} : pc[q] \in {"closed", "pipeclose"}
                THEN "pipeclose" ELSE "closed"
<1>1. /\ UNCHANGED <<data, nread, nwrite, readopen, writeopen, lock, allocated, left, killed>>
      /\ pc[p] = "user" /\ pc' = [pc EXCEPT ![p] = l]
  BY DEF fileclose, Goto
<1>2. \A q \in SameEnd(p) \ {p} : q \in Procs /\ pc[q] # "pipeclose"
  <2>1. ASSUME NEW q \in SameEnd(p) \ {p}, pc[q] = "pipeclose" PROVE FALSE
    <3>1. q \in Procs /\ p \in SameEnd(q) \ {q}
      BY RolesAssumption DEF SameEnd, Procs
    <3> QED
      BY <1>1, <2>1, <3>1 DEF IInv, Ends
  <2> QED
    BY <2>1 DEF SameEnd, Procs
<1>3. l = "pipeclose" => \A q \in SameEnd(p) \ {p} : pc[q] = "closed"
  BY <1>2
<1> HIDE DEF l
<1>4. l \in {"pipeclose", "closed"}
  BY DEF l
<1>5. TypeOK' /\ Roles'
  BY <1>1, <1>4 DEF IInv, TypeOK, Roles, LockedPc, WritePc, ReadPc
<1>6. Ends'
  <2>1. ASSUME NEW q \in Procs, pc'[q] = "pipeclose", NEW r \in SameEnd(q) \ {q}
        PROVE  pc'[r] = "closed"
    <3>0. r \in Procs
      BY DEF SameEnd, Procs
    <3>1. CASE q = p
      BY <1>1, <1>3, <1>4, <2>1, <3>0, <3>1 DEF IInv, TypeOK
    <3>2. CASE q # p
      BY <1>1, <1>2, <2>1, <3>0, <3>2 DEF IInv, TypeOK, Ends
    <3> QED
      BY <3>1, <3>2
  <2>2. pc \in [Procs -> {"closed", "user", "pipeclose"} \cup WritePc \cup ReadPc]
    BY DEF IInv, TypeOK
  <2> QED
    BY <1>1, <2>1, <2>2 DEF IInv, Ends, SameEnd, Procs
<1>7. Ring'
  <2>1. Count' = Count
    BY <1>1 DEF Count
  <2> QED
    BY <1>1, <1>4, <2>1 DEF IInv, TypeOK, Ring
<1> QED
  BY <1>5, <1>6, <1>7 DEF IInv

\* pipeclose closes one end, and frees the pipe only with the other closed.
LEMMA PipecloseStep ==
  ASSUME IInv, NEW p \in Procs, pipeclose(p)
  PROVE  IInv'
<1>1. /\ UNCHANGED <<data, nread, nwrite, lock, left, killed>>
      /\ pc[p] = "pipeclose" /\ lock = Free /\ MovesTo(p, "closed")
      /\ allocated' = IF readopen' = 0 /\ writeopen' = 0 THEN 0 ELSE 1
      /\ IF p \in Writers THEN writeopen' = 0 /\ readopen' = readopen
                          ELSE readopen' = 0 /\ writeopen' = writeopen
  BY Moving DEF pipeclose
<1>2. \A q \in SameEnd(p) : pc'[q] = "closed"
  BY <1>1 DEF IInv, Ends, MovesTo, SameEnd, Procs
<1>3. TypeOK'
  BY <1>1 DEF IInv, TypeOK, MovesTo
<1>4. Roles'
  BY <1>1 DEF IInv, TypeOK, Roles, MovesTo, LockedPc, WritePc, ReadPc
<1>5. Ends'
  <2>1. \A q \in Procs : pc[q] = "closed" => pc'[q] = "closed"
    BY <1>1 DEF MovesTo
  <2>2. /\ \A q \in Writers : writeopen' = 0 => pc'[q] = "closed"
        /\ \A q \in Readers : readopen' = 0 => pc'[q] = "closed"
    BY <1>1, <1>2, <2>1 DEF IInv, Ends, SameEnd, Procs
  <2>3. \A q \in Procs : pc'[q] = "pipeclose" => pc[q] = "pipeclose"
    BY <1>1 DEF MovesTo
  <2>4. \A q \in Procs : pc'[q] = "pipeclose" => \A r \in SameEnd(q) \ {q} : pc'[r] = "closed"
    BY <2>1, <2>3 DEF IInv, Ends, SameEnd, Procs
  <2>5. allocated' = 1 <=> readopen' = 1 \/ writeopen' = 1
    BY <1>1 DEF IInv, TypeOK
  <2> QED
    BY <2>2, <2>4, <2>5 DEF Ends, SameEnd
<1>6. Ring'
  <2>1. Count' = Count
    BY <1>1 DEF Count
  <2>2. \A q \in Procs : pc[q] # "write_go" /\ pc'[q] # "write_go"
    BY <1>1, RolesAssumption DEF IInv, Roles, LockedPc, MovesTo
  <2> QED
    BY <2>1, <2>2 DEF IInv, Ring
<1> QED
  BY <1>3, <1>4, <1>5, <1>6 DEF IInv

\* kill marks its victim and wakes it if it sleeps.
LEMMA KillStep ==
  ASSUME IInv, NEW p \in Procs, kill(p)
  PROVE  IInv'
<1>1. /\ UNCHANGED <<data, nread, nwrite, readopen, writeopen, lock, allocated, left>>
      /\ killed' \in [Procs -> {0, 1}]
      /\ pc' \in [Procs -> {"closed", "user", "pipeclose"} \cup WritePc \cup ReadPc]
      /\ \A q \in Procs : \/ pc'[q] = pc[q]
                          \/ pc[q] = "read_sleep" /\ pc'[q] = "read_woken"
                          \/ pc[q] = "write_sleep" /\ pc'[q] = "write_woken"
  BY DEF kill, Goto, IInv, TypeOK, WritePc, ReadPc
<1>2. TypeOK'
  BY <1>1 DEF IInv, TypeOK
<1>3. Roles'
  BY <1>1 DEF IInv, Roles, LockedPc, WritePc, ReadPc
<1>4. Ends'
  BY <1>1 DEF IInv, Ends, SameEnd, Procs
<1>5. Ring'
  <2>1. Count' = Count
    BY <1>1 DEF Count
  <2> QED
    BY <1>1, <2>1 DEF IInv, Ring
<1> QED
  BY <1>2, <1>3, <1>4, <1>5 DEF IInv

\* Every step of the pipe keeps the invariant.
LEMMA StepIInv == IInv /\ [Next]_vars => IInv'
<1> SUFFICES ASSUME IInv, [Next]_vars PROVE IInv'
  OBVIOUS
<1>1. CASE UNCHANGED vars
  BY <1>1 DEF vars, IInv, TypeOK, Roles, Ends, Ring, Count, SameEnd
<1>2. ASSUME NEW p \in Procs, Inside(p) PROVE IInv'
  BY <1>2, CheckStep, ReleaseStep, PutStep, GetStep DEF Inside
<1> QED
  BY <1>1, <1>2, AllocStep, AcquireStep, FilecloseStep, PipecloseStep, KillStep,
     SizeAssumption DEF Next, Resume

\* The invariant holds in every reachable state.
LEMMA Inductive == Spec => []IInv
  BY InitIInv, StepIInv, PTL DEF Spec

\* pipeclose and kfree: no process is in the code of a pipe, asleep in it or
\* waiting for its lock once the page is freed, for any number of processes.
THEOREM PageOutlivesUsers == Spec => []NoUseAfterFree
<1>1. ASSUME IInv PROVE NoUseAfterFree
  <2>1. ASSUME NEW p \in Procs, pc[p] \in InPipe \ {"pipeclose"}
        PROVE  IF p \in Writers THEN writeopen = 1 ELSE readopen = 1
    BY <1>1, <2>1 DEF IInv, TypeOK, Ends, InPipe, Asleep, Procs
  <2>2. ASSUME allocated = 0, NEW p \in Procs
        PROVE  pc[p] \notin InPipe
    BY <1>1, <2>2 DEF IInv, TypeOK, Ends, InPipe, Asleep, Procs
  <2> QED
    BY <2>1, <2>2 DEF NoUseAfterFree
<1> QED
  BY <1>1, Inductive, PTL

(***************************************************************************)
(* The ring buffer implements ByteStream.                                  *)
(***************************************************************************)
Stream == IF allocated = 1 THEN Queue ELSE <<>>

\* A step that leaves the pipe alone leaves what it abstracts to alone.
LEMMA SameStream ==
  ASSUME UNCHANGED <<data, nread, nwrite, readopen, writeopen, allocated>>
  PROVE  UNCHANGED <<Stream, Open>>
  BY DEF Stream, Queue, Count, Open

\* The bytes from index r up to index w of the buffer d.
Between(d, r, w) == [i \in 1 .. Dist(r, w) |-> d[((r + i - 1) % UINT) % PIPESIZE]]

\* A distance is a length.
LEMMA DistNat ==
  ASSUME NEW r \in 0 .. UINT - 1, NEW w \in 0 .. UINT - 1 PROVE Dist(r, w) \in Nat
  BY DistIs, Sizes

\* The bytes between two indices, one by one.
LEMMA BetweenIs ==
  ASSUME NEW d \in [0 .. PIPESIZE - 1 -> Bytes], NEW r \in 0 .. UINT - 1, NEW w \in 0 .. UINT - 1
  PROVE  /\ Between(d, r, w) \in Seq(Bytes) /\ Len(Between(d, r, w)) = Dist(r, w)
         /\ \A i \in 1 .. Dist(r, w) :
              Between(d, r, w)[i] = d[((r + (i - 1)) % UINT) % PIPESIZE]
<1>1. Dist(r, w) \in Nat
  BY DistNat
<1>2. ASSUME NEW i \in 1 .. Dist(r, w)
      PROVE  /\ ((r + i - 1) % UINT) % PIPESIZE \in 0 .. PIPESIZE - 1
             /\ r + i - 1 = r + (i - 1)
  BY ModRange, Sizes, <1>1
<1>3. ASSUME NEW i \in 1 .. Dist(r, w)
      PROVE  /\ Between(d, r, w)[i] = d[((r + (i - 1)) % UINT) % PIPESIZE]
             /\ d[((r + i - 1) % UINT) % PIPESIZE] \in Bytes
  BY <1>2 DEF Between
<1>4. Between(d, r, w) \in [1 .. Dist(r, w) -> Bytes]
  BY <1>3, Zenon DEF Between
<1>5. \A n \in Nat : \A f \in [1 .. n -> Bytes] : f \in Seq(Bytes) /\ Len(f) = n
  OBVIOUS
<1> QED
  BY <1>1, <1>3, <1>4, <1>5, Zenon

\* The unread bytes, in this state and in the next.
LEMMA QueueIs ==
  ASSUME TypeOK
  PROVE  /\ Count \in Nat /\ Queue \in Seq(Bytes) /\ Len(Queue) = Count
         /\ \A i \in 1 .. Count : Queue[i] = data[((nread + (i - 1)) % UINT) % PIPESIZE]
<1>1. Queue = Between(data, nread, nwrite) /\ Count = Dist(nread, nwrite)
  BY DEF Queue, Count, Dist, Between
<1>2. data \in [0 .. PIPESIZE - 1 -> Bytes] /\ nread \in 0 .. UINT - 1 /\ nwrite \in 0 .. UINT - 1
  BY DEF TypeOK
<1> QED
  BY <1>1, <1>2, BetweenIs, DistNat, ZenonT(60)

\* The same of the next state.
LEMMA QueueNext ==
  ASSUME TypeOK'
  PROVE  /\ Count' \in Nat /\ Queue' \in Seq(Bytes) /\ Len(Queue') = Count'
         /\ \A i \in 1 .. Count' : Queue'[i] = data'[((nread' + (i - 1)) % UINT) % PIPESIZE]
<1>1. Queue' = Between(data', nread', nwrite') /\ Count' = Dist(nread', nwrite')
  BY DEF Queue, Count, Dist, Between
<1>2. data' \in [0 .. PIPESIZE - 1 -> Bytes] /\ nread' \in 0 .. UINT - 1 /\ nwrite' \in 0 .. UINT - 1
  BY DEF TypeOK
<1> QED
  BY <1>1, <1>2, BetweenIs, DistNat, ZenonT(60)

\* pipewrite's byte goes to the end of the stream.
LEMMA RefinePut ==
  ASSUME IInv, IInv', NEW p \in Procs, NEW ch \in Bytes, pipewrite_byte(p, ch)
  PROVE  BS!Put(ch)
<1>1. /\ UNCHANGED <<nread, readopen, writeopen, allocated>> /\ pc[p] = "write_go" /\ ~Full
      /\ data' = [data EXCEPT ![nwrite % PIPESIZE] = ch]
  BY DEF pipewrite_byte
<1>2. readopen = 1 /\ writeopen = 1 /\ allocated = 1
  BY <1>1 DEF IInv, TypeOK, Ring, Roles, Ends, WritePc
<1>3. nread \in 0 .. UINT - 1 /\ nwrite \in 0 .. UINT - 1 /\ Dist(nread, nwrite) < PIPESIZE
  BY <1>1, NotFull DEF IInv, Ring, TypeOK
<1>4. Count' = Count + 1
  BY PutStep
<1>5. /\ (nread + Count) % UINT = nwrite
      /\ \A i \in 0 .. Count - 1 : ((nread + i) % UINT) % PIPESIZE # nwrite % PIPESIZE
  <2>1. Dist(nread, nwrite) = Count
    BY DEF Dist, Count
  <2> QED
    BY <1>3, <2>1, RingPut, Zenon
<1>6. nwrite % PIPESIZE \in 0 .. PIPESIZE - 1
  BY <1>3, ModRange, Sizes
<1>7. Queue' = Append(Queue, ch)
  <2> DEFINE at(i) == ((nread + (i - 1)) % UINT) % PIPESIZE
  <2>1. /\ Count \in Nat /\ Queue \in Seq(Bytes) /\ Len(Queue) = Count
        /\ \A i \in 1 .. Count : Queue[i] = data[at(i)]
    BY QueueIs DEF IInv
  <2>2. /\ Queue' \in Seq(Bytes) /\ Len(Queue') = Count + 1
        /\ \A i \in 1 .. Count + 1 : Queue'[i] = data'[at(i)]
    BY QueueNext, <1>1, <1>4 DEF IInv
  <2>3. \A i \in 1 .. Count : at(i) # nwrite % PIPESIZE
    BY <1>5, <2>1
  <2>4. at(Count + 1) = nwrite % PIPESIZE
    BY <1>5, <2>1
  <2> HIDE DEF at
  <2>5. \A i \in 1 .. Count : data'[at(i)] = data[at(i)]
    BY <1>1, <2>3 DEF IInv, TypeOK
  <2>6. data'[at(Count + 1)] = ch
    BY <1>1, <1>6, <2>4 DEF IInv, TypeOK
  <2> QED
    BY <2>1, <2>2, <2>5, <2>6
<1>8. Len(Queue) < PIPESIZE
  BY QueueIs, <1>3 DEF Dist, Count, IInv
<1> QED
  BY <1>1, <1>2, <1>7, <1>8 DEF BS!Put, Open

\* piperead's byte is the first of the stream.
LEMMA RefineGet ==
  ASSUME IInv, IInv', NEW p \in Procs, piperead_byte(p)
  PROVE  BS!Get
<1>1. /\ UNCHANGED <<data, nwrite, readopen, writeopen, allocated>> /\ pc[p] = "copy"
      /\ nread # nwrite /\ nread' = (nread + 1) % UINT
  BY DEF piperead_byte, Empty
<1>2. readopen = 1 /\ allocated = 1
  BY <1>1 DEF IInv, TypeOK, Roles, Ends, ReadPc
<1>3. nread \in 0 .. UINT - 1 /\ nwrite \in 0 .. UINT - 1
  BY DEF IInv, TypeOK
<1>4. Count' = Count - 1 /\ Count > 0
  BY GetStep
<1>5. \A i \in 0 .. Count - 2 : (nread' + i) % UINT = (nread + 1 + i) % UINT
  <2>1. Dist(nread, nwrite) = Count
    BY DEF Dist, Count
  <2> QED
    BY <1>1, <1>3, <2>1, RingGet, Zenon
<1>6. Queue' = Tail(Queue) /\ Queue # <<>>
  <2> DEFINE at(r, i) == ((r + (i - 1)) % UINT) % PIPESIZE
  <2>1. /\ Count \in Nat /\ Queue \in Seq(Bytes) /\ Len(Queue) = Count
        /\ \A i \in 1 .. Count : Queue[i] = data[at(nread, i)]
    BY QueueIs DEF IInv
  <2>2. /\ Queue' \in Seq(Bytes) /\ Len(Queue') = Count - 1
        /\ \A i \in 1 .. Count - 1 : Queue'[i] = data[at(nread', i)]
    BY QueueNext, <1>1, <1>4 DEF IInv
  <2>3. ASSUME NEW i \in 1 .. Count - 1 PROVE at(nread', i) = at(nread, i + 1)
    <3>1. i - 1 \in 0 .. Count - 2 /\ nread + 1 + (i - 1) = nread + ((i + 1) - 1)
      BY <2>1, <1>3
    <3> QED
      BY <1>5, <3>1
  <2> HIDE DEF at
  <2>4. \A i \in 1 .. Count - 1 : Queue'[i] = Queue[i + 1]
    BY <2>1, <2>2, <2>3
  <2> QED
    BY <1>4, <2>1, <2>2, <2>4
<1> QED
  BY <1>1, <1>2, <1>6 DEF BS!Get, Open

\* pipeclose closes one end of the abstract stream.
LEMMA RefineClose ==
  ASSUME IInv, IInv', NEW p \in Procs, pipeclose(p)
  PROVE  \E e \in {"read", "write"} : BS!Close(e)
<1>1. /\ UNCHANGED <<data, nread, nwrite>> /\ pc[p] = "pipeclose"
      /\ IF p \in Writers THEN writeopen' = 0 /\ readopen' = readopen
                          ELSE readopen' = 0 /\ writeopen' = writeopen
  BY DEF pipeclose
<1>2. IF p \in Writers THEN writeopen = 1 ELSE readopen = 1
  BY <1>1 DEF IInv, TypeOK, Ends, Procs
<1>3. Queue' = Queue
  BY <1>1 DEF Queue, Count
<1>4. allocated = 1 /\ (allocated' = 1 <=> readopen' = 1 \/ writeopen' = 1)
  BY <1>2 DEF IInv, Ends
<1>5. CASE p \in Writers
  <2>1. "write" \in Open /\ Open' = Open \ {"write"} /\ (Open' = {} <=> allocated' # 1)
    BY <1>1, <1>2, <1>4, <1>5 DEF Open
  <2> QED
    BY <1>3, <1>4, <2>1 DEF BS!Close
<1>6. CASE p \notin Writers
  <2>1. "read" \in Open /\ Open' = Open \ {"read"} /\ (Open' = {} <=> allocated' # 1)
    BY <1>1, <1>2, <1>4, <1>6 DEF Open
  <2> QED
    BY <1>3, <1>4, <2>1 DEF BS!Close
<1> QED
  BY <1>5, <1>6

\* pipealloc creates the abstract stream.
LEMMA RefineCreate ==
  ASSUME IInv, IInv', pipealloc
  PROVE  BS!Create
<1>1. readopen = 0 /\ writeopen = 0 /\ readopen' = 1 /\ writeopen' = 1 /\ allocated' = 1
  BY DEF pipealloc, IInv, TypeOK, Ends
<1>2. Count' = 0
  BY DistIs, Sizes DEF pipealloc, Count, Dist
<1>3. Queue' = <<>>
  BY <1>2, QueueNext DEF IInv
<1> QED
  BY <1>1, <1>3 DEF BS!Create, Open

\* Every step of the pipe is a step of the abstract stream, or shows nothing.
LEMMA RefineNext == IInv /\ IInv' /\ [Next]_vars => [BS!StreamNext]_(BS!streamVars)
<1> SUFFICES ASSUME IInv, IInv', [Next]_vars
             PROVE  BS!StreamNext \/ UNCHANGED <<Stream, Open>>
  BY DEF BS!streamVars, Stream
<1>1. CASE UNCHANGED vars
  BY <1>1, SameStream DEF vars
<1>2. CASE pipealloc
  BY <1>2, RefineCreate DEF BS!StreamNext
<1>3. ASSUME NEW p \in Procs, NEW n \in 0 .. MaxN,
             \/ write_call(p, n) \/ read_call(p, n) \/ write_resume(p) \/ read_resume(p)
             \/ fileclose(p) \/ kill(p)
      PROVE  UNCHANGED <<Stream, Open>>
  BY <1>3, SameStream DEF write_call, read_call, write_resume, read_resume, fileclose, kill
<1>4. ASSUME NEW p \in Procs, Inside(p)
      PROVE  BS!StreamNext \/ UNCHANGED <<Stream, Open>>
  <2>1. ASSUME NEW ch \in Bytes, pipewrite_byte(p, ch) PROVE BS!StreamNext
    BY <2>1, RefinePut DEF BS!StreamNext
  <2>2. CASE piperead_byte(p)
    BY <2>2, RefineGet DEF BS!StreamNext
  <2>3. CASE pipewrite_abort(p) \/ pipewrite_check(p) \/ pipewrite_full(p) \/ pipewrite_done(p)
    BY <2>3, SameStream DEF pipewrite_abort, pipewrite_check, pipewrite_full, pipewrite_done
  <2>4. CASE \/ piperead_abort(p) \/ piperead_check(p) \/ piperead_sleep(p) \/ piperead_go(p)
             \/ piperead_done(p)
    BY <2>4, SameStream DEF piperead_abort, piperead_check, piperead_sleep, piperead_go,
                            piperead_done
  <2> QED
    BY <1>4, <2>1, <2>2, <2>3, <2>4 DEF Inside
<1>5. ASSUME NEW p \in Procs, pipeclose(p) PROVE BS!StreamNext
  BY <1>5, RefineClose DEF BS!StreamNext
<1> QED
  BY <1>1, <1>2, <1>3, <1>4, <1>5, SizeAssumption DEF Next, Resume

\* The pipe is a first-in first-out stream of at most PIPESIZE bytes for any
\* number of writers and readers and any index width that is a multiple of the
\* buffer size: the wrapping nread and nwrite of pipewrite and piperead lose,
\* duplicate, reorder and overwrite nothing.
THEOREM PipeImplementsStream == Spec => PipeIsStream
<1>1. Init => BS!StreamInit
  BY DEF Init, BS!StreamInit, Open
<1> QED
  BY <1>1, RefineNext, Inductive, PTL DEF Spec, PipeIsStream, BS!StreamSpec

=============================================================================
