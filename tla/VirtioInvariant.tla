-------------------------- MODULE VirtioInvariant --------------------------
(***************************************************************************)
(* The inductive invariant of Virtio, for every ring size, index range,    *)
(* number of processes and of buffers: the facts about rings, allocation   *)
(* and chains it rests on, and that Init and the device's steps keep it.   *)
(***************************************************************************)
EXTENDS Virtio, FiniteSetTheorems, WellFoundedInduction, TLAPS

(***************************************************************************)
(* The inductive invariant.                                                *)
(***************************************************************************)
\* How many entries of a ring lie between the indices from and to, and what
\* they name.
Dist(from, to) == (to - from) % IDX
Names(ring, from, to) == {ring[(from + n) % NUM] : n \in 0 .. Dist(from, to) - 1}

\* They fit in the ring and name nothing twice.
Once(ring, from, to) ==
  /\ Dist(from, to) < NUM
  /\ \A m, n \in 0 .. Dist(from, to) - 1 :
       ring[(from + m) % NUM] = ring[(from + n) % NUM] => m = n

\* The heads that wait for the device, and those it has reported.
Waiting == Names(avail, taken, avail_idx)
Reports == Names(used, used_idx, used_top)

Requests == [b : Bufs \cup {NoBuf}, v : Data, write : {0, 1}, idx : Descs \X Descs \X Descs]
WaitPc == {"asleep_free", "woken_free"}

Types ==
  /\ free \in [Descs -> {0, 1}]
  /\ desc \in [Descs -> [more : {0, 1}, next : Descs]]
  /\ ops \in [Descs -> [write : {0, 1}, sector : Bufs \cup {NoBuf}]]
  /\ addr \in [Descs -> Bufs \cup {NoBuf}]
  /\ info \in [Descs -> [b : Bufs \cup {NoBuf}, status : {0, 255}]]
  /\ avail \in [Descs -> Descs] /\ used \in [Descs -> Descs]
  /\ avail_idx \in 0 .. IDX - 1 /\ taken \in 0 .. IDX - 1
  /\ used_top \in 0 .. IDX - 1 /\ used_idx \in 0 .. IDX - 1
  /\ bdisk \in [Bufs -> {0, 1}]
  /\ data \in [Bufs -> Data] /\ sectors \in [Bufs -> Data]
  /\ pc \in [Procs -> {"idle"} \cup WaitPc \cup SentPc]
  /\ req \in [Procs -> Requests]
  /\ working \in SUBSET Descs
  /\ panic = "none"

\* vdisk_lock is held from the layout of a chain to the sleep or the return,
\* and by the interrupt handler in its loop.
Locking ==
  /\ \A p \in Procs : lock = p <=> pc[p] \in {"publish", "notify", "check"}
  /\ lock = Intr <=> intr = "loop"

\* Calls are for different buffers: each caller has its buffer's sleep lock.
Callers ==
  /\ \A p \in Procs : pc[p] = "idle" <=> req[p].b = NoBuf
  /\ \A p, q \in Procs : req[p].b = req[q].b /\ p # q => req[p].b = NoBuf

\* The descriptors in use are the chains of the requests.
Linked(p) ==
  LET r == req[p]
      i == r.idx[1]
      j == r.idx[2]
      k == r.idx[3]
  IN  /\ i # j /\ i # k /\ j # k
      /\ desc[i].more = 1 /\ desc[i].next = j
      /\ desc[j].more = 1 /\ desc[j].next = k /\ desc[k].more = 0
      /\ ops[i].write = r.write /\ ops[i].sector = r.b /\ addr[j] = r.b /\ info[i].b = r.b

Chains ==
  /\ \A p \in Sent : Linked(p)
  /\ \A p, q \in Sent : p # q => Idx(p) \cap Idx(q) = {}
  /\ \A i \in Descs : free[i] = 0 <=> \E p \in Sent : i \in Idx(p)

\* A request is on its way from rw_publish until the interrupt handler clears
\* b->disk, and is then in one place.
OnTheWay == Waiting \cup working \cup Reports
Published == {p \in Sent : pc[p] # "publish"}

Flight ==
  /\ Once(avail, taken, avail_idx) /\ Once(used, used_idx, used_top)
  /\ Waiting \cap working = {} /\ Waiting \cap Reports = {} /\ working \cap Reports = {}
  /\ \A p \in Published : req[p].idx[1] \in OnTheWay <=> bdisk[req[p].b] = 1
  /\ \A i \in OnTheWay : \E p \in Published : i = req[p].idx[1]
  /\ \A i \in Reports : info[i].status = 0
  /\ \A p \in Procs : pc[p] = "publish" =>
       bdisk[req[p].b] = 1 /\ avail[avail_idx % NUM] = req[p].idx[1]

\* Whoever has to act next knows of it.
Signals ==
  /\ Waiting # {} => kicked = 1 \/ \E q \in Procs : pc[q] = "notify"
  /\ Reports # {} => owed = 1 \/ irq = 1 \/ intr = "loop"
  /\ \A p \in Procs : pc[p] = "asleep_data" => bdisk[req[p].b] = 1
  /\ \A p \in Procs : pc[p] = "asleep_free" => Cardinality(FreeDescs) < 3

\* What a finished request has left on the disk and in the buffer.
Served(p) ==
  LET r == req[p] IN
  IF r.write = 1 THEN sectors[r.b] = r.v ELSE data[r.b] = sectors[r.b]

Transfers ==
  /\ \A p \in Procs : req[p].b # NoBuf /\ req[p].write = 1 => data[req[p].b] = req[p].v
  /\ \A p \in Published : req[p].idx[1] \notin Waiting \cup working => Served(p)

IInv == Types /\ Locking /\ Callers /\ Chains /\ Flight /\ Signals /\ Transfers

\* The backend of the leaves that name no other, and its time limit.
USE SMTT(60)

(***************************************************************************)
(* What the rings need of %: lemmas about integers.                        *)
(***************************************************************************)
\* The remainder is in its range, and a quotient goes with it.
LEMMA ModRange == ASSUME NEW n \in Int, n > 0, NEW a \in Int PROVE a % n \in 0 .. n - 1
  OBVIOUS

\* What % leaves out is a multiple of the divisor.
LEMMA Quotient == ASSUME NEW n \in Int, n > 0, NEW a \in Int PROVE \E q \in Int : a = q * n + (a % n)
  OBVIOUS

\* Zero is the only multiple of n nearer to zero than n.
LEMMA NoMultiple == ASSUME NEW n \in Int, n > 0, NEW q \in Int, - n < q * n, q * n < n PROVE q * n = 0
<1>1. q >= 1 => q * n >= n
  OBVIOUS
<1>2. q <= -1 => q * n <= - n
  OBVIOUS
<1> QED
  BY <1>1, <1>2

\* Indices less than a ring apart, but for a multiple of its size, are in the
\* same place just when that is all they are apart.
LEMMA SamePlace ==
  ASSUME NEW n \in Int, n > 0, NEW x \in Int, NEW y \in Int, NEW k \in Int,
         NEW d \in Int, - n < d, d < n, y - x = d - k * n
  PROVE  x % n = y % n <=> d = 0
<1>1. PICK q \in Int : x = q * n + (x % n)
  BY Quotient, Zenon
<1>2. PICK r \in Int : y = r * n + (y % n)
  BY Quotient, Zenon
<1>3. x % n \in 0 .. n - 1 /\ y % n \in 0 .. n - 1
  BY ModRange, Zenon
<1>4. q * n \in Int /\ r * n \in Int /\ k * n \in Int
  OBVIOUS
<1>5. d = r * n - q * n + k * n + (y % n) - (x % n)
  BY <1>1, <1>2, <1>3, <1>4
<1> DEFINE z == r - q + k
<1>6. z * n = r * n - q * n + k * n /\ z \in Int /\ z * n \in Int
  OBVIOUS
<1> HIDE DEF z
<1>7. d = z * n + (y % n) - (x % n)
  BY <1>3, <1>4, <1>5, <1>6, Zenon
<1>8. CASE x % n = y % n
  <2>1. d = z * n
    BY <1>3, <1>6, <1>7, <1>8
  <2> QED
    BY <1>6, <1>8, <2>1, NoMultiple, Zenon
<1>9. CASE d = 0
  <2>1. z * n = (x % n) - (y % n)
    BY <1>3, <1>6, <1>7, <1>9
  <2>2. z * n = 0
    BY <1>3, <1>6, <2>1, NoMultiple
  <2> QED
    BY <1>3, <2>1, <2>2, <1>9
<1> QED
  BY <1>8, <1>9, Zenon

\* IDX, the range of the indices, is a multiple of NUM, the size of a ring, so
\* that an index may wrap without losing its place.
LEMMA Sizes ==
  /\ NUM \in Int /\ NUM > 0 /\ IDX \in Int /\ IDX >= NUM
  /\ \E k \in Int : IDX = k * NUM
<1>1. NUM \in Int /\ NUM > 0 /\ IDX \in Int /\ IDX > 0 /\ IDX % NUM = 0
  BY VirtioAssumption
<1>2. PICK k \in Int : IDX = k * NUM + (IDX % NUM)
  BY <1>1, Quotient, Zenon
<1>3. k * NUM \in Int /\ IDX = k * NUM
  BY <1>1, <1>2
<1>4. IDX >= NUM
  BY <1>1, <1>3, NoMultiple
<1> QED
  BY <1>1, <1>3, <1>4, Zenon

Index == 0 .. IDX - 1

\* The distance between two indices is what the later is ahead, or that and IDX.
LEMMA DistIs ==
  ASSUME NEW from \in Index, NEW to \in Index
  PROVE  /\ Dist(from, to) = IF from <= to THEN to - from ELSE to - from + IDX
         /\ Dist(from, to) \in Index
  BY Sizes DEF Dist, Index

\* Advancing an index by one, with the wrap.
LEMMA Advance ==
  ASSUME NEW x \in Index
  PROVE  (x + 1) % IDX = (IF x + 1 < IDX THEN x + 1 ELSE 0) /\ (x + 1) % IDX \in Index
  BY Sizes DEF Index

\* The place of the n'th entry after from, whatever wraps.
LEMMA Places ==
  ASSUME NEW from \in Index, NEW to \in Index
  PROVE  /\ \A n \in Nat : (from + n) % NUM \in Descs
         /\ \A m, n \in 0 .. NUM - 1 : (from + m) % NUM = (from + n) % NUM => m = n
         /\ (from + Dist(from, to)) % NUM = to % NUM
         /\ \A n \in Nat : (((from + 1) % IDX) + n) % NUM = (from + (n + 1)) % NUM
<1>1. PICK k \in Int : IDX = k * NUM
  BY Sizes, Zenon
<1>2. NUM \in Int /\ NUM > 0 /\ IDX \in Int /\ from \in Int /\ to \in Int /\ from >= 0
  BY Sizes DEF Index
<1>3. \A n \in Nat : (from + n) % NUM \in Descs
  BY <1>2, ModRange DEF Descs
<1>4. ASSUME NEW m \in 0 .. NUM - 1, NEW n \in 0 .. NUM - 1, (from + m) % NUM = (from + n) % NUM
      PROVE  m = n
  <2> DEFINE d == n - m  x == from + m  y == from + n
  <2>1. d \in Int /\ - NUM < d /\ d < NUM /\ y - x = d - 0 * NUM /\ x \in Int /\ y \in Int /\ 0 \in Int
    BY <1>2
  <2>2. x % NUM = y % NUM
    BY <1>4, Zenon
  <2> HIDE DEF d, x, y
  <2>3. d = 0
    BY <1>2, <2>1, <2>2, SamePlace
  <2> QED
    BY <2>3 DEF d
<1>5. (from + Dist(from, to)) % NUM = to % NUM
  <2> DEFINE x == from + Dist(from, to)
  <2>1. x \in Int /\ to - x \in {0, - IDX}
    <3>1. /\ Dist(from, to) = IF from <= to THEN to - from ELSE to - from + IDX
          /\ Dist(from, to) \in Int
      BY DistIs DEF Index
    <3> QED
      BY <1>2, <3>1
  <2>2. to - x = 0 - 0 * NUM \/ to - x = 0 - k * NUM
    BY <1>1, <1>2, <2>1
  <2>3. 0 \in Int /\ - NUM < 0 /\ 0 < NUM
    BY <1>2
  <2> HIDE DEF x
  <2>4. x % NUM = to % NUM
    BY <1>2, <2>1, <2>2, <2>3, SamePlace, Zenon
  <2> QED
    BY <2>4, Zenon DEF x
<1>6. ASSUME NEW n \in Nat
      PROVE  (((from + 1) % IDX) + n) % NUM = (from + (n + 1)) % NUM
  <2> DEFINE x == ((from + 1) % IDX) + n  y == from + (n + 1)
  <2>1. x \in Int /\ y \in Int /\ x - y \in {0, - IDX}
    BY <1>2, Advance DEF Index
  <2>2. x - y = 0 - 0 * NUM \/ x - y = 0 - k * NUM
    BY <1>1, <1>2, <2>1
  <2>3. 0 \in Int /\ - NUM < 0 /\ 0 < NUM
    BY <1>2
  <2> HIDE DEF x, y
  <2>4. y % NUM = x % NUM
    BY <1>2, <2>1, <2>2, <2>3, SamePlace, Zenon
  <2> QED
    BY <2>4, Zenon DEF x, y
<1> QED
  BY <1>3, <1>4, <1>5, <1>6, Zenon

\* Writing the entry after the last leaves the others.
LEMMA RingWrite ==
  ASSUME NEW ring \in [Descs -> Descs], NEW from \in Index, NEW to \in Index, NEW i,
         Once(ring, from, to)
  PROVE  LET new == [ring EXCEPT ![to % NUM] = i]
         IN  Names(new, from, to) = Names(ring, from, to) /\ Once(new, from, to)
<1> DEFINE new == [ring EXCEPT ![to % NUM] = i]
           d == Dist(from, to)
<1>1. d \in Nat /\ d < NUM /\ NUM \in Nat
  BY DistIs, Sizes DEF Index, Once
<1>2. ASSUME NEW n \in 0 .. d - 1 PROVE new[(from + n) % NUM] = ring[(from + n) % NUM]
  <2>1. n \in 0 .. NUM - 1 /\ d \in 0 .. NUM - 1 /\ n \in Nat /\ n # d
    BY <1>1
  <2>2. /\ (from + n) % NUM \in Descs /\ (from + d) % NUM = to % NUM
        /\ (from + n) % NUM = (from + d) % NUM => n = d
    <3> HIDE DEF d
    <3>1. (from + d) % NUM = to % NUM
      BY Places, Zenon DEF d
    <3> QED
      BY <2>1, <3>1, Places, Zenon
  <2> QED
    BY <2>1, <2>2, Zenon
<1> HIDE DEF new
<1>3. Names(new, from, to) = Names(ring, from, to)
  BY <1>2, Zenon DEF Names
<1>4. Once(new, from, to)
  BY <1>2, Zenon DEF Once
<1> QED
  BY <1>3, <1>4, Zenon DEF new

\* Moving the index past it makes it one of them.
LEMMA RingPublish ==
  ASSUME NEW ring \in [Descs -> Descs], NEW from \in Index, NEW to \in Index,
         Once(ring, from, to), Dist(from, to) + 1 < NUM,
         ring[to % NUM] \notin Names(ring, from, to)
  PROVE  /\ Names(ring, from, (to + 1) % IDX) = Names(ring, from, to) \cup {ring[to % NUM]}
         /\ Once(ring, from, (to + 1) % IDX)
<1> DEFINE d == Dist(from, to)
           next == (to + 1) % IDX
           e(n) == ring[(from + n) % NUM]
<1>1. d \in Nat /\ d + 1 < NUM /\ NUM \in Nat /\ next \in Index
  BY DistIs, Advance, Sizes DEF Index
<1>2. Dist(from, next) = d + 1
  <2>1. next = IF to + 1 < IDX THEN to + 1 ELSE 0
    BY Advance, Zenon
  <2>2. d = IF from <= to THEN to - from ELSE to - from + IDX
    BY DistIs, Zenon
  <2>3. Dist(from, next) = IF from <= next THEN next - from ELSE next - from + IDX
    BY <1>1, DistIs, Zenon
  <2> HIDE DEF d, next
  <2> QED
    BY <1>1, <2>1, <2>2, <2>3, Sizes DEF Index
<1>3. e(d) = ring[to % NUM]
  BY Places, Zenon
<1> HIDE DEF d, next
<1>4. 0 .. (d + 1) - 1 = (0 .. d - 1) \cup {d}
  BY <1>1
<1>5. Names(ring, from, next) = {e(n) : n \in 0 .. (d + 1) - 1}
  BY <1>2, Zenon DEF Names
<1>6. Names(ring, from, to) = {e(n) : n \in 0 .. d - 1}
  BY Zenon DEF Names, d
<1>7. \A m, n \in 0 .. d - 1 : e(m) = e(n) => m = n
  BY Zenon DEF Once, d
<1> HIDE DEF e
<1>8. \A n \in 0 .. d - 1 : e(n) # e(d)
  BY <1>3, <1>6, Zenon
<1>9. \A m, n \in 0 .. (d + 1) - 1 : e(m) = e(n) => m = n
  BY <1>4, <1>7, <1>8, Zenon
<1>10. Once(ring, from, next)
  BY <1>1, <1>2, <1>9, Zenon DEF Once, e
<1>11. Names(ring, from, next) = Names(ring, from, to) \cup {ring[to % NUM]}
  BY <1>3, <1>4, <1>5, <1>6, Zenon
<1> QED
  BY <1>10, <1>11, Zenon DEF next

\* Moving the other index takes the first.
LEMMA RingGet ==
  ASSUME NEW ring \in [Descs -> Descs], NEW from \in Index, NEW to \in Index,
         Once(ring, from, to), from # to
  PROVE  /\ ring[from % NUM] \in Names(ring, from, to)
         /\ Names(ring, (from + 1) % IDX, to) = Names(ring, from, to) \ {ring[from % NUM]}
         /\ Once(ring, (from + 1) % IDX, to)
<1> DEFINE d == Dist(from, to)
           next == (from + 1) % IDX
           e(n) == ring[(from + n) % NUM]
           f(n) == ring[(next + n) % NUM]
<1>1. next \in Index /\ NUM \in Nat /\ from + 0 = from /\ d < NUM
  BY Advance, Sizes DEF Index, Once
<1>2. d \in Nat /\ d >= 1 /\ Dist(next, to) = d - 1
  <2>1. next = IF from + 1 < IDX THEN from + 1 ELSE 0
    BY Advance, Zenon
  <2>2. d = IF from <= to THEN to - from ELSE to - from + IDX
    BY DistIs, Zenon
  <2>3. Dist(next, to) = IF next <= to THEN to - next ELSE to - next + IDX
    BY <1>1, DistIs, Zenon
  <2> HIDE DEF d, next
  <2> QED
    BY <1>1, <2>1, <2>2, <2>3, Sizes DEF Index
<1>3. \A n \in 0 .. (d - 1) - 1 : f(n) = e(n + 1)
  <2>1. \A n \in 0 .. (d - 1) - 1 : n \in Nat
    BY <1>2
  <2> QED
    BY <2>1, Places, Zenon
<1>4. e(0) = ring[from % NUM]
  BY <1>1, Zenon
<1> HIDE DEF d, next
<1>5. Names(ring, next, to) = {f(n) : n \in 0 .. (d - 1) - 1}
  BY <1>2, Zenon DEF Names
<1>6. Names(ring, from, to) = {e(n) : n \in 0 .. d - 1}
  BY Zenon DEF Names, d
<1>7. \A m, n \in 0 .. d - 1 : e(m) = e(n) => m = n
  BY Zenon DEF Once, d
<1> HIDE DEF e, f
<1>8. /\ 0 \in 0 .. d - 1 /\ \A n \in 0 .. (d - 1) - 1 : n + 1 \in 0 .. d - 1 /\ n + 1 # 0
      /\ \A n \in 0 .. d - 1 : n # 0 => n - 1 \in 0 .. (d - 1) - 1 /\ n = (n - 1) + 1
      /\ d - 1 < NUM
  BY <1>1, <1>2
<1>9. \A m, n \in 0 .. (d - 1) - 1 : f(m) = f(n) => m = n
  <2>1. \A m, n \in 0 .. (d - 1) - 1 : m + 1 = n + 1 => m = n
    BY <1>2
  <2> QED
    BY <1>3, <1>7, <1>8, <2>1, Zenon
<1>10. Once(ring, next, to)
  BY <1>2, <1>8, <1>9, Zenon DEF Once, f
<1>11. Names(ring, next, to) = Names(ring, from, to) \ {e(0)}
  <2>1. \A n \in 0 .. (d - 1) - 1 : f(n) \in Names(ring, from, to) /\ f(n) # e(0)
    BY <1>3, <1>6, <1>7, <1>8, Zenon
  <2>2. \A n \in 0 .. d - 1 : e(n) # e(0) => e(n) \in Names(ring, next, to)
    <3> TAKE n \in 0 .. d - 1
    <3> HAVE e(n) # e(0)
    <3>1. n - 1 \in 0 .. (d - 1) - 1 /\ n = (n - 1) + 1
      BY <1>8, Zenon
    <3>2. f(n - 1) = e(n)
      BY <1>3, <3>1, Zenon
    <3> QED
      BY <1>5, <3>1, <3>2, Zenon
  <2> QED
    BY <1>5, <1>6, <2>1, <2>2, Zenon
<1>12. e(0) \in Names(ring, from, to)
  BY <1>6, <1>8, Zenon
<1> QED
  BY <1>4, <1>10, <1>11, <1>12, Zenon DEF next

\* Two descriptors that the ring does not name are room for one entry more.
LEMMA RingRoom ==
  ASSUME NEW ring \in [Descs -> Descs], NEW from \in Index, NEW to \in Index,
         Once(ring, from, to), NEW i \in Descs, NEW j \in Descs, i # j,
         i \notin Names(ring, from, to), j \notin Names(ring, from, to)
  PROVE  Dist(from, to) + 1 < NUM
<1> DEFINE d == Dist(from, to)
           S == 0 .. d - 1
           T == (Descs \ {i}) \ {j}
           f == [n \in S |-> ring[(from + n) % NUM]]
<1>1. d \in Nat /\ NUM \in Nat
  BY DistIs, Sizes DEF Index
<1>2. IsFiniteSet(S) /\ Cardinality(S) = d
  BY <1>1, FS_Interval
<1>3. IsFiniteSet(T) /\ Cardinality(T) = NUM - 2
  <2>1. IsFiniteSet(Descs) /\ Cardinality(Descs) = NUM
    BY <1>1, Sizes, FS_Interval DEF Descs
  <2> DEFINE D == Descs \ {i}
  <2>2. IsFiniteSet(D) /\ Cardinality(D) = NUM - 1 /\ j \in D
    BY <2>1, FS_RemoveElement, Zenon
  <2> HIDE DEF D
  <2>3. IsFiniteSet(D \ {j}) /\ Cardinality(D \ {j}) = (NUM - 1) - 1
    BY <2>2, FS_RemoveElement, Zenon
  <2> QED
    BY <1>1, <2>3 DEF D
<1>4. f \in [S -> T]
  <2>1. ASSUME NEW n \in S PROVE ring[(from + n) % NUM] \in T
    <3>1. n \in Nat
      BY <1>1
    <3>2. ring[(from + n) % NUM] \in Descs
      BY <3>1, Places, Zenon
    <3>3. ring[(from + n) % NUM] \in Names(ring, from, to)
      BY Zenon DEF Names
    <3> QED
      BY <3>2, <3>3, Zenon
  <2> QED
    BY <2>1, Zenon
<1>5. ~ \E m, n \in S : m # n /\ f[m] = f[n]
  BY Zenon DEF Once
<1> HIDE DEF S, T, f
<1>6. ~ (Cardinality(T) < Cardinality(S))
  BY <1>2, <1>3, <1>4, <1>5, FS_PigeonHole, Zenon
<1> QED
  BY <1>1, <1>2, <1>3, <1>6 DEF d

\* What NotForgotten counts in a ring.
LEMMA InRingCount ==
  ASSUME NEW ring \in [Descs -> Descs], NEW from \in Index, NEW to \in Index,
         Once(ring, from, to), NEW i
  PROVE  /\ Cardinality(InRing(ring, from, to, i)) = IF i \in Names(ring, from, to) THEN 1 ELSE 0
         /\ InRing(ring, from, to, i) # {} => i \in Names(ring, from, to)
<1> DEFINE d == Dist(from, to)
           e(n) == ring[(from + n) % NUM]
<1>1. d \in Nat /\ NUM \in Nat /\ d < NUM
  BY DistIs, Sizes DEF Index, Once
<1>2. InRing(ring, from, to, i) = {n \in Descs : n < d /\ e(n) = i}
  BY Zenon DEF InRing, Dist
<1>3. Names(ring, from, to) = {e(n) : n \in 0 .. d - 1}
  BY Zenon DEF Names
<1>4. \A m, n \in 0 .. d - 1 : e(m) = e(n) => m = n
  BY Zenon DEF Once
<1> HIDE DEF d, e
<1>5. InRing(ring, from, to, i) = {n \in 0 .. d - 1 : e(n) = i}
  BY <1>1, <1>2 DEF Descs
<1>6. CASE i \in Names(ring, from, to)
  <2>1. PICK n \in 0 .. d - 1 : e(n) = i
    BY <1>3, <1>6, Zenon
  <2>2. InRing(ring, from, to, i) = {n}
    BY <1>4, <1>5, <2>1, Zenon
  <2> QED
    BY <1>6, <2>2, FS_Singleton, Zenon
<1>7. CASE i \notin Names(ring, from, to)
  <2>1. InRing(ring, from, to, i) = {}
    BY <1>3, <1>5, <1>7, Zenon
  <2> QED
    BY <1>7, <2>1, FS_EmptySet, Zenon
<1> QED
  BY <1>6, <1>7, Zenon

\* A set of naturals that is not empty has a least element; the CHOOSE of Min
\* finds it.
LEMMA LeastIn == ASSUME NEW S \in SUBSET Nat, S # {} PROVE \E x \in S : \A y \in S : x <= y
<1> DEFINE R == OpToRel(<, Nat)
<1>1. R = {ss \in Nat \X Nat : ss[1] < ss[2]}
  BY Zenon DEF OpToRel
<1>2. IsWellFoundedOn(R, Nat)
  BY NatLessThanWellFounded, Zenon
<1> HIDE DEF R
<1>3. PICK x \in S : \A y \in S : ~ (<<y, x>> \in R)
  BY <1>2, WFMin, Zenon
<1>4. \A y \in S : <<y, x>> \in R <=> y < x
  BY <1>1, Zenon
<1>5. \A y \in S : ~ (y < x)
  BY <1>3, <1>4, Zenon
<1> QED
  BY <1>5

\* So Min(S) is the choice of alloc_desc.
LEMMA MinIn == ASSUME NEW S \in SUBSET Nat, S # {} PROVE Min(S) \in S
<1>1. \E x : x \in S /\ \A y \in S : x <= y
  BY LeastIn, Zenon
<1> QED
  BY <1>1, Zenon DEF Min

\* alloc3_desc finds three free descriptors where there are so many.
LEMMA AllocFinds ==
  ASSUME Cardinality(FreeDescs) >= 3, NUM \in Nat
  PROVE  LET idx == alloc3_desc
         IN  /\ idx \in Descs \X Descs \X Descs
             /\ idx[1] # idx[2] /\ idx[1] # idx[3] /\ idx[2] # idx[3]
             /\ \A n \in {1, 2, 3} : idx[n] \in FreeDescs
<1> DEFINE F == FreeDescs
           i == Min(F)
           j == Min(F \ {i})
           k == Min(F \ {i, j})
<1>1. IsFiniteSet(F) /\ F \in SUBSET Nat /\ F \in SUBSET Descs
  <2>1. F \in SUBSET Descs
    BY Zenon DEF FreeDescs
  <2>2. IsFiniteSet(Descs) /\ Descs \in SUBSET Nat
    BY FS_Interval DEF Descs
  <2> QED
    BY <2>1, <2>2, FS_Subset, Zenon
<1>2. Cardinality(F) \in Nat /\ Cardinality(F) >= 3
  BY <1>1, FS_CardinalityType, Zenon
<1> HIDE DEF F
<1>3. i \in F
  BY <1>1, <1>2, FS_EmptySet, MinIn
<1> HIDE DEF i
<1>4. IsFiniteSet(F \ {i}) /\ Cardinality(F \ {i}) = Cardinality(F) - 1
  BY <1>1, <1>3, FS_RemoveElement, Zenon
<1>5. j \in F \ {i}
  <2>1. Cardinality(F \ {i}) # 0
    BY <1>2, <1>4
  <2>2. F \ {i} \in SUBSET Nat /\ F \ {i} # {}
    BY <1>1, <1>4, <2>1, FS_EmptySet, Zenon
  <2> QED
    BY <2>2, MinIn, Zenon
<1> HIDE DEF j
<1>6. IsFiniteSet((F \ {i}) \ {j}) /\ Cardinality((F \ {i}) \ {j}) = Cardinality(F \ {i}) - 1
  BY <1>4, <1>5, FS_RemoveElement, Zenon
<1>7. k \in F \ {i, j}
  <2>1. (F \ {i}) \ {j} = F \ {i, j}
    OBVIOUS
  <2>2. Cardinality((F \ {i}) \ {j}) # 0
    BY <1>2, <1>4, <1>6
  <2>3. F \ {i, j} \in SUBSET Nat /\ F \ {i, j} # {}
    BY <1>1, <1>6, <2>1, <2>2, FS_EmptySet, Zenon
  <2> QED
    BY <2>3, MinIn, Zenon
<1>8. alloc3_desc = <<i, j, k>>
  BY Zenon DEF alloc3_desc, i, j, F
<1> HIDE DEF k
<1> QED
  BY <1>1, <1>3, <1>5, <1>7, <1>8 DEF F

\* free_chain goes through the three descriptors of a chain.
LEMMA ChainIs ==
  ASSUME NUM \in Nat, NEW i \in Descs, NEW j \in Descs, NEW k \in Descs, i # j, i # k, j # k,
         desc[i].more = 1, desc[i].next = j, desc[j].more = 1, desc[j].next = k, desc[k].more = 0
  PROVE  Chain(i) = {i, j, k}
<1> DEFINE next(v) == v \cup {desc[m].next : m \in {x \in v : desc[x].more = 1}}
           Eq(f) == f = [n \in Descs |-> IF n = 0 THEN {i} ELSE next(f[n - 1])]
           V == CHOOSE f : Eq(f)
           w(n) == IF n = 0 THEN {i} ELSE IF n = 1 THEN {i, j} ELSE {i, j, k}
           g == [n \in Descs |-> w(n)]
<1>1. next({i}) = {i, j} /\ next({i, j}) = {i, j, k} /\ next({i, j, k}) = {i, j, k}
  OBVIOUS
<1>2. Chain(i) = V[NUM - 1]
  BY Zenon DEF Chain
<1>3. NUM >= 3
  BY DEF Descs
<1>4. ASSUME NEW n \in Descs PROVE w(n) = IF n = 0 THEN {i} ELSE next(w(n - 1))
  <2>1. n = 0 \/ n = 1 \/ n = 2 \/ (n # 0 /\ n # 1 /\ n - 1 # 0 /\ n - 1 # 1)
    BY DEF Descs
  <2>2. 1 - 1 = 0 /\ 2 - 1 = 1 /\ 1 # 0 /\ 2 # 0 /\ 2 # 1
    OBVIOUS
  <2> HIDE DEF next
  <2> QED
    BY <1>1, <2>1, <2>2, Zenon
<1> HIDE DEF next, w
<1>5. Eq(g)
  <2>1. ASSUME NEW n \in Descs, n # 0 PROVE g[n - 1] = w(n - 1)
    <3>1. n - 1 \in Descs
      BY <2>1 DEF Descs
    <3> QED
      BY <3>1, Zenon
  <2> QED
    BY <1>4, <2>1, ZenonT(40)
<1>6. Eq(V)
  <2> HIDE DEF Eq, g
  <2> QED
    BY <1>5, Zenon
<1>7. \A n \in Descs : V[n] = IF n = 0 THEN {i} ELSE next(V[n - 1])
  <2> HIDE DEF V
  <2> QED
    BY <1>6, Zenon
<1> HIDE DEF V
<1>8. \A n \in Descs : V[n] = w(n)
  <2> SUFFICES ASSUME NEW n \in Descs, V[n] # w(n) PROVE FALSE
    OBVIOUS
  <2> DEFINE B == {m \in Descs : V[m] # w(m)}
  <2>1. B \in SUBSET Nat /\ B # {}
    BY DEF Descs
  <2>2. PICK m \in B : \A y \in B : m <= y
    BY <2>1, LeastIn, Zenon
  <2>3. CASE m = 0
    BY <1>7, <1>4, <2>2, <2>3, Zenon
  <2>4. CASE m # 0
    <3>1. m - 1 \in Descs /\ ~ (m <= m - 1)
      BY <2>2, <2>4 DEF Descs
    <3>2. V[m - 1] = w(m - 1)
      BY <2>2, <3>1, Zenon
    <3>3. m \in Descs /\ V[m] # w(m)
      BY <2>2, Zenon
    <3>4. V[m] = next(V[m - 1])
      BY <1>7, <2>4, <3>3, Zenon
    <3>5. w(m) = next(w(m - 1))
      BY <1>4, <2>4, <3>3, Zenon
    <3> QED
      BY <3>2, <3>3, <3>4, <3>5, Zenon
  <2> QED
    BY <2>3, <2>4, Zenon
<1>9. NUM - 1 \in Descs /\ NUM - 1 # 0 /\ NUM - 1 # 1
  BY <1>3 DEF Descs
<1> QED
  BY <1>2, <1>8, <1>9, Zenon DEF w

(***************************************************************************)
(* The invariant holds initially.                                          *)
(***************************************************************************)
\* Nothing lies between equal indices.
LEMMA RingEmpty ==
  ASSUME NEW ring, NEW from \in Index, NEW to \in Index
  PROVE  /\ from = to => Names(ring, from, to) = {} /\ Once(ring, from, to)
         /\ from # to => Names(ring, from, to) # {}
<1> DEFINE d == Dist(from, to)
<1>1. d \in Nat /\ (from = to <=> d = 0) /\ NUM > 0
  <2>1. d = (IF from <= to THEN to - from ELSE to - from + IDX) /\ d \in Index
    BY DistIs, Zenon
  <2> HIDE DEF d
  <2> QED
    BY <2>1, Sizes DEF Index
<1>2. Names(ring, from, to) = {ring[(from + n) % NUM] : n \in 0 .. d - 1}
  BY Zenon DEF Names
<1> HIDE DEF d
<1>3. CASE d = 0
  <2>1. 0 .. d - 1 = {} /\ d < NUM
    BY <1>1, <1>3, Sizes
  <2>2. Names(ring, from, to) = {} /\ Once(ring, from, to)
    BY <1>2, <2>1, Zenon DEF Once, d
  <2> QED
    BY <1>1, <1>3, <2>2, Zenon
<1>4. CASE d # 0
  <2>1. 0 \in 0 .. d - 1
    BY <1>1, <1>4
  <2>2. Names(ring, from, to) # {}
    BY <1>2, <2>1, Zenon
  <2> QED
    BY <1>1, <1>4, <2>2, Zenon
<1> QED
  BY <1>3, <1>4, Zenon

\* virtio_disk_init: all descriptors free, both rings empty.
LEMMA InitIInv == Init => IInv
<1> SUFFICES ASSUME Init PROVE IInv
  OBVIOUS
<1>1. 0 \in Descs /\ 0 \in Index /\ <<0, 0, 0>> \in Descs \X Descs \X Descs
  BY Sizes DEF Descs, Index
<1>2. Types
  <2>1. NoReq \in Requests
    BY <1>1, VirtioAssumption, Zenon DEF NoReq, Requests
  <2>2. [more |-> 0, next |-> 0] \in [more : {0, 1}, next : Descs]
    BY <1>1, Zenon
  <2> QED
    BY <1>1, <2>1, <2>2, VirtioAssumption, Zenon DEF Init, Types, Index
<1>3. Sent = {} /\ Published = {} /\ \A p \in Procs : pc[p] = "idle"
  BY Zenon DEF Init, Sent, Published, SentPc
<1>4. \A p \in Procs : req[p].b = NoBuf
  BY Zenon DEF Init, NoReq
<1>5. Waiting = {} /\ Reports = {} /\ Once(avail, taken, avail_idx) /\ Once(used, used_idx, used_top)
  BY <1>1, RingEmpty, Zenon DEF Init, Waiting, Reports
<1>6. OnTheWay = {} /\ working = {}
  BY <1>5, Zenon DEF OnTheWay, Init
<1>7. Locking
  BY <1>3, VirtioAssumption, Zenon DEF Init, Locking
<1>8. Callers
  BY <1>3, <1>4, Zenon DEF Callers
<1>9. Chains
  BY <1>3 DEF Init, Chains
<1>10. Flight
  BY <1>3, <1>5, <1>6, Zenon DEF Flight
<1>11. Signals /\ Transfers
  BY <1>3, <1>4, <1>5, Zenon DEF Signals, Transfers
<1> QED
  BY <1>2, <1>7, <1>8, <1>9, <1>10, <1>11, Zenon DEF IInv

\* The descriptors of a request.
LEMMA Ends ==
  ASSUME Types, NEW p \in Procs
  PROVE  /\ req[p].idx[1] \in Descs /\ req[p].idx[2] \in Descs /\ req[p].idx[3] \in Descs
         /\ req[p].b \in Bufs \cup {NoBuf}
  BY Zenon DEF Types, Requests

\* A descriptor that is not a published head is not on its way.
LEMMA Elsewhere ==
  ASSUME IInv, NEW p \in Sent
  PROVE  /\ req[p].idx[2] \notin OnTheWay /\ req[p].idx[3] \notin OnTheWay
         /\ req[p].idx[2] # req[p].idx[3]
         /\ p \notin Published => req[p].idx[1] \notin OnTheWay
         /\ \A q \in Sent : q # p => req[p].idx[1] # req[q].idx[1]
<1>1. Linked(p) /\ \A q \in Sent : q # p => Idx(p) \cap Idx(q) = {}
  BY Zenon DEF IInv, Chains
<1>2. \A i \in OnTheWay : \E q \in Published : i = req[q].idx[1]
  BY Zenon DEF IInv, Flight
<1>3. Published \subseteq Sent
  BY Zenon DEF Published
<1>4. \A q \in Sent : q # p => req[q].idx[1] \notin Idx(p)
  BY <1>1, Zenon DEF Idx
<1>5. \A n \in {1, 2, 3} : req[p].idx[n] \in Idx(p)
  BY Zenon DEF Idx
<1>6. req[p].idx[1] # req[p].idx[2] /\ req[p].idx[1] # req[p].idx[3] /\ req[p].idx[2] # req[p].idx[3]
  BY <1>1, Zenon DEF Linked
<1>7. \A i \in OnTheWay : i \in Idx(p) => p \in Published /\ i = req[p].idx[1]
  BY <1>2, <1>3, <1>4, Zenon
<1> QED
  BY <1>4, <1>5, <1>6, <1>7, Zenon

\* A request has a buffer, and no other has the same.
LEMMA OneCaller ==
  ASSUME IInv, NEW p \in Sent
  PROVE  p \in Procs /\ req[p].b \in Bufs /\ \A q \in Procs : q # p => req[q].b # req[p].b
<1>1. p \in Procs /\ pc[p] # "idle"
  BY Zenon DEF Sent, SentPc
<1> QED
  BY <1>1, Ends, Zenon DEF IInv, Callers

\* The chains stay where descriptors and requests do.
LEMMA ChainsKept ==
  ASSUME Chains, Sent' = Sent, UNCHANGED <<free, desc, ops, addr, req>>,
         \A p \in Sent : info'[req[p].idx[1]].b = info[req[p].idx[1]].b
  PROVE  Chains'
<1>1. \A p \in Sent : Linked(p)'
  BY ZenonT(40) DEF Chains, Linked
<1>2. \A p \in Sent : Idx(p)' = Idx(p)
  BY Zenon DEF Idx
<1> QED
  BY <1>1, <1>2 DEF Chains

\* The steps that only hand on a lock or a signal.
LEMMA Quiet ==
  ASSUME IInv, UNCHANGED <<free, chainVars, info, ringVars, bdisk, data, req, taken, working, sectors, panic>>,
         pc' \in [Procs -> {"idle"} \cup WaitPc \cup SentPc],
         \A p \in Procs : pc'[p] = pc[p] \/ {pc[p], pc'[p]} \subseteq SentPc \ {"publish"}
  PROVE  /\ Types' /\ Callers' /\ Chains' /\ Flight' /\ Transfers'
         /\ Waiting' = Waiting /\ Reports' = Reports /\ FreeDescs' = FreeDescs
<1>1. UNCHANGED <<free, desc, ops, addr, info, avail, avail_idx, used, used_top, used_idx,
                bdisk, data, req, taken, working, sectors, panic>>
  BY Zenon DEF chainVars, ringVars
<1>2. Types'
  BY <1>1 DEF IInv, Types
<1>3. Sent' = Sent /\ Published' = Published
  BY Zenon DEF Sent, Published
<1>4. \A p \in Procs : (pc'[p] = "idle" <=> pc[p] = "idle") /\ (pc'[p] = "publish" => pc[p] = "publish")
  BY Zenon DEF SentPc
<1>5. Waiting' = Waiting /\ Reports' = Reports /\ OnTheWay' = OnTheWay /\ FreeDescs' = FreeDescs
  BY <1>1, Zenon DEF Waiting, Reports, Names, Dist, OnTheWay, FreeDescs
<1>6. Callers'
  BY <1>1, <1>4, ZenonT(40) DEF IInv, Callers
<1>7. Chains'
  BY <1>1, <1>3, ChainsKept, Zenon DEF IInv
<1>8. Flight'
  <2>1. Once(avail, taken, avail_idx)' /\ Once(used, used_idx, used_top)'
    BY <1>1 DEF IInv, Flight, Once, Dist
  <2> QED
    BY <1>1, <1>3, <1>4, <1>5, <2>1 DEF IInv, Flight
<1>9. Transfers'
  BY <1>1, <1>3, <1>5, Zenon DEF IInv, Transfers, Served
<1> QED
  BY <1>2, <1>5, <1>6, <1>7, <1>8, <1>9, Zenon

\* The device is told; then virtio_disk_rw tests b->disk under the lock.
LEMMA NotifyStep == ASSUME IInv, NEW p \in Procs, rw_notify(p) PROVE IInv'
<1>1. /\ pc[p] = "notify" /\ kicked' = 1 /\ pc' = [pc EXCEPT ![p] = "check"]
      /\ UNCHANGED <<free, chainVars, info, ringVars, bdisk, data, req, taken, working, sectors, panic,
                     lock, owed, irq, intr>>
  BY Zenon DEF rw_notify, Goto
<1>2. /\ pc' \in [Procs -> {"idle"} \cup WaitPc \cup SentPc]
      /\ \A q \in Procs : pc'[q] = pc[q] \/ {pc[q], pc'[q]} \subseteq SentPc \ {"publish"}
  BY <1>1 DEF IInv, Types, SentPc
<1>3. /\ Types' /\ Callers' /\ Chains' /\ Flight' /\ Transfers'
      /\ Waiting' = Waiting /\ Reports' = Reports /\ FreeDescs' = FreeDescs
  BY <1>1, <1>2, Quiet, Zenon
<1>4. Locking'
  BY <1>1 DEF IInv, Types, Locking
<1>5. Signals'
  BY <1>1, <1>3 DEF IInv, Types, Signals
<1> QED
  BY <1>3, <1>4, <1>5, Zenon DEF IInv

\* It sleeps only if b->disk is set, so that the handler is still to come.
LEMMA SleepStep == ASSUME IInv, NEW p \in Procs, rw_sleep(p) PROVE IInv'
<1>1. /\ pc[p] = "check" /\ ~Finished(p) /\ lock' = NoProc /\ pc' = [pc EXCEPT ![p] = "asleep_data"]
      /\ UNCHANGED <<free, chainVars, info, ringVars, bdisk, data, req, taken, working, sectors, panic,
                     kicked, owed, irq, intr>>
  BY Zenon DEF rw_sleep, Goto, devVars
<1>2. /\ pc' \in [Procs -> {"idle"} \cup WaitPc \cup SentPc]
      /\ \A q \in Procs : pc'[q] = pc[q] \/ {pc[q], pc'[q]} \subseteq SentPc \ {"publish"}
  BY <1>1 DEF IInv, Types, SentPc
<1>3. /\ Types' /\ Callers' /\ Chains' /\ Flight' /\ Transfers'
      /\ Waiting' = Waiting /\ Reports' = Reports /\ FreeDescs' = FreeDescs
  BY <1>1, <1>2, Quiet, Zenon
<1>4. Locking'
  BY <1>1, VirtioAssumption DEF IInv, Types, Locking
<1>5. Signals'
  BY <1>1, <1>3 DEF IInv, Types, Signals, Finished
<1> QED
  BY <1>3, <1>4, <1>5, Zenon DEF IInv

\* It takes the lock again and tests b->disk again.
LEMMA WokenStep == ASSUME IInv, NEW p \in Procs, rw_woken(p) PROVE IInv'
<1>1. /\ pc[p] = "woken_data" /\ lock = NoProc /\ lock' = p /\ pc' = [pc EXCEPT ![p] = "check"]
      /\ UNCHANGED <<free, chainVars, info, ringVars, bdisk, data, req, taken, working, sectors, panic,
                     kicked, owed, irq, intr>>
  BY Zenon DEF rw_woken, Goto, devVars
<1>2. /\ pc' \in [Procs -> {"idle"} \cup WaitPc \cup SentPc]
      /\ \A q \in Procs : pc'[q] = pc[q] \/ {pc[q], pc'[q]} \subseteq SentPc \ {"publish"}
  BY <1>1 DEF IInv, Types, SentPc
<1>3. /\ Types' /\ Callers' /\ Chains' /\ Flight' /\ Transfers'
      /\ Waiting' = Waiting /\ Reports' = Reports /\ FreeDescs' = FreeDescs
  BY <1>1, <1>2, Quiet, Zenon
<1>4. Locking'
  BY <1>1, VirtioAssumption DEF IInv, Types, Locking
<1>5. Signals'
  BY <1>1, <1>3 DEF IInv, Types, Signals
<1> QED
  BY <1>3, <1>4, <1>5, Zenon DEF IInv

\* The device's signals, and virtio_disk_intr but for its loop.
LEMMA SignalStep ==
  ASSUME IInv, device_idle \/ device_irq \/ virtio_disk_intr \/ intr_return
  PROVE  IInv'
<1>1. UNCHANGED <<free, chainVars, info, ringVars, bdisk, data, req, taken, working, sectors, panic, pc>>
  BY Zenon DEF device_idle, device_irq, virtio_disk_intr, intr_return, devVars
<1>2. pc' \in [Procs -> {"idle"} \cup WaitPc \cup SentPc]
  BY <1>1, Zenon DEF IInv, Types
<1>3. /\ Types' /\ Callers' /\ Chains' /\ Flight' /\ Transfers'
      /\ Waiting' = Waiting /\ Reports' = Reports /\ FreeDescs' = FreeDescs
  BY <1>1, <1>2, Quiet, Zenon
<1>4. /\ taken = avail_idx => Waiting = {}
      /\ used_idx = used_top => Reports = {}
  BY RingEmpty DEF IInv, Types, Waiting, Reports, Index
<1>5. Locking'
  BY <1>1, VirtioAssumption, Zenon DEF IInv, Locking, device_idle, device_irq,
                                          virtio_disk_intr, intr_return, devVars
<1>6. Waiting # {} => kicked' = 1 \/ \E q \in Procs : pc[q] = "notify"
  BY <1>4, Zenon DEF IInv, Signals, device_idle, device_irq, virtio_disk_intr, intr_return, devVars
<1>7. Reports # {} => owed' = 1 \/ irq' = 1 \/ intr' = "loop"
  BY <1>4, Zenon DEF IInv, Signals, device_idle, device_irq, virtio_disk_intr, intr_return, devVars
<1>8. Signals'
  BY <1>1, <1>3, <1>6, <1>7, Zenon DEF IInv, Signals
<1> QED
  BY <1>3, <1>5, <1>8, Zenon DEF IInv

\* The new request reaches the avail ring.
LEMMA PublishStep == ASSUME IInv, NEW p \in Procs, rw_publish(p) PROVE IInv'
<1> DEFINE i == req[p].idx[1]
<1>1. /\ pc[p] = "publish" /\ pc' = [pc EXCEPT ![p] = "notify"] /\ avail_idx' = (avail_idx + 1) % IDX
      /\ UNCHANGED <<free, desc, ops, addr, info, avail, used, used_top, used_idx, bdisk, data, lock, req,
                     kicked, taken, working, sectors, owed, irq, intr, panic>>
  BY Zenon DEF rw_publish, Goto, chainVars, devVars
<1>2. p \in Sent /\ p \notin Published /\ Sent' = Sent /\ Published' = Published \cup {p}
  BY <1>1 DEF IInv, Types, Sent, Published, SentPc
<1>3. /\ i \notin OnTheWay /\ req[p].idx[2] \notin Waiting /\ req[p].idx[3] \notin Waiting
      /\ \A q \in Published : req[q].idx[1] # i
  BY <1>2, Elsewhere, Zenon DEF OnTheWay, Published
<1>4. avail[avail_idx % NUM] = i /\ bdisk[req[p].b] = 1 /\ Once(avail, taken, avail_idx)
  BY <1>1, Zenon DEF IInv, Flight
<1>5. avail \in [Descs -> Descs] /\ avail_idx \in Index /\ taken \in Index
  BY Zenon DEF IInv, Types, Index
<1>6. Dist(taken, avail_idx) + 1 < NUM
  <2>1. req[p].idx[2] \in Descs /\ req[p].idx[3] \in Descs /\ req[p].idx[2] # req[p].idx[3]
    BY <1>2, Elsewhere, Ends, Zenon DEF IInv
  <2> QED
    BY <1>3, <1>4, <1>5, <2>1, RingRoom, Zenon DEF Waiting
<1>7. Waiting' = Waiting \cup {i} /\ Once(avail, taken, avail_idx)'
  <2>1. avail[avail_idx % NUM] \notin Names(avail, taken, avail_idx)
    BY <1>3, <1>4, Zenon DEF OnTheWay, Waiting
  <2>2. /\ Names(avail, taken, (avail_idx + 1) % IDX) =
             Names(avail, taken, avail_idx) \cup {avail[avail_idx % NUM]}
        /\ Once(avail, taken, (avail_idx + 1) % IDX)
    BY <1>4, <1>5, <1>6, <2>1, RingPublish, Zenon
  <2>3. Waiting' = Names(avail, taken, (avail_idx + 1) % IDX)
    BY <1>1, Zenon DEF Waiting, Names, Dist
  <2>4. Once(avail, taken, avail_idx)'
    BY <1>1, <2>2 DEF Once, Dist
  <2> QED
    BY <1>4, <2>2, <2>3, <2>4, Zenon DEF Waiting
<1>8. Reports' = Reports /\ OnTheWay' = OnTheWay \cup {i} /\ Once(used, used_idx, used_top)'
  <2>1. Reports' = Reports
    BY <1>1, Zenon DEF Reports, Names, Dist
  <2>2. Once(used, used_idx, used_top)'
    BY <1>1 DEF IInv, Flight, Once, Dist
  <2> QED
    BY <1>1, <1>7, <2>1, <2>2, Zenon DEF OnTheWay
<1> HIDE DEF i
<1>9. Types'
  BY <1>1, <1>5, Advance, Zenon DEF IInv, Types, SentPc, Index
<1>10. Locking' /\ Callers'
  BY <1>1 DEF IInv, Types, Locking, Callers
<1>11. Chains'
  BY <1>1, <1>2, ChainsKept, Zenon DEF IInv
<1>12. Flight'
  <2>1. \A q \in Published' : req'[q].idx[1] \in OnTheWay' <=> bdisk'[req'[q].b] = 1
    BY <1>1, <1>2, <1>3, <1>4, <1>8, Zenon DEF IInv, Flight, i
  <2>2. \A j \in OnTheWay' : \E q \in Published' : j = req'[q].idx[1]
    BY <1>1, <1>2, <1>8, ZenonT(40) DEF IInv, Flight, i
  <2>3. Waiting' \cap working' = {} /\ Waiting' \cap Reports' = {} /\ working' \cap Reports' = {}
    BY <1>1, <1>3, <1>7, <1>8 DEF IInv, Flight, OnTheWay
  <2>4. \A q \in Procs : pc'[q] # "publish"
    BY <1>1 DEF IInv, Types, Locking
  <2> QED
    BY <1>1, <1>7, <1>8, <2>1, <2>2, <2>3, <2>4, Zenon DEF IInv, Flight
<1>13. Signals'
  BY <1>1, <1>8 DEF IInv, Types, Signals, FreeDescs
<1>14. Transfers'
  BY <1>1, <1>2, <1>7, Zenon DEF IInv, Transfers, Served, i
<1> QED
  BY <1>9, <1>10, <1>11, <1>12, <1>13, <1>14, Zenon DEF IInv

\* A function updated within its range keeps its type.
LEMMA Update == ASSUME NEW S, NEW T, NEW f \in [S -> T], NEW k, NEW v \in T
                PROVE  [f EXCEPT ![k] = v] \in [S -> T]
  BY ZenonT(60)

\* The device takes a request from the avail ring.
LEMMA TakeStep == ASSUME IInv, device_take PROVE IInv'
<1> DEFINE i == avail[taken % NUM]
<1>1. /\ kicked = 1 /\ taken # avail_idx /\ working' = working \cup {i} /\ taken' = (taken + 1) % IDX
      /\ UNCHANGED <<free, desc, ops, addr, info, avail, avail_idx, used, used_top, used_idx, bdisk, data,
                     lock, pc, req, kicked, sectors, owed, irq, intr, panic>>
  BY Zenon DEF device_take, chainVars, ringVars
<1>2. Sent' = Sent /\ Published' = Published
  BY <1>1, Zenon DEF Sent, Published
<1>3. avail \in [Descs -> Descs] /\ avail_idx \in Index /\ taken \in Index /\ Once(avail, taken, avail_idx)
  BY Zenon DEF IInv, Types, Index, Flight
<1>4. i \in Waiting /\ Waiting' = Waiting \ {i} /\ Once(avail, taken, avail_idx)'
  <2>1. /\ i \in Names(avail, taken, avail_idx)
        /\ Names(avail, (taken + 1) % IDX, avail_idx) = Names(avail, taken, avail_idx) \ {i}
        /\ Once(avail, (taken + 1) % IDX, avail_idx)
    BY <1>1, <1>3, RingGet, Zenon
  <2>2. Waiting' = Names(avail, (taken + 1) % IDX, avail_idx)
    BY <1>1, Zenon DEF Waiting, Names, Dist
  <2>3. Once(avail, taken, avail_idx)'
    BY <1>1, <2>1, Zenon DEF Once, Dist
  <2> QED
    BY <2>1, <2>2, <2>3, Zenon DEF Waiting
<1>5. Reports' = Reports /\ Once(used, used_idx, used_top)'
  <2>1. Reports' = Reports
    BY <1>1, ZenonT(40) DEF Reports, Names, Dist
  <2>2. Once(used, used_idx, used_top)'
    BY <1>1 DEF IInv, Flight, Once, Dist
  <2> QED
    BY <2>1, <2>2, Zenon
<1>6. Types'
  <2>1. (taken + 1) % IDX \in Index
    BY <1>3, Advance, Zenon
  <2>2. i \in Descs
    <3>1. i \in OnTheWay
      BY <1>4, Zenon DEF OnTheWay
    <3>2. PICK q \in Published : i = req[q].idx[1]
      BY <3>1, Zenon DEF IInv, Flight
    <3> QED
      BY <3>2, Ends, Zenon DEF IInv, Published, Sent
  <2> HIDE DEF i
  <2> QED
    BY <1>1, <2>1, <2>2 DEF IInv, Types, Index
<1> HIDE DEF i
<1>7. Waiting' \cup working' = Waiting \cup working /\ OnTheWay' = OnTheWay
  BY <1>1, <1>4, <1>5, Zenon DEF OnTheWay
<1>8. Locking' /\ Callers'
  BY <1>1, Zenon DEF IInv, Locking, Callers
<1>9. Chains'
  BY <1>1, <1>2, ChainsKept, Zenon DEF IInv
<1>10. Flight'
  <2>1. Waiting' \cap working' = {} /\ Waiting' \cap Reports' = {} /\ working' \cap Reports' = {}
    BY <1>1, <1>4, <1>5, Zenon DEF IInv, Flight
  <2> QED
    BY <1>1, <1>2, <1>4, <1>5, <1>7, <2>1 DEF IInv, Flight
<1>11. Signals'
  BY <1>1, <1>5, Zenon DEF IInv, Signals, FreeDescs
<1>12. Transfers'
  BY <1>1, <1>2, <1>7, Zenon DEF IInv, Transfers, Served
<1> QED
  BY <1>6, <1>8, <1>9, <1>10, <1>11, <1>12, Zenon DEF IInv

\* The device finishes a request and adds it to the used ring.
LEMMA FinishStep == ASSUME IInv, NEW i \in Descs, device_done(i) PROVE IInv'
<1>0. /\ i \in working /\ working' = working \ {i} /\ info' = [info EXCEPT ![i].status = 0]
      /\ used' = [used EXCEPT ![used_top % NUM] = i] /\ used_top' = (used_top + 1) % IDX /\ owed' = 1
      /\ UNCHANGED <<free, desc, ops, addr, avail, avail_idx, used_idx, bdisk, lock, pc, req, kicked,
                     taken, irq, intr, panic>>
      /\ IF ops[i].write = 1
           THEN sectors' = [sectors EXCEPT ![ops[i].sector] = data[addr[desc[i].next]]] /\ UNCHANGED data
           ELSE data' = [data EXCEPT ![addr[desc[i].next]] = sectors[ops[i].sector]] /\ UNCHANGED sectors
  BY Zenon DEF device_done, chainVars
<1>1. PICK p \in Published : i = req[p].idx[1]
  BY <1>0, Zenon DEF IInv, Flight, OnTheWay
<1>2. p \in Sent /\ Sent' = Sent /\ Published' = Published /\ p \in Procs /\ Published \subseteq Sent
  BY <1>0, Zenon DEF Sent, Published
<1> DEFINE b == req[p].b
<1>3. ops[i].write = req[p].write /\ ops[i].sector = b /\ addr[desc[i].next] = b
  BY <1>1, <1>2, Zenon DEF IInv, Chains, Linked
<1>4. b \in Bufs /\ \A q \in Procs : q # p => req[q].b # b
  BY <1>2, OneCaller, Zenon
<1>5. /\ i \notin Reports /\ i \notin Waiting
      /\ req[p].idx[2] \notin Reports /\ req[p].idx[3] \notin Reports /\ req[p].idx[2] # req[p].idx[3]
      /\ req[p].idx[2] \in Descs /\ req[p].idx[3] \in Descs
      /\ \A q \in Published : q # p => req[q].idx[1] # i
  <2>1. i \notin Reports /\ i \notin Waiting
    BY <1>0, Zenon DEF IInv, Flight
  <2>2. req[p].idx[2] \in Descs /\ req[p].idx[3] \in Descs
    BY <1>2, Ends, Zenon DEF IInv
  <2> QED
    BY <1>1, <1>2, <2>1, <2>2, Elsewhere, Zenon DEF OnTheWay
<1>6. used \in [Descs -> Descs] /\ used_idx \in Index /\ used_top \in Index /\ Once(used, used_idx, used_top)
  BY Zenon DEF IInv, Types, Index, Flight
<1>7. Dist(used_idx, used_top) + 1 < NUM
  BY <1>5, <1>6, RingRoom, Zenon DEF Reports
<1>8. /\ used' \in [Descs -> Descs] /\ used'[used_top % NUM] = i
      /\ Names(used', used_idx, used_top) = Reports /\ Once(used', used_idx, used_top)
  <2>1. used_top % NUM \in Descs
    BY <1>6, Sizes DEF Index, Descs
  <2>2. Names(used', used_idx, used_top) = Reports /\ Once(used', used_idx, used_top)
    BY <1>0, <1>6, RingWrite, ZenonT(40) DEF Reports
  <2> QED
    BY <1>0, <1>6, <2>1, <2>2, Zenon
<1>9. Reports' = Reports \cup {i} /\ Once(used, used_idx, used_top)'
  <2>1. /\ Names(used', used_idx, (used_top + 1) % IDX) = Reports \cup {i}
        /\ Once(used', used_idx, (used_top + 1) % IDX)
    BY <1>5, <1>6, <1>7, <1>8, RingPublish, Zenon
  <2>2. Reports' = Names(used', used_idx, (used_top + 1) % IDX)
    BY <1>0, Zenon DEF Reports, Names, Dist
  <2>3. Once(used, used_idx, used_top)'
    BY <1>0, <2>1 DEF Once, Dist
  <2> QED
    BY <2>1, <2>2, <2>3, Zenon
<1>10. Waiting' = Waiting /\ Once(avail, taken, avail_idx)'
  <2>1. Waiting' = Waiting
    BY <1>0, Zenon DEF Waiting, Names, Dist
  <2>2. Once(avail, taken, avail_idx)'
    BY <1>0 DEF IInv, Flight, Once, Dist
  <2> QED
    BY <2>1, <2>2, Zenon
<1>11. OnTheWay' = OnTheWay
  BY <1>0, <1>9, <1>10, Zenon DEF OnTheWay
<1>12. Types'
  <2>1. (used_top + 1) % IDX \in Index
    BY <1>6, Advance, Zenon
  <2>2. data' \in [Bufs -> Data] /\ sectors' \in [Bufs -> Data]
    <3>1. data \in [Bufs -> Data] /\ sectors \in [Bufs -> Data]
      BY Zenon DEF IInv, Types
    <3>2. data[b] \in Data /\ sectors[b] \in Data
      BY <1>4, <3>1, Zenon
    <3> HIDE DEF b
    <3>3. \/ sectors' = [sectors EXCEPT ![b] = data[b]] /\ data' = data
          \/ data' = [data EXCEPT ![b] = sectors[b]] /\ sectors' = sectors
      BY <1>0, <1>3, Zenon
    <3>4. [sectors EXCEPT ![b] = data[b]] \in [Bufs -> Data] /\ [data EXCEPT ![b] = sectors[b]] \in [Bufs -> Data]
      BY <3>1, <3>2, Update, Zenon
    <3> QED
      BY <3>1, <3>3, <3>4, Zenon
  <2>3. info' \in [Descs -> [b : Bufs \cup {NoBuf}, status : {0, 255}]]
    <3> DEFINE R == [b : Bufs \cup {NoBuf}, status : {0, 255}]
               new == [info[i] EXCEPT !.status = 0]
    <3>1. info \in [Descs -> R]
      BY Zenon DEF IInv, Types
    <3>2. info' = [info EXCEPT ![i] = new]
      BY <1>0, Zenon
    <3> HIDE DEF R, new
    <3>3. info[i] \in R
      BY <3>1, Zenon
    <3>4. new \in R
      BY <3>3, Zenon DEF R, new
    <3>5. info' \in [Descs -> R]
      BY <3>1, <3>2, <3>4, Update, Zenon
    <3> QED
      BY <3>5, Zenon DEF R
  <2>4. UNCHANGED <<free, desc, ops, addr, avail, avail_idx, used_idx, bdisk, pc, req, taken, panic>>
    BY <1>0, Zenon
  <2>5. used_top' \in Index /\ working' \in SUBSET Descs
    BY <1>0, <2>1, Zenon DEF IInv, Types
  <2> QED
    BY <1>8, <2>2, <2>3, <2>4, <2>5, Zenon DEF IInv, Types, Index
<1>13. Locking' /\ Callers'
  BY <1>0, Zenon DEF IInv, Locking, Callers
<1>14. \A j \in Descs : info'[j].b = info[j].b /\ (info'[j].status = IF j = i THEN 0 ELSE info[j].status)
  BY <1>0 DEF IInv, Types
<1>15. Chains'
  <2>1. \A q \in Sent : info'[req[q].idx[1]].b = info[req[q].idx[1]].b
    BY <1>14, Ends, ZenonT(40) DEF IInv, Sent
  <2> QED
    BY <1>0, <1>2, <2>1, ChainsKept, Zenon DEF IInv
<1>16. Flight'
  <2>1. Waiting' \cap working' = {} /\ Waiting' \cap Reports' = {} /\ working' \cap Reports' = {}
    BY <1>0, <1>5, <1>9, <1>10, Zenon DEF IInv, Flight
  <2>2. \A j \in Reports' : info'[j].status = 0
    <3>1. \A j \in Reports : j \in Descs
      BY <1>2, Ends DEF IInv, Flight, OnTheWay, Published, Sent
    <3> QED
      BY <1>9, <1>14, <3>1, ZenonT(40) DEF IInv, Flight
  <2> QED
    BY <1>0, <1>2, <1>9, <1>10, <1>11, <2>1, <2>2 DEF IInv, Flight
<1>17. Signals'
  BY <1>0, <1>10, Zenon DEF IInv, Signals, FreeDescs
<1>18. Transfers'
  <2>1. \A c \in Bufs : c # b => data'[c] = data[c] /\ sectors'[c] = sectors[c]
    BY <1>0, <1>3 DEF IInv, Types
  <2>2. /\ req[p].write = 1 => data' = data /\ sectors'[b] = data[b]
        /\ req[p].write # 1 => data'[b] = sectors[b] /\ sectors' = sectors
    BY <1>0, <1>3, <1>4 DEF IInv, Types
  <2>3. \A q \in Procs : req[q].b # NoBuf => req[q].b \in Bufs
    BY Ends, Zenon DEF IInv
  <2>4. \A q \in Procs : req[q].b # NoBuf /\ req[q].write = 1 => data'[req[q].b] = req[q].v
    BY <1>4, <2>1, <2>2, <2>3, ZenonT(40) DEF IInv, Transfers
  <2>5. ASSUME NEW q \in Published, req[q].idx[1] \notin Waiting \cup working'
        PROVE  Served(q)'
    <3>1. CASE q = p
      BY <1>0, <1>2, <1>4, <2>2, <2>4, <3>1, VirtioAssumption, Zenon DEF Served
    <3>2. CASE q # p
      <4>1. q \in Procs /\ req[q].b # b /\ req[q].b \in Bufs
        BY <1>2, <1>4, <3>2, OneCaller, Zenon DEF Published
      <4>2. Served(q)
        BY <1>0, <1>5, <2>5, <3>2, Zenon DEF IInv, Transfers
      <4> QED
        BY <1>0, <2>1, <4>1, <4>2, Zenon DEF Served
    <3> QED
      BY <3>1, <3>2, Zenon
  <2> QED
    BY <1>0, <1>2, <1>10, <2>4, <2>5, Zenon DEF Transfers
<1> QED
  BY <1>12, <1>13, <1>15, <1>16, <1>17, <1>18, Zenon DEF IInv
=============================================================================
