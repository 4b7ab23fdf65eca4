---------------------------- MODULE VirtioProof ----------------------------
(***************************************************************************)
(* The interrupt handler and virtio_disk_rw keep the invariant of          *)
(* VirtioInvariant (the device is dealt with there), and the theorems.     *)
(***************************************************************************)
EXTENDS VirtioInvariant

USE SMTT(60)

\* virtio_disk_intr's loop takes a report from the used ring.
LEMMA ReportStep == ASSUME IInv, intr_one PROVE IInv'
<1> DEFINE i == used[used_idx % NUM]
<1>1. used_idx # used_top /\ intr = "loop"
  BY Zenon DEF intr_one
<1>2. used \in [Descs -> Descs] /\ used_idx \in Index /\ used_top \in Index /\ Once(used, used_idx, used_top)
  BY Zenon DEF IInv, Types, Index, Flight
<1>3. /\ i \in Names(used, used_idx, used_top)
      /\ Names(used, (used_idx + 1) % IDX, used_top) = Names(used, used_idx, used_top) \ {i}
      /\ Once(used, (used_idx + 1) % IDX, used_top)
  BY <1>1, <1>2, RingGet, Zenon
<1>4. i \in Reports /\ info[i].status = 0
  BY <1>3, Zenon DEF IInv, Flight, Reports
<1>5. PICK p \in Published : i = req[p].idx[1]
  BY <1>4, Zenon DEF IInv, Flight, OnTheWay
<1>6. p \in Sent /\ p \in Procs /\ Published \subseteq Sent /\ Sent \subseteq Procs
  BY Zenon DEF Sent, Published
<1> DEFINE b == req[p].b
<1>7. info[i].b = b
  BY <1>5, <1>6, Zenon DEF IInv, Chains, Linked
<1>8. b \in Bufs /\ \A q \in Procs : q # p => req[q].b # b
  BY <1>6, OneCaller, Zenon
<1>9. /\ bdisk' = [bdisk EXCEPT ![info[i].b] = 0]
      /\ pc' = [q \in Procs |-> IF pc[q] = "asleep_data" /\ req[q].b = info[i].b THEN "woken_data" ELSE pc[q]]
      /\ used_idx' = (used_idx + 1) % IDX
      /\ UNCHANGED <<free, desc, ops, addr, info, avail, avail_idx, used, used_top, data, lock, req, kicked,
                     taken, working, sectors, owed, irq, intr, panic>>
  BY <1>4, Zenon DEF intr_one, Reported, used_next, chainVars, devVars
<1>10. Reports' = Reports \ {i} /\ Once(used, used_idx, used_top)'
  <2>1. Reports' = Names(used, (used_idx + 1) % IDX, used_top)
    BY <1>9, Zenon DEF Reports, Names, Dist
  <2>2. Once(used, used_idx, used_top)'
    BY <1>3, <1>9, Zenon DEF Once, Dist
  <2> QED
    BY <1>3, <2>1, <2>2, Zenon DEF Reports
<1> HIDE DEF i, b
<1>11. Waiting' = Waiting /\ Once(avail, taken, avail_idx)'
  <2>1. Waiting' = Waiting
    BY <1>9, Zenon DEF Waiting, Names, Dist
  <2>2. Once(avail, taken, avail_idx)'
    BY <1>9 DEF IInv, Flight, Once, Dist
  <2> QED
    BY <2>1, <2>2, Zenon
<1>12. OnTheWay' = OnTheWay \ {i}
  BY <1>4, <1>9, <1>10, <1>11 DEF IInv, Flight, OnTheWay
<1>13. /\ \A q \in Procs : pc'[q] = IF pc[q] = "asleep_data" /\ req[q].b = b THEN "woken_data" ELSE pc[q]
       /\ \A c \in Bufs : bdisk'[c] = IF c = b THEN 0 ELSE bdisk[c]
  BY <1>7, <1>9 DEF IInv, Types
<1>14. Sent' = Sent /\ Published' = Published
  BY <1>13, Zenon DEF Sent, Published, SentPc
<1>15. Types'
  <2>1. (used_idx + 1) % IDX \in Index
    BY <1>2, Advance, Zenon
  <2>2. pc' \in [Procs -> {"idle"} \cup WaitPc \cup SentPc]
    BY <1>9, Zenon DEF IInv, Types, SentPc
  <2>3. bdisk' \in [Bufs -> {0, 1}]
    <3>1. bdisk \in [Bufs -> {0, 1}] /\ 0 \in {0, 1}
      BY Zenon DEF IInv, Types
    <3> QED
      BY <1>9, <3>1, Update, Zenon
  <2> QED
    BY <1>9, <2>1, <2>2, <2>3, Zenon DEF IInv, Types, Index
<1>16. Locking' /\ Callers'
  BY <1>9, <1>13, Zenon DEF IInv, Locking, Callers
<1>17. Chains'
  BY <1>9, <1>14, ChainsKept, Zenon DEF IInv
<1>18. \A q \in Procs : q # p /\ req[q].b # NoBuf => bdisk'[req[q].b] = bdisk[req[q].b]
  BY <1>8, <1>13, Ends, Zenon DEF IInv
<1>19. \A q \in Published : q # p => req[q].b # NoBuf /\ req[q].idx[1] # i
  <2>1. \A q \in Published : req[q].b # NoBuf
    BY <1>6, OneCaller, VirtioAssumption, ZenonT(40)
  <2> QED
    BY <1>5, <1>6, <2>1, Elsewhere, Zenon
<1>20. Flight'
  <2>1. \A q \in Published : req[q].idx[1] \in OnTheWay' <=> bdisk'[req[q].b] = 1
    <3>1. req[p].idx[1] \notin OnTheWay' /\ bdisk'[req[p].b] = 0
      BY <1>5, <1>8, <1>12, <1>13, Zenon DEF b
    <3> QED
      BY <1>6, <1>12, <1>18, <1>19, <3>1 DEF IInv, Flight
  <2>2. \A j \in OnTheWay' : \E q \in Published : j = req[q].idx[1]
    BY <1>12, Zenon DEF IInv, Flight
  <2>3. Waiting' \cap working' = {} /\ Waiting' \cap Reports' = {} /\ working' \cap Reports' = {}
    BY <1>9, <1>10, <1>11, Zenon DEF IInv, Flight
  <2>4. \A j \in Reports' : info'[j].status = 0
    BY <1>9, <1>10, Zenon DEF IInv, Flight
  <2>5. \A q \in Procs : pc'[q] # "publish"
    BY <1>1, <1>13, VirtioAssumption, ZenonT(40) DEF IInv, Locking
  <2> QED
    <3>1. req' = req
      BY <1>9, Zenon
    <3> QED
      BY <1>10, <1>11, <1>14, <2>1, <2>2, <2>3, <2>4, <2>5, <3>1, ZenonT(30) DEF Flight
<1>21. Signals'
  <2>1. \A q \in Procs : pc'[q] = "asleep_data" => bdisk'[req[q].b] = 1
    <3> TAKE q \in Procs
    <3> HAVE pc'[q] = "asleep_data"
    <3>1. pc[q] = "asleep_data" /\ req[q].b # b
      BY <1>13, Zenon
    <3>2. req[q].b # NoBuf /\ q # p /\ bdisk[req[q].b] = 1
      BY <3>1, Zenon DEF IInv, Callers, Signals, b
    <3> QED
      BY <1>18, <3>2, Zenon
  <2> QED
    <3>1. /\ \A q \in Procs : pc[q] = "notify" => pc'[q] = "notify"
          /\ \A q \in Procs : pc'[q] = "asleep_free" => pc[q] = "asleep_free"
      BY <1>13, Zenon
    <3>2. FreeDescs' = FreeDescs /\ req' = req /\ kicked' = kicked /\ intr' = "loop"
      BY <1>1, <1>9, Zenon DEF FreeDescs
    <3> QED
      BY <1>11, <2>1, <3>1, <3>2, Zenon DEF IInv, Signals
<1>22. Transfers'
  BY <1>9, <1>11, <1>14, ZenonT(40) DEF IInv, Transfers, Served
<1> QED
  BY <1>15, <1>16, <1>17, <1>20, <1>21, <1>22, Zenon DEF IInv

\* A chain whose three descriptors are untouched is still linked.
LEMMA LinkedKept ==
  ASSUME NEW q, Linked(q), req'[q] = req[q],
         \A n \in {1, 2, 3} : desc'[req[q].idx[n]] = desc[req[q].idx[n]],
         ops'[req[q].idx[1]] = ops[req[q].idx[1]], addr'[req[q].idx[2]] = addr[req[q].idx[2]],
         info'[req[q].idx[1]].b = info[req[q].idx[1]].b
  PROVE  Linked(q)'
<1>1. /\ desc'[req[q].idx[1]] = desc[req[q].idx[1]] /\ desc'[req[q].idx[2]] = desc[req[q].idx[2]]
      /\ desc'[req[q].idx[3]] = desc[req[q].idx[3]]
  BY Zenon
<1> QED
  BY <1>1 DEF Linked

\* free_chain, and virtio_disk_rw returns.
LEMMA DoneStep == ASSUME IInv, NEW p \in Procs, rw_done(p) PROVE IInv'
<1> DEFINE i == req[p].idx[1]
           j == req[p].idx[2]
           k == req[p].idx[3]
<1>1. pc[p] = "check" /\ bdisk[req[p].b] # 1
  BY Zenon DEF rw_done, Finished
<1>2. p \in Sent /\ p \in Published
  BY <1>1, Zenon DEF Sent, Published, SentPc
<1>3. /\ i \in Descs /\ j \in Descs /\ k \in Descs /\ i # j /\ i # k /\ j # k
      /\ desc[i].more = 1 /\ desc[i].next = j /\ desc[j].more = 1 /\ desc[j].next = k /\ desc[k].more = 0
  <2>1. i \in Descs /\ j \in Descs /\ k \in Descs
    BY Ends, Zenon DEF IInv
  <2> QED
    BY <1>2, <2>1, Zenon DEF IInv, Chains, Linked
<1>4. Chain(i) = {i, j, k} /\ Idx(p) = {i, j, k}
  BY <1>3, ChainIs, VirtioAssumption, Zenon DEF Idx
<1>5. \A n \in {i, j, k} : n \in Descs /\ free[n] = 0
  BY <1>2, <1>3, <1>4, ZenonT(40) DEF IInv, Chains
<1>6. 1 # 0 /\ ~ \E n \in {i, j, k} : free[n] = 1
  BY <1>5
<1> DEFINE none == [more |-> 0, next |-> 0]
<1>7. /\ free' = [n \in Descs |-> IF n \in {i, j, k} THEN 1 ELSE free[n]]
      /\ desc' = [n \in Descs |-> IF n \in {i, j, k} THEN none ELSE desc[n]]
      /\ addr' = [n \in Descs |-> IF n \in {i, j, k} THEN NoBuf ELSE addr[n]]
      /\ info' = [info EXCEPT ![i].b = NoBuf]
      /\ lock' = NoProc /\ pc' = [WakeFree(pc) EXCEPT ![p] = "idle"]
      /\ req' = [req EXCEPT ![p] = NoReq]
      /\ UNCHANGED <<panic, ops, avail, avail_idx, used, used_top, used_idx, bdisk, data,
                     kicked, taken, working, sectors, owed, irq, intr>>
  BY <1>4, <1>6, Zenon DEF rw_done, ringVars, devVars
<1> HIDE DEF none
<1>8. \A q \in Procs : pc'[q] = IF q = p THEN "idle"
                                ELSE IF pc[q] = "asleep_free" THEN "woken_free" ELSE pc[q]
  BY <1>7, Zenon DEF WakeFree
<1>9. \A q \in Procs : req'[q] = IF q = p THEN NoReq ELSE req[q]
  BY <1>7 DEF IInv, Types
<1>10. Sent' = Sent \ {p} /\ Published' = Published \ {p} /\ Published \subseteq Sent /\ Sent \subseteq Procs
  BY <1>8, Zenon DEF Sent, Published, SentPc
<1>11. \A q \in Sent' : q \in Sent /\ q # p /\ req'[q] = req[q] /\ Idx(q)' = Idx(q) /\ Idx(q) \cap {i, j, k} = {}
  <2>1. \A q \in Sent' : q \in Sent /\ q # p /\ req'[q] = req[q]
    BY <1>9, <1>10, Zenon
  <2> QED
    BY <1>2, <1>4, <2>1, Zenon DEF IInv, Chains, Idx
<1>12. i \notin OnTheWay
  BY <1>1, <1>2, Zenon DEF IInv, Flight
<1>13. /\ Waiting' = Waiting /\ Reports' = Reports /\ OnTheWay' = OnTheWay
       /\ Once(avail, taken, avail_idx)' /\ Once(used, used_idx, used_top)'
  <2>1. Waiting' = Waiting /\ Reports' = Reports /\ OnTheWay' = OnTheWay
    BY <1>7, Zenon DEF Waiting, Reports, Names, Dist, OnTheWay
  <2>2. Once(avail, taken, avail_idx)' /\ Once(used, used_idx, used_top)'
    BY <1>7 DEF IInv, Flight, Once, Dist
  <2> QED
    BY <2>1, <2>2, Zenon
<1>14. \A n \in Descs : info'[n].status = info[n].status /\ (n # i => info'[n] = info[n])
  BY <1>7 DEF IInv, Types
<1>15. /\ NoReq \in Requests /\ NoReq.b = NoBuf
       /\ none \in [more : {0, 1}, next : Descs]
  BY VirtioAssumption DEF NoReq, Requests, Descs, none
<1>16. Types'
  <2>1. req' \in [Procs -> Requests]
    BY <1>7, <1>15, Update, Zenon DEF IInv, Types
  <2>2. pc' \in [Procs -> {"idle"} \cup WaitPc \cup SentPc]
    BY <1>7, Zenon DEF IInv, Types, WakeFree, WaitPc
  <2>3. info' \in [Descs -> [b : Bufs \cup {NoBuf}, status : {0, 255}]]
    <3> DEFINE R == [b : Bufs \cup {NoBuf}, status : {0, 255}]
               new == [info[i] EXCEPT !.b = NoBuf]
    <3>1. info \in [Descs -> R]
      BY Zenon DEF IInv, Types
    <3>2. info' = [info EXCEPT ![i] = new]
      BY <1>7, Zenon
    <3> HIDE DEF R, new
    <3>3. info[i] \in R
      BY <1>3, <3>1, Zenon
    <3>4. new \in R
      BY <3>3 DEF R, new
    <3>5. info' \in [Descs -> R]
      BY <3>1, <3>2, <3>4, Update, Zenon
    <3> QED
      BY <3>5, Zenon DEF R
  <2>4. free' \in [Descs -> {0, 1}] /\ addr' \in [Descs -> Bufs \cup {NoBuf}]
    BY <1>7 DEF IInv, Types
  <2>5. desc' \in [Descs -> [more : {0, 1}, next : Descs]]
    <3> DEFINE R == [more : {0, 1}, next : Descs]
    <3>1. desc \in [Descs -> R] /\ none \in R
      BY <1>15, Zenon DEF IInv, Types
    <3> HIDE DEF R
    <3>2. desc' \in [Descs -> R]
      BY <1>7, <3>1, Zenon
    <3> QED
      BY <3>2, Zenon DEF R
  <2> QED
    BY <1>7, <2>1, <2>2, <2>3, <2>4, <2>5, Zenon DEF IInv, Types
<1>17. Locking'
  BY <1>1, <1>7, <1>8, VirtioAssumption DEF IInv, Locking
<1>18. Callers'
  BY <1>1, <1>8, <1>9, <1>15 DEF IInv, Callers
<1>19. Chains'
  <2>1. ASSUME NEW q \in Sent' PROVE Linked(q)'
    <3>1. /\ req[q].idx[1] \in Descs \ {i, j, k} /\ req[q].idx[2] \in Descs \ {i, j, k}
          /\ req[q].idx[3] \in Descs \ {i, j, k}
      <4>1. q \in Procs /\ Idx(q) \cap {i, j, k} = {}
        BY <1>10, <1>11, Zenon
      <4>2. req[q].idx[1] \in Descs /\ req[q].idx[2] \in Descs /\ req[q].idx[3] \in Descs
        BY <4>1, Ends, Zenon DEF IInv
      <4> QED
        BY <4>1, <4>2, Zenon DEF Idx
    <3>2. Linked(q)
      BY <1>11, Zenon DEF IInv, Chains
    <3>3. \A n \in Descs \ {i, j, k} : desc'[n] = desc[n] 
                                     /\ addr'[n] = addr[n] /\ info'[n] = info[n]
      BY <1>7, <1>14, Zenon
    <3> QED
      <4>1. \A n \in {1, 2, 3} : desc'[req[q].idx[n]] = desc[req[q].idx[n]]
        BY <3>1, <3>3, Zenon
      <4>2. /\ req'[q] = req[q] /\ ops' = ops /\ addr'[req[q].idx[2]] = addr[req[q].idx[2]]
            /\ info'[req[q].idx[1]].b = info[req[q].idx[1]].b
        BY <1>7, <1>11, <3>1, <3>3, Zenon
      <4> QED
        BY <3>2, <4>1, <4>2, LinkedKept, Zenon
  <2>2. ASSUME NEW q \in Sent', NEW r \in Sent', q # r PROVE Idx(q)' \cap Idx(r)' = {}
    <3>1. q \in Sent /\ r \in Sent /\ Idx(q)' = Idx(q) /\ Idx(r)' = Idx(r)
      BY <1>11, Zenon
    <3> QED
      BY <2>2, <3>1, Zenon DEF IInv, Chains
  <2>3. \A n \in Descs : free'[n] = 0 <=> \E q \in Sent' : n \in Idx(q)'
    <3>1. \A n \in {i, j, k} : free'[n] = 1
      BY <1>3, <1>7, Zenon
    <3>2. \A n \in Descs : n \notin {i, j, k} => free'[n] = free[n]
      BY <1>7, Zenon
    <3>3. \A n \in Descs : n \notin {i, j, k} => (free[n] = 0 <=> \E q \in Sent' : n \in Idx(q))
      BY <1>4, <1>10, <1>11, Zenon DEF IInv, Chains
    <3> QED
      BY <1>6, <1>11, <3>1, <3>2, <3>3
  <2> QED
    BY <2>1, <2>2, <2>3, Zenon DEF Chains
<1>20. \A q \in Published' : q \in Published /\ q # p /\ req'[q] = req[q]
  BY <1>10, <1>11, Zenon
<1>21. Flight'
  <2>1. \A n \in OnTheWay : n \in Descs /\ \E q \in Published' : n = req'[q].idx[1]
    <3> TAKE n \in OnTheWay
    <3>1. PICK q \in Published : n = req[q].idx[1]
      BY Zenon DEF IInv, Flight
    <3>2. q \in Published' /\ req'[q] = req[q]
      BY <1>10, <1>12, <1>20, <3>1, Zenon
    <3>3. n \in Descs
      BY <1>10, <3>1, Ends, Zenon DEF IInv
    <3> QED
      BY <3>1, <3>2, <3>3, Zenon
  <2>2. \A n \in Reports' : info'[n].status = 0
    BY <1>13, <1>14, <2>1, Zenon DEF IInv, Flight, OnTheWay
  <2>3. \A q \in Published' : req'[q].idx[1] \in OnTheWay' <=> bdisk'[req'[q].b] = 1
    BY <1>7, <1>13, <1>20 DEF IInv, Flight
  <2>4. \A q \in Procs : pc'[q] # "publish"
    BY <1>1, <1>8, Zenon DEF IInv, Locking
  <2> QED
    BY <1>7, <1>13, <2>1, <2>2, <2>3, <2>4, Zenon DEF IInv, Flight
<1>22. Signals'
  <2>1. \A q \in Procs : /\ pc'[q] # "asleep_free"
                         /\ pc'[q] = "asleep_data" => q # p /\ pc[q] = "asleep_data"
                         /\ pc[q] = "notify" => pc'[q] = "notify"
    BY <1>1, <1>8, ZenonT(40)
  <2> QED
    BY <1>7, <1>9, <1>13, <2>1 DEF IInv, Signals
<1>23. Transfers'
  BY <1>7, <1>9, <1>13, <1>15, <1>20 DEF IInv, Transfers, Served
<1> QED
  BY <1>16, <1>17, <1>18, <1>19, <1>21, <1>22, <1>23, Zenon DEF IInv

\* What virtio_disk_rw has of its call when it looks for descriptors.
Calling(p, r) ==
  /\ pc[p] \in {"idle", "woken_free"} /\ lock = NoProc
  /\ r \in Requests /\ r.b \in Bufs /\ \A q \in Procs : q # p => req[q].b # r.b
  /\ data' \in [Bufs -> Data] /\ \A c \in Bufs : c # r.b => data'[c] = data[c]
  /\ r.write = 1 => data'[r.b] = r.v
  /\ UNCHANGED <<avail_idx, used, used_top, used_idx, devVars, intr, panic>>

\* The number of free descriptors is a number: FreeDescs is finite.
LEMMA FreeCount == Cardinality(FreeDescs) \in Nat
<1>1. FreeDescs \in SUBSET Descs /\ IsFiniteSet(Descs)
  BY VirtioAssumption, FS_Interval DEF FreeDescs, Descs
<1> QED
  BY <1>1, FS_Subset, FS_CardinalityType, Zenon

\* alloc3_desc takes three free descriptors, which no other request has, and
\* virtio_disk_rw lays out the chain in them.
LEMMA SubmitStep ==
  ASSUME IInv, NEW p \in Procs, NEW r, Calling(p, r), Submit(p, r)
  PROVE  IInv'
<1> DEFINE idx == alloc3_desc
           i == idx[1]
           j == idx[2]
           k == idx[3]
           s == [r EXCEPT !.idx = idx]
<1>1. /\ Cardinality(FreeDescs) >= 3
      /\ free' = [n \in Descs |-> IF n \in {i, j, k} THEN 0 ELSE free[n]]
      /\ desc' = [desc EXCEPT ![i] = [more |-> 1, next |-> j], ![j] = [more |-> 1, next |-> k],
                              ![k] = [more |-> 0, next |-> 0]]
      /\ ops' = [ops EXCEPT ![i] = [write |-> r.write, sector |-> r.b]]
      /\ addr' = [addr EXCEPT ![j] = r.b]
      /\ info' = [info EXCEPT ![i] = [b |-> r.b, status |-> 255]]
      /\ bdisk' = [bdisk EXCEPT ![r.b] = 1]
      /\ avail' = [avail EXCEPT ![avail_idx % NUM] = i]
      /\ req' = [req EXCEPT ![p] = s]
      /\ lock' = p /\ pc' = [pc EXCEPT ![p] = "publish"]
  BY Zenon DEF Submit, Goto
<1>2. /\ pc[p] \in {"idle", "woken_free"} /\ lock = NoProc
      /\ r \in Requests /\ r.b \in Bufs /\ \A q \in Procs : q # p => req[q].b # r.b
      /\ data' \in [Bufs -> Data] /\ \A c \in Bufs : c # r.b => data'[c] = data[c]
      /\ r.write = 1 => data'[r.b] = r.v
      /\ UNCHANGED <<avail_idx, used, used_top, used_idx, kicked, taken, working, sectors, owed, irq, intr, panic>>
  BY Zenon DEF Calling, devVars
<1>3. /\ idx \in Descs \X Descs \X Descs /\ i # j /\ i # k /\ j # k
      /\ i \in Descs /\ j \in Descs /\ k \in Descs /\ free[i] = 1 /\ free[j] = 1 /\ free[k] = 1
  BY <1>1, AllocFinds, VirtioAssumption, Zenon DEF FreeDescs
<1> HIDE DEF idx
<1>4. /\ s \in Requests /\ s.b = r.b /\ s.v = r.v /\ s.write = r.write
      /\ s.idx[1] = i /\ s.idx[2] = j /\ s.idx[3] = k
  BY <1>2, <1>3, ZenonT(40) DEF Requests
<1> HIDE DEF i, j, k, s
<1>5. \A q \in Procs : /\ pc'[q] = IF q = p THEN "publish" ELSE pc[q]
                       /\ req'[q] = IF q = p THEN s ELSE req[q]
  BY <1>1 DEF IInv, Types
<1>6. /\ p \notin Sent /\ p \notin Published /\ Sent' = Sent \cup {p} /\ Published' = Published
      /\ Published \subseteq Sent /\ Sent \subseteq Procs
  BY <1>2, <1>5, Zenon DEF Sent, Published, SentPc
<1>7. \A q \in Sent : q # p /\ req'[q] = req[q] /\ Idx(q)' = Idx(q) /\ Idx(q) \cap {i, j, k} = {}
  <2>1. \A q \in Sent : q # p /\ req'[q] = req[q] /\ Idx(q)' = Idx(q)
    BY <1>5, <1>6, Zenon DEF Idx
  <2>2. \A q \in Sent : i \notin Idx(q) /\ j \notin Idx(q) /\ k \notin Idx(q)
    BY <1>3 DEF IInv, Chains
  <2> QED
    BY <2>1, <2>2, Zenon
<1>8. req'[p] = s /\ Idx(p)' = {i, j, k}
  BY <1>4, <1>5, Zenon DEF Idx
<1>9. \A n \in OnTheWay : n \in Descs /\ n \notin {i, j, k}
  <2> TAKE n \in OnTheWay
  <2>1. PICK q \in Published : n = req[q].idx[1]
    BY Zenon DEF IInv, Flight
  <2>2. q \in Sent /\ q \in Procs
    BY <1>6, Zenon
  <2>3. n \in Idx(q) /\ n \in Descs
    BY <2>1, <2>2, Ends, Zenon DEF IInv, Idx
  <2> QED
    BY <1>7, <2>2, <2>3, Zenon
<1>10. /\ Waiting' = Waiting /\ Once(avail, taken, avail_idx)'
       /\ avail' \in [Descs -> Descs] /\ avail'[avail_idx % NUM] = i
  <2>1. /\ avail \in [Descs -> Descs] /\ taken \in Index /\ avail_idx \in Index
        /\ Once(avail, taken, avail_idx)
    BY Zenon DEF IInv, Types, Index, Flight
  <2>2. /\ Names(avail', taken, avail_idx) = Names(avail, taken, avail_idx)
        /\ Once(avail', taken, avail_idx)
    BY <1>1, <2>1, RingWrite, Zenon
  <2>3. Waiting' = Names(avail', taken, avail_idx)
    BY <1>2, Zenon DEF Waiting, Names, Dist
  <2>4. Once(avail, taken, avail_idx)'
    BY <1>2, <2>2 DEF Once, Dist
  <2>5. avail_idx % NUM \in Descs
    BY <2>1, Sizes DEF Index, Descs
  <2>6. avail' \in [Descs -> Descs] /\ avail'[avail_idx % NUM] = i
    BY <1>1, <1>3, <2>1, <2>5, Zenon
  <2> QED
    BY <2>2, <2>3, <2>4, <2>6, Zenon DEF Waiting
<1>11. Reports' = Reports /\ OnTheWay' = OnTheWay /\ Once(used, used_idx, used_top)'
  <2>1. Reports' = Reports
    BY <1>2, ZenonT(40) DEF Reports, Names, Dist
  <2>2. Once(used, used_idx, used_top)'
    BY <1>2 DEF IInv, Flight, Once, Dist
  <2> QED
    BY <1>2, <1>10, <2>1, <2>2, Zenon DEF OnTheWay
<1>12. Types'
  <2>1. free' \in [Descs -> {0, 1}]
    BY <1>1, Zenon DEF IInv, Types
  <2>2. desc' \in [Descs -> [more : {0, 1}, next : Descs]]
    <3> DEFINE R == [more : {0, 1}, next : Descs]
    <3>1. desc \in [Descs -> R]
      BY Zenon DEF IInv, Types
    <3>2. [more |-> 1, next |-> j] \in R /\ [more |-> 1, next |-> k] \in R /\ [more |-> 0, next |-> 0] \in R
      BY <1>3, Sizes DEF Descs
    <3> HIDE DEF R
    <3>3. desc' \in [Descs -> R]
      BY <1>1, <3>1, <3>2, Update, Zenon
    <3> QED
      BY <3>3, Zenon DEF R
  <2>3. [write |-> r.write, sector |-> r.b] \in [write : {0, 1}, sector : Bufs \cup {NoBuf}]
    BY <1>2, Zenon DEF Requests
  <2>4. ops' \in [Descs -> [write : {0, 1}, sector : Bufs \cup {NoBuf}]]
    BY <1>1, <2>3, Update, Zenon DEF IInv, Types
  <2>5. [b |-> r.b, status |-> 255] \in [b : Bufs \cup {NoBuf}, status : {0, 255}]
    BY <1>2, Zenon
  <2>6. info' \in [Descs -> [b : Bufs \cup {NoBuf}, status : {0, 255}]]
    BY <1>1, <2>5, Update, ZenonT(40) DEF IInv, Types
  <2>7. addr' \in [Descs -> Bufs \cup {NoBuf}] /\ bdisk' \in [Bufs -> {0, 1}] /\ req' \in [Procs -> Requests]
    <3>1. r.b \in Bufs \cup {NoBuf} /\ 1 \in {0, 1}
      BY <1>2, Zenon
    <3> QED
      BY <1>1, <1>4, <3>1, Update, Zenon DEF IInv, Types
  <2>8. pc' \in [Procs -> {"idle"} \cup WaitPc \cup SentPc]
    BY <1>1, ZenonT(40) DEF IInv, Types, SentPc
  <2> QED
    BY <1>2, <1>10, <2>1, <2>2, <2>4, <2>6, <2>7, <2>8, ZenonT(40) DEF IInv, Types
<1>13. Locking'
  <2>1. \A q \in Procs : lock' = q <=> pc'[q] \in {"publish", "notify", "check"}
    <3>1. \A q \in Procs : pc[q] \notin {"publish", "notify", "check"}
      BY <1>2, VirtioAssumption, Zenon DEF IInv, Locking
    <3> QED
      BY <1>1, <1>5, <3>1, Zenon
  <2>2. lock' # Intr /\ intr' # "loop"
    BY <1>1, <1>2, VirtioAssumption, Zenon DEF IInv, Locking
  <2> QED
    BY <2>1, <2>2, Zenon DEF Locking
<1>14. Callers'
  BY <1>2, <1>4, <1>5, VirtioAssumption DEF IInv, Callers
<1>15. Chains'
  <2>1. /\ desc'[i] = [more |-> 1, next |-> j] /\ desc'[j] = [more |-> 1, next |-> k]
        /\ desc'[k] = [more |-> 0, next |-> 0]
        /\ ops'[i] = [write |-> r.write, sector |-> r.b] /\ addr'[j] = r.b
        /\ info'[i] = [b |-> r.b, status |-> 255]
    <3>1. /\ desc \in [Descs -> [more : {0, 1}, next : Descs]] /\ DOMAIN ops = Descs
          /\ DOMAIN addr = Descs /\ DOMAIN info = Descs
      BY Zenon DEF IInv, Types
    <3> QED
      BY <1>1, <1>3, <3>1, ZenonT(30)
  <2>2. Linked(p)'
    <3>1. /\ req'[p].idx[1] = i /\ req'[p].idx[2] = j /\ req'[p].idx[3] = k
          /\ req'[p].write = r.write /\ req'[p].b = r.b
      BY <1>4, <1>8, Zenon
    <3>2. /\ desc'[i].more = 1 /\ desc'[i].next = j /\ desc'[j].more = 1 /\ desc'[j].next = k
          /\ desc'[k].more = 0 /\ ops'[i].write = r.write /\ ops'[i].sector = r.b /\ info'[i].b = r.b
      BY <2>1
    <3>3. i # j /\ i # k /\ j # k /\ addr'[j] = r.b
      BY <1>3, <2>1, ZenonT(40)
    <3> QED
      BY <3>1, <3>2, <3>3 DEF Linked
  <2>3. \A n \in Descs \ {i, j, k} : desc'[n] = desc[n] /\ ops'[n] = ops[n] /\ addr'[n] = addr[n] /\ info'[n] = info[n]
    BY <1>1, <1>3 DEF IInv, Types
  <2>4. ASSUME NEW q \in Sent PROVE Linked(q)'
    <3>1. \A n \in {1, 2, 3} : req[q].idx[n] \in Descs \ {i, j, k}
      <4>1. q \in Procs /\ Idx(q) \cap {i, j, k} = {}
        BY <1>6, <1>7, Zenon
      <4>2. req[q].idx[1] \in Descs /\ req[q].idx[2] \in Descs /\ req[q].idx[3] \in Descs
        BY <4>1, Ends, Zenon DEF IInv
      <4> QED
        BY <4>1, <4>2, Zenon DEF Idx
    <3>2. Linked(q) /\ req'[q] = req[q]
      BY <1>7, Zenon DEF IInv, Chains
    <3> QED
      BY <2>3, <3>1, <3>2, LinkedKept, Zenon
  <2>5. \A q \in Sent' : Linked(q)'
    BY <1>6, <2>2, <2>4, Zenon
  <2>6. ASSUME NEW q \in Sent', NEW t \in Sent', q # t PROVE Idx(q)' \cap Idx(t)' = {}
    <3>1. CASE q \in Sent /\ t \in Sent
      BY <1>7, <2>6, <3>1, ZenonT(40) DEF IInv, Chains
    <3>2. CASE q \notin Sent \/ t \notin Sent
      BY <1>6, <1>7, <1>8, <2>6, <3>2, Zenon
    <3> QED
      BY <3>1, <3>2, Zenon
  <2>7. \A n \in Descs : free'[n] = 0 <=> \E q \in Sent' : n \in Idx(q)'
    <3>1. \A n \in Descs : free'[n] = 0 <=> n \in {i, j, k} \/ free[n] = 0
      BY <1>1, Zenon
    <3>2. \A n \in Descs : free[n] = 0 <=> \E q \in Sent : n \in Idx(q)
      BY Zenon DEF IInv, Chains
    <3> QED
      BY <1>6, <1>7, <1>8, <3>1, <3>2
  <2> QED
    BY <2>5, <2>6, <2>7, ZenonT(40) DEF Chains
<1>16. \A q \in Procs : q # p /\ req[q].b # NoBuf => req[q].b \in Bufs /\ bdisk'[req[q].b] = bdisk[req[q].b]
  <2>1. \A q \in Procs : req[q].b \in Bufs \cup {NoBuf}
    BY Ends, ZenonT(40) DEF IInv
  <2>2. \A c \in Bufs : c # r.b => bdisk'[c] = bdisk[c]
    BY <1>1 DEF IInv, Types
  <2> QED
    BY <1>2, <2>1, <2>2, Zenon
<1>17. \A q \in Sent : req[q].b # NoBuf
  BY OneCaller, VirtioAssumption, Zenon
<1>18. Flight'
  <2>1. \A q \in Published' : req'[q].idx[1] \in OnTheWay' <=> bdisk'[req'[q].b] = 1
    <3> TAKE q \in Published'
    <3>1. q \in Published /\ q \in Procs /\ q # p /\ req'[q] = req[q] /\ req[q].b # NoBuf
      BY <1>6, <1>7, <1>17, Zenon
    <3>2. bdisk'[req[q].b] = bdisk[req[q].b]
      BY <1>16, <3>1, Zenon
    <3>3. req[q].idx[1] \in OnTheWay <=> bdisk[req[q].b] = 1
      BY <3>1, ZenonT(40) DEF IInv, Flight
    <3> QED
      BY <1>11, <3>1, <3>2, <3>3, Zenon
  <2>2. \A n \in OnTheWay' : \E q \in Published' : n = req'[q].idx[1]
    <3> TAKE n \in OnTheWay'
    <3>1. PICK q \in Published : n = req[q].idx[1]
      BY <1>11, Zenon DEF IInv, Flight
    <3> QED
      BY <1>6, <1>7, <3>1, Zenon
  <2>3. \A n \in Reports' : info'[n].status = 0
    <3>1. \A n \in Reports : n \in Descs /\ n # i
      BY <1>9, ZenonT(40) DEF OnTheWay
    <3>2. \A n \in Descs : n # i => info'[n] = info[n]
      BY <1>1 DEF IInv, Types
    <3> QED
      BY <1>11, <3>1, <3>2, Zenon DEF IInv, Flight
  <2>4. \A q \in Procs : pc'[q] = "publish" => bdisk'[req'[q].b] = 1 /\ avail'[avail_idx' % NUM] = req'[q].idx[1]
    <3>1. \A q \in Procs : pc'[q] = "publish" => q = p
      BY <1>2, <1>5, VirtioAssumption, Zenon DEF IInv, Locking
    <3>2. bdisk'[r.b] = 1
      BY <1>1, <1>2, Zenon DEF IInv, Types
    <3> QED
      BY <1>2, <1>4, <1>8, <1>10, <3>1, <3>2, Zenon
  <2>5. Waiting' \cap working' = {} /\ Waiting' \cap Reports' = {} /\ working' \cap Reports' = {}
    BY <1>2, <1>10, <1>11, Zenon DEF IInv, Flight
  <2> QED
    BY <1>10, <1>11, <2>1, <2>2, <2>3, <2>4, <2>5, Zenon DEF Flight
<1>19. Signals'
  <2>1. \A q \in Procs : pc[q] # "asleep_free" /\ pc'[q] # "asleep_free"
    <3>1. ~ (Cardinality(FreeDescs) < 3)
      <4>1. Cardinality(FreeDescs) \in Int
        BY FreeCount
      <4> QED
        <5>1. Cardinality(FreeDescs) >= 3
          BY <1>1, Zenon
        <5> QED
          BY <4>1, <5>1
    <3> QED
      <4>1. \A q \in Procs : pc[q] # "asleep_free"
        BY <3>1, Zenon DEF IInv, Signals
      <4> QED
        BY <1>5, <4>1, Zenon
  <2>2. \A q \in Procs : pc'[q] = "asleep_data" =>
          q # p /\ pc[q] = "asleep_data" /\ req'[q] = req[q] /\ req[q].b # NoBuf
    BY <1>5, Zenon DEF IInv, Callers
  <2>3. \A q \in Procs : pc'[q] = "asleep_data" => bdisk'[req'[q].b] = 1
    BY <1>16, <2>2, Zenon DEF IInv, Signals
  <2>4. \A q \in Procs : pc[q] = "notify" => pc'[q] = "notify"
    BY <1>2, <1>5, Zenon
  <2> QED
    BY <1>2, <1>10, <1>11, <2>1, <2>3, <2>4, ZenonT(40) DEF IInv, Signals
<1>20. Transfers'
  <2>1. \A q \in Procs : q # p /\ req[q].b # NoBuf => req'[q] = req[q] /\ data'[req[q].b] = data[req[q].b]
    BY <1>2, <1>5, <1>16, ZenonT(40)
  <2>2. \A q \in Procs : req'[q].b # NoBuf /\ req'[q].write = 1 => data'[req'[q].b] = req'[q].v
    BY <1>2, <1>4, <1>5, <1>8, <2>1 DEF IInv, Transfers
  <2>3. \A q \in Published' : req'[q].idx[1] \notin Waiting' \cup working' => Served(q)'
    <3> TAKE q \in Published'
    <3>1. q \in Published /\ q \in Procs /\ q # p /\ req'[q] = req[q] /\ req[q].b # NoBuf
      BY <1>6, <1>7, <1>17, Zenon
    <3> HAVE req'[q].idx[1] \notin Waiting' \cup working'
    <3>2. Served(q)
      BY <1>2, <1>10, <3>1, Zenon DEF IInv, Transfers
    <3>3. data'[req[q].b] = data[req[q].b] /\ sectors' = sectors
      BY <1>2, <2>1, <3>1, ZenonT(40)
    <3> QED
      BY <3>1, <3>2, <3>3, Zenon DEF Served
  <2> QED
    BY <2>2, <2>3, Zenon DEF Transfers
<1> QED
  BY <1>12, <1>13, <1>14, <1>15, <1>18, <1>19, <1>20, Zenon DEF IInv

\* Too few descriptors are free: the caller sleeps.
LEMMA ShortStep ==
  ASSUME IInv, NEW p \in Procs, NEW r, Calling(p, r), Short(p, r)
  PROVE  IInv'
<1>1. /\ Cardinality(FreeDescs) < 3
      /\ pc' = [(IF FreeDescs = {} THEN pc ELSE WakeFree(pc)) EXCEPT ![p] = "asleep_free"]
      /\ req' = [req EXCEPT ![p] = r]
      /\ UNCHANGED <<free, desc, ops, addr, info, bdisk, avail, lock>>
  BY Zenon DEF Short, chainVars
<1>2. /\ pc[p] \in {"idle", "woken_free"} /\ lock = NoProc
      /\ r \in Requests /\ r.b \in Bufs /\ \A q \in Procs : q # p => req[q].b # r.b
      /\ data' \in [Bufs -> Data] /\ \A c \in Bufs : c # r.b => data'[c] = data[c]
      /\ r.write = 1 => data'[r.b] = r.v
      /\ UNCHANGED <<avail_idx, used, used_top, used_idx, kicked, taken, working, sectors, owed, irq, intr, panic>>
  BY Zenon DEF Calling, devVars
<1>3. \A q \in Procs : /\ IF q = p THEN pc'[q] = "asleep_free"
                          ELSE \/ pc'[q] = pc[q]
                               \/ pc[q] = "asleep_free" /\ pc'[q] = "woken_free"
                       /\ req'[q] = IF q = p THEN r ELSE req[q]
  BY <1>1 DEF IInv, Types, WakeFree
<1>4. /\ p \notin Sent /\ Sent' = Sent /\ Published' = Published
      /\ Published \subseteq Sent /\ Sent \subseteq Procs
  BY <1>2, <1>3, Zenon DEF Sent, Published, SentPc
<1>5. \A q \in Sent : q # p /\ req'[q] = req[q] /\ req[q].b # NoBuf
  <2>1. \A q \in Sent : req[q].b # NoBuf
    BY OneCaller, VirtioAssumption, Zenon
  <2> QED
    BY <1>3, <1>4, <2>1, Zenon
<1>6. /\ Waiting' = Waiting /\ Reports' = Reports /\ OnTheWay' = OnTheWay /\ FreeDescs' = FreeDescs
      /\ Once(avail, taken, avail_idx)' /\ Once(used, used_idx, used_top)'
  <2>1. Waiting' = Waiting /\ Reports' = Reports /\ OnTheWay' = OnTheWay /\ FreeDescs' = FreeDescs
    BY <1>1, <1>2, ZenonT(40) DEF Waiting, Reports, Names, Dist, OnTheWay, FreeDescs
  <2>2. Once(avail, taken, avail_idx)' /\ Once(used, used_idx, used_top)'
    BY <1>1, <1>2 DEF IInv, Flight, Once, Dist
  <2> QED
    BY <2>1, <2>2, Zenon
<1>7. Types'
  <2>1. pc' \in [Procs -> {"idle"} \cup WaitPc \cup SentPc]
    BY <1>1, Zenon DEF IInv, Types, WakeFree, WaitPc
  <2>2. req' \in [Procs -> Requests]
    BY <1>1, <1>2, Update, Zenon DEF IInv, Types
  <2> QED
    BY <1>1, <1>2, <2>1, <2>2, Zenon DEF IInv, Types
<1>8. Locking'
  BY <1>1, <1>2, <1>3, VirtioAssumption, ZenonT(40) DEF IInv, Locking
<1>9. Callers'
  BY <1>2, <1>3, VirtioAssumption DEF IInv, Callers
<1>10. Chains'
  <2>1. \A q \in Sent : Linked(q)' /\ Idx(q)' = Idx(q)
    <3> TAKE q \in Sent
    <3>1. Linked(q) /\ req'[q] = req[q]
      BY <1>5, Zenon DEF IInv, Chains
    <3> QED
      BY <1>1, <3>1, LinkedKept, Zenon DEF Idx
  <2> QED
    BY <1>1, <1>4, <2>1 DEF IInv, Chains
<1>11. Flight'
  <2>1. \A q \in Published' : req'[q].idx[1] \in OnTheWay' <=> bdisk'[req'[q].b] = 1
    <3>1. \A q \in Published : req[q].idx[1] \in OnTheWay <=> bdisk[req[q].b] = 1
      BY Zenon DEF IInv, Flight
    <3>2. bdisk' = bdisk
      BY <1>1, Zenon
    <3> QED
      BY <1>4, <1>5, <1>6, <3>1, <3>2, Zenon
  <2>2. \A n \in OnTheWay' : \E q \in Published' : n = req'[q].idx[1]
    BY <1>4, <1>5, <1>6 DEF IInv, Flight
  <2>3. \A q \in Procs : pc'[q] # "publish"
    BY <1>2, <1>3, VirtioAssumption, Zenon DEF IInv, Locking
  <2> QED
    BY <1>1, <1>2, <1>6, <2>1, <2>2, <2>3, ZenonT(40) DEF IInv, Flight
<1>12. Signals'
  <2>1. \A q \in Procs : /\ pc'[q] = "asleep_data" => q # p /\ pc[q] = "asleep_data" /\ req'[q] = req[q]
                         /\ pc[q] = "notify" => pc'[q] = "notify"
    BY <1>2, <1>3, Zenon
  <2>2. \A q \in Procs : pc'[q] = "asleep_data" => bdisk'[req'[q].b] = 1
    <3>1. \A q \in Procs : pc[q] = "asleep_data" => bdisk[req[q].b] = 1
      BY Zenon DEF IInv, Signals
    <3>2. bdisk' = bdisk
      BY <1>1, Zenon
    <3> QED
      BY <2>1, <3>1, <3>2, Zenon
  <2>3. (Waiting' # {} => kicked' = 1 \/ \E q \in Procs : pc'[q] = "notify")
    BY <1>2, <1>6, <2>1, Zenon DEF IInv, Signals
  <2> QED
    BY <1>1, <1>2, <1>6, <2>2, <2>3, Zenon DEF IInv, Signals
<1>13. Transfers'
  <2>1. \A q \in Procs : q # p /\ req[q].b # NoBuf => req'[q] = req[q] /\ data'[req[q].b] = data[req[q].b]
    BY <1>2, <1>3, Ends, ZenonT(40) DEF IInv
  <2>2. \A q \in Procs : req'[q].b # NoBuf /\ req'[q].write = 1 => data'[req'[q].b] = req'[q].v
    BY <1>2, <1>3, <2>1 DEF IInv, Transfers
  <2>3. \A q \in Published' : req'[q].idx[1] \notin Waiting' \cup working' => Served(q)'
    <3> TAKE q \in Published'
    <3>1. q \in Published /\ q \in Procs /\ q # p /\ req'[q] = req[q] /\ req[q].b # NoBuf
      BY <1>4, <1>5, Zenon
    <3> HAVE req'[q].idx[1] \notin Waiting' \cup working'
    <3>2. Served(q)
      BY <1>2, <1>6, <3>1, Zenon DEF IInv, Transfers
    <3>3. data'[req[q].b] = data[req[q].b] /\ sectors' = sectors
      BY <1>2, <2>1, <3>1, Zenon
    <3> QED
      BY <3>1, <3>2, <3>3, Zenon DEF Served
  <2> QED
    BY <2>2, <2>3, Zenon DEF Transfers
<1> QED
  BY <1>7, <1>8, <1>9, <1>10, <1>11, <1>12, <1>13, Zenon DEF IInv

\* virtio_disk_rw up to the avail ring, or its sleep.
LEMMA CallStep ==
  ASSUME IInv, NEW p \in Procs, NEW b \in Bufs, NEW write \in {0, 1}, NEW v \in Data,
         virtio_disk_rw(p, b, write, v)
  PROVE  IInv'
<1> DEFINE r == [b |-> b, v |-> v, write |-> write, idx |-> <<0, 0, 0>>]
<1>1. /\ pc[p] = "idle" /\ lock = NoProc /\ \A q \in Procs : req[q].b # b
      /\ data' = [data EXCEPT ![b] = v] /\ (Submit(p, r) \/ Short(p, r))
      /\ UNCHANGED <<avail_idx, used, used_top, used_idx, devVars, intr, panic>>
  BY Zenon DEF virtio_disk_rw
<1>2. r \in Requests /\ r.b = b /\ r.v = v
  BY Sizes DEF Requests, Descs
<1> HIDE DEF r
<1>3. data' \in [Bufs -> Data] /\ data'[b] = v /\ \A c \in Bufs : c # b => data'[c] = data[c]
  BY <1>1 DEF IInv, Types
<1>4. Calling(p, r)
  BY <1>1, <1>2, <1>3, Zenon DEF Calling
<1> QED
  BY <1>1, <1>4, SubmitStep, ShortStep, Zenon

\* The same after that sleep, with the request it was called with.
LEMMA AgainStep == ASSUME IInv, NEW p \in Procs, rw_again(p) PROVE IInv'
<1>1. /\ pc[p] = "woken_free" /\ lock = NoProc /\ (Submit(p, req[p]) \/ Short(p, req[p]))
      /\ data' = data /\ UNCHANGED <<avail_idx, used, used_top, used_idx, devVars, intr, panic>>
  BY Zenon DEF rw_again
<1>2. req[p] \in Requests /\ req[p].b # NoBuf /\ data \in [Bufs -> Data]
  BY <1>1, Zenon DEF IInv, Types, Callers
<1>3. req[p].b \in Bufs /\ (\A q \in Procs : q # p => req[q].b # req[p].b)
  BY <1>2, Ends, Zenon DEF IInv, Callers
<1>4. req[p].write = 1 => data[req[p].b] = req[p].v
  BY <1>2, Zenon DEF IInv, Transfers
<1>5. Calling(p, req[p])
  BY <1>1, <1>2, <1>3, <1>4, Zenon DEF Calling
<1> QED
  BY <1>1, <1>5, SubmitStep, ShortStep, Zenon

(***************************************************************************)
(* The invariant is inductive, and what follows from it.                   *)
(***************************************************************************)
LEMMA StepIInv == IInv /\ [Next]_vars => IInv'
<1> SUFFICES ASSUME IInv, [Next]_vars PROVE IInv'
  OBVIOUS
<1>1. CASE UNCHANGED vars
  <2>1. /\ UNCHANGED <<free, chainVars, info, ringVars, bdisk, data, req, taken, working, sectors, panic,
                       pc, lock, kicked, owed, irq, intr>>
    BY <1>1, Zenon DEF vars, devVars
  <2>2. pc' \in [Procs -> {"idle"} \cup WaitPc \cup SentPc]
    BY <2>1, Zenon DEF IInv, Types
  <2>3. /\ Types' /\ Callers' /\ Chains' /\ Flight' /\ Transfers'
        /\ Waiting' = Waiting /\ Reports' = Reports /\ FreeDescs' = FreeDescs
    BY <2>1, <2>2, Quiet, Zenon
  <2>4. Locking' /\ Signals'
    BY <2>1, <2>3, Zenon DEF IInv, Locking, Signals
  <2> QED
    BY <2>3, <2>4, Zenon DEF IInv
<1>2. CASE Next
  <2>1. \/ \E p \in Procs :
             \/ \E b \in Bufs, write \in {0, 1}, v \in Data : virtio_disk_rw(p, b, write, v)
             \/ rw_again(p) \/ rw_publish(p) \/ rw_notify(p)
             \/ rw_sleep(p) \/ rw_woken(p) \/ rw_done(p)
        \/ device_take \/ \E i \in Descs : device_done(i)
        \/ device_idle \/ device_irq \/ virtio_disk_intr \/ intr_return
        \/ intr_one
    BY <1>2, Zenon DEF Next, Device
  <2> QED
    BY ZenonT(40), <2>1, CallStep, AgainStep, PublishStep, NotifyStep, SleepStep, WokenStep, DoneStep,
       TakeStep, FinishStep, SignalStep, ReportStep, Zenon
<1> QED
  BY <1>1, <1>2, Zenon

\* The inductive invariant holds throughout.
LEMMA Inductive == Spec => []IInv
  BY InitIInv, StepIInv, PTL DEF Spec

\* alloc3_desc and free_chain never panic, every descriptor that is not free is in
\* the chain of exactly one request under way, and every chain's three are not
\* free: none leaks and none is given to two requests, for any NUM, IDX, number of
\* processes and buffers.
THEOREM DescriptorsAreOwned == Spec => []DescOwnedOnce
<1>1. IInv => DescOwnedOnce
  <2> SUFFICES ASSUME IInv PROVE DescOwnedOnce
    OBVIOUS
  <2>1. panic = "none" /\ \A p, q \in Sent : p # q => Idx(p) \cap Idx(q) = {}
    BY Zenon DEF IInv, Types, Chains
  <2>2. \A i \in Descs : i \notin FreeDescs <=> \E p \in Sent : i \in Idx(p)
    BY DEF IInv, Types, Chains, FreeDescs
  <2>3. \A p \in Sent : Idx(p) \subseteq Descs
    BY Ends, Zenon DEF IInv, Sent, Idx
  <2>4. Descs \ FreeDescs = UNION {Idx(p) : p \in Sent}
    BY <2>2, <2>3, Zenon
  <2> QED
    BY <2>1, <2>4, Zenon DEF DescOwnedOnce
<1> QED
  BY <1>1, Inductive, PTL

\* virtio_disk_rw returns only from its test of b->disk.
LEMMA Returns ==
  ASSUME IInv, Next, NEW p \in Procs, pc[p] = "check", pc'[p] = "idle"
  PROVE  Finished(p)
<1>1. pc \in [Procs -> {"idle"} \cup WaitPc \cup SentPc]
  BY Zenon DEF IInv, Types
<1>2. (\A q \in Procs : WakeFree(pc)[q] = IF pc[q] = "asleep_free" THEN "woken_free" ELSE pc[q])
      /\ WakeFree(pc) \in [Procs -> {"idle"} \cup WaitPc \cup SentPc]
  BY <1>1, Zenon DEF WakeFree, WaitPc
<1>3. ASSUME NEW q \in Procs, pc' = [pc EXCEPT ![q] = "asleep_data"] \/ pc' = [pc EXCEPT ![q] = "notify"]
                             \/ pc' = [pc EXCEPT ![q] = "check"]
      PROVE  FALSE
  BY <1>1, <1>3, Zenon
<1>4. ASSUME NEW q \in Procs, NEW r, Submit(q, r) \/ Short(q, r) PROVE FALSE
  <2>1. \/ pc' = [pc EXCEPT ![q] = "publish"]
        \/ pc' = [(IF FreeDescs = {} THEN pc ELSE WakeFree(pc)) EXCEPT ![q] = "asleep_free"]
    BY <1>4, Zenon DEF Submit, Short, Goto
  <2> QED
    BY <1>1, <1>2, <2>1, Zenon
<1>5. ASSUME NEW q \in Procs, rw_done(q) PROVE Finished(p)
  <2>1. Finished(q) /\ (pc' = pc \/ pc' = [WakeFree(pc) EXCEPT ![q] = "idle"])
    BY <1>5, Zenon DEF rw_done
  <2>2. q = p
    BY <1>1, <1>2, <2>1, Zenon
  <2> QED
    BY <2>1, <2>2, Zenon
<1>6. pc' # pc
  OBVIOUS
<1>7. ~ intr_one
  <2> SUFFICES ASSUME intr_one PROVE FALSE
    OBVIOUS
  <2>1. \/ pc' = pc
        \/ pc' = [q \in Procs |-> IF pc[q] = "asleep_data" /\ req[q].b = info[Reported].b
                                   THEN "woken_data" ELSE pc[q]]
    BY Zenon DEF intr_one
  <2> QED
    BY <2>1, Zenon
<1>8. \/ \E q \in Procs :
           \/ \E b \in Bufs, write \in {0, 1}, v \in Data : virtio_disk_rw(q, b, write, v)
           \/ rw_again(q) \/ rw_publish(q) \/ rw_notify(q)
           \/ rw_sleep(q) \/ rw_woken(q) \/ rw_done(q)
      \/ device_take \/ (\E i \in Descs : device_done(i))
      \/ device_idle \/ device_irq \/ virtio_disk_intr \/ intr_return
      \/ intr_one
  BY Zenon DEF Next, Device
<1>9. \E q \in Procs :
           \/ \E b \in Bufs, write \in {0, 1}, v \in Data : virtio_disk_rw(q, b, write, v)
           \/ rw_again(q) \/ rw_publish(q) \/ rw_notify(q)
           \/ rw_sleep(q) \/ rw_woken(q) \/ rw_done(q)
  <2>1. ~ device_take /\ ~ (\E i \in Descs : device_done(i)) /\ ~ device_idle /\ ~ device_irq
    BY <1>6, Zenon DEF device_take, device_done, device_idle, device_irq
  <2>2. ~ virtio_disk_intr /\ ~ intr_return
    BY <1>6, Zenon DEF virtio_disk_intr, intr_return
  <2> QED
    BY <1>7, <1>8, <2>1, <2>2, Zenon
<1>10. ASSUME NEW q \in Procs, rw_publish(q) \/ rw_notify(q) \/ rw_sleep(q) \/ rw_woken(q) PROVE FALSE
  BY <1>3, <1>10, Zenon DEF rw_publish, rw_notify, rw_sleep, rw_woken, Goto
<1>11. ASSUME NEW q \in Procs,
              rw_again(q) \/ \E b \in Bufs, write \in {0, 1}, v \in Data : virtio_disk_rw(q, b, write, v)
       PROVE  FALSE
  BY <1>4, <1>11, Zenon DEF rw_again, virtio_disk_rw
<1> QED
  BY <1>5, <1>9, <1>10, <1>11, Zenon

\* When virtio_disk_rw returns, the device has transferred its block: the sector
\* holds what a write had in b->data, a read's b->data is what the sector holds.
THEOREM RequestsAreServed == Spec => RequestServed
<1> DEFINE Right(p) == LET r == req[p] IN
                       IF r.write = 1 THEN sectors[r.b] = r.v /\ data[r.b] = r.v
                       ELSE data[r.b] = sectors[r.b]
<1>1. IInv /\ [Next]_vars => [\A p \in Procs : pc[p] = "check" /\ pc'[p] = "idle" => Right(p)]_vars
  <2> SUFFICES ASSUME IInv, Next, NEW p \in Procs, pc[p] = "check", pc'[p] = "idle" PROVE Right(p)
    BY Zenon
  <2>1. Finished(p)
    BY Returns, Zenon
  <2>2. p \in Published /\ req[p].b # NoBuf
    BY Zenon DEF Published, Sent, SentPc, IInv, Callers
  <2>3. req[p].idx[1] \notin Waiting \cup working
    BY <2>1, <2>2, Zenon DEF IInv, Flight, Finished, OnTheWay
  <2>4. Served(p) /\ (req[p].write = 1 => data[req[p].b] = req[p].v)
    BY <2>2, <2>3, Zenon DEF IInv, Transfers
  <2> QED
    BY <2>4, Zenon DEF Served
<1> QED
  BY <1>1, Inductive, PTL DEF Spec, RequestServed

\* From the avail ring to the interrupt handler's clearing of b->disk a request is
\* in one place only, however the indices wrap, someone has been told of it, and
\* nobody sleeps for what has already happened (virtio_disk_rw, virtio_disk_intr).
THEOREM RequestsAreNotForgotten == Spec => []NotForgotten
<1>1. IInv => NotForgotten
  <2> SUFFICES ASSUME IInv PROVE NotForgotten
    OBVIOUS
  <2>1. (\E p \in Procs : pc[p] = "asleep_free") => Cardinality(FreeDescs) < 3
    BY Zenon DEF IInv, Signals
  <2>2. ASSUME NEW p \in Sent, pc[p] # "publish" PROVE
          LET i == req[p].idx[1]
              waiting == InRing(avail, taken, avail_idx, i)
              done == InRing(used, used_idx, used_top, i)
          IN
          /\ Cardinality(waiting) + Cardinality(working \cap {i}) + Cardinality(done)
               = bdisk[req[p].b]
          /\ waiting # {} => kicked = 1 \/ \E q \in Procs : pc[q] = "notify"
          /\ done # {} => owed = 1 \/ irq = 1 \/ intr = "loop"
          /\ pc[p] = "asleep_data" => ~Finished(p)
    <3> DEFINE i == req[p].idx[1]
               waiting == InRing(avail, taken, avail_idx, i)
               done == InRing(used, used_idx, used_top, i)
    <3>1. p \in Published /\ p \in Procs
      BY <2>2, Zenon DEF Published, Sent
    <3>2. /\ avail \in [Descs -> Descs] /\ used \in [Descs -> Descs]
          /\ avail_idx \in Index /\ taken \in Index /\ used_top \in Index /\ used_idx \in Index
          /\ Once(avail, taken, avail_idx) /\ Once(used, used_idx, used_top)
      BY Zenon DEF IInv, Types, Flight, Index
    <3>3. /\ Cardinality(waiting) = IF i \in Waiting THEN 1 ELSE 0
          /\ waiting # {} => i \in Waiting
      BY <3>2, InRingCount, Zenon DEF Waiting
    <3>4. /\ Cardinality(done) = IF i \in Reports THEN 1 ELSE 0
          /\ done # {} => i \in Reports
      BY <3>2, InRingCount, Zenon DEF Reports
    <3>5. Cardinality(working \cap {i}) = IF i \in working THEN 1 ELSE 0
      <4>1. CASE i \in working
        <5>1. working \cap {i} = {i}
          BY <4>1, Zenon
        <5> QED
          BY <4>1, <5>1, FS_Singleton, Zenon
      <4>2. CASE i \notin working
        <5>1. working \cap {i} = {}
          BY <4>2, Zenon
        <5> QED
          BY <4>2, <5>1, FS_EmptySet, Zenon
      <4> QED
        BY <4>1, <4>2, Zenon
    <3>6. /\ (i \in Waiting \cup working \cup Reports <=> bdisk[req[p].b] = 1)
          /\ ~ (i \in Waiting /\ i \in working) /\ ~ (i \in Waiting /\ i \in Reports)
          /\ ~ (i \in working /\ i \in Reports)
      BY <3>1, Zenon DEF IInv, Flight, OnTheWay
    <3>7. bdisk[req[p].b] \in {0, 1}
      <4>1. req[p].b \in Bufs
        BY <2>2, <3>1, Ends, OneCaller, VirtioAssumption, Zenon DEF IInv, Types
      <4> QED
        BY <4>1, Zenon DEF IInv, Types
    <3>8. /\ Waiting # {} => kicked = 1 \/ \E q \in Procs : pc[q] = "notify"
          /\ Reports # {} => owed = 1 \/ irq = 1 \/ intr = "loop"
          /\ pc[p] = "asleep_data" => ~Finished(p)
      BY <3>1, Zenon DEF IInv, Signals, Finished
    <3> HIDE DEF i, waiting, done
    <3>9. Cardinality(waiting) + Cardinality(working \cap {i}) + Cardinality(done) = bdisk[req[p].b]
      BY <3>3, <3>4, <3>5, <3>6, <3>7
    <3>10. /\ waiting # {} => kicked = 1 \/ \E q \in Procs : pc[q] = "notify"
           /\ done # {} => owed = 1 \/ irq = 1 \/ intr = "loop"
      BY <3>3, <3>4, <3>8, Zenon
    <3> QED
      BY <3>8, <3>9, <3>10, Zenon DEF i, waiting, done
  <2> QED
    BY <2>1, <2>2, Zenon DEF NotForgotten
<1> QED
  BY <1>1, Inductive, PTL
=============================================================================
