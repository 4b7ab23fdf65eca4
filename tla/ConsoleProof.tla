---------------------------- MODULE ConsoleProof ----------------------------
(***************************************************************************)
(* That the spin locks of the console and the UART keep interrupts off, so *)
(* that no panic of spinlock.c is reached, that the UART never has more    *)
(* than two bytes, that the two ring buffers hold what was typed and what  *)
(* was written, in order, and that nobody sleeps on what is there: for     *)
(* every size of the buffers and of a read, however the indices wrap.      *)
(***************************************************************************)
EXTENDS Console, Integers, TLAPS

USE SMTT(60)

(* Where a process holds no lock and waits for none.                       *)
IdlePc == {"user", "asleep", "runnable"}
ThPc == IdlePc \cup {"acquire", "locked", "start", "thr"}

(* The handler: with the lock cons, with tx, and elsewhere.                *)
ConsPc == {"edit", "echo", "sync", "store", "erased"}
TxPc == {"start", "thr"}
HdPc == ConsPc \cup TxPc \cup {"none", "getc", "complete", "consoleintr", "uartstart"}

TxState == [buf : [0..(UART_TX_BUF_SIZE - 1) -> Int], r : Nat, w : Nat]
HdState == [cpu : CPUs \cup {None}, pc : HdPc, c : Input \cup {None}, k : Int]
Cpu == [intr : {0, 1}, noff : Int, intena : {0, 1}]

TypeOK ==
  /\ th \in [CPUs -> [pc : ThPc, n : Int]]
  /\ hd \in HdState
  /\ cpu \in [CPUs -> Cpu]
  /\ lock \in [{"cons", "tx"} -> CPUs \cup {None}]
  /\ rx \in Input \cup {None}
  /\ thr \in Nat
  /\ tx \in TxState

(* How many push_offs of the handler are not yet popped.                   *)
Depth == IF hd.pc \in {"none", "getc", "complete"} THEN 0
         ELSE IF hd.pc = "sync" THEN 2 ELSE 1

(* The interrupt enable of a CPU tells what runs on it.                    *)
Enables ==
  \A c \in CPUs :
    /\ hd.cpu = c =>
         /\ th[c].pc \in IdlePc
         /\ cpu[c].intr = 0 /\ cpu[c].noff = Depth
         /\ cpu[c].noff > 0 => cpu[c].intena = 0
    /\ hd.cpu # c /\ th[c].pc \in IdlePc => cpu[c].intr = 1 /\ cpu[c].noff = 0
    /\ hd.cpu # c /\ th[c].pc \notin IdlePc =>
         cpu[c].intr = 0 /\ cpu[c].noff = 1 /\ cpu[c].intena = 1

(* Who holds the locks.                                                    *)
Holders ==
  /\ hd.cpu = None <=> hd.pc = "none"
  /\ th["reader"].pc \notin TxPc
  /\ lock["cons"] = IF th["reader"].pc = "locked" THEN "reader"
                    ELSE IF hd.pc \in ConsPc THEN hd.cpu ELSE None
  /\ lock["tx"] = IF th["writer"].pc \in {"locked"} \cup TxPc THEN "writer"
                  ELSE IF hd.pc \in TxPc THEN hd.cpu ELSE None
  /\ ~(th["reader"].pc = "locked" /\ hd.pc \in ConsPc)
  /\ ~(th["writer"].pc \in {"locked"} \cup TxPc /\ hd.pc \in TxPc)

(* Bytes that were let through while the UART was empty.                   *)
Pending == (IF th["writer"].pc = "thr" \/ hd.pc = "thr" THEN 1 ELSE 0)
           + (IF hd.pc = "sync" THEN 1 ELSE 0)

IInv == TypeOK /\ Enables /\ Holders /\ thr + Pending <= 2 /\ panic = "none"

(* The process of CPU c goes to l, and the other stays where it is.         *)
ThGoes(c, l) ==
  /\ th' \in [CPUs -> [pc : ThPc, n : Int]] /\ th'[c].pc = l
  /\ \A d \in CPUs : d # c => th'[d] = th[d]

(* Initially nothing runs in the kernel.                                   *)
LEMMA InitIInv == Init => IInv
<1> SUFFICES ASSUME Init PROVE IInv
  OBVIOUS
<1>1. TypeOK
  BY SizeAssumption, NoneAssumption
     DEF Init, TypeOK, NoHandler, CPUs, Cpu, TxState, HdState, ThPc, IdlePc, HdPc
<1>2. Enables
  BY NoneAssumption DEF Init, Enables, NoHandler, CPUs, IdlePc
<1>3. Holders
  BY NoneAssumption DEF Init, Holders, NoHandler, CPUs, ConsPc, TxPc
<1> QED
  BY <1>1, <1>2, <1>3 DEF Init, IInv, Pending, NoHandler, CPUs

(* The process of a CPU goes to l.                                         *)
LEMMA SetPc ==
  ASSUME TypeOK, NEW c \in CPUs, NEW l \in ThPc, th' = [th EXCEPT ![c].pc = l]
  PROVE  ThGoes(c, l)
  BY DEF TypeOK, ThGoes

(* The process of a CPU goes to l with a new count.                        *)
LEMMA SetTh ==
  ASSUME TypeOK, NEW c \in CPUs, NEW l \in ThPc, NEW m \in Int,
         th' = [th EXCEPT ![c] = [pc |-> l, n |-> m]]
  PROVE  ThGoes(c, l)
  BY DEF TypeOK, ThGoes

(* A byte taken from uart_tx_buf is a number.                              *)
LEMMA TxByte == ASSUME TypeOK PROVE tx.buf[tx.r % UART_TX_BUF_SIZE] \in Int
<1>1. tx.r \in Int /\ UART_TX_BUF_SIZE \in Nat \ {0} /\ tx.buf \in [0..(UART_TX_BUF_SIZE - 1) -> Int]
  BY SizeAssumption DEF TypeOK, TxState
<1>2. tx.r % UART_TX_BUF_SIZE \in 0..(UART_TX_BUF_SIZE - 1)
  BY <1>1
<1> QED
  BY <1>1, <1>2, Zenon

(* push_off and pop_off on a CPU whose interrupts were on, and in a        *)
(* handler, where they were off.                                           *)
LEMMA PushPop ==
  ASSUME NEW k \in Cpu
  PROVE  /\ push_off(k) \in Cpu /\ pop_off(k) \in Cpu
         /\ push_off(k).intr = 0 /\ push_off(k).noff = k.noff + 1
         /\ k.noff = 0 => push_off(k).intena = k.intr
         /\ k.noff # 0 => push_off(k).intena = k.intena
         /\ pop_off(k).noff = k.noff - 1 /\ pop_off(k).intena = k.intena
         /\ k.noff = 1 /\ k.intena = 1 => pop_off(k).intr = 1
         /\ k.intena = 0 => pop_off(k).intr = k.intr
  BY DEF Cpu, push_off, pop_off

(* What a step of the process on c, or of the handler on c, has to         *)
(* establish of the interrupt enables.                                     *)
LEMMA ProcEnables ==
  ASSUME TypeOK, Enables, NEW c \in CPUs, NEW l, ThGoes(c, l), hd' = hd, hd.cpu # c,
         NEW k, cpu' = [cpu EXCEPT ![c] = k],
         l \in IdlePc => k.intr = 1 /\ k.noff = 0,
         l \notin IdlePc => k.intr = 0 /\ k.noff = 1 /\ k.intena = 1
  PROVE  Enables'
  BY DEF TypeOK, Enables, Depth, ThGoes

(* The same for a step of the handler.                                     *)
LEMMA HandlerEnables ==
  ASSUME TypeOK, Enables, NEW c \in CPUs, hd.cpu = c, hd'.cpu = c,
         \A d \in CPUs : th'[d].pc \in IdlePc <=> th[d].pc \in IdlePc,
         NEW k, cpu' = [cpu EXCEPT ![c] = k],
         k.intr = 0, k.noff = Depth', k.noff > 0 => k.intena = 0
  PROVE  Enables'
  BY DEF TypeOK, Enables

(* The reader and the writer come for a lock.                              *)
LEMMA CallStep ==
  ASSUME IInv, NEW c \in CPUs, consoleread(c) \/ wakeReader(c) \/ consolewrite(c)
  PROVE  IInv'
<1> USE DEF IInv
<1>1. hd.cpu # c /\ th[c].pc \in IdlePc /\ lock \in [{"cons", "tx"} -> CPUs \cup {None}]
  BY DEF consoleread, wakeReader, consolewrite, At, IdlePc, TypeOK
<1>2. cpu[c] \in Cpu /\ cpu[c].intr = 1 /\ cpu[c].noff = 0
  BY <1>1 DEF Enables, TypeOK
<1> DEFINE k == push_off(cpu[c])
<1>3. /\ cpu' = [cpu EXCEPT ![c] = k] /\ k \in Cpu
      /\ k.intr = 0 /\ k.noff = 1 /\ k.intena = 1
  BY <1>2, PushPop DEF consoleread, wakeReader, consolewrite, acquire
<1> HIDE DEF k
<1>4. ThGoes(c, "acquire")
  BY SetPc, SetTh, SizeAssumption DEF consoleread, wakeReader, consolewrite, ThPc
<1>5. UNCHANGED <<hd, lock, thr, rx, tx>>
  BY DEF consoleread, wakeReader, consolewrite, device
<1>6. TypeOK'
  <2>1. cpu' \in [CPUs -> Cpu]
    BY <1>3 DEF TypeOK
  <2> QED
    BY <2>1, <1>4, <1>5 DEF TypeOK, ThGoes
<1>7. Enables'
  <2>1. "acquire" \notin IdlePc
    BY DEF IdlePc
  <2> QED
    BY <2>1, <1>1, <1>3, <1>4, <1>5, ProcEnables, Zenon
<1>8. Holders'
  BY <1>1, <1>4, <1>5 DEF Holders, ThGoes, CPUs, IdlePc, TxPc
<1>9. panic' = "none"
  BY <1>1, NoneAssumption DEF Holders, consoleread, wakeReader, consolewrite, acquire, CPUs, IdlePc, TxPc, ConsPc, Enables, Depth
<1>10. thr' + Pending' <= 2
  BY <1>1, <1>4, <1>5 DEF Pending, ThGoes, CPUs, IdlePc
<1> QED
  BY <1>6, <1>7, <1>8, <1>9, <1>10

(* A process gets its lock.                                                *)
LEMMA SwapStep ==
  ASSUME IInv, NEW c \in CPUs, readLock(c) \/ writeLock(c)
  PROVE  IInv'
<1> USE DEF IInv
<1>1. hd.cpu # c /\ th[c].pc = "acquire" /\ cpu' = cpu /\ panic' = panic
  BY DEF readLock, writeLock, At, swap
<1>2. UNCHANGED <<hd, thr, rx, tx>>
  BY DEF readLock, writeLock, device
<1>3. ThGoes(c, "locked")
  BY SetPc DEF readLock, writeLock, ThPc
<1>4. TypeOK'
  <2>1. lock' \in [{"cons", "tx"} -> CPUs \cup {None}]
    BY DEF TypeOK, readLock, writeLock, swap
  <2> QED
    BY <2>1, <1>1, <1>2, <1>3 DEF TypeOK, ThGoes
<1>5. Enables'
  <2>1. th[c].pc \notin IdlePc /\ "locked" \notin IdlePc
    BY <1>1 DEF IdlePc
  <2>2. cpu[c].intr = 0 /\ cpu[c].noff = 1 /\ cpu[c].intena = 1
    BY <2>1, <1>1 DEF Enables
  <2>3. cpu' = [cpu EXCEPT ![c] = cpu[c]]
    BY <1>1 DEF TypeOK
  <2> QED
    BY <2>1, <2>2, <2>3, <1>1, <1>2, <1>3, ProcEnables
<1>6. Holders'
  BY <1>1, <1>2, <1>3, NoneAssumption DEF TypeOK, Holders, ThGoes, CPUs, readLock, writeLock, swap, TxPc, ConsPc
<1>7. thr' + Pending' <= 2
  BY <1>1, <1>2, <1>3 DEF Pending, ThGoes, CPUs
<1> QED
  BY <1>1, <1>4, <1>5, <1>6, <1>7

(* The lock of the process on c.                                           *)
LockOf(c) == IF c = "reader" THEN "cons" ELSE "tx"

(* A process under its lock leaves the kernel or sleeps: readReturn, sleep *)
(* and the end of uartstart.                                               *)
LEMMA LeaveStep ==
  ASSUME IInv, NEW c \in CPUs, NEW l \in {"user", "asleep"}, ThGoes(c, l),
         hd.cpu # c, th[c].pc \in {"locked", "start"},
         release(c, LockOf(c)) \/ sleep(c, LockOf(c)), UNCHANGED <<hd, thr, rx>>,
         tx' \in TxState
  PROVE  IInv'
<1> USE DEF IInv
<1>1. th[c].pc \notin IdlePc /\ l \in IdlePc /\ th[c].pc # "thr" /\ l # "thr"
  BY DEF IdlePc
<1>2. cpu[c] \in Cpu /\ cpu[c].intr = 0 /\ cpu[c].noff = 1 /\ cpu[c].intena = 1
  BY <1>1 DEF Enables, TypeOK
<1>3. PICK k \in Cpu : cpu' = [cpu EXCEPT ![c] = k] /\ k.intr = 1 /\ k.noff = 0
  <2>1. CASE release(c, LockOf(c))
    <3> DEFINE k == pop_off(cpu[c])
    <3>1. k \in Cpu /\ cpu' = [cpu EXCEPT ![c] = k] /\ k.intr = 1 /\ k.noff = 0
      BY <2>1, <1>2, PushPop DEF release
    <3> HIDE DEF k
    <3> QED
      BY <3>1, Zenon
  <2>2. CASE sleep(c, LockOf(c))
    <3> DEFINE k == [intr |-> 1, noff |-> 0, intena |-> cpu[c].intena]
    <3>1. k \in Cpu /\ cpu' = [cpu EXCEPT ![c] = k] /\ k.intr = 1 /\ k.noff = 0
      BY <2>2, <1>2 DEF sleep, Cpu
    <3> HIDE DEF k
    <3> QED
      BY <3>1, Zenon
  <2> QED
    BY <2>1, <2>2
<1>4. lock' = [lock EXCEPT ![LockOf(c)] = None]
  BY DEF release, sleep
<1>5. lock[LockOf(c)] = c
  BY DEF Holders, LockOf, CPUs, TxPc
<1>6. panic' = "none"
  BY <1>2, <1>5 DEF release, sleep
<1>7. TypeOK'
  <2>1. cpu' \in [CPUs -> Cpu]
    BY <1>3 DEF TypeOK
  <2>2. lock' \in [{"cons", "tx"} -> CPUs \cup {None}]
    <3>1. LockOf(c) \in {"cons", "tx"}
      BY DEF LockOf
    <3> QED
      BY <3>1, <1>4 DEF TypeOK
  <2> QED
    BY <2>1, <2>2 DEF TypeOK, ThGoes
<1>8. Enables'
  BY <1>1, <1>3, ProcEnables, Zenon
<1>9. Holders'
  <2>1. CASE c = "reader"
    BY <2>1, <1>4 DEF Holders, TypeOK, ThGoes, LockOf, CPUs, TxPc
  <2>2. CASE c = "writer"
    BY <2>2, <1>4 DEF Holders, TypeOK, ThGoes, LockOf, CPUs, TxPc
  <2> QED
    BY <2>1, <2>2 DEF CPUs
<1>10. thr' + Pending' <= 2
  BY <1>1 DEF Pending, ThGoes, CPUs
<1> QED
  BY <1>6, <1>7, <1>8, <1>9, <1>10

(* A process goes on under its lock.                                       *)
LEMMA StayStep ==
  ASSUME IInv, NEW c \in CPUs, NEW l \in {"locked", "start", "thr"}, ThGoes(c, l),
         hd.cpu # c, th[c].pc \in {"locked", "start", "thr"},
         c = "reader" => l = "locked", UNCHANGED <<hd, rx, cpu, lock, panic>>,
         tx' \in TxState,
         \/ l # "thr" /\ thr' = thr /\ th[c].pc # "thr"
         \/ l = "thr" /\ thr = 0 /\ thr' = thr
         \/ l # "thr" /\ c = "writer" /\ th[c].pc = "thr" /\ thr' = thr + 1
  PROVE  IInv'
<1> USE DEF IInv
<1>1. th[c].pc \notin IdlePc /\ l \notin IdlePc
  BY DEF IdlePc
<1>2. TypeOK'
  BY DEF TypeOK, ThGoes
<1>3. Enables'
  <2>1. cpu[c].intr = 0 /\ cpu[c].noff = 1 /\ cpu[c].intena = 1
    BY <1>1 DEF Enables
  <2>2. cpu' = [cpu EXCEPT ![c] = cpu[c]]
    BY DEF TypeOK
  <2> QED
    BY <2>1, <2>2, <1>1, ProcEnables, Zenon
<1>4. Holders'
  <2>1. CASE c = "reader"
    BY <2>1 DEF Holders, ThGoes, CPUs, TxPc
  <2>2. CASE c = "writer"
    BY <2>2 DEF Holders, ThGoes, CPUs, TxPc
  <2> QED
    BY <2>1, <2>2 DEF CPUs
<1>5. thr' + Pending' <= 2
  BY DEF TypeOK, Holders, Pending, ThGoes, CPUs, TxPc
<1> QED
  BY <1>2, <1>3, <1>4, <1>5

(* What the invariant says while the handler runs on its CPU.              *)
LEMMA HandlerRuns ==
  ASSUME IInv, NEW c \in CPUs, hd.cpu = c
  PROVE  /\ c # None /\ hd.pc # "none" /\ th[c].pc \in IdlePc
         /\ cpu[c] \in Cpu /\ cpu[c].intr = 0 /\ cpu[c].noff = Depth
         /\ Depth > 0 => cpu[c].intena = 0
  BY NoneAssumption DEF IInv, TypeOK, HdState, Holders, Enables

(* A handler that runs has a CPU.                                          *)
LEMMA HandlerHasCpu == ASSUME IInv, hd.pc # "none" PROVE hd.cpu \in CPUs
  BY DEF IInv, TypeOK, HdState, Holders

(* The handler goes to l.                                                  *)
LEMMA HdGoes ==
  ASSUME TypeOK, NEW l \in HdPc, NEW x \in Input \cup {None}, NEW m \in Int,
         \/ hd' = [hd EXCEPT !.pc = l]
         \/ hd' = [hd EXCEPT !.pc = l, !.c = x]
         \/ hd' = [hd EXCEPT !.pc = l, !.k = m]
  PROVE  hd' \in HdState /\ hd'.cpu = hd.cpu /\ hd'.pc = l
<1>1. hd \in HdState
  BY DEF TypeOK
<1>2. CASE hd' = [hd EXCEPT !.pc = l]
  <2>1. hd' \in HdState
    BY <1>1, <1>2, Zenon DEF HdState
  <2>2. hd'.cpu = hd.cpu /\ hd'.pc = l
    BY <1>1, <1>2 DEF HdState
  <2> QED
    BY <2>1, <2>2
<1>3. CASE hd' = [hd EXCEPT !.pc = l, !.c = x]
  <2>1. hd' \in HdState
    BY <1>1, <1>3, Zenon DEF HdState
  <2>2. hd'.cpu = hd.cpu /\ hd'.pc = l
    BY <1>1, <1>3 DEF HdState
  <2> QED
    BY <2>1, <2>2
<1>4. CASE hd' = [hd EXCEPT !.pc = l, !.k = m]
  <2>1. hd' \in HdState
    BY <1>1, <1>4, Zenon DEF HdState
  <2>2. hd'.cpu = hd.cpu /\ hd'.pc = l
    BY <1>1, <1>4 DEF HdState
  <2> QED
    BY <2>1, <2>2
<1> QED
  BY <1>2, <1>3, <1>4, Zenon

(* The processes stay where they are, except that one may be woken.        *)
ThKeeps ==
  /\ th' \in [CPUs -> [pc : ThPc, n : Int]]
  /\ \A d \in CPUs : th'[d].pc = th[d].pc \/ (th[d].pc = "asleep" /\ th'[d].pc = "runnable")

(* A step that leaves the processes alone.                                 *)
LEMMA KeepTh == ASSUME IInv, th' = th PROVE ThKeeps
  BY DEF IInv, TypeOK, ThKeeps

(* wakeup moves a process from one idle place to another.                  *)
LEMMA WokenKeeps == ASSUME IInv, NEW c \in CPUs, th' = Woken(c, "runnable") PROVE ThKeeps
<1>1. CASE th[c].pc = "asleep"
  <2>1. TypeOK /\ "runnable" \in ThPc /\ th' = [th EXCEPT ![c].pc = "runnable"]
    BY <1>1 DEF Woken, IInv, ThPc, IdlePc
  <2>2. ThGoes(c, "runnable")
    BY <2>1, SetPc, Zenon
  <2> QED
    BY <1>1, <2>2 DEF ThGoes, ThKeeps
<1>2. CASE th[c].pc # "asleep"
  BY <1>2, KeepTh DEF Woken
<1> QED
  BY <1>1, <1>2

(* The locks after a step of the handler on c that leaves the processes.   *)
HandlerLocks(c) ==
  /\ lock' \in [{"cons", "tx"} -> CPUs \cup {None}]
  /\ lock'["cons"] = IF th["reader"].pc = "locked" THEN "reader"
                     ELSE IF hd'.pc \in ConsPc THEN c ELSE None
  /\ lock'["tx"] = IF th["writer"].pc \in {"locked"} \cup TxPc THEN "writer"
                   ELSE IF hd'.pc \in TxPc THEN c ELSE None
  /\ ~(th["reader"].pc = "locked" /\ hd'.pc \in ConsPc)
  /\ ~(th["writer"].pc \in {"locked"} \cup TxPc /\ hd'.pc \in TxPc)

(* A step of the handler, with the CPU left as k.                          *)
LEMMA HandlerStep ==
  ASSUME IInv, NEW c \in CPUs, hd.cpu = c, ThKeeps,
         hd' \in HdState,
         hd'.cpu = c, hd'.pc # "none",
         NEW k \in Cpu, cpu' = [cpu EXCEPT ![c] = k],
         k.intr = 0, k.noff = Depth', Depth' > 0 => k.intena = 0,
         HandlerLocks(c),
         rx' \in Input \cup {None}, thr' \in Nat, thr' + Pending' <= 2,
         tx' \in TxState,
         panic' = "none"
  PROVE  IInv'
<1>1. TypeOK'
  <2>1. cpu' \in [CPUs -> Cpu]
    BY DEF IInv, TypeOK
  <2> QED
    BY <2>1 DEF TypeOK, ThKeeps, HandlerLocks
<1>2. Enables'
  <2>1. \A d \in CPUs : th'[d].pc \in IdlePc <=> th[d].pc \in IdlePc
    BY DEF ThKeeps, IdlePc
  <2>2. TypeOK /\ Enables /\ (k.noff > 0 => k.intena = 0)
    BY DEF IInv
  <2> QED
    BY <2>1, <2>2, HandlerEnables, Zenon
<1>3. Holders'
  BY NoneAssumption DEF IInv, Holders, ThKeeps, HandlerLocks, CPUs, TxPc
<1> QED
  BY <1>1, <1>2, <1>3 DEF IInv

------------------------------------------------------------------------------
(* The steps of Console, one by one.                                       *)
LEMMA ExceptIn ==
  ASSUME NEW S, NEW f \in [S -> Int], NEW x, NEW v \in Int
  PROVE  [f EXCEPT ![x] = v] \in [S -> Int]
  BY Zenon

(* An index that wraps is a natural number.                                *)
LEMMA ModNat == ASSUME NEW a \in Nat, NEW b \in Nat \ {0} PROVE a % b \in Nat
  OBVIOUS

(* The places a process may go to.                                         *)
LEMMA Places ==
  /\ "user" \in ThPc /\ "asleep" \in ThPc /\ "start" \in ThPc /\ "thr" \in ThPc
  /\ 0 \in Int
  BY DEF ThPc, IdlePc

(* What is put into uart_tx_buf, or taken out of it, leaves its type.      *)
LEMMA TxKeeps ==
  ASSUME IInv,
         \/ tx' = [buf |-> [tx.buf EXCEPT ![tx.w % UART_TX_BUF_SIZE] = tx.w],
                   r |-> tx.r, w |-> (tx.w + 1) % TW]
         \/ tx' = [tx EXCEPT !.r = (@ + 1) % TW]
         \/ tx' = tx
  PROVE  tx' \in TxState
<1>1. TW \in Nat \ {0} /\ tx \in TxState
  BY SizeAssumption DEF IInv, TypeOK
<1>2. tx.r \in Nat /\ tx.w \in Nat /\ tx.buf \in [0..(UART_TX_BUF_SIZE - 1) -> Int]
  BY <1>1 DEF TxState
<1>3. tx.r + 1 \in Nat /\ tx.w + 1 \in Nat
  BY <1>2
<1>4. (tx.r + 1) % TW \in Nat /\ (tx.w + 1) % TW \in Nat
  BY <1>1, <1>3, ModNat, Zenon
<1> DEFINE b == [tx.buf EXCEPT ![tx.w % UART_TX_BUF_SIZE] = tx.w]
           m == (tx.r + 1) % TW
           n == (tx.w + 1) % TW
<1>5. b \in [0..(UART_TX_BUF_SIZE - 1) -> Int]
  <2>1. tx.w \in Int
    BY <1>2
  <2> QED
    BY <2>1, <1>2, ExceptIn, Zenon
<1>6. \/ tx' = [buf |-> b, r |-> tx.r, w |-> n]
      \/ tx' = [buf |-> tx.buf, r |-> m, w |-> tx.w]
      \/ tx' = tx
  BY <1>1 DEF TxState
<1>7. m \in Nat /\ n \in Nat
  BY <1>4
<1> HIDE DEF b, m, n
<1> QED
  BY <1>1, <1>2, <1>5, <1>6, <1>7 DEF TxState

(* One turn of the loop of consoleread.                                    *)
LEMMA ReadByteStep ==
  ASSUME IInv, NEW c \in CPUs, readByte(c)
  PROVE  IInv'
<1>1. /\ c = "reader" /\ hd.cpu # c /\ th[c].pc = "locked"
      /\ UNCHANGED <<tx, thr, rx, hd>>
  BY DEF readByte, At, device
<1>2. TypeOK /\ tx' \in TxState /\ LockOf(c) = "cons"
  BY <1>1, TxKeeps DEF IInv, LockOf
<1>3. CASE readReturn(c)
  <2>1. release(c, "cons") /\ th' = [th EXCEPT ![c] = [pc |-> "user", n |-> 0]]
    BY <1>3 DEF readReturn
  <2>2. ThGoes(c, "user")
    BY <2>1, <1>2, Places, SetTh, Zenon
  <2> QED
    BY <2>1, <2>2, <1>1, <1>2, LeaveStep
<1>4. CASE sleep(c, "cons") /\ th' = [th EXCEPT ![c].pc = "asleep"]
  <2>1. ThGoes(c, "asleep")
    BY <1>4, <1>2, Places, SetPc, Zenon
  <2> QED
    BY <2>1, <1>1, <1>2, <1>4, LeaveStep
<1>5. CASE /\ th' = [th EXCEPT ![c].n = th[c].n - 1]
           /\ UNCHANGED <<cpu, lock, panic>>
  <2>1. ThGoes(c, "locked")
    BY <1>1, <1>2, <1>5 DEF TypeOK, ThGoes
  <2> QED
    BY <2>1, <1>1, <1>2, <1>5, StayStep
<1> QED
  BY <1>3, <1>4, <1>5 DEF readByte

(* uartputc up to the call of uartstart.                                   *)
LEMMA PutcStep ==
  ASSUME IInv, NEW c \in CPUs, uartputc(c)
  PROVE  IInv'
<1>1. /\ c = "writer" /\ hd.cpu # c /\ th[c].pc = "locked" /\ UNCHANGED <<thr, rx, hd>>
  BY DEF uartputc, At, device
<1>2. TypeOK /\ LockOf(c) = "tx"
  BY <1>1 DEF IInv, LockOf
<1>3. tx' \in TxState
  BY TxKeeps DEF uartputc
<1>4. CASE sleep(c, "tx") /\ th' = [th EXCEPT ![c].pc = "asleep"]
  <2>1. ThGoes(c, "asleep")
    BY <1>4, <1>2, Places, SetPc, Zenon
  <2> QED
    BY <2>1, <1>1, <1>2, <1>3, <1>4, LeaveStep
<1>5. CASE th' = [th EXCEPT ![c].pc = "start"] /\ UNCHANGED <<cpu, lock, panic>>
  <2>1. ThGoes(c, "start")
    BY <1>5, <1>2, Places, SetPc, Zenon
  <2> QED
    BY <2>1, <1>1, <1>2, <1>3, <1>5, StayStep
<1> QED
  BY <1>4, <1>5 DEF uartputc

(* uartstart and WriteReg(THR, c), called by a process.                    *)
LEMMA ProcSendStep ==
  ASSUME IInv, NEW c \in CPUs, hd.cpu # c, uartstart(c) \/ WriteThr(c)
  PROVE  IInv'
<1>1. c = "writer" /\ UNCHANGED rx
  BY DEF uartstart, WriteThr, device
<1>2. TypeOK /\ LockOf(c) = "tx"
  BY <1>1 DEF IInv, LockOf
<1>3. tx' \in TxState
  BY TxKeeps DEF uartstart, WriteThr
<1>4. CASE uartstart(c) /\ TxNext
  <2>1. /\ th[c].pc = "start" /\ UNCHANGED <<thr, hd, cpu, lock, panic>> /\ thr = 0
        /\ th' = [th EXCEPT ![c] = [pc |-> "thr", n |-> tx.buf[tx.r % UART_TX_BUF_SIZE]]]
    BY <1>4 DEF uartstart, At, device, TxNext
  <2>2. ThGoes(c, "thr")
    BY <2>1, <1>2, Places, TxByte, SetTh, Zenon
  <2> QED
    BY <2>1, <2>2, <1>1, <1>2, <1>3, StayStep
<1>5. CASE uartstart(c) /\ ~TxNext
  <2>1. /\ th[c].pc = "start" /\ release(c, "tx") /\ UNCHANGED <<thr, hd>>
        /\ th' = [th EXCEPT ![c] = [pc |-> "user", n |-> 0]]
    BY <1>5 DEF uartstart, At, device
  <2>2. ThGoes(c, "user")
    BY <2>1, <1>2, Places, SetTh, Zenon
  <2> QED
    BY <2>1, <2>2, <1>1, <1>2, <1>3, LeaveStep
<1>6. CASE WriteThr(c)
  <2>1. /\ th[c].pc = "thr" /\ thr' = thr + 1 /\ UNCHANGED <<hd, cpu, lock, panic>>
        /\ th' = [th EXCEPT ![c] = [pc |-> "start", n |-> 0]]
    BY <1>6 DEF WriteThr, At
  <2>2. ThGoes(c, "start")
    BY <2>1, <1>2, Places, SetTh, Zenon
  <2> QED
    BY <2>1, <2>2, <1>1, <1>2, <1>3, StayStep
<1> QED
  BY <1>4, <1>5, <1>6

(* An interrupt is taken on a CPU that holds no lock, as it has interrupts *)
(* on.                                                                     *)
LEMMA InterruptStep ==
  ASSUME IInv, NEW c \in CPUs, devintr(c)
  PROVE  IInv'
<1>1. /\ hd.cpu = None /\ hd.pc = "none" /\ cpu[c].intr = 1 /\ None # c
      /\ hd' = [cpu |-> c, pc |-> "getc", c |-> None, k |-> 0]
      /\ cpu' = [cpu EXCEPT ![c].intr = 0]
      /\ UNCHANGED <<tx, thr, rx, lock, th, panic>>
  BY NoneAssumption DEF devintr, NoHandler
<1>2. TypeOK /\ Enables /\ Holders /\ thr + Pending <= 2 /\ panic = "none"
  BY DEF IInv
<1>3. th[c].pc \in IdlePc /\ cpu[c].noff = 0 /\ cpu[c] \in Cpu
  BY <1>1, <1>2 DEF Enables, TypeOK
<1>4. cpu'[c].intr = 0 /\ cpu'[c].noff = 0 /\ cpu' \in [CPUs -> Cpu] /\ \A d \in CPUs : d # c => cpu'[d] = cpu[d]
  BY <1>1, <1>2, <1>3 DEF TypeOK, Cpu
<1>5. /\ hd' \in HdState /\ hd'.cpu = c /\ hd'.pc = "getc"
  BY <1>1 DEF HdState, HdPc
<1>6. TypeOK'
  BY <1>1, <1>2, <1>4, <1>5 DEF TypeOK
<1>7. Enables'
  <2>1. Depth' = 0 /\ th' = th /\ hd'.cpu = c
    BY <1>1, <1>5 DEF Depth
  <2> QED
    BY <2>1, <1>1, <1>2, <1>3, <1>4, NoneAssumption DEF Enables
<1>8. Holders'
  BY <1>1, <1>2, <1>5 DEF Holders, ConsPc, TxPc
<1>9. thr' + Pending' <= 2
  BY <1>1, <1>2, <1>5 DEF Pending
<1> QED
  BY <1>1, <1>2, <1>6, <1>7, <1>8, <1>9 DEF IInv

(* plic_complete leaves the CPU as the interrupt found it.                 *)
LEMMA CompleteStep ==
  ASSUME IInv, NEW c \in CPUs, hd.cpu = c, plic_complete
  PROVE  IInv'
<1>1. /\ hd.pc = "complete" /\ cpu' = [cpu EXCEPT ![c].intr = 1]
      /\ hd' = [cpu |-> None, pc |-> "none", c |-> None, k |-> 0]
      /\ UNCHANGED <<tx, thr, rx, lock, th, panic>>
  BY DEF plic_complete, NoHandler, device
<1>2. TypeOK /\ Enables /\ Holders /\ thr + Pending <= 2 /\ panic = "none"
  BY DEF IInv
<1>3. /\ c # None /\ th[c].pc \in IdlePc /\ cpu[c] \in Cpu
      /\ cpu[c].noff = 0
  BY <1>1, HandlerRuns DEF Depth
<1>4. cpu'[c].intr = 1 /\ cpu'[c].noff = 0 /\ cpu' \in [CPUs -> Cpu] /\ \A d \in CPUs : d # c => cpu'[d] = cpu[d]
  BY <1>1, <1>2, <1>3 DEF TypeOK, Cpu
<1>5. /\ hd' \in HdState /\ hd'.cpu = None /\ hd'.pc = "none"
  BY <1>1 DEF HdState, HdPc
<1>6. TypeOK'
  BY <1>1, <1>2, <1>4, <1>5 DEF TypeOK
<1>7. Enables'
  BY <1>1, <1>2, <1>3, <1>4, <1>5, NoneAssumption DEF Enables, Depth
<1>8. Holders'
  BY <1>1, <1>2, <1>5 DEF Holders, ConsPc, TxPc
<1>9. thr' + Pending' <= 2
  BY <1>1, <1>2, <1>5 DEF Pending
<1> QED
  BY <1>1, <1>2, <1>6, <1>7, <1>8, <1>9 DEF IInv

(* uartintr asks for a lock that the process under it does not hold.       *)
LEMMA GetcStep ==
  ASSUME IInv, NEW c \in CPUs, hd.cpu = c, uartintr
  PROVE  IInv'
<1> DEFINE k == push_off(cpu[c])
           l == IF rx # None THEN "consoleintr" ELSE "uartstart"
<1>1. /\ hd.pc = "getc" /\ hd' = [hd EXCEPT !.pc = l, !.c = rx] /\ rx' = None
      /\ cpu' = [cpu EXCEPT ![c] = k]
      /\ panic' = IF lock[IF rx # None THEN "cons" ELSE "tx"] = c THEN "acquire" ELSE "none"
      /\ UNCHANGED <<tx, thr, lock, th>>
  BY DEF uartintr, acquire
<1>2. TypeOK /\ Enables /\ Holders /\ thr + Pending <= 2
  BY DEF IInv
<1>3. /\ c # None /\ th[c].pc \in IdlePc /\ cpu[c] \in Cpu
      /\ cpu[c].intr = 0 /\ cpu[c].noff = 0
  BY <1>1, HandlerRuns DEF Depth
<1>4. k \in Cpu /\ k.intr = 0 /\ k.noff = 1 /\ k.intena = 0
  BY <1>3, PushPop
<1>5. l \in HdPc /\ l \notin ConsPc \cup TxPc \cup {"none", "getc", "complete", "sync", "thr"}
  BY DEF HdPc, ConsPc, TxPc
<1> HIDE DEF l, k
<1>6. hd' \in HdState /\ hd'.cpu = c /\ hd'.pc = l
  <2>1. rx \in Input \cup {None} /\ 0 \in Int
    BY <1>2 DEF TypeOK
  <2> QED
    BY <2>1, <1>1, <1>2, <1>5, HdGoes, Zenon
<1>7. panic' = "none"
  BY <1>1, <1>2, <1>3 DEF Holders, CPUs, IdlePc, ConsPc, TxPc
<1>8. Depth' = 1
  BY <1>5, <1>6 DEF Depth
<1>9. thr' + Pending' <= 2
  BY <1>1, <1>2, <1>5, <1>6 DEF Pending
<1>10. ThKeeps /\ thr' \in Nat /\ tx' \in TxState /\ rx' \in Input \cup {None}
  BY <1>1, <1>2, KeepTh DEF TypeOK
<1>11. HandlerLocks(c)
  BY <1>1, <1>2, <1>5, <1>6 DEF TypeOK, Holders, HandlerLocks, ConsPc, TxPc
<1>12. hd'.pc # "none" /\ k.noff = Depth'
  BY <1>4, <1>5, <1>6, <1>8
<1> QED
  BY <1>1, <1>4, <1>6, <1>7, <1>9, <1>10, <1>11, <1>12, HandlerStep, Zenon

(* The handler gets its lock.                                              *)
LEMMA SwapHandlerStep ==
  ASSUME IInv, NEW c \in CPUs, hd.cpu = c, handlerLock
  PROVE  IInv'
<1> DEFINE a == IF hd.pc = "consoleintr" THEN "cons" ELSE "tx"
           l == IF hd.pc = "consoleintr" THEN "edit" ELSE "start"
<1>1. /\ hd.pc \in {"consoleintr", "uartstart"} /\ hd' = [hd EXCEPT !.pc = l]
      /\ lock[a] = None /\ lock' = [lock EXCEPT ![a] = c]
      /\ UNCHANGED <<tx, thr, rx, cpu, th, panic>>
  BY DEF handlerLock, swap, device
<1>2. TypeOK /\ Enables /\ Holders /\ thr + Pending <= 2 /\ panic = "none"
  BY DEF IInv
<1>3. l \in HdPc /\ l # "none"
  BY DEF HdPc, ConsPc, TxPc
<1>4. hd' \in HdState /\ hd'.cpu = c /\ hd'.pc = l
  <2>1. None \in Input \cup {None} /\ 0 \in Int
    OBVIOUS
  <2> QED
    BY <2>1, <1>1, <1>2, <1>3, HdGoes, Zenon
<1>5. cpu[c] \in Cpu /\ cpu[c].intr = 0 /\ cpu[c].noff = 1 /\ cpu[c].intena = 0
  BY <1>1, HandlerRuns DEF Depth
<1>6. Depth' = 1
  BY <1>4 DEF Depth
<1>7. thr' + Pending' <= 2
  BY <1>1, <1>2, <1>4 DEF Pending
<1>8. ThKeeps /\ thr' \in Nat /\ tx' \in TxState /\ rx' \in Input \cup {None}
  BY <1>1, <1>2, KeepTh DEF TypeOK
<1>9. HandlerLocks(c)
  <2>1. lock' \in [{"cons", "tx"} -> CPUs \cup {None}]
    BY <1>1, <1>2 DEF TypeOK
  <2>2. CASE hd.pc = "consoleintr"
    BY <2>1, <2>2, <1>1, <1>2, <1>4, NoneAssumption DEF TypeOK, Holders, HandlerLocks, ConsPc, TxPc, CPUs
  <2>3. CASE hd.pc = "uartstart"
    BY <2>1, <2>3, <1>1, <1>2, <1>4, NoneAssumption DEF TypeOK, Holders, HandlerLocks, ConsPc, TxPc, CPUs
  <2> QED
    BY <2>2, <2>3, <1>1
<1>10. /\ hd'.pc # "none" /\ cpu[c].noff = Depth' /\ cpu' = [cpu EXCEPT ![c] = cpu[c]]
       /\ panic' = "none"
  BY <1>1, <1>2, <1>3, <1>4, <1>5, <1>6 DEF TypeOK
<1> QED
  BY <1>4, <1>5, <1>7, <1>8, <1>9, <1>10, HandlerStep, Zenon

(* The handler goes on under its lock.                                     *)
LEMMA HandlerStays ==
  ASSUME IInv, NEW c \in CPUs, hd.cpu = c, ThKeeps, UNCHANGED <<rx, cpu, lock, panic>>,
         hd' \in HdState, hd'.cpu = c, tx' \in TxState,
         \/ hd.pc = "edit" /\ hd'.pc = "echo" /\ thr' = thr
         \/ hd.pc = "start" /\ hd'.pc = "thr" /\ thr' = thr /\ thr = 0
         \/ hd.pc = "thr" /\ hd'.pc = "start" /\ thr' = thr + 1
  PROVE  IInv'
<1>1. TypeOK /\ Enables /\ Holders /\ thr + Pending <= 2 /\ panic = "none"
  BY DEF IInv
<1>2. /\ cpu[c] \in Cpu /\ cpu[c].intr = 0 /\ cpu[c].noff = 1 /\ cpu[c].intena = 0
      /\ cpu' = [cpu EXCEPT ![c] = cpu[c]]
  BY <1>1, HandlerRuns DEF Depth, TypeOK
<1>3. Depth' = 1 /\ hd'.pc # "none" /\ cpu[c].noff = Depth'
  BY <1>2 DEF Depth
<1>4. thr' \in Nat /\ thr' + Pending' <= 2
  BY <1>1 DEF TypeOK, Holders, Pending, ThKeeps, CPUs, TxPc
<1>5. HandlerLocks(c)
  BY <1>1 DEF TypeOK, Holders, HandlerLocks, ConsPc, TxPc
<1>6. panic' = "none" /\ rx' \in Input \cup {None}
  BY <1>1 DEF TypeOK
<1> QED
  BY <1>2, <1>3, <1>4, <1>5, <1>6, HandlerStep, Zenon

(* The handler gives its lock up.                                          *)
LEMMA HandlerReleases ==
  ASSUME IInv, NEW c \in CPUs, hd.cpu = c, ThKeeps, UNCHANGED <<rx, tx, thr>>,
         hd' \in HdState, hd'.cpu = c,
         \/ /\ hd.pc \in {"edit", "store", "erased"} /\ hd'.pc = "getc" /\ release(c, "cons")
         \/ /\ hd.pc = "start" /\ hd'.pc = "complete" /\ release(c, "tx")
  PROVE  IInv'
<1>1. TypeOK /\ Enables /\ Holders /\ thr + Pending <= 2 /\ panic = "none"
  BY DEF IInv
<1>2. cpu[c] \in Cpu /\ cpu[c].intr = 0 /\ cpu[c].noff = 1 /\ cpu[c].intena = 0
  BY <1>1, HandlerRuns DEF Depth
<1> DEFINE k == pop_off(cpu[c])
<1>3. k \in Cpu /\ k.intr = 0 /\ k.noff = 0 /\ k.intena = 0 /\ cpu' = [cpu EXCEPT ![c] = k]
  BY <1>2, PushPop DEF release
<1> HIDE DEF k
<1>4. hd'.pc # "none" /\ Depth' = 0 /\ k.noff = Depth'
  BY <1>3 DEF Depth
<1>5. thr' \in Nat /\ thr' + Pending' <= 2
  BY <1>1 DEF TypeOK, Pending, ThKeeps, CPUs
<1>6. HandlerLocks(c) /\ panic' = "none"
  <2>1. CASE hd'.pc = "getc"
    BY <2>1, <1>1, <1>2, NoneAssumption DEF release, TypeOK, Holders, HandlerLocks, ConsPc, TxPc
  <2>2. CASE hd'.pc = "complete"
    BY <2>2, <1>1, <1>2, NoneAssumption DEF release, TypeOK, Holders, HandlerLocks, ConsPc, TxPc
  <2> QED
    BY <2>1, <2>2
<1>7. rx' \in Input \cup {None} /\ tx' \in TxState
  BY <1>1 DEF TypeOK
<1> QED
  BY <1>3, <1>4, <1>5, <1>6, <1>7, HandlerStep, Zenon

(* Places of the handler.                                                  *)
LEMMA HdPlaces ==
  /\ "getc" \in HdPc /\ "echo" \in HdPc /\ "sync" \in HdPc /\ "edit" \in HdPc /\ "erased" \in HdPc
  /\ "store" \in HdPc /\ "start" \in HdPc /\ "thr" \in HdPc /\ "complete" \in HdPc
  /\ 0 \in Int /\ 1 \in Int /\ 3 \in Int /\ None \in Input \cup {None}
  BY DEF HdPc, ConsPc, TxPc

(* The switch of consoleintr.                                              *)
LEMMA EditStep ==
  ASSUME IInv, NEW c \in CPUs, hd.cpu = c, consoleintr
  PROVE  IInv'
<1>1. /\ hd.pc = "edit" /\ UNCHANGED <<tx, thr, rx, th>>
  BY DEF consoleintr, device
<1>2. TypeOK /\ tx' \in TxState /\ ThKeeps
  BY <1>1, KeepTh DEF IInv, TypeOK
<1>3. ASSUME NEW m \in Int, hd' = [hd EXCEPT !.pc = "echo", !.k = m], UNCHANGED <<cpu, lock, panic>>
      PROVE  IInv'
  <2>1. hd' \in HdState /\ hd'.cpu = c /\ hd'.pc = "echo"
    BY <1>2, <1>3, HdPlaces, HdGoes, Zenon
  <2> QED
    BY <2>1, <1>1, <1>2, <1>3, HandlerStays
<1>4. CASE hd' = [hd EXCEPT !.pc = "getc", !.c = None] /\ release(c, "cons")
  <2>1. hd' \in HdState /\ hd'.cpu = c /\ hd'.pc = "getc"
    BY <1>2, <1>4, HdPlaces, HdGoes, Zenon
  <2> QED
    BY <2>1, <1>1, <1>2, <1>4, HandlerReleases
<1>5. \/ hd' = [hd EXCEPT !.pc = "echo", !.k = 3] /\ UNCHANGED <<cpu, lock, panic>>
      \/ hd' = [hd EXCEPT !.pc = "echo", !.k = 1] /\ UNCHANGED <<cpu, lock, panic>>
      \/ hd' = [hd EXCEPT !.pc = "getc", !.c = None] /\ release(c, "cons")
  BY Zenon DEF consoleintr
<1> QED
  BY <1>3, <1>4, <1>5, HdPlaces, Zenon

(* store gives the lock up; it may wake the reader.                        *)
LEMMA StoreStep ==
  ASSUME IInv, NEW c \in CPUs, hd.cpu = c, store
  PROVE  IInv'
<1>1. /\ hd.pc \in {"store", "erased"} /\ release(c, "cons") /\ UNCHANGED <<tx, thr, rx>>
      /\ hd' = [hd EXCEPT !.pc = "getc", !.c = None]
      /\ th' = th \/ th' = Woken("reader", "runnable")
  BY DEF store, device
<1>2. TypeOK /\ "reader" \in CPUs
  BY DEF IInv, CPUs
<1>3. hd' \in HdState /\ hd'.cpu = c /\ hd'.pc = "getc"
  BY <1>1, <1>2, HdPlaces, HdGoes, Zenon
<1>4. ThKeeps
  BY <1>1, <1>2, KeepTh, WokenKeeps
<1> QED
  BY <1>1, <1>3, <1>4, HandlerReleases

(* uartstart and WriteReg(THR, c), called by the handler.                  *)
LEMMA HandlerSendStep ==
  ASSUME IInv, NEW c \in CPUs, hd.cpu = c, uartstart(c) \/ WriteThr(c)
  PROVE  IInv'
<1>1. TypeOK /\ "writer" \in CPUs
  BY DEF IInv, CPUs
<1>2. tx' \in TxState
  BY TxKeeps DEF uartstart, WriteThr
<1>3. CASE uartstart(c) /\ TxNext
  <2>1. /\ hd.pc = "start" /\ thr = 0 /\ UNCHANGED <<thr, rx, cpu, lock, panic>>
        /\ hd' = [hd EXCEPT !.pc = "thr", !.k = tx.buf[tx.r % UART_TX_BUF_SIZE]]
        /\ th' = Woken("writer", "runnable")
    BY <1>3 DEF uartstart, device, TxNext
  <2>2. hd' \in HdState /\ hd'.cpu = c /\ hd'.pc = "thr"
    BY <2>1, <1>1, TxByte, HdPlaces, HdGoes, Zenon
  <2>3. ThKeeps
    BY <2>1, <1>1, WokenKeeps
  <2> QED
    BY <2>1, <2>2, <2>3, <1>2, HandlerStays
<1>4. CASE uartstart(c) /\ ~TxNext
  <2>1. /\ hd.pc = "start" /\ release(c, "tx") /\ UNCHANGED <<thr, rx, tx, th>>
        /\ hd' = [hd EXCEPT !.pc = "complete"]
    BY <1>4 DEF uartstart, device
  <2>2. hd' \in HdState /\ hd'.cpu = c /\ hd'.pc = "complete"
    BY <2>1, <1>1, HdPlaces, HdGoes, Zenon
  <2>3. ThKeeps
    BY <2>1, KeepTh
  <2> QED
    BY <2>1, <2>2, <2>3, HandlerReleases
<1>5. CASE WriteThr(c)
  <2>1. /\ hd.pc = "thr" /\ thr' = thr + 1 /\ UNCHANGED <<rx, cpu, lock, panic, th>>
        /\ hd' = [hd EXCEPT !.pc = "start", !.k = 0]
    BY <1>5 DEF WriteThr
  <2>2. hd' \in HdState /\ hd'.cpu = c /\ hd'.pc = "start"
    BY <2>1, <1>1, HdPlaces, HdGoes, Zenon
  <2>3. ThKeeps
    BY <2>1, KeepTh
  <2> QED
    BY <2>1, <2>2, <2>3, <1>2, HandlerStays
<1> QED
  BY <1>3, <1>4, <1>5

(* uartputc_sync turns interrupts off once more, and back as they were.    *)
LEMMA SyncStep ==
  ASSUME IInv, NEW c \in CPUs, hd.cpu = c, uartputc_sync \/ syncWrite
  PROVE  IInv'
<1>1. /\ UNCHANGED <<tx, rx, lock, th, panic>>
  BY DEF uartputc_sync, syncWrite, device
<1>2. TypeOK /\ Enables /\ Holders /\ thr + Pending <= 2 /\ panic = "none"
  BY DEF IInv
<1>3. ThKeeps /\ tx' \in TxState /\ rx' \in Input \cup {None} /\ panic' = "none"
  BY <1>1, <1>2, KeepTh DEF TypeOK
<1>4. CASE uartputc_sync
  <2> DEFINE k == push_off(cpu[c])
  <2>1. /\ hd.pc = "echo" /\ thr = 0 /\ thr' = thr /\ hd' = [hd EXCEPT !.pc = "sync"]
        /\ cpu' = [cpu EXCEPT ![c] = k]
    BY <1>4 DEF uartputc_sync, device
  <2>2. hd' \in HdState /\ hd'.cpu = c /\ hd'.pc = "sync"
    BY <2>1, <1>2, HdPlaces, HdGoes, Zenon
  <2>3. cpu[c] \in Cpu /\ cpu[c].intr = 0 /\ cpu[c].noff = 1 /\ cpu[c].intena = 0
    BY <2>1, HandlerRuns DEF Depth
  <2>4. k \in Cpu /\ k.intr = 0 /\ k.noff = 2 /\ k.intena = 0
    BY <2>3, PushPop
  <2> HIDE DEF k
  <2>5. hd'.pc # "none" /\ k.noff = Depth'
    BY <2>2, <2>4 DEF Depth
  <2>6. thr' \in Nat /\ thr' + Pending' <= 2
    BY <2>1, <2>2, <1>1, <1>2 DEF TypeOK, Pending
  <2>7. HandlerLocks(c)
    BY <2>1, <2>2, <1>1, <1>2 DEF TypeOK, Holders, HandlerLocks, ConsPc, TxPc
  <2> QED
    BY <2>1, <2>2, <2>4, <2>5, <2>6, <2>7, <1>3, HandlerStep, Zenon
<1>5. CASE syncWrite
  <2> DEFINE k == pop_off(cpu[c])
             l == IF hd.k > 1 THEN "echo" ELSE IF hd.c = "ctrlU" THEN "edit"
                  ELSE IF hd.c = "ctrlH" THEN "erased" ELSE "store"
  <2>1. /\ hd.pc = "sync" /\ thr' = thr + 1 /\ hd' = [hd EXCEPT !.pc = l, !.k = hd.k - 1]
        /\ cpu' = [cpu EXCEPT ![c] = k]
    BY <1>5 DEF syncWrite
  <2>2. l \in HdPc /\ l \in {"echo", "edit", "erased", "store"}
    BY HdPlaces
  <2>3. cpu[c] \in Cpu /\ cpu[c].intr = 0 /\ cpu[c].noff = 2 /\ cpu[c].intena = 0
    BY <2>1, HandlerRuns DEF Depth
  <2>4. k \in Cpu /\ k.intr = 0 /\ k.noff = 1 /\ k.intena = 0
    BY <2>3, PushPop
  <2> HIDE DEF k, l
  <2>5. hd' \in HdState /\ hd'.cpu = c /\ hd'.pc = l
    <3>1. hd.k - 1 \in Int
      BY <1>2 DEF TypeOK, HdState
    <3> QED
      BY <3>1, <2>1, <2>2, <1>2, HdPlaces, HdGoes, Zenon
  <2>6. hd'.pc # "none" /\ k.noff = Depth'
    BY <2>2, <2>4, <2>5 DEF Depth
  <2>7. thr' \in Nat /\ thr' + Pending' <= 2
    BY <2>1, <2>2, <2>5, <1>1, <1>2 DEF TypeOK, Pending
  <2>8. HandlerLocks(c)
    BY <2>1, <2>2, <2>5, <1>1, <1>2 DEF TypeOK, Holders, HandlerLocks, ConsPc, TxPc
  <2> QED
    BY <2>1, <2>4, <2>5, <2>6, <2>7, <2>8, <1>3, HandlerStep, Zenon
<1> QED
  BY <1>4, <1>5

(* kill wakes a process that holds no lock.                                *)
LEMMA KillStep == ASSUME IInv, NEW c \in CPUs, kill(c) PROVE IInv'
<1>1. ThKeeps /\ UNCHANGED <<tx, thr, rx, cpu, lock, hd, panic>>
  BY WokenKeeps DEF kill, device
<1>2. TypeOK /\ Enables /\ Holders /\ thr + Pending <= 2 /\ panic = "none"
  BY DEF IInv
<1>3. TypeOK'
  BY <1>1, <1>2 DEF TypeOK, ThKeeps
<1>4. Enables'
  <2>1. \A d \in CPUs : th'[d].pc \in IdlePc <=> th[d].pc \in IdlePc
    BY <1>1 DEF ThKeeps, IdlePc
  <2> QED
    BY <2>1, <1>1, <1>2 DEF Enables, Depth
<1>5. Holders'
  BY <1>1, <1>2 DEF Holders, ThKeeps, CPUs, TxPc
<1>6. Pending' = Pending
  BY <1>1 DEF Pending, ThKeeps, CPUs
<1> QED
  BY <1>1, <1>2, <1>3, <1>4, <1>5, <1>6 DEF IInv

(* Fewer bytes fit as well.                                                *)
LEMMA FewerFit ==
  ASSUME NEW a \in Nat, NEW b \in Nat, NEW d \in Nat, a + d <= 2, b <= a
  PROVE  b + d <= 2
  OBVIOUS

(* A step that leaves the CPUs, the locks and the program counters.        *)
LEMMA DeviceStep ==
  ASSUME IInv, UNCHANGED <<tx, cpu, lock, th, hd, panic>>,
         rx' \in Input \cup {None}, thr' \in Nat, thr' <= thr
  PROVE  IInv'
<1>1. TypeOK /\ Enables /\ Holders /\ thr + Pending <= 2 /\ panic = "none"
  BY DEF IInv
<1>2. TypeOK' /\ Holders'
  BY <1>1 DEF TypeOK, Holders
<1>3. Enables'
  BY <1>1 DEF Enables, Depth
<1>4. thr' + Pending' <= 2
  <2>1. Pending' = Pending
    BY DEF Pending
  <2>2. Pending \in Nat
    BY DEF Pending
  <2>3. thr \in Nat
    BY <1>1 DEF TypeOK
  <2> QED
    BY <2>1, <2>2, <2>3, <1>1, FewerFit, Zenon
<1> QED
  BY <1>1, <1>2, <1>3, <1>4 DEF IInv

(* Every step preserves the invariant.                                     *)
LEMMA StepIInv == IInv /\ [Next]_vars => IInv'
<1> SUFFICES ASSUME IInv, [Next]_vars PROVE IInv'
  OBVIOUS
<1>1. ASSUME NEW c \in CPUs, Run(c) PROVE IInv'
  BY <1>1, CallStep, SwapStep, ReadByteStep, PutcStep, ProcSendStep, HandlerSendStep DEF Run
<1>2. ASSUME NEW c \in CPUs, devintr(c) PROVE IInv'
  BY <1>2, InterruptStep
<1>3. CASE Handler
  <2>1. hd.pc # "none"
    BY <1>3 DEF Handler, uartintr, handlerLock, consoleintr, uartputc_sync, syncWrite, store, plic_complete
  <2>2. PICK c \in CPUs : hd.cpu = c
    BY <2>1, HandlerHasCpu
  <2> QED
    BY <2>2, <1>3, GetcStep, SwapHandlerStep, EditStep, SyncStep, StoreStep, CompleteStep DEF Handler
<1>4. ASSUME NEW c \in Input, Type(c) PROVE IInv'
  <2>1. UNCHANGED <<tx, cpu, lock, th, hd, panic, thr>> /\ rx' = c /\ thr \in Nat
    BY <1>4 DEF Type, IInv, TypeOK
  <2> QED
    BY <2>1, DeviceStep
<1>5. CASE Transmit
  <2>1. /\ UNCHANGED <<tx, cpu, lock, th, hd, panic, rx>> /\ thr' \in Nat /\ thr' <= thr
        /\ rx \in Input \cup {None}
    BY <1>5 DEF Transmit, IInv, TypeOK
  <2> QED
    BY <2>1, DeviceStep
<1>6. CASE UNCHANGED vars
  <2>1. /\ UNCHANGED <<tx, cpu, lock, th, hd, panic, rx, thr>> /\ thr \in Nat
        /\ rx \in Input \cup {None}
    BY <1>6 DEF vars, IInv, TypeOK
  <2> QED
    BY <2>1, DeviceStep
<1>7. ASSUME NEW c \in CPUs, kill(c) PROVE IInv'
  BY <1>7, KillStep
<1> QED
  BY <1>1, <1>2, <1>3, <1>4, <1>5, <1>6, <1>7 DEF Next

(* The invariant holds in every reachable state.                           *)
LEMMA Inductive == Spec => []IInv
  BY InitIInv, StepIInv, PTL DEF Spec

(* A CPU that holds the console's or the UART's spin lock has interrupts   *)
(* off, so that the handler never meets a lock of the process it           *)
(* interrupted; interrupts are on again in user mode, and the panics of    *)
(* acquire, release and pop_off and "sched locks" are not reached.         *)
THEOREM LocksAreMasked == Spec => []LocksMaskInterrupts
<1>1. ASSUME IInv PROVE LocksMaskInterrupts
  <2>1. TypeOK /\ Enables /\ Holders /\ panic = "none" /\ DOMAIN lock = {"cons", "tx"}
    BY <1>1 DEF IInv, TypeOK
  <2>2. ASSUME NEW c \in CPUs, NEW l \in DOMAIN lock, lock[l] = c PROVE cpu[c].intr = 0
    <3>1. hd.cpu = c \/ th[c].pc \notin IdlePc
      BY <2>1, <2>2, NoneAssumption DEF Holders, CPUs, IdlePc, TxPc
    <3> QED
      BY <3>1, <2>1 DEF Enables
  <2>3. ASSUME NEW c \in CPUs, th[c].pc = "user", hd.cpu # c PROVE cpu[c].intr = 1
    BY <2>1, <2>3 DEF Enables, IdlePc
  <2> QED
    BY <2>1, <2>2, <2>3 DEF LocksMaskInterrupts
<1> QED
  BY <1>1, Inductive, PTL

(* Although uartputc_sync takes no lock, at most one byte per CPU waits in *)
(* the UART.                                                               *)
THEOREM UartFits == Spec => []FifoFits
<1>1. ASSUME IInv PROVE FifoFits
  <2>1. thr \in Nat /\ thr + Pending <= 2
    BY <1>1 DEF IInv, TypeOK
  <2>2. Pending \in Nat
    BY DEF Pending
  <2> QED
    BY <2>1, <2>2 DEF FifoFits
<1> QED
  BY <1>1, Inductive, PTL

------------------------------------------------------------------------------
(* What the two rings need of %: lemmas about integers.                    *)
LEMMA ModRange == ASSUME NEW n \in Int, n > 0, NEW a \in Int PROVE a % n \in 0 .. n - 1
  OBVIOUS

(* Division with remainder.                                                *)
LEMMA Quotient == ASSUME NEW n \in Int, n > 0, NEW a \in Int PROVE \E q \in Int : a = q * n + (a % n)
  OBVIOUS

(* Zero is the only multiple of n nearer to zero than n.                   *)
LEMMA NoMultiple == ASSUME NEW n \in Int, n > 0, NEW q \in Int, - n < q * n, q * n < n PROVE q * n = 0
<1>1. q >= 1 => q * n >= n
  OBVIOUS
<1>2. q <= -1 => q * n <= - n
  OBVIOUS
<1> QED
  BY <1>1, <1>2

(* Numbers that differ by a multiple of n have the same remainder.         *)
LEMMA SameMod ==
  ASSUME NEW n \in Int, n > 0, NEW x \in Int, NEW y \in Int, NEW k \in Int, y - x = k * n
  PROVE  x % n = y % n
<1>1. PICK q \in Int : x = q * n + (x % n)
  BY Quotient, Zenon
<1>2. PICK r \in Int : y = r * n + (y % n)
  BY Quotient, Zenon
<1>3. x % n \in 0 .. n - 1 /\ y % n \in 0 .. n - 1
  BY ModRange, Zenon
<1>4. q * n \in Int /\ r * n \in Int /\ k * n \in Int
  OBVIOUS
<1> DEFINE z == q - r + k
<1>5. z * n = q * n - r * n + k * n /\ z \in Int /\ z * n \in Int
  OBVIOUS
<1> HIDE DEF z
<1>6. z * n = (y % n) - (x % n)
  BY <1>1, <1>2, <1>3, <1>4, <1>5
<1>7. z * n = 0
  BY <1>3, <1>5, <1>6, NoMultiple
<1> QED
  BY <1>3, <1>6, <1>7

(* Numbers less than n apart have different remainders.                    *)
LEMMA Apart ==
  ASSUME NEW n \in Int, n > 0, NEW a \in Int, NEW d \in Int, 0 < d, d < n
  PROVE  (a + d) % n # a % n
<1> SUFFICES ASSUME (a + d) % n = a % n PROVE FALSE
  OBVIOUS
<1>1. PICK q \in Int : a = q * n + (a % n)
  BY Quotient, Zenon
<1>2. a + d \in Int
  OBVIOUS
<1>3. PICK r \in Int : a + d = r * n + ((a + d) % n)
  BY <1>2, Quotient, Zenon
<1>4. a % n \in Int /\ q * n \in Int /\ r * n \in Int
  BY ModRange
<1> DEFINE z == r - q
<1>5. z * n = r * n - q * n /\ z \in Int
  OBVIOUS
<1> HIDE DEF z
<1>6. z * n = d
  BY <1>1, <1>3, <1>4, <1>5
<1> QED
  BY <1>5, <1>6, NoMultiple

(* Multiplication is associative.                                          *)
LEMMA Assoc == ASSUME NEW q \in Int, NEW k \in Int, NEW n \in Int PROVE q * (k * n) = (q * k) * n
  OBVIOUS

(* An index that wraps at a multiple of the ring's size keeps its place.   *)
LEMMA Wrap ==
  ASSUME NEW n \in Int, n > 0, NEW m \in Int, m > 0, \E k \in Int : m = k * n
  PROVE  \A a, b \in Int : ((a % m) + b) % n = (a + b) % n
<1> SUFFICES ASSUME NEW a \in Int, NEW b \in Int PROVE ((a % m) + b) % n = (a + b) % n
  BY Zenon
<1>0. PICK k \in Int : m = k * n
  OBVIOUS
<1>1. PICK q \in Int : a = q * m + (a % m)
  BY Quotient, Zenon
<1>2. a % m \in Int /\ q * m \in Int
  BY ModRange
<1> DEFINE x == (a % m) + b  y == a + b  z == q * k
<1>3. x \in Int /\ y \in Int /\ z \in Int /\ y - x = q * m
  BY <1>1, <1>2
<1>4. q * m = z * n
  <2>1. q * (k * n) = (q * k) * n
    BY Assoc, Zenon
  <2> QED
    BY <1>0, <2>1, Zenon
<1> HIDE DEF x, y, z
<1>5. y - x = z * n
  BY <1>3, <1>4, Zenon
<1>6. x % n = y % n
  BY <1>3, <1>5, SameMod, Zenon
<1> QED
  BY <1>6, Zenon DEF x, y

(* The same, for an index that wraps once more.                            *)
LEMMA WrapAgain ==
  ASSUME NEW m \in Int, m > 0, NEW a \in Int, NEW b \in Int
  PROVE  ((a % m) + b) % m = (a + b) % m
<1>1. \E k \in Int : m = k * m
  <2>1. 1 \in Int /\ m = 1 * m
    OBVIOUS
  <2> QED
    BY <2>1, Zenon
<1>2. \A x, y \in Int : ((x % m) + y) % m = (x + y) % m
  BY <1>1, Wrap, Zenon
<1> QED
  BY <1>2, Zenon

(* How far one index is behind another.                                    *)
LEMMA Behind ==
  ASSUME NEW m \in Int, m > 0, NEW a \in 0 .. m - 1, NEW d \in 0 .. m - 1
  PROVE  (((a + d) % m) + m - a) % m = d
<1> DEFINE x == a + d  y == m - a
<1>1. x \in Int /\ y \in Int /\ x + y = d + m /\ d + m \in Int /\ d \in Int
  OBVIOUS
<1>2. ((x % m) + y) % m = (x + y) % m
  BY <1>1, WrapAgain, Zenon
<1>3. d % m = (d + m) % m
  <2>1. (d + m) - d = 1 * m /\ 1 \in Int
    OBVIOUS
  <2> QED
    BY <1>1, <2>1, SameMod
<1>4. d % m = d
  OBVIOUS
<1>5. x % m \in Int /\ (x % m) + m - a = (x % m) + y
  BY <1>1, ModRange
<1> QED
  BY <1>1, <1>2, <1>3, <1>4, <1>5

------------------------------------------------------------------------------
(* The transmit side.  t holds d bytes of write(): those that follow the   *)
(* index r, in their order.                                                *)
Holds(t, d) ==
  /\ t.w = (t.r + d) % TW
  /\ \A n \in 0 .. d - 1 : t.buf[(t.r + n) % UART_TX_BUF_SIZE] = (t.r + n) % TW

(* The last byte taken from uart_tx_buf, which may not be in THR yet.      *)
InFlight == th["writer"].pc = "thr" \/ hd.pc = "thr"
Last == IF th["writer"].pc = "thr" THEN th["writer"].n ELSE IF hd.pc = "thr" THEN hd.k ELSE sent

Order ==
  /\ tx.r \in 0 .. TW - 1 /\ sent \in 0 .. TW - 1
  /\ \E d \in 0 .. UART_TX_BUF_SIZE : Holds(tx, d)
  /\ tx.r = (Last + 1) % TW
  /\ InFlight => Last = (sent + 1) % TW

(* Who has to send the next byte, or wake the writer, knows of it.         *)
Told ==
  /\ th["writer"].pc = "asleep" => TxFull
  /\ tx.r # tx.w => \/ thr > 0 \/ irq
                    \/ hd.pc \notin {"none", "complete"}
                    \/ th["writer"].pc \in {"start", "thr"}

(* The sizes as the lemmas about % want them.                              *)
LEMMA TxSizes ==
  /\ UART_TX_BUF_SIZE \in Int /\ UART_TX_BUF_SIZE > 0 /\ TW \in Int /\ TW > UART_TX_BUF_SIZE + 1
  /\ \E k \in Int : TW = k * UART_TX_BUF_SIZE
<1>1. UART_TX_BUF_SIZE \in Int /\ UART_TX_BUF_SIZE > 0 /\ TW \in Int /\ TW > UART_TX_BUF_SIZE + 1 /\ TW % UART_TX_BUF_SIZE = 0
  BY SizeAssumption
<1>2. PICK k \in Int : TW = k * UART_TX_BUF_SIZE + (TW % UART_TX_BUF_SIZE)
  BY <1>1, Quotient, Zenon
<1>3. TW = k * UART_TX_BUF_SIZE
  BY <1>1, <1>2
<1> QED
  BY <1>1, <1>3, Zenon

(* Wrapping at TW keeps a place in uart_tx_buf.                            *)
LEMMA TxWrap ==
  \A a, b \in Int : ((a % TW) + b) % UART_TX_BUF_SIZE = (a + b) % UART_TX_BUF_SIZE
<1>1. \E k \in Int : TW = k * UART_TX_BUF_SIZE
  BY TxSizes, Zenon
<1>2. UART_TX_BUF_SIZE \in Int /\ UART_TX_BUF_SIZE > 0 /\ TW \in Int /\ TW > 0
  BY TxSizes
<1> QED
  BY <1>1, <1>2, Wrap, Zenon

(* uartputc adds a byte where there is room.                               *)
LEMMA TxPut ==
  ASSUME NEW t \in TxState, t.r \in 0 .. TW - 1, NEW d \in 0 .. UART_TX_BUF_SIZE, Holds(t, d),
         t.w # (t.r + UART_TX_BUF_SIZE) % TW,
         NEW u, u.buf = [t.buf EXCEPT ![t.w % UART_TX_BUF_SIZE] = t.w], u.r = t.r, u.w = (t.w + 1) % TW
  PROVE  d + 1 \in 0 .. UART_TX_BUF_SIZE /\ Holds(u, d + 1)
<1> DEFINE S == UART_TX_BUF_SIZE
           r == t.r
           p(n) == (r + n) % S
<1>2. S \in Int /\ S > 0 /\ TW \in Int /\ TW > 0 /\ r \in Int /\ d \in Int /\ 0 <= d /\ d <= S
  BY TxSizes
<1>3. t.w = (r + d) % TW /\ t.buf \in [0 .. S - 1 -> Int]
  BY Zenon DEF Holds, TxState
<1>4. d # S
  BY <1>3, Zenon
<1>5. t.w % S = p(d)
  <2>1. r + d \in Int /\ 0 \in Int
    BY <1>2
  <2>2. (((r + d) % TW) + 0) % S = (r + d + 0) % S
    BY <2>1, TxWrap, Zenon
  <2>3. (r + d) % TW \in Int
    BY <1>2, <2>1, ModRange
  <2>4. ((r + d) % TW) + 0 = (r + d) % TW /\ r + d + 0 = r + d
    BY <2>1, <2>3
  <2> QED
    BY <1>3, <2>2, <2>4, Zenon
<1>6. \A n \in 0 .. d : p(n) \in 0 .. S - 1
  BY <1>2, ModRange
<1>7. \A n \in 0 .. d - 1 : p(n) # p(d)
  <2> TAKE n \in 0 .. d - 1
  <2> DEFINE a == r + n  e == d - n
  <2>1. a \in Int /\ e \in Int /\ 0 < e /\ e < S /\ a + e = r + d
    BY <1>2, <1>4
  <2> HIDE DEF a, e
  <2>2. (a + e) % S # a % S
    BY <1>2, <2>1, Apart, Zenon
  <2> QED
    BY <2>1, <2>2, Zenon DEF a
<1>8. (t.w + 1) % TW = (r + (d + 1)) % TW
  <2>1. r + d \in Int /\ 1 \in Int /\ (r + d) + 1 = r + (d + 1)
    BY <1>2
  <2>2. (((r + d) % TW) + 1) % TW = ((r + d) + 1) % TW
    BY <1>2, <2>1, WrapAgain, Zenon
  <2> QED
    BY <1>3, <2>1, <2>2, Zenon
<1>9. \A n \in 0 .. (d + 1) - 1 : u.buf[p(n)] = (r + n) % TW
  <2> TAKE n \in 0 .. (d + 1) - 1
  <2>1. n \in 0 .. d /\ (n # d => n \in 0 .. d - 1)
    BY <1>2
  <2>2. u.buf = [t.buf EXCEPT ![p(d)] = t.w]
    BY <1>5, Zenon
  <2>3. CASE n = d
    BY <1>3, <1>6, <2>1, <2>2, <2>3, Zenon
  <2>4. CASE n # d
    <3>1. n \in 0 .. d - 1 /\ p(n) # p(d) /\ p(n) \in 0 .. S - 1
      BY <1>6, <1>7, <2>1, <2>4, Zenon
    <3>2. t.buf[p(n)] = (r + n) % TW
      BY <3>1, Zenon DEF Holds
    <3> HIDE DEF p
    <3> QED
      BY <1>3, <2>2, <3>1, <3>2, Zenon
  <2> QED
    BY <2>3, <2>4
<1>10. d + 1 \in 0 .. S
  BY <1>2, <1>4
<1> QED
  BY <1>8, <1>9, <1>10, Zenon DEF Holds

(* uartstart takes the first byte, which is r.                             *)
LEMMA TxTake ==
  ASSUME NEW t \in TxState, t.r \in 0 .. TW - 1, NEW d \in 0 .. UART_TX_BUF_SIZE, Holds(t, d),
         t.r # t.w, NEW u, u.buf = t.buf, u.w = t.w, u.r = (t.r + 1) % TW
  PROVE  /\ t.buf[t.r % UART_TX_BUF_SIZE] = t.r
         /\ u.r \in 0 .. TW - 1
         /\ d - 1 \in 0 .. UART_TX_BUF_SIZE /\ Holds(u, d - 1)
<1> DEFINE S == UART_TX_BUF_SIZE
           r == t.r
<1>2. S \in Int /\ S > 0 /\ TW \in Int /\ TW > 0 /\ r \in Int /\ d \in Int /\ 0 <= d /\ d <= S /\ r + 0 = r
  BY TxSizes
<1>3. t.w = (r + d) % TW
  BY Zenon DEF Holds
<1>4. r % TW = r
  BY <1>2
<1>5. d # 0
  BY <1>2, <1>3, <1>4, Zenon
<1>6. 0 \in 0 .. d - 1 /\ d - 1 \in 0 .. S
  BY <1>2, <1>5
<1>7. t.buf[r % S] = r
  <2>1. t.buf[(r + 0) % S] = (r + 0) % TW
    BY <1>6, Zenon DEF Holds
  <2> QED
    BY <1>2, <1>4, <2>1, Zenon
<1>8. r + 1 \in Int /\ (r + 1) % TW \in 0 .. TW - 1
  BY <1>2, ModRange
<1>9. t.w = (u.r + (d - 1)) % TW
  <2>1. d - 1 \in Int /\ (r + 1) + (d - 1) = r + d
    BY <1>2
  <2>2. (((r + 1) % TW) + (d - 1)) % TW = ((r + 1) + (d - 1)) % TW
    BY <1>2, <1>8, <2>1, WrapAgain, Zenon
  <2> QED
    BY <1>3, <2>1, <2>2, Zenon
<1>10. \A n \in 0 .. (d - 1) - 1 : u.buf[(u.r + n) % S] = (u.r + n) % TW
  <2> TAKE n \in 0 .. (d - 1) - 1
  <2>1. n \in Int /\ n + 1 \in 0 .. d - 1 /\ (r + 1) + n = r + (n + 1)
    BY <1>2
  <2>2. (((r + 1) % TW) + n) % TW = ((r + 1) + n) % TW
    BY <1>2, <1>8, <2>1, WrapAgain, Zenon
  <2>3. (((r + 1) % TW) + n) % S = ((r + 1) + n) % S
    BY <1>8, <2>1, TxWrap, Zenon
  <2>4. t.buf[(r + (n + 1)) % S] = (r + (n + 1)) % TW
    BY <2>1, Zenon DEF Holds
  <2> QED
    BY <2>1, <2>2, <2>3, <2>4, Zenon
<1> QED
  BY <1>6, <1>7, <1>8, <1>9, <1>10, Zenon DEF Holds

(* A step that neither takes a byte nor sends one.                         *)
Passes ==
  /\ tx' = tx /\ sent' = sent
  /\ \/ th'["writer"] = th["writer"]
     \/ th["writer"].pc # "thr" /\ th'["writer"].pc # "thr"
  /\ \/ hd' = hd
     \/ hd.pc # "thr" /\ hd'.pc # "thr"

(* Such a step keeps the order.                                            *)
LEMMA OrderPasses == ASSUME Order, Passes PROVE Order'
<1>1. Last' = Last /\ (InFlight' <=> InFlight)
  BY DEF Passes, Last, InFlight
<1> QED
  BY <1>1, Zenon DEF Passes, Order, Holds

(* The steps of the processes, but for uartputc and uartstart.             *)
LEMMA ProcPasses ==
  ASSUME IInv, Order, Told, tx' = tx, sent' = sent, thr' = thr, irq' = irq, hd' = hd,
         \/ th'["writer"] = th["writer"]
         \/ /\ th["writer"].pc \notin TxPc /\ th'["writer"].pc \notin TxPc
            /\ th'["writer"].pc = "asleep" => TxFull
  PROVE  Order' /\ Told'
<1>1. Passes
  BY DEF Passes, TxPc
<1>2. Told'
  BY DEF Told, TxFull, TxPc
<1> QED
  BY <1>1, <1>2, OrderPasses

(* The steps of the handler with the console, and its return.              *)
LEMMA HandlerPasses ==
  ASSUME IInv, Order, Told, tx' = tx, sent' = sent, th'["writer"] = th["writer"],
         hd.pc # "thr", hd'.pc # "thr",
         \/ hd'.pc \notin {"none", "complete"}
         \/ thr' = thr /\ irq' = irq /\ hd.pc = "complete"
  PROVE  Order' /\ Told'
<1>1. Passes
  BY DEF Passes
<1>2. Told'
  BY DEF Told, TxFull
<1> QED
  BY <1>1, <1>2, OrderPasses

(* The types the lemmas below use.                                         *)
LEMMA ThWriter ==
  ASSUME IInv
  PROVE  /\ th \in [CPUs -> [pc : ThPc, n : Int]] /\ "writer" \in CPUs /\ "reader" \in CPUs
         /\ hd \in HdState /\ tx \in TxState
  BY DEF IInv, TypeOK, CPUs

(* The steps of the reader, and kill, as seen by the transmit side.        *)
LEMMA ReaderOut ==
  ASSUME IInv, Order, Told, NEW c \in CPUs,
         consoleread(c) \/ wakeReader(c) \/ readLock(c) \/ readByte(c) \/ kill(c)
  PROVE  Order' /\ Told'
<1>1. CASE c = "reader" /\ \/ \E x : th' = [th EXCEPT ![c] = x]
                           \/ \E x : th' = [th EXCEPT ![c].pc = x]
                           \/ \E x : th' = [th EXCEPT ![c].n = x]
                           \/ th' = th
  <2>1. th'["writer"] = th["writer"]
    BY <1>1, ThWriter
  <2>2. tx' = tx /\ sent' = sent /\ thr' = thr /\ irq' = irq /\ hd' = hd
    BY Zenon DEF consoleread, wakeReader, readLock, readByte, kill, device
  <2> QED
    BY <2>1, <2>2, ProcPasses, Zenon
<1>2. CASE kill(c)
  <2>1. tx' = tx /\ sent' = sent /\ thr' = thr /\ irq' = irq /\ hd' = hd /\ th[c].pc = "asleep"
        /\ th' = [th EXCEPT ![c].pc = "runnable"]
    BY <1>2 DEF kill, device, Woken
  <2>2. \/ th'["writer"] = th["writer"]
        \/ th["writer"].pc = "asleep" /\ th'["writer"].pc = "runnable"
    BY <2>1, ThWriter
  <2> QED
    BY <2>1, <2>2, ProcPasses DEF TxPc
<1>3. CASE consoleread(c)
  BY <1>1, <1>3, Zenon DEF consoleread
<1>4. CASE wakeReader(c)
  BY <1>1, <1>4, Zenon DEF wakeReader
<1>5. CASE readLock(c)
  BY <1>1, <1>5, Zenon DEF readLock
<1>6. CASE readByte(c)
  <2>1. c = "reader" /\ \/ th' = [th EXCEPT ![c] = [pc |-> "user", n |-> 0]]
                        \/ th' = [th EXCEPT ![c].pc = "asleep"]
                        \/ th' = [th EXCEPT ![c].n = th[c].n - 1]
    BY <1>6, Zenon DEF readByte, readReturn
  <2> QED
    BY <1>1, <2>1, Zenon
<1> QED
  BY <1>2, <1>3, <1>4, <1>5, <1>6, Zenon

(* The writer up to uartstart.                                             *)
LEMMA WriterOut ==
  ASSUME IInv, Order, Told, NEW c \in CPUs, consolewrite(c) \/ writeLock(c) \/ uartputc(c)
  PROVE  Order' /\ Told'
<1>1. c = "writer" /\ hd' = hd /\ thr' = thr /\ irq' = irq /\ sent' = sent
  BY Zenon DEF consolewrite, writeLock, uartputc, device
<1>2. CASE consolewrite(c) \/ writeLock(c) \/ (TxFull /\ uartputc(c))
  <2>1. /\ tx' = tx /\ th[c].pc \in {"user", "runnable", "acquire", "locked"}
        /\ \/ th' = [th EXCEPT ![c].pc = "acquire"] \/ th' = [th EXCEPT ![c].pc = "locked"]
           \/ th' = [th EXCEPT ![c].pc = "asleep"] /\ TxFull
    BY <1>2, Zenon DEF consolewrite, writeLock, uartputc, At
  <2>2. th'[c].pc \in {"acquire", "locked"} \/ (th'[c].pc = "asleep" /\ TxFull)
    BY <1>1, <2>1, ThWriter
  <2> QED
    BY <1>1, <2>1, <2>2, ProcPasses DEF TxPc
<1>3. CASE ~TxFull /\ uartputc(c)
  <2>1. /\ th[c].pc = "locked" /\ th' = [th EXCEPT ![c].pc = "start"]
        /\ tx' = [buf |-> [tx.buf EXCEPT ![tx.w % UART_TX_BUF_SIZE] = tx.w],
                  r |-> tx.r, w |-> (tx.w + 1) % TW]
    BY <1>3, Zenon DEF uartputc, At
  <2>2. th'["writer"].pc = "start" /\ th["writer"].pc = "locked"
    BY <1>1, <2>1, ThWriter
  <2>3. PICK d \in 0 .. UART_TX_BUF_SIZE : Holds(tx, d)
    BY Zenon DEF Order
  <2>4. /\ tx'.buf = [tx.buf EXCEPT ![tx.w % UART_TX_BUF_SIZE] = tx.w]
        /\ tx'.r = tx.r /\ tx'.w = (tx.w + 1) % TW
    BY <2>1, Zenon
  <2>5. tx \in TxState /\ tx.r \in 0 .. TW - 1 /\ tx.w # (tx.r + UART_TX_BUF_SIZE) % TW
    BY <1>3, ThWriter, Zenon DEF Order, TxFull
  <2>6. d + 1 \in 0 .. UART_TX_BUF_SIZE /\ Holds(tx', d + 1)
    BY <2>3, <2>4, <2>5, TxPut, Zenon
  <2>7. Last' = Last /\ (InFlight' <=> InFlight)
    BY <1>1, <2>2 DEF Last, InFlight
  <2>8. \E n \in 0 .. UART_TX_BUF_SIZE : Holds(tx, n)'
    BY <2>6, Zenon DEF Holds
  <2>9. Order'
    BY <1>1, <2>4, <2>7, <2>8, Zenon DEF Order
  <2>10. Told'
    BY <2>2 DEF Told
  <2> QED
    BY <2>9, <2>10
<1> QED
  BY <1>2, <1>3, Zenon

(* uartstart and WriteReg(THR, c), called by the writer or by the handler. *)
LEMMA SendOut ==
  ASSUME IInv, Order, Told, NEW c \in CPUs, uartstart(c) \/ WriteThr(c)
  PROVE  Order' /\ Told'
<1> DEFINE byte == tx.buf[tx.r % UART_TX_BUF_SIZE]
<1>0. /\ ~(th["writer"].pc \in {"locked"} \cup TxPc /\ hd.pc \in TxPc)
      /\ (hd.cpu = None <=> hd.pc = "none") /\ thr \in Nat
  BY Zenon DEF IInv, Holders, TypeOK
<1>1. CASE uartstart(c) /\ TxNext
  <2>1. /\ UNCHANGED <<thr, irq, sent>> /\ tx' = [tx EXCEPT !.r = (@ + 1) % TW] /\ tx.w # tx.r
        /\ \/ /\ hd.cpu = c /\ hd.pc = "start" /\ hd' = [hd EXCEPT !.pc = "thr", !.k = byte]
              /\ th' = Woken("writer", "runnable")
           \/ /\ c = "writer" /\ th["writer"].pc = "start" /\ hd' = hd
              /\ th' = [th EXCEPT !["writer"] = [pc |-> "thr", n |-> byte]]
    BY <1>1, Zenon DEF uartstart, At, device, TxNext
  <2>2. PICK d \in 0 .. UART_TX_BUF_SIZE : Holds(tx, d)
    BY Zenon DEF Order
  <2>3. tx'.buf = tx.buf /\ tx'.w = tx.w /\ tx'.r = (tx.r + 1) % TW
    BY <2>1, ThWriter DEF TxState
  <2>4. tx \in TxState /\ tx.r \in 0 .. TW - 1
    BY ThWriter, Zenon DEF Order
  <2>5. byte = tx.r /\ tx'.r \in 0 .. TW - 1 /\ d - 1 \in 0 .. UART_TX_BUF_SIZE /\ Holds(tx', d - 1)
    BY <2>1, <2>2, <2>3, <2>4, TxTake, Zenon
  <2>6. \E n \in 0 .. UART_TX_BUF_SIZE : Holds(tx, n)'
    BY <2>5, Zenon DEF Holds
  <2> HIDE DEF byte
  <2>7. /\ ~InFlight /\ InFlight' /\ Last = sent /\ Last' = byte
        /\ th'["writer"].pc # "asleep" /\ (hd'.pc = "thr" \/ th'["writer"].pc = "thr")
    <3>1. CASE hd.cpu = c /\ hd.pc = "start" /\ hd' = [hd EXCEPT !.pc = "thr", !.k = byte]
               /\ th' = Woken("writer", "runnable")
      <4>1. hd'.pc = "thr" /\ hd'.k = byte
        BY <3>1, ThWriter DEF HdState
      <4>2. th["writer"].pc \notin TxPc /\ th'["writer"].pc \notin TxPc /\ th'["writer"].pc # "asleep"
        BY <1>0, <3>1, ThWriter DEF TxPc, Woken
      <4> QED
        BY <3>1, <4>1, <4>2 DEF InFlight, Last, TxPc
    <3>2. CASE th["writer"].pc = "start" /\ hd' = hd /\ th' = [th EXCEPT !["writer"] = [pc |-> "thr", n |-> byte]]
      <4>1. th'["writer"].pc = "thr" /\ th'["writer"].n = byte /\ hd.pc # "thr"
        BY <1>0, <3>2, ThWriter DEF TxPc
      <4> QED
        BY <3>2, <4>1 DEF InFlight, Last
    <3> QED
      BY <2>1, <3>1, <3>2, Zenon
  <2>8. Order'
    BY <2>1, <2>3, <2>5, <2>6, <2>7, Zenon DEF Order
  <2>9. Told'
    BY <2>7 DEF Told
  <2> QED
    BY <2>8, <2>9
<1>2. CASE uartstart(c) /\ ~TxNext
  <2>1. /\ UNCHANGED <<thr, irq, sent, tx>> /\ ~ (tx.w # tx.r /\ thr = 0)
        /\ \/ /\ hd.cpu = c /\ hd.pc = "start" /\ hd' = [hd EXCEPT !.pc = "complete"] /\ th' = th
           \/ /\ c = "writer" /\ th["writer"].pc = "start" /\ hd' = hd
              /\ th' = [th EXCEPT !["writer"] = [pc |-> "user", n |-> 0]]
    BY <1>2, Zenon DEF uartstart, At, device, TxNext
  <2>2. \/ hd.pc = "start" /\ hd'.pc = "complete" /\ th' = th
        \/ th["writer"].pc = "start" /\ hd' = hd /\ th'["writer"].pc = "user"
    BY <2>1, ThWriter DEF HdState
  <2>3. Passes
    BY <2>1, <2>2 DEF Passes
  <2>4. Told'
    BY <1>0, <2>1, <2>2 DEF Told, TxFull
  <2> QED
    BY <2>3, <2>4, OrderPasses
<1>3. CASE WriteThr(c)
  <2>1. /\ thr' = thr + 1 /\ tx' = tx
        /\ \/ /\ hd.cpu = c /\ hd.pc = "thr" /\ hd' = [hd EXCEPT !.pc = "start", !.k = 0]
              /\ sent' = hd.k /\ th' = th
           \/ /\ th["writer"].pc = "thr" /\ hd' = hd /\ sent' = th["writer"].n
              /\ th' = [th EXCEPT !["writer"] = [pc |-> "start", n |-> 0]]
    BY <1>3, Zenon DEF WriteThr, At
  <2>2. /\ InFlight /\ ~InFlight' /\ sent' = Last /\ Last' = sent'
        /\ (th'["writer"].pc = "asleep" => th["writer"].pc = "asleep")
    <3>1. CASE hd.pc = "thr" /\ hd' = [hd EXCEPT !.pc = "start", !.k = 0] /\ sent' = hd.k /\ th' = th
      <4>1. hd'.pc = "start" /\ th["writer"].pc # "thr"
        BY <1>0, <3>1, ThWriter DEF TxPc, HdState
      <4> QED
        BY <3>1, <4>1 DEF InFlight, Last
    <3>2. CASE /\ th["writer"].pc = "thr" /\ hd' = hd /\ sent' = th["writer"].n
               /\ th' = [th EXCEPT !["writer"] = [pc |-> "start", n |-> 0]]
      <4>1. th'["writer"].pc = "start" /\ hd.pc # "thr"
        BY <1>0, <3>2, ThWriter DEF TxPc
      <4> QED
        BY <3>2, <4>1 DEF InFlight, Last
    <3> QED
      BY <2>1, <3>1, <3>2, Zenon
  <2>3. sent' \in 0 .. TW - 1
    <3>1. sent' = (sent + 1) % TW /\ sent \in 0 .. TW - 1
      BY <2>2, Zenon DEF Order
    <3> QED
      BY <3>1, TxSizes
  <2>4. Order'
    BY <2>1, <2>2, <2>3, Zenon DEF Order, Holds
  <2>5. Told'
    BY <1>0, <2>1, <2>2 DEF Told, TxFull
  <2> QED
    BY <2>4, <2>5
<1> QED
  BY <1>1, <1>2, <1>3, Zenon

(* An interrupt, and the handler outside uartstart.                        *)
LEMMA HandlerOut ==
  ASSUME IInv, Order, Told, Handler \/ \E c \in CPUs : devintr(c)
  PROVE  Order' /\ Told'
<1>1. tx' = tx /\ sent' = sent
  BY Zenon DEF Handler, uartintr, handlerLock, consoleintr, uartputc_sync, syncWrite, store, plic_complete, devintr
<1>2. th'["writer"] = th["writer"]
  <2>1. th' = th \/ th' = Woken("reader", "runnable")
    BY Zenon DEF Handler, uartintr, handlerLock, consoleintr, uartputc_sync, syncWrite, store, plic_complete, devintr
  <2> QED
    BY <2>1, ThWriter DEF Woken
<1>3. CASE plic_complete
  <2>1. hd.pc = "complete" /\ hd'.pc = "none" /\ thr' = thr /\ irq' = irq
    BY <1>3 DEF plic_complete, NoHandler, device
  <2> QED
    BY <1>1, <1>2, <2>1, HandlerPasses
<1>4. CASE \E c \in CPUs : devintr(c)
  <2>1. hd.pc = "none" /\ hd'.pc = "getc"
    BY <1>4 DEF devintr, NoHandler
  <2> QED
    BY <1>1, <1>2, <2>1, HandlerPasses
<1>5. CASE ~plic_complete /\ Handler
  <2>1. hd.pc \in {"getc", "consoleintr", "uartstart", "edit", "echo", "sync", "store", "erased"}
    BY <1>5, Zenon DEF Handler, uartintr, handlerLock, consoleintr, uartputc_sync, syncWrite, store
  <2>2. hd'.pc \in {"getc", "consoleintr", "uartstart", "edit", "start", "echo", "sync", "store", "erased"}
    <3>1. CASE uartintr
      BY <3>1, ThWriter DEF uartintr, HdState
    <3>2. CASE handlerLock
      BY <3>2, ThWriter DEF handlerLock, HdState
    <3>3. CASE consoleintr
      <4>1. \/ hd' = [hd EXCEPT !.pc = "echo", !.k = 3] \/ hd' = [hd EXCEPT !.pc = "echo", !.k = 1]
            \/ hd' = [hd EXCEPT !.pc = "getc", !.c = None]
        BY <3>3, Zenon DEF consoleintr
      <4>2. TypeOK /\ "echo" \in HdPc /\ "getc" \in HdPc /\ None \in Input \cup {None} /\ 1 \in Int /\ 3 \in Int
        BY DEF IInv, HdPc, ConsPc
      <4>3. hd'.pc = "echo" \/ hd'.pc = "getc"
        BY <4>1, <4>2, HdGoes, Zenon
      <4> QED
        BY <4>3
    <3>4. CASE uartputc_sync
      BY <3>4, ThWriter DEF uartputc_sync, HdState
    <3>5. CASE syncWrite
      BY <3>5, ThWriter DEF syncWrite, HdState
    <3>6. CASE store
      BY <3>6, ThWriter DEF store, HdState
    <3> QED
      BY <1>5, <3>1, <3>2, <3>3, <3>4, <3>5, <3>6, Zenon DEF Handler
  <2> QED
    BY <1>1, <1>2, <2>1, <2>2, HandlerPasses
<1> QED
  BY <1>3, <1>4, <1>5

(* Every step keeps the order of the bytes and tells who has to go on.     *)
LEMMA OutStep == IInv /\ Order /\ Told /\ [Next]_vars => Order' /\ Told'
<1> SUFFICES ASSUME IInv, Order, Told, [Next]_vars PROVE Order' /\ Told'
  OBVIOUS
<1>1. ASSUME NEW c \in CPUs, Run(c) PROVE Order' /\ Told'
  BY <1>1, ReaderOut, WriterOut, SendOut, Zenon DEF Run
<1>2. ASSUME NEW c \in CPUs, kill(c) PROVE Order' /\ Told'
  BY <1>2, ReaderOut, Zenon
<1>3. CASE Transmit \/ \E c \in Input : Type(c)
  <2>1. tx' = tx /\ sent' = sent /\ th' = th /\ hd' = hd
    BY <1>3, Zenon DEF Transmit, Type
  <2>2. thr \in Nat
    BY DEF IInv, TypeOK
  <2>3. thr' > 0 \/ irq' \/ (thr' = thr /\ ~(thr > 0) /\ irq' = irq)
    <3>1. CASE \E c \in Input : Type(c)
      BY <3>1, Zenon DEF Type
    <3>2. CASE Transmit
      <4>1. CASE thr = 1
        BY <3>2, <4>1, Zenon DEF Transmit
      <4>2. CASE thr # 1
        <5>1. thr > 0 /\ thr' = thr - 1
          BY <3>2, Zenon DEF Transmit
        <5> QED
          BY <2>2, <4>2, <5>1
      <4> QED
        BY <4>1, <4>2
    <3> QED
      BY <1>3, <3>1, <3>2, Zenon
  <2>4. Passes
    BY <2>1, Zenon DEF Passes
  <2>5. Told'
    BY <2>1, <2>3 DEF Told, TxFull
  <2> QED
    BY <2>4, <2>5, OrderPasses
<1>4. CASE UNCHANGED vars
  <2>1. tx' = tx /\ sent' = sent /\ thr' = thr /\ irq' = irq /\ hd' = hd /\ th' = th
    BY <1>4, Zenon DEF vars
  <2> QED
    BY <2>1, ProcPasses, Zenon
<1> QED
  BY <1>1, <1>2, <1>3, <1>4, HandlerOut, Zenon DEF Next

(* Initially no byte is in uart_tx_buf.                                    *)
LEMMA InitOut == Init => Order /\ Told
<1> SUFFICES ASSUME Init PROVE Order /\ Told
  OBVIOUS
<1>1. /\ tx.r = 0 /\ tx.w = 0 /\ sent = TW - 1 /\ th["writer"].pc = "user" /\ hd.pc = "none"
  BY DEF Init, CPUs, NoHandler
<1>2. Holds(tx, 0) /\ 0 \in 0 .. UART_TX_BUF_SIZE
  BY <1>1, TxSizes DEF Holds
<1>3. Last = TW - 1 /\ ~InFlight
  BY <1>1 DEF Last, InFlight
<1>4. 0 = (TW - 1 + 1) % TW /\ 0 \in 0 .. TW - 1 /\ TW - 1 \in 0 .. TW - 1
  BY TxSizes
<1>5. Order
  BY <1>1, <1>2, <1>3, <1>4 DEF Order
<1>6. Told
  BY <1>1 DEF Told
<1> QED
  BY <1>5, <1>6

(* The bytes of write() reach the UART in order and each once, whichever   *)
(* of uartputc and uartintr runs uartstart, and however uart_tx_r and      *)
(* uart_tx_w wrap: every write to THR sends the byte after the last one    *)
(* (OutputInOrder).                                                        *)
THEOREM BytesGoInOrder == Spec => OutputInOrder
<1>1. IInv /\ Order => \A c \in CPUs : WriteThr(c) => sent' = (sent + 1) % TW
  <2> SUFFICES ASSUME IInv, Order, NEW c \in CPUs, WriteThr(c) PROVE sent' = (sent + 1) % TW
    OBVIOUS
  <2>1. \/ hd.pc = "thr" /\ sent' = hd.k
        \/ th["writer"].pc = "thr" /\ sent' = th["writer"].n
    BY Zenon DEF WriteThr, At
  <2>2. ~(th["writer"].pc = "thr" /\ hd.pc = "thr")
    BY DEF IInv, Holders, TxPc
  <2>3. sent' = Last /\ InFlight
    BY <2>1, <2>2 DEF Last, InFlight
  <2> QED
    BY <2>3, Zenon DEF Order
<1>2. IInv /\ Order => [\A c \in CPUs : WriteThr(c) => sent' = (sent + 1) % TW]_vars
  BY <1>1, Zenon
<1> QED
  BY <1>2, Inductive, InitOut, OutStep, PTL DEF Spec, OutputInOrder

------------------------------------------------------------------------------
(* The receive side.  The buffer b spells s from o places after the index  *)
(* r on.                                                                   *)
Char == Input \cup {None}
Spells(b, r, o, s) == \A k \in 1 .. Len(s) : s[k] = b[(r + (o + k - 1)) % INPUT_BUF_SIZE]

(* The sizes of the input ring as the lemmas about % want them.            *)
LEMMA InSizes ==
  /\ INPUT_BUF_SIZE \in Int /\ INPUT_BUF_SIZE > 0 /\ W \in Int /\ W > INPUT_BUF_SIZE
  /\ \E k \in Int : W = k * INPUT_BUF_SIZE
<1>1. INPUT_BUF_SIZE \in Int /\ INPUT_BUF_SIZE > 0 /\ W \in Int /\ W > INPUT_BUF_SIZE /\ W % INPUT_BUF_SIZE = 0
  BY SizeAssumption
<1>2. PICK k \in Int : W = k * INPUT_BUF_SIZE + (W % INPUT_BUF_SIZE)
  BY <1>1, Quotient, Zenon
<1>3. W = k * INPUT_BUF_SIZE
  BY <1>1, <1>2
<1> QED
  BY <1>1, <1>3, Zenon

(* Wrapping at W keeps a place in cons.buf.                                *)
LEMMA InWrap ==
  \A a, b \in Int : ((a % W) + b) % INPUT_BUF_SIZE = (a + b) % INPUT_BUF_SIZE
<1>1. \E k \in Int : W = k * INPUT_BUF_SIZE
  BY InSizes, Zenon
<1>2. INPUT_BUF_SIZE \in Int /\ INPUT_BUF_SIZE > 0 /\ W \in Int /\ W > 0
  BY InSizes
<1> QED
  BY <1>1, <1>2, Wrap, Zenon

(* A read takes the first character.                                       *)
LEMMA InTake ==
  ASSUME NEW r \in 0 .. W - 1, NEW b, NEW s \in Seq(Char), s # <<>>, NEW t \in Seq(Char),
         Spells(b, r, 0, s), Spells(b, r, Len(s), t)
  PROVE  /\ Tail(s) \in Seq(Char) /\ Len(Tail(s)) = Len(s) - 1
         /\ Spells(b, (r + 1) % W, 0, Tail(s)) /\ Spells(b, (r + 1) % W, Len(s) - 1, t)
<1> DEFINE S == INPUT_BUF_SIZE
<1>1. r \in Int /\ r + 1 \in Int /\ Len(s) \in Int /\ Len(t) \in Int
  BY InSizes
<1>2. Tail(s) \in Seq(Char) /\ Len(Tail(s)) = Len(s) - 1 /\ \A k \in 1 .. Len(s) - 1 : Tail(s)[k] = s[k + 1]
  OBVIOUS
<1>3. \A n \in Int : (((r + 1) % W) + n) % S = ((r + 1) + n) % S
  BY <1>1, InWrap, Zenon
<1>4. ASSUME NEW k \in 1 .. Len(s) - 1
      PROVE  Tail(s)[k] = b[(((r + 1) % W) + (0 + k - 1)) % S]
  <2>1. k + 1 \in 1 .. Len(s) /\ 0 + k - 1 \in Int /\ (r + 1) + (0 + k - 1) = r + (0 + (k + 1) - 1)
    BY <1>1
  <2>2. s[k + 1] = b[(r + (0 + (k + 1) - 1)) % S]
    BY <2>1, Zenon DEF Spells
  <2>3. (((r + 1) % W) + (0 + k - 1)) % S = ((r + 1) + (0 + k - 1)) % S
    BY <1>3, <2>1, Zenon
  <2>4. Tail(s)[k] = s[k + 1]
    BY <1>2, Zenon
  <2> QED
    BY <2>1, <2>2, <2>3, <2>4, Zenon
<1>5. ASSUME NEW k \in 1 .. Len(t)
      PROVE  t[k] = b[(((r + 1) % W) + ((Len(s) - 1) + k - 1)) % S]
  <2>1. (Len(s) - 1) + k - 1 \in Int /\ (r + 1) + ((Len(s) - 1) + k - 1) = r + (Len(s) + k - 1)
    BY <1>1
  <2>2. t[k] = b[(r + (Len(s) + k - 1)) % S]
    BY <1>5, Zenon DEF Spells
  <2>3. (((r + 1) % W) + ((Len(s) - 1) + k - 1)) % S = ((r + 1) + ((Len(s) - 1) + k - 1)) % S
    BY <1>3, <2>1, Zenon
  <2> QED
    BY <2>1, <2>2, <2>3, Zenon
<1>6. Spells(b, (r + 1) % W, 0, Tail(s))
  BY <1>2, <1>4, Zenon DEF Spells
<1>7. Spells(b, (r + 1) % W, Len(s) - 1, t)
  BY <1>5, Zenon DEF Spells
<1> QED
  BY <1>2, <1>6, <1>7, Zenon

(* Places are integers.                                                    *)
LEMMA Below == ASSUME NEW n \in Int PROVE \A k \in 0 .. n - 1 : k \in Int
  OBVIOUS

(* A line is handed to the readers.                                        *)
LEMMA InCommit ==
  ASSUME NEW r \in Int, NEW b, NEW s \in Seq(Char), NEW t \in Seq(Char),
         Spells(b, r, 0, s), Spells(b, r, Len(s), t)
  PROVE  s \o t \in Seq(Char) /\ Len(s \o t) = Len(s) + Len(t) /\ Spells(b, r, 0, s \o t)
<1>1. /\ s \o t \in Seq(Char) /\ Len(s \o t) = Len(s) + Len(t)
      /\ \A k \in 1 .. Len(s) + Len(t) : (s \o t)[k] = IF k <= Len(s) THEN s[k] ELSE t[k - Len(s)]
  OBVIOUS
<1>2. ASSUME NEW k \in 1 .. Len(s) + Len(t) PROVE (s \o t)[k] = b[(r + (0 + k - 1)) % INPUT_BUF_SIZE]
  <2>0. Len(s) \in Nat /\ Len(t) \in Nat
    OBVIOUS
  <2>1. CASE k <= Len(s)
    <3>1. k \in 1 .. Len(s)
      BY <2>0, <2>1
    <3> QED
      BY <1>1, <2>1, <3>1, Zenon DEF Spells
  <2>2. CASE ~(k <= Len(s))
    <3>1. k - Len(s) \in 1 .. Len(t) /\ Len(s) + (k - Len(s)) - 1 = 0 + k - 1
      BY <2>0, <2>2
    <3>2. t[k - Len(s)] = b[(r + (Len(s) + (k - Len(s)) - 1)) % INPUT_BUF_SIZE]
      BY <3>1, Zenon DEF Spells
    <3> QED
      BY <1>1, <2>2, <3>1, <3>2, Zenon
  <2> QED
    BY <2>1, <2>2
<1> QED
  BY <1>1, <1>2, Zenon DEF Spells

(* A sequence without its last element.                                    *)
LEMMA ButLast ==
  ASSUME NEW T, NEW t \in Seq(T), Len(t) > 0
  PROVE  LET u == SubSeq(t, 1, Len(t) - 1) IN
         u \in Seq(T) /\ Len(u) = Len(t) - 1 /\ \A k \in 1 .. Len(t) - 1 : u[k] = t[k]
<1>1. Len(SubSeq(t, 1, Len(t) - 1)) = Len(t) - 1
  OBVIOUS
<1>2. \A k \in 1 .. Len(t) - 1 : SubSeq(t, 1, Len(t) - 1)[k] = t[k]
  OBVIOUS
<1>3. SubSeq(t, 1, Len(t) - 1) \in Seq(T)
  OBVIOUS
<1> QED
  BY <1>1, <1>2, <1>3, Zenon

(* The last character is erased.                                           *)
LEMMA InErase ==
  ASSUME NEW r \in Int, NEW o \in Int, NEW b, NEW t \in Seq(Char), Len(t) > 0, Spells(b, r, o, t)
  PROVE  LET u == SubSeq(t, 1, Len(t) - 1) IN
         u \in Seq(Char) /\ Len(u) = Len(t) - 1 /\ Spells(b, r, o, u)
<1> DEFINE u == SubSeq(t, 1, Len(t) - 1)
<1>1. u \in Seq(Char) /\ Len(u) = Len(t) - 1 /\ \A k \in 1 .. Len(t) - 1 : u[k] = t[k]
  BY ButLast, Zenon
<1>2. \A k \in 1 .. Len(t) - 1 : k \in 1 .. Len(t)
  OBVIOUS
<1> HIDE DEF u
<1>3. Spells(b, r, o, u)
  BY <1>1, <1>2, Zenon DEF Spells
<1> QED
  BY <1>1, <1>3, Zenon DEF u

(* The buffer b with its indices holds s, which readers may take, and then *)
(* t, which is being edited.                                               *)
Typed(b, r, w, e, s, t) ==
  /\ b \in [0 .. INPUT_BUF_SIZE - 1 -> Char] /\ r \in 0 .. W - 1
  /\ s \in Seq(Char) /\ t \in Seq(Char) /\ Len(s) + Len(t) <= INPUT_BUF_SIZE
  /\ w = (r + Len(s)) % W /\ e = (r + (Len(s) + Len(t))) % W
  /\ Spells(b, r, 0, s) /\ Spells(b, r, Len(s), t)

(* The indices of a buffer that holds m and then n characters.             *)
Placed(r, w, e, m, n) ==
  /\ m \in Nat /\ n \in Nat /\ m + n <= INPUT_BUF_SIZE
  /\ r \in 0 .. W - 1 /\ w \in 0 .. W - 1 /\ e \in 0 .. W - 1
  /\ w = (r + m) % W /\ e = (r + (m + n)) % W
  /\ Minus(e, r) = m + n /\ Minus(w, r) = m /\ Minus(e, w) = n
  /\ (r = w <=> m = 0) /\ (e = w <=> n = 0)

(* The distances between the indices are the lengths.                      *)
LEMMA Distances ==
  ASSUME NEW r \in 0 .. W - 1, NEW m \in Nat, NEW n \in Nat, m + n <= INPUT_BUF_SIZE
  PROVE  Placed(r, (r + m) % W, (r + (m + n)) % W, m, n)
<1> DEFINE w == (r + m) % W  e == (r + (m + n)) % W
<1>1. W \in Int /\ W > 0 /\ INPUT_BUF_SIZE \in Int /\ INPUT_BUF_SIZE < W
  BY InSizes
<1>2. /\ r \in Int /\ m \in 0 .. W - 1 /\ n \in 0 .. W - 1 /\ m + n \in 0 .. W - 1
      /\ r + m \in Int /\ r + (m + n) \in Int /\ (r + m) + n = r + (m + n) /\ n \in Int
  BY <1>1
<1>3. w \in 0 .. W - 1 /\ e \in 0 .. W - 1
  BY <1>1, <1>2, ModRange, Zenon
<1>4. e = (w + n) % W
  <2>1. (((r + m) % W) + n) % W = ((r + m) + n) % W
    BY <1>1, <1>2, WrapAgain, Zenon
  <2> QED
    BY <1>2, <2>1, Zenon
<1>5. Minus(e, r) = m + n
  BY <1>1, <1>2, Behind, Zenon DEF Minus
<1>6. Minus(w, r) = m
  BY <1>1, <1>2, Behind, Zenon DEF Minus
<1>7. Minus(e, w) = n
  <2> HIDE DEF w, e
  <2>1. (((w + n) % W) + W - w) % W = n
    BY <1>1, <1>2, <1>3, Behind, Zenon
  <2> QED
    BY <1>4, <2>1, Zenon DEF Minus
<1>8. \A x \in 0 .. W - 1 : Minus(x, x) = 0 /\ (x + 0) % W = x
  <2> TAKE x \in 0 .. W - 1
  <2>1. x + W - x = W /\ W % W = 0 /\ x + 0 = x /\ x % W = x
    BY <1>1
  <2> QED
    BY <2>1, Zenon DEF Minus
<1>9. (r = w <=> m = 0) /\ (e = w <=> n = 0)
  <2>1. m = 0 => w = r
    BY <1>8, Zenon
  <2>2. n = 0 => e = w
    BY <1>3, <1>4, <1>8, Zenon
  <2>3. r = w => m = 0
    BY <1>6, <1>8, Zenon
  <2>4. e = w => n = 0
    BY <1>3, <1>7, <1>8, Zenon
  <2> QED
    BY <2>1, <2>2, <2>3, <2>4, Zenon
<1> QED
  BY <1>3, <1>5, <1>6, <1>7, <1>9, Zenon DEF Placed

(* A buffer that holds s and t has its indices where the lengths say.      *)
LEMMA TypedPlaced ==
  ASSUME NEW b, NEW r, NEW w, NEW e, NEW s, NEW t, Typed(b, r, w, e, s, t)
  PROVE  Placed(r, w, e, Len(s), Len(t))
<1>1. /\ r \in 0 .. W - 1 /\ s \in Seq(Char) /\ t \in Seq(Char) /\ Len(s) + Len(t) <= INPUT_BUF_SIZE
      /\ w = (r + Len(s)) % W /\ e = (r + (Len(s) + Len(t))) % W
  BY Zenon DEF Typed
<1>2. Len(s) \in Nat /\ Len(t) \in Nat
  BY <1>1
<1> QED
  BY <1>1, <1>2, Distances, Zenon

(* A full turn of a ring comes back to the same place.                     *)
LEMMA NextTurn == ASSUME NEW m \in Int, m > 0, NEW a \in Int PROVE a % m = (a + m) % m
<1> DEFINE b == a + m  k == 1
<1>1. b \in Int /\ k \in Int /\ b - a = k * m
  OBVIOUS
<1> HIDE DEF b, k
<1>2. a % m = b % m
  BY <1>1, SameMod, Zenon
<1> QED
  BY <1>2, Zenon DEF b

(* A read takes the first character of a buffer that holds a line.         *)
LEMMA TypedTake ==
  ASSUME NEW b, NEW r, NEW w, NEW e, NEW s, NEW t, Typed(b, r, w, e, s, t), r # w
  PROVE  Typed(b, Plus1(r), w, e, Tail(s), t) /\ Len(Tail(s)) = Len(s) - 1
<1>0. /\ r \in 0 .. W - 1 /\ s \in Seq(Char) /\ t \in Seq(Char) /\ Len(s) + Len(t) <= INPUT_BUF_SIZE
      /\ Spells(b, r, 0, s) /\ Spells(b, r, Len(s), t)
      /\ b \in [0 .. INPUT_BUF_SIZE - 1 -> Char]
      /\ w = (r + Len(s)) % W /\ e = (r + (Len(s) + Len(t))) % W
  BY Zenon DEF Typed
<1>1. Len(s) # 0 /\ s # <<>>
  <2>1. Placed(r, w, e, Len(s), Len(t))
    BY TypedPlaced, Zenon
  <2>2. Len(s) # 0
    BY <2>1, Zenon DEF Placed
  <2> QED
    BY <1>0, <2>2
<1>2. /\ Tail(s) \in Seq(Char) /\ Len(Tail(s)) = Len(s) - 1
      /\ Spells(b, (r + 1) % W, 0, Tail(s)) /\ Spells(b, (r + 1) % W, Len(s) - 1, t)
  BY <1>0, <1>1, InTake, Zenon
<1>3. Len(s) \in Nat /\ Len(t) \in Nat /\ r \in Int /\ W \in Int /\ W > 0
  <2>1. Placed(r, w, e, Len(s), Len(t))
    BY TypedPlaced, Zenon
  <2> QED
    BY <2>1, InSizes DEF Placed
<1> DEFINE m == Len(s)  n == Len(t)
<1> HIDE DEF m, n
<1>4. m \in Nat /\ n \in Nat /\ m # 0 /\ m + n <= INPUT_BUF_SIZE
  BY <1>0, <1>1, <1>3, Zenon DEF m, n
<1>5. /\ r + 1 \in Int /\ m - 1 \in Int /\ (m - 1) + n \in Int
      /\ (r + 1) + (m - 1) = r + m /\ (r + 1) + ((m - 1) + n) = r + (m + n)
      /\ (m - 1) + n <= INPUT_BUF_SIZE
  BY <1>3, <1>4, InSizes
<1>6. /\ (((r + 1) % W) + (m - 1)) % W = ((r + 1) + (m - 1)) % W
      /\ (((r + 1) % W) + ((m - 1) + n)) % W = ((r + 1) + ((m - 1) + n)) % W
  BY <1>3, <1>5, WrapAgain, Zenon
<1>7. (r + 1) % W \in 0 .. W - 1
  BY <1>3, <1>5, ModRange, Zenon
<1>8. /\ w = (((r + 1) % W) + (m - 1)) % W /\ e = (((r + 1) % W) + ((m - 1) + n)) % W
  BY <1>0, <1>5, <1>6, Zenon DEF m, n
<1> QED
  BY <1>0, <1>2, <1>5, <1>7, <1>8, Zenon DEF Typed, Plus1, m, n

(* A character is stored after the last.                                   *)
LEMMA TypedPut ==
  ASSUME NEW b, NEW r, NEW w, NEW e, NEW s, NEW t, Typed(b, r, w, e, s, t),
         NEW c \in Char, Len(s) + Len(t) < INPUT_BUF_SIZE
  PROVE  Typed([b EXCEPT ![e % INPUT_BUF_SIZE] = c], r, w, Plus1(e), s, Append(t, c))
<1>0. /\ r \in 0 .. W - 1 /\ s \in Seq(Char) /\ t \in Seq(Char)
      /\ Spells(b, r, 0, s) /\ Spells(b, r, Len(s), t)
      /\ b \in [0 .. INPUT_BUF_SIZE - 1 -> Char]
      /\ w = (r + Len(s)) % W /\ e = (r + (Len(s) + Len(t))) % W
  BY Zenon DEF Typed
<1> DEFINE S == INPUT_BUF_SIZE
           L == Len(s) + Len(t)
           p(n) == (r + n) % S
           b2 == [b EXCEPT ![e % S] = c]
<1>1. /\ r \in Int /\ S \in Int /\ S > 0 /\ Len(s) \in Nat /\ Len(t) \in Nat /\ L \in Int /\ 0 <= L /\ L < S
      /\ W \in Int /\ W > 0
  BY <1>0, InSizes
<1>2. e % S = p(L)
  <2>1. r + L \in Int /\ 0 \in Int /\ (r + L) % W \in Int
    BY <1>1, ModRange
  <2>2. (((r + L) % W) + 0) % S = (r + L + 0) % S
    BY <2>1, InWrap, Zenon
  <2>3. ((r + L) % W) + 0 = (r + L) % W /\ r + L + 0 = r + L
    BY <2>1
  <2> QED
    BY <1>0, <2>2, <2>3, Zenon
<1>3. \A n \in Int : p(n) \in 0 .. S - 1
  BY <1>1, ModRange
<1>4. \A n \in 0 .. L - 1 : p(n) # p(L)
  <2> TAKE n \in 0 .. L - 1
  <2> DEFINE x == r + n  d == L - n
  <2>1. x \in Int /\ d \in Int /\ 0 < d /\ d < S /\ x + d = r + L
    BY <1>1
  <2> HIDE DEF x, d
  <2>2. (x + d) % S # x % S
    BY <1>1, <2>1, Apart, Zenon
  <2> QED
    BY <2>1, <2>2, Zenon DEF x
<1> HIDE DEF p, L
<1>5. b2 \in [0 .. S - 1 -> Char] /\ b2[p(L)] = c /\ \A n \in 0 .. L - 1 : b2[p(n)] = b[p(n)]
  <2>1. \A n \in 0 .. L - 1 : p(n) \in 0 .. S - 1 /\ p(n) # p(L)
    <3>1. \A n \in 0 .. L - 1 : n \in Int
      BY Below, <1>1, Zenon
    <3> QED
      BY <1>3, <1>4, <3>1, Zenon
  <2>2. p(L) \in 0 .. S - 1
    BY <1>1, <1>3, Zenon
  <2>3. b2 = [b EXCEPT ![p(L)] = c]
    BY <1>2, Zenon
  <2> HIDE DEF b2
  <2> QED
    BY <1>0, <2>1, <2>2, <2>3, Zenon
<1>6. /\ Append(t, c) \in Seq(Char) /\ Len(Append(t, c)) = Len(t) + 1
      /\ Append(t, c)[Len(t) + 1] = c /\ \A k \in 1 .. Len(t) : Append(t, c)[k] = t[k]
  BY <1>0
<1> HIDE DEF b2
<1>7. ASSUME NEW k \in 1 .. Len(s) PROVE s[k] = b2[(r + (0 + k - 1)) % S]
  <2>1. 0 + k - 1 \in 0 .. L - 1
    BY <1>1 DEF L
  <2>2. s[k] = b[p(0 + k - 1)]
    BY <1>0, <1>7, Zenon DEF Spells, p
  <2>3. b2[p(0 + k - 1)] = b[p(0 + k - 1)]
    BY <1>5, <2>1, Zenon
  <2> QED
    BY <2>2, <2>3, Zenon DEF p
<1>8. ASSUME NEW k \in 1 .. Len(t) + 1 PROVE Append(t, c)[k] = b2[(r + (Len(s) + k - 1)) % S]
  <2>1. CASE k = Len(t) + 1
    <3>1. Len(s) + k - 1 = L
      BY <1>1, <2>1 DEF L
    <3> QED
      BY <1>5, <1>6, <2>1, <3>1, Zenon DEF p
  <2>2. CASE k # Len(t) + 1
    <3>1. k \in 1 .. Len(t) /\ Len(s) + k - 1 \in 0 .. L - 1
      BY <1>1, <2>2 DEF L
    <3>2. t[k] = b[p(Len(s) + k - 1)]
      BY <1>0, <3>1, Zenon DEF Spells, p
    <3>3. b2[p(Len(s) + k - 1)] = b[p(Len(s) + k - 1)]
      BY <1>5, <3>1, Zenon
    <3> QED
      BY <1>6, <3>1, <3>2, <3>3, Zenon DEF p
  <2> QED
    BY <2>1, <2>2
<1>9. Spells(b2, r, 0, s)
  BY <1>7, Zenon DEF Spells
<1>10. Spells(b2, r, Len(s), Append(t, c))
  BY <1>6, <1>8, Zenon DEF Spells
<1>11. /\ (e + 1) % W = (r + (Len(s) + (Len(t) + 1))) % W
       /\ Len(s) + (Len(t) + 1) <= S
  <2>1. /\ r + L \in Int /\ 1 \in Int /\ (r + L) + 1 = r + (Len(s) + (Len(t) + 1))
        /\ Len(s) + (Len(t) + 1) <= S
    BY <1>1 DEF L
  <2>2. (((r + L) % W) + 1) % W = ((r + L) + 1) % W
    BY <1>1, <2>1, WrapAgain, Zenon
  <2> QED
    BY <1>0, <2>1, <2>2, Zenon DEF L
<1> QED
  BY <1>0, <1>5, <1>6, <1>9, <1>10, <1>11, Zenon DEF b2, Typed, Plus1

(* The end of a line hands what was edited to the readers.                 *)
LEMMA TypedCommit ==
  ASSUME NEW b, NEW r, NEW w, NEW e, NEW s, NEW t, Typed(b, r, w, e, s, t)
  PROVE  Typed(b, r, e, e, s \o t, <<>>)
<1>0. /\ r \in 0 .. W - 1 /\ s \in Seq(Char) /\ t \in Seq(Char) /\ Len(s) + Len(t) <= INPUT_BUF_SIZE
      /\ Spells(b, r, 0, s) /\ Spells(b, r, Len(s), t)
      /\ b \in [0 .. INPUT_BUF_SIZE - 1 -> Char]
      /\ w = (r + Len(s)) % W /\ e = (r + (Len(s) + Len(t))) % W
  BY Zenon DEF Typed
<1>1. s \o t \in Seq(Char) /\ Len(s \o t) = Len(s) + Len(t) /\ Spells(b, r, 0, s \o t)
  <2>1. r \in Int
    BY <1>0, InSizes
  <2> QED
    BY <1>0, <2>1, InCommit, Zenon
<1>2. <<>> \in Seq(Char) /\ Len(<<>>) = 0 /\ \A k \in 1 .. 0 : FALSE
  OBVIOUS
<1>3. \A n : Spells(b, r, n, <<>>)
  BY <1>2, Zenon DEF Spells
<1>4. Len(s) + Len(t) + 0 = Len(s) + Len(t)
  <2>1. Len(s) \in Nat /\ Len(t) \in Nat
    BY <1>0
  <2> QED
    BY <2>1
<1> QED
  BY <1>0, <1>1, <1>2, <1>3, <1>4, Zenon DEF Typed

(* An erase takes the last character of what is being edited.              *)
LEMMA TypedErase ==
  ASSUME NEW b, NEW r, NEW w, NEW e, NEW s, NEW t, Typed(b, r, w, e, s, t), e # w
  PROVE  LET u == SubSeq(t, 1, Len(t) - 1) IN
         Typed(b, r, w, Minus(e, 1), s, u) /\ Len(u) = Len(t) - 1
<1>0. /\ r \in 0 .. W - 1 /\ s \in Seq(Char) /\ t \in Seq(Char) /\ Len(s) + Len(t) <= INPUT_BUF_SIZE
      /\ Spells(b, r, 0, s) /\ Spells(b, r, Len(s), t)
      /\ b \in [0 .. INPUT_BUF_SIZE - 1 -> Char]
      /\ w = (r + Len(s)) % W /\ e = (r + (Len(s) + Len(t))) % W
  BY Zenon DEF Typed
<1>2. Len(t) # 0
  <2>1. Placed(r, w, e, Len(s), Len(t))
    BY TypedPlaced, Zenon
  <2> QED
    BY <2>1, Zenon DEF Placed
<1>3. /\ Len(s) \in Nat /\ Len(t) \in Nat /\ r \in Int /\ W \in Int /\ W > 0 /\ Len(s) \in Int /\ e \in Int
  <2>1. Placed(r, w, e, Len(s), Len(t))
    BY TypedPlaced, Zenon
  <2> QED
    BY <2>1, InSizes DEF Placed
<1> DEFINE u == SubSeq(t, 1, Len(t) - 1)
<1>1. u \in Seq(Char) /\ Len(u) = Len(t) - 1 /\ Spells(b, r, Len(s), u)
  <2>1. Len(t) > 0
    BY <1>2, <1>3
  <2> QED
    BY <1>0, <1>3, <2>1, InErase, Zenon
<1> DEFINE m == Len(s)  n == Len(t)
<1> HIDE DEF m, n, u
<1>4. m \in Nat /\ n \in Nat /\ n # 0 /\ m + n <= INPUT_BUF_SIZE /\ e = (r + (m + n)) % W
  BY <1>0, <1>2, <1>3, Zenon DEF m, n
<1> DEFINE x == r + (m + n)  y == W - 1  z == r + (m + (n - 1))
<1>5. /\ x \in Int /\ y \in Int /\ z \in Int /\ x + y \in Int /\ x + y = z + W
      /\ e + W - 1 = e + y /\ m + (n - 1) <= INPUT_BUF_SIZE
  BY <1>3, <1>4, InSizes
<1> HIDE DEF x, y, z
<1>6. ((x % W) + y) % W = (x + y) % W /\ z % W = (x + y) % W
  <2>1. ((x % W) + y) % W = (x + y) % W
    BY <1>3, <1>5, WrapAgain, Zenon
  <2>2. z % W = (x + y) % W
    BY <1>3, <1>5, NextTurn, Zenon
  <2> QED
    BY <2>1, <2>2
<1>7. (e + W - 1) % W = (r + (m + (n - 1))) % W
  BY <1>4, <1>5, <1>6, Zenon DEF x, z
<1> QED
  BY <1>0, <1>1, <1>5, <1>7, Zenon DEF Typed, Minus, m, n, u

ConsState == [buf : [0 .. INPUT_BUF_SIZE - 1 -> Char], r : 0 .. W - 1, w : 0 .. W - 1, e : 0 .. W - 1]

(* The ring buffer of the console holds the history of the input.          *)
Kept == cons \in ConsState /\ Typed(cons.buf, cons.r, cons.w, cons.e, lines, line)

Filled == Len(lines) + Len(line)

(* A full buffer has been handed to the readers, what the handler is about *)
(* to store has room, and nobody sleeps while there is something to read.  *)
Editing ==
  /\ Filled = INPUT_BUF_SIZE => Len(line) = 0
  /\ hd.pc \in {"echo", "sync", "store"} /\ hd.c \notin {"ctrlH", "ctrlU"} => Filled < INPUT_BUF_SIZE
  /\ hd.pc = "store" => hd.c \notin {"ctrlH", "ctrlU"}
  /\ th["reader"].pc = "asleep" => Len(lines) = 0

Erasers == {"ctrlH", "ctrlU"}

(* Initially the input ring is empty.                                      *)
LEMMA InitIn == Init => Kept /\ Editing
<1> SUFFICES ASSUME Init PROVE Kept /\ Editing
  OBVIOUS
<1>1. /\ cons = [buf |-> [i \in 0 .. INPUT_BUF_SIZE - 1 |-> None], r |-> 0, w |-> 0, e |-> 0]
      /\ lines = <<>> /\ line = <<>> /\ hd.pc = "none" /\ th["reader"].pc = "user"
  BY DEF Init, NoHandler, CPUs
<1>2. <<>> \in Seq(Char) /\ Len(<<>>) = 0 /\ \A k \in 1 .. 0 : FALSE
  OBVIOUS
<1>3. INPUT_BUF_SIZE \in Nat /\ INPUT_BUF_SIZE > 0 /\ W \in Int /\ W > 0 /\ 0 + 0 = 0 /\ 0 % W = 0 /\ 0 \in 0 .. W - 1
      /\ 0 + 0 <= INPUT_BUF_SIZE
  BY InSizes
<1>4. cons \in ConsState
  BY <1>1, <1>3 DEF ConsState, Char
<1>5. \A b, r, n : Spells(b, r, n, <<>>)
  BY <1>2, Zenon DEF Spells
<1>6. cons.r = 0 /\ cons.w = 0 /\ cons.e = 0 /\ cons.buf \in [0 .. INPUT_BUF_SIZE - 1 -> Char]
  BY <1>1, <1>4, Zenon DEF ConsState
<1>7. Typed(cons.buf, 0, 0, 0, <<>>, <<>>)
  BY <1>2, <1>3, <1>5, <1>6, Zenon DEF Typed
<1>8. Kept
  BY <1>1, <1>4, <1>6, <1>7, Zenon DEF Kept
<1>9. Editing
  BY <1>1, <1>2, <1>3 DEF Editing, Filled
<1> QED
  BY <1>8, <1>9

(* The indices and lengths of the console's buffer.                        *)
LEMMA ConsPlaced == ASSUME Kept PROVE Placed(cons.r, cons.w, cons.e, Len(lines), Len(line))
  BY TypedPlaced, Zenon DEF Kept

(* Steps that leave the buffer alone.                                      *)
LEMMA InPasses ==
  ASSUME Kept, Editing, cons' = cons, lines' = lines, line' = line,
         hd'.pc \in {"echo", "sync", "store"} /\ hd'.c \notin Erasers => Filled < INPUT_BUF_SIZE,
         hd'.pc = "store" => hd'.c \notin Erasers,
         th'["reader"].pc = "asleep" => Len(lines) = 0
  PROVE  Kept' /\ Editing'
<1>1. Kept'
  BY Zenon DEF Kept
<1>2. Editing'
  BY Zenon DEF Editing, Filled, Erasers
<1> QED
  BY <1>1, <1>2

(* A step of a process.                                                    *)
LEMMA ProcIn ==
  ASSUME Kept, Editing, cons' = cons, lines' = lines, line' = line, hd' = hd,
         th'["reader"].pc = "asleep" => th["reader"].pc = "asleep" \/ Len(lines) = 0
  PROVE  Kept' /\ Editing'
<1>1. /\ hd'.pc \in {"echo", "sync", "store"} /\ hd'.c \notin Erasers => Filled < INPUT_BUF_SIZE
      /\ hd'.pc = "store" => hd'.c \notin Erasers
      /\ th'["reader"].pc = "asleep" => Len(lines) = 0
  BY Zenon DEF Editing, Erasers
<1> QED
  BY <1>1, InPasses, Zenon

(* One character less than fits is not a full buffer.                      *)
LEMMA OneLess ==
  ASSUME NEW m \in Nat, NEW n \in Nat, NEW k \in Int, m + n <= k
  PROVE  /\ (m - 1) + n < k /\ (m - 1) + n # k
         /\ m + (n - 1) < k /\ m + (n - 1) # k
  OBVIOUS

(* consoleread takes a character.                                          *)
LEMMA TakeIn ==
  ASSUME Kept, Editing, cons.r # cons.w, cons' = [cons EXCEPT !.r = Plus1(@)],
         lines' = Tail(lines), line' = line, hd' = hd, th'["reader"].pc # "asleep"
  PROVE  Kept' /\ Editing'
<1>1. cons \in ConsState /\ Typed(cons.buf, cons.r, cons.w, cons.e, lines, line)
  BY Zenon DEF Kept
<1>2. Typed(cons.buf, Plus1(cons.r), cons.w, cons.e, Tail(lines), line) /\ Len(Tail(lines)) = Len(lines) - 1
  BY <1>1, TypedTake, Zenon
<1>3. cons'.buf = cons.buf /\ cons'.w = cons.w /\ cons'.e = cons.e /\ cons'.r = Plus1(cons.r)
  BY <1>1 DEF ConsState
<1>4. Plus1(cons.r) \in 0 .. W - 1
  BY <1>2, Zenon DEF Typed
<1>5. cons' \in ConsState
  BY <1>1, <1>4 DEF ConsState
<1>6. Kept'
  BY <1>2, <1>3, <1>5, Zenon DEF Kept
<1>7. /\ Len(lines) \in Nat /\ Len(line) \in Nat /\ Len(lines) + Len(line) <= INPUT_BUF_SIZE
      /\ INPUT_BUF_SIZE \in Int
  BY ConsPlaced, InSizes, Zenon DEF Placed
<1>8. (Len(lines) - 1) + Len(line) < INPUT_BUF_SIZE /\ (Len(lines) - 1) + Len(line) # INPUT_BUF_SIZE
  BY <1>7, OneLess, Zenon
<1>9. Filled' < INPUT_BUF_SIZE /\ Filled' # INPUT_BUF_SIZE
  BY <1>2, <1>8, Zenon DEF Filled
<1>10. Editing'
  BY <1>9, Zenon DEF Editing
<1> QED
  BY <1>6, <1>10

(* A turn of the loop of consoleread.                                      *)
LEMMA ReadIn ==
  ASSUME IInv, Kept, Editing, NEW c \in CPUs, readByte(c)
  PROVE  Kept' /\ Editing'
<1>1. c = "reader" /\ hd' = hd /\ line' = line /\ th[c].pc = "locked"
  BY Zenon DEF readByte, At
<1>2. \/ /\ cons.r = cons.w /\ cons' = cons /\ lines' = lines
      \/ /\ cons' = cons /\ lines' = lines /\ th' = [th EXCEPT ![c] = [pc |-> "user", n |-> 0]]
      \/ /\ cons.r # cons.w /\ cons' = [cons EXCEPT !.r = Plus1(@)] /\ lines' = Tail(lines)
         /\ \/ th' = [th EXCEPT ![c] = [pc |-> "user", n |-> 0]]
            \/ th' = [th EXCEPT ![c].n = th[c].n - 1]
  BY Zenon DEF readByte, readReturn
<1>3. CASE cons.r = cons.w /\ cons' = cons /\ lines' = lines
  <2>1. Len(lines) = 0
    BY <1>3, ConsPlaced, Zenon DEF Placed
  <2> QED
    BY <1>1, <1>3, <2>1, ProcIn, Zenon
<1>4. CASE cons' = cons /\ lines' = lines /\ th' = [th EXCEPT ![c] = [pc |-> "user", n |-> 0]]
  <2>1. th'["reader"].pc # "asleep"
    BY <1>1, <1>4, ThWriter
  <2> QED
    BY <1>1, <1>4, <2>1, ProcIn, Zenon
<1>5. CASE /\ cons.r # cons.w /\ cons' = [cons EXCEPT !.r = Plus1(@)] /\ lines' = Tail(lines)
           /\ \/ th' = [th EXCEPT ![c] = [pc |-> "user", n |-> 0]]
              \/ th' = [th EXCEPT ![c].n = th[c].n - 1]
  <2>1. th'["reader"].pc # "asleep"
    BY <1>1, <1>5, ThWriter
  <2> QED
    BY <1>1, <1>5, <2>1, TakeIn, Zenon
<1> QED
  BY <1>2, <1>3, <1>4, <1>5, Zenon

(* A backspace takes the last character of the line.                       *)
LEMMA EraseIn ==
  ASSUME IInv, Kept, Editing, cons.e # cons.w, cons' = [cons EXCEPT !.e = Minus(@, 1)],
         line' = SubSeq(line, 1, Len(line) - 1), lines' = lines, th' = th,
         hd.c \in Erasers, hd' = [hd EXCEPT !.pc = "echo", !.k = 3]
  PROVE  Kept' /\ Editing'
<1> DEFINE u == SubSeq(line, 1, Len(line) - 1)
<1>1. cons \in ConsState /\ Typed(cons.buf, cons.r, cons.w, cons.e, lines, line)
  BY Zenon DEF Kept
<1>2. Typed(cons.buf, cons.r, cons.w, Minus(cons.e, 1), lines, u) /\ Len(u) = Len(line) - 1
  BY <1>1, TypedErase, Zenon
<1> HIDE DEF u
<1>3. cons'.buf = cons.buf /\ cons'.w = cons.w /\ cons'.r = cons.r /\ cons'.e = Minus(cons.e, 1)
  BY <1>1 DEF ConsState
<1>4. Minus(cons.e, 1) \in 0 .. W - 1
  <2>1. Placed(cons.r, cons.w, Minus(cons.e, 1), Len(lines), Len(u))
    BY <1>2, TypedPlaced, Zenon
  <2> QED
    BY <2>1, Zenon DEF Placed
<1>5. cons' \in ConsState
  BY <1>1, <1>4 DEF ConsState
<1>6. Kept'
  BY <1>2, <1>3, <1>5, Zenon DEF Kept, u
<1>7. /\ Len(lines) \in Nat /\ Len(line) \in Nat /\ Len(lines) + Len(line) <= INPUT_BUF_SIZE
      /\ INPUT_BUF_SIZE \in Int
  BY ConsPlaced, InSizes, Zenon DEF Placed
<1>8. Len(lines) + (Len(line) - 1) < INPUT_BUF_SIZE /\ Len(lines) + (Len(line) - 1) # INPUT_BUF_SIZE
  BY <1>7, OneLess, Zenon
<1>9. Filled' < INPUT_BUF_SIZE /\ Filled' # INPUT_BUF_SIZE
  BY <1>2, <1>8, Zenon DEF Filled, u
<1>10. hd'.pc = "echo"
  BY ThWriter DEF HdState
<1>11. hd'.pc # "store"
  BY <1>10
<1>12. Editing'
  BY <1>9, <1>11, Zenon DEF Editing
<1> QED
  BY <1>6, <1>12

(* The switch of consoleintr erases, lets a character through that fits,   *)
(* or drops it.                                                            *)
LEMMA EditIn ==
  ASSUME IInv, Kept, Editing, consoleintr PROVE Kept' /\ Editing'
<1>1. th' = th /\ lines' = lines
  BY Zenon DEF consoleintr
<1>2. CASE /\ hd.c \in Erasers /\ cons.e # cons.w /\ cons' = [cons EXCEPT !.e = Minus(@, 1)]
           /\ line' = SubSeq(line, 1, Len(line) - 1) /\ hd' = [hd EXCEPT !.pc = "echo", !.k = 3]
  BY <1>1, <1>2, EraseIn, Zenon
<1>3. CASE Fits /\ hd' = [hd EXCEPT !.pc = "echo", !.k = 1] /\ cons' = cons /\ line' = line
  <2>1. hd'.pc # "store"
    BY <1>3, ThWriter DEF HdState
  <2>2. Filled < INPUT_BUF_SIZE
    BY <1>3, ConsPlaced, Zenon DEF Placed, Fits, Filled
  <2>3. th'["reader"].pc = "asleep" => Len(lines) = 0
    BY <1>1, Zenon DEF Editing
  <2> QED
    BY <1>1, <1>3, <2>1, <2>2, <2>3, InPasses, Zenon
<1>4. CASE hd' = [hd EXCEPT !.pc = "getc", !.c = None] /\ cons' = cons /\ line' = line
  <2>1. hd'.pc \notin {"echo", "sync", "store"} /\ hd'.pc # "store"
    BY <1>4, ThWriter DEF HdState
  <2>3. th'["reader"].pc = "asleep" => Len(lines) = 0
    BY <1>1, Zenon DEF Editing
  <2> QED
    BY <1>1, <1>4, <2>1, <2>3, InPasses, Zenon
<1> QED
  BY <1>2, <1>3, <1>4, Zenon DEF consoleintr, Erasers

(* cons has these fields.                                                  *)
ConsIs(d, b, r, w, e) == d \in ConsState /\ d.buf = b /\ d.r = r /\ d.w = w /\ d.e = e

(* The assignments to the fields of cons when a character is stored.       *)
LEMMA SetCons ==
  ASSUME NEW c \in ConsState, NEW i, NEW v, NEW x \in 0 .. W - 1, NEW y \in 0 .. W - 1,
         [c.buf EXCEPT ![i] = v] \in [0 .. INPUT_BUF_SIZE - 1 -> Char],
         NEW d, d = [c EXCEPT !.buf[i] = v, !.e = x, !.w = y]
  PROVE  ConsIs(d, [c.buf EXCEPT ![i] = v], c.r, y, x)
<1> DEFINE b == [c.buf EXCEPT ![i] = v]
           c1 == [c EXCEPT !.buf = b]
           c2 == [c1 EXCEPT !.e = x]
           c3 == [c2 EXCEPT !.w = y]
<1>1. d = c3
  OBVIOUS
<1>4. d.buf = b /\ d.r = c.r /\ d.w = y /\ d.e = x
  BY DEF ConsState
<1>0. b \in [0 .. INPUT_BUF_SIZE - 1 -> Char]
  OBVIOUS
<1> HIDE DEF b
<1>2. c1 \in ConsState
  BY <1>0 DEF ConsState
<1> HIDE DEF c1
<1>3. c2 \in ConsState
  BY <1>2 DEF ConsState
<1> HIDE DEF c2
<1>5. c3 \in ConsState
  BY <1>3 DEF ConsState
<1> QED
  BY <1>1, <1>4, <1>5, Zenon DEF b, ConsIs

(* A character is stored, and with the end of a line the line is handed to *)
(* the readers.                                                            *)
LEMMA StoreIn ==
  ASSUME IInv, Kept, Editing, store PROVE Kept' /\ Editing'
<1> DEFINE e == Plus1(cons.e)
           b == [cons.buf EXCEPT ![cons.e % INPUT_BUF_SIZE] = hd.c]
           t == Append(line, hd.c)
<1>0. hd' = [hd EXCEPT !.pc = "getc", !.c = None]
  BY Zenon DEF store
<1>1. hd'.pc \notin {"echo", "sync", "store"} /\ hd'.pc # "store" /\ hd.c \in Char
  BY <1>0, ThWriter DEF HdState, Char
<1>2. CASE hd.pc # "store"
  <2>1. cons' = cons /\ th' = th /\ lines' = lines /\ line' = line
    BY <1>2, Zenon DEF store
  <2>2. th'["reader"].pc = "asleep" => Len(lines) = 0
    BY <2>1, Zenon DEF Editing
  <2> QED
    BY <1>1, <2>1, <2>2, InPasses, Zenon
<1>3. CASE hd.pc = "store"
  <2>1. cons \in ConsState /\ Typed(cons.buf, cons.r, cons.w, cons.e, lines, line)
    BY Zenon DEF Kept
  <2>2. Len(lines) + Len(line) < INPUT_BUF_SIZE
    BY <1>3 DEF Editing, Filled
  <2>3. Typed(b, cons.r, cons.w, e, lines, t)
    BY <1>1, <2>1, <2>2, TypedPut, Zenon
  <2>4. Placed(cons.r, cons.w, e, Len(lines), Len(t))
    BY <2>3, TypedPlaced, Zenon
  <2>5. b \in [0 .. INPUT_BUF_SIZE - 1 -> Char]
    BY <2>3, Zenon DEF Typed
  <2>6. CASE EndsLine(hd.c, e)
    <3>1. /\ cons' = [cons EXCEPT !.buf[cons.e % INPUT_BUF_SIZE] = hd.c, !.e = e, !.w = e]
          /\ th' = Woken("reader", "runnable") /\ lines' = lines \o t /\ line' = <<>>
      BY <1>3, <2>6, Zenon DEF store
    <3> HIDE DEF b, e, t
    <3>2. Typed(b, cons.r, e, e, lines \o t, <<>>)
      BY <2>3, TypedCommit, Zenon
    <3>3. ConsIs(cons', b, cons.r, e, e)
      <4>1. e \in 0 .. W - 1
        BY <2>4, Zenon DEF Placed
      <4> QED
        BY <2>1, <2>5, <3>1, <4>1, SetCons, Zenon DEF b
    <3>5. Kept'
      BY <3>1, <3>2, <3>3, Zenon DEF Kept, ConsIs
    <3>6. th'["reader"].pc # "asleep"
      BY <3>1, ThWriter DEF Woken
    <3>7. Len(<<>>) = 0
      OBVIOUS
    <3>8. Editing'
      BY <1>1, <3>1, <3>6, <3>7, Zenon DEF Editing
    <3> QED
      BY <3>5, <3>8
  <2>7. CASE ~EndsLine(hd.c, e)
    <3>1. /\ cons' = [cons EXCEPT !.buf[cons.e % INPUT_BUF_SIZE] = hd.c, !.e = e, !.w = @]
          /\ th' = th /\ lines' = lines /\ line' = t
      BY <1>3, <2>7, Zenon DEF store
    <3> HIDE DEF b, e, t
    <3>2. cons' = [cons EXCEPT !.buf[cons.e % INPUT_BUF_SIZE] = hd.c, !.e = e, !.w = cons.w]
      BY <2>1, <3>1 DEF ConsState
    <3>3. ConsIs(cons', b, cons.r, cons.w, e)
      <4>1. e \in 0 .. W - 1 /\ cons.w \in 0 .. W - 1
        BY <2>4, Zenon DEF Placed
      <4> QED
        BY <2>1, <2>5, <3>2, <4>1, SetCons, Zenon DEF b
    <3>5. Kept'
      BY <2>3, <3>1, <3>3, Zenon DEF Kept, ConsIs
    <3>6. Filled' # INPUT_BUF_SIZE
      BY <2>4, <2>7, <3>1, Zenon DEF Placed, EndsLine, Filled
    <3>7. Editing'
      BY <1>1, <3>1, <3>6, Zenon DEF Editing
    <3> QED
      BY <3>5, <3>7
  <2> QED
    BY <2>6, <2>7
<1> QED
  BY <1>2, <1>3

(* The other steps of the processes.                                       *)
LEMMA ProcessIn ==
  ASSUME IInv, Kept, Editing, NEW c \in CPUs,
         \/ consoleread(c) \/ wakeReader(c) \/ readLock(c) \/ kill(c)
         \/ consolewrite(c) \/ writeLock(c) \/ uartputc(c)
  PROVE  Kept' /\ Editing'
<1>1. cons' = cons /\ lines' = lines /\ line' = line /\ hd' = hd
  BY Zenon DEF consoleread, wakeReader, readLock, kill, consolewrite, writeLock, uartputc, history
<1>2. th'["reader"].pc = "asleep" => th["reader"].pc = "asleep"
  <2>1. CASE kill(c)
    BY <2>1, ThWriter DEF kill, Woken
  <2>2. CASE c = "writer" /\ \E x : th' = [th EXCEPT ![c].pc = x]
    BY <2>2, ThWriter
  <2>3. CASE /\ c = "reader"
             /\ \/ th' = [th EXCEPT ![c] = [pc |-> "acquire", n |-> N]]
                \/ th' = [th EXCEPT ![c].pc = "acquire"] \/ th' = [th EXCEPT ![c].pc = "locked"]
    BY <2>3, ThWriter
  <2> QED
    BY <2>1, <2>2, <2>3, Zenon DEF consoleread, wakeReader, readLock, consolewrite, writeLock, uartputc
<1> QED
  BY <1>1, <1>2, ProcIn, Zenon

(* uartstart and WriteReg(THR, c), called by the writer or by the handler. *)
LEMMA SendIn ==
  ASSUME IInv, Kept, Editing, NEW c \in CPUs, uartstart(c) \/ WriteThr(c)
  PROVE  Kept' /\ Editing'
<1>1. cons' = cons /\ lines' = lines /\ line' = line
  BY Zenon DEF uartstart, WriteThr, history
<1>2. CASE hd.cpu = c
  <2>1. th' = th \/ th' = Woken("writer", "runnable")
    BY <1>2, Zenon DEF uartstart, WriteThr
  <2>2. th'["reader"] = th["reader"]
    BY <2>1, ThWriter DEF Woken
  <2>3. hd'.pc \notin {"echo", "sync", "store"} /\ hd'.pc # "store"
    <3>1. \/ hd' = [hd EXCEPT !.pc = "thr", !.k = tx.buf[tx.r % UART_TX_BUF_SIZE]]
          \/ hd' = [hd EXCEPT !.pc = "complete"] \/ hd' = [hd EXCEPT !.pc = "start", !.k = 0]
      BY <1>2, Zenon DEF uartstart, WriteThr
    <3>2. TypeOK /\ tx.buf[tx.r % UART_TX_BUF_SIZE] \in Int
      BY TxByte, Zenon DEF IInv
    <3>3. hd'.pc = "thr" \/ hd'.pc = "complete" \/ hd'.pc = "start"
      BY <3>1, <3>2, HdPlaces, HdGoes, Zenon
    <3> QED
      BY <3>3
  <2>4. th'["reader"].pc = "asleep" => Len(lines) = 0
    BY <2>2, Zenon DEF Editing
  <2> QED
    BY <1>1, <2>3, <2>4, InPasses, Zenon
<1>3. CASE hd.cpu # c
  <2>1. c = "writer" /\ hd' = hd /\ \E x : th' = [th EXCEPT ![c] = x]
    BY <1>3, Zenon DEF uartstart, WriteThr
  <2>2. th'["reader"] = th["reader"]
    BY <2>1, ThWriter
  <2> QED
    BY <1>1, <2>1, <2>2, ProcIn, Zenon
<1> QED
  BY <1>2, <1>3

(* An interrupt, and the handler before and after consoleintr and while it *)
(* echoes.                                                                 *)
LEMMA HandlerIn ==
  ASSUME IInv, Kept, Editing,
         \/ uartintr \/ handlerLock \/ uartputc_sync \/ syncWrite \/ plic_complete
         \/ \E c \in CPUs : devintr(c)
  PROVE  Kept' /\ Editing'
<1>1. cons' = cons /\ lines' = lines /\ line' = line /\ th' = th
  BY Zenon DEF uartintr, handlerLock, uartputc_sync, syncWrite, plic_complete, devintr, history
<1>2. th'["reader"].pc = "asleep" => Len(lines) = 0
  BY <1>1, Zenon DEF Editing
<1>3. CASE hd'.pc \notin {"echo", "sync", "store"} /\ hd'.pc # "store"
  BY <1>1, <1>2, <1>3, InPasses, Zenon
<1>4. CASE /\ hd.pc \in {"echo", "sync"} /\ hd'.c = hd.c
           /\ hd'.pc = "store" => hd.c \notin Erasers
  <2>1. hd.c \notin Erasers => Filled < INPUT_BUF_SIZE
    BY <1>4 DEF Editing, Erasers
  <2>2. hd'.pc \in {"echo", "sync", "store"} /\ hd'.c \notin Erasers => Filled < INPUT_BUF_SIZE
    BY <1>4, <2>1, Zenon
  <2> QED
    BY <1>1, <1>2, <1>4, <2>2, InPasses, Zenon
<1>5. CASE uartintr
  <2>1. \/ hd' = [hd EXCEPT !.pc = "consoleintr", !.c = rx]
        \/ hd' = [hd EXCEPT !.pc = "uartstart", !.c = rx]
    BY <1>5, Zenon DEF uartintr
  <2>2. hd'.pc = "consoleintr" \/ hd'.pc = "uartstart"
    <3>1. TypeOK /\ rx \in Input \cup {None} /\ "consoleintr" \in HdPc /\ "uartstart" \in HdPc
      BY DEF IInv, TypeOK, HdPc
    <3> QED
      BY <2>1, <3>1, HdPlaces, HdGoes, Zenon
  <2> QED
    BY <1>3, <2>2
<1>6. CASE handlerLock
  <2>1. hd' = [hd EXCEPT !.pc = "edit"] \/ hd' = [hd EXCEPT !.pc = "start"]
    BY <1>6 DEF handlerLock
  <2> QED
    BY <1>3, <2>1, ThWriter DEF HdState
<1>7. CASE plic_complete \/ \E c \in CPUs : devintr(c)
  BY <1>3, <1>7 DEF plic_complete, devintr, NoHandler
<1>8. CASE uartputc_sync
  <2>1. hd.pc = "echo" /\ hd' = [hd EXCEPT !.pc = "sync"]
    BY <1>8, Zenon DEF uartputc_sync
  <2>2. hd'.pc = "sync" /\ hd'.c = hd.c
    BY <2>1, ThWriter DEF HdState
  <2> QED
    BY <1>4, <2>1, <2>2
<1>9. CASE syncWrite
  <2>1. /\ hd.pc = "sync"
        /\ hd' = [hd EXCEPT !.pc = IF hd.k > 1 THEN "echo"
                            ELSE IF hd.c = "ctrlU" THEN "edit"
                            ELSE IF hd.c = "ctrlH" THEN "erased" ELSE "store",
                      !.k = @ - 1]
    BY <1>9, Zenon DEF syncWrite
  <2>2. hd'.c = hd.c /\ (hd'.pc = "store" => hd.c # "ctrlU" /\ hd.c # "ctrlH")
    BY <2>1, ThWriter DEF HdState
  <2> QED
    BY <1>4, <2>1, <2>2 DEF Erasers
<1> QED
  BY <1>5, <1>6, <1>7, <1>8, <1>9, Zenon

(* Every step keeps the input ring and what is known of the reader.        *)
LEMMA InStep == IInv /\ Kept /\ Editing /\ [Next]_vars => Kept' /\ Editing'
<1> SUFFICES ASSUME IInv, Kept, Editing, [Next]_vars PROVE Kept' /\ Editing'
  OBVIOUS
<1>1. ASSUME NEW c \in CPUs, Run(c) PROVE Kept' /\ Editing'
  BY <1>1, ReadIn, ProcessIn, SendIn, Zenon DEF Run
<1>2. ASSUME NEW c \in CPUs, kill(c) PROVE Kept' /\ Editing'
  BY <1>2, ProcessIn, Zenon
<1>3. CASE Handler \/ \E c \in CPUs : devintr(c)
  BY <1>3, EditIn, StoreIn, HandlerIn, Zenon DEF Handler
<1>4. CASE Transmit \/ (\E c \in Input : Type(c)) \/ UNCHANGED vars
  <2>1. cons' = cons /\ lines' = lines /\ line' = line /\ hd' = hd /\ th' = th
    BY <1>4, Zenon DEF Transmit, Type, history, vars
  <2> QED
    BY <2>1, ProcIn, Zenon
<1> QED
  BY <1>1, <1>2, <1>3, <1>4, Zenon DEF Next

(* A sequence is what it has at each place.                                *)
LEMMA SeqIs ==
  ASSUME NEW T, NEW s \in Seq(T), NEW f, f = [k \in 1 .. Len(s) |-> f[k]],
         \A k \in 1 .. Len(s) : f[k] = s[k]
  PROVE  f = s
<1>1. s = [k \in 1 .. Len(s) |-> s[k]]
  OBVIOUS
<1> QED
  BY <1>1, Zenon

(* The spans of the ring between its indices are the history.              *)
LEMMA KeptSpans == ASSUME Kept PROVE InputIsTyped
<1> DEFINE m == Len(lines)  n == Len(line)  r == cons.r  S == INPUT_BUF_SIZE
           f == Span(cons.r, cons.w)  g == Span(cons.w, cons.e)
<1>1. lines \in Seq(Char) /\ line \in Seq(Char) /\ Spells(cons.buf, r, 0, lines) /\ Spells(cons.buf, r, m, line)
  BY Zenon DEF Kept, Typed
<1>2. /\ r \in 0 .. W - 1 /\ cons.w \in 0 .. W - 1 /\ cons.w = (r + m) % W /\ Minus(cons.w, cons.r) = m /\ Minus(cons.e, cons.w) = n
      /\ m \in Nat /\ n \in Nat
  BY ConsPlaced, Zenon DEF Placed
<1>3. r \in Int /\ W \in Int
  BY <1>2, InSizes
<1>4. f = lines
  <2>1. f = [k \in 1 .. m |-> cons.buf[(r + k - 1) % S]]
    BY <1>2, Zenon DEF Span, InputAt
  <2>2. ASSUME NEW k \in 1 .. m PROVE f[k] = lines[k]
    <3>1. r + k - 1 = r + (0 + k - 1)
      BY <1>3
    <3>2. lines[k] = cons.buf[(r + (0 + k - 1)) % S]
      BY <1>1, Zenon DEF Spells
    <3> QED
      BY <2>1, <3>1, <3>2, Zenon
  <2> HIDE DEF f
  <2>3. f = [k \in 1 .. m |-> f[k]]
    BY <2>1, Zenon
  <2> QED
    BY <1>1, <2>2, <2>3, SeqIs, Zenon
<1>5. g = line
  <2>1. g = [k \in 1 .. n |-> cons.buf[(cons.w + k - 1) % S]]
    BY <1>2, Zenon DEF Span, InputAt
  <2>2. ASSUME NEW k \in 1 .. n PROVE g[k] = line[k]
    <3>1. r + m \in Int /\ k - 1 \in Int /\ (r + m) + (k - 1) = r + (m + k - 1)
      <4> HIDE DEF m, n, r
      <4> QED
        BY <1>2, <1>3
    <3>2. (((r + m) % W) + (k - 1)) % S = ((r + m) + (k - 1)) % S
      BY <3>1, InWrap, Zenon
    <3>3. cons.w + k - 1 = cons.w + (k - 1)
      <4>1. cons.w \in Int
        BY <1>2, <1>3, Below, Zenon
      <4> QED
        BY <4>1
    <3>4. line[k] = cons.buf[(r + (m + k - 1)) % S]
      BY <1>1, Zenon DEF Spells
    <3>5. (cons.w + k - 1) % S = (r + (m + k - 1)) % S
      BY <1>2, <3>1, <3>2, <3>3, Zenon
    <3> QED
      BY <2>1, <3>4, <3>5, Zenon
  <2> HIDE DEF g
  <2>3. g = [k \in 1 .. n |-> g[k]]
    BY <2>1, Zenon
  <2> QED
    BY <1>1, <2>2, <2>3, SeqIs, Zenon
<1> QED
  BY <1>4, <1>5, Zenon DEF InputIsTyped

(* The input ring and the reader, in every reachable state.                *)
LEMMA InputInductive == Spec => [](Kept /\ Editing)
  BY Inductive, InitIn, InStep, PTL DEF Spec

(* cons.buf holds, between its indices, the input that was typed and       *)
(* edited and not yet read: consoleintr overwrites nothing unread and      *)
(* erases nothing committed (InputIsTyped).                                *)
THEOREM BufferIsInput == Spec => []InputIsTyped
  BY InputInductive, KeptSpans, PTL

(* consoleread does not sleep on input, nor with the buffer full, uartputc *)
(* sleeps only while uart_tx_buf is full, and bytes in uart_tx_buf have    *)
(* somebody who will send them (NothingForgotten).                         *)
THEOREM NobodyIsForgotten == Spec => []NothingForgotten
<1>1. Kept /\ Editing /\ Told => NothingForgotten
  <2> SUFFICES ASSUME Kept, Editing, Told PROVE NothingForgotten
    OBVIOUS
  <2>1. /\ Len(lines) \in Nat /\ Len(line) \in Nat /\ Len(lines) + Len(line) <= INPUT_BUF_SIZE
        /\ lines \in Seq(Char) /\ INPUT_BUF_SIZE \in Int /\ INPUT_BUF_SIZE > 0
    BY ConsPlaced, InSizes, Zenon DEF Placed, Kept, Typed
  <2>2. ASSUME th["reader"].pc = "asleep" PROVE lines = <<>> /\ Len(line) < INPUT_BUF_SIZE
    <3>1. Len(lines) = 0 /\ (Len(lines) + Len(line) = INPUT_BUF_SIZE => Len(line) = 0)
      BY <2>2, Zenon DEF Editing, Filled
    <3>2. lines = <<>>
      BY <2>1, <3>1
    <3>3. Len(line) < INPUT_BUF_SIZE
      BY <2>1, <3>1
    <3> QED
      BY <3>2, <3>3
  <2> QED
    BY <2>2, Zenon DEF Told, NothingForgotten
<1>2. Spec => [](IInv /\ Order /\ Told)
  BY Inductive, InitOut, OutStep, PTL DEF Spec
<1> QED
  BY <1>1, <1>2, InputInductive, PTL
=============================================================================
