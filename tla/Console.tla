------------------------------ MODULE Console ------------------------------
(***************************************************************************)
(* The console: console.c and uart.c, the spinlocks and the interrupt      *)
(* enables of spinlock.c, and the path of an interrupt through trap.c and  *)
(* plic.c.                                                                 *)
(*                                                                         *)
(* One process reads lines and one writes, each on a CPU of its own; the   *)
(* UART interrupts whichever CPU has interrupts on.  Code under a spinlock *)
(* is one step up to the next read or write of a UART register, since      *)
(* uartputc_sync uses the UART without uart_tx_lock.  Indices are unsigned *)
(* and wrap: at W for the input, at TW for the output.                     *)
(***************************************************************************)
EXTENDS Naturals, Sequences

CONSTANTS INPUT_BUF_SIZE, UART_TX_BUF_SIZE, W, TW,
          N,       \* bytes that one read asks for
          Chars,   \* ordinary characters
          None

ASSUME SizeAssumption ==
  /\ {INPUT_BUF_SIZE, UART_TX_BUF_SIZE, W, TW, N} \subseteq Nat \ {0}
  /\ W % INPUT_BUF_SIZE = 0 /\ W > INPUT_BUF_SIZE
  /\ TW % UART_TX_BUF_SIZE = 0 /\ TW > UART_TX_BUF_SIZE + 1

CPUs == {"reader", "writer"}    \* a CPU has the name of its process
Input == Chars \cup {"nl", "ctrlD", "ctrlH", "ctrlU"}

ASSUME NoneAssumption == None \notin CPUs

VARIABLES cons,     \* [buf, r, w, e]
          tx,       \* [buf, r, w]: uart_tx_buf and its indices
          thr,      \* bytes in the UART's transmit FIFO
          rx,       \* the character in RHR, or None
          irq,      \* the PLIC has a UART interrupt to deliver
          cpu,      \* [CPUs -> [intr, noff, intena]]
          lock,     \* [{"cons", "tx"} -> the CPU that holds it]
          th,       \* [CPUs -> [pc, n]]: the process of each CPU
          hd,       \* [cpu, pc, c, k]: the interrupt handler; cpu is None when it is not running
          panic,
          lines, line,   \* history: input a read may take, and the line being edited
          eofs,          \* history: ^D's typed for which no read has returned 0
          sent           \* history: the last byte of a write given to the UART
device == <<thr, rx, irq>>
history == <<lines, line, eofs>>
vars == <<cons, tx, thr, rx, irq, cpu, lock, th, hd, panic, lines, line, eofs, sent>>

NoHandler == [cpu |-> None, pc |-> "none", c |-> None, k |-> 0]

Init ==
  /\ cons = [buf |-> [i \in 0..(INPUT_BUF_SIZE - 1) |-> None], r |-> 0, w |-> 0, e |-> 0]
  /\ tx = [buf |-> [i \in 0..(UART_TX_BUF_SIZE - 1) |-> 0], r |-> 0, w |-> 0]
  /\ thr = 0 /\ rx = None /\ irq = FALSE
  /\ cpu = [c \in CPUs |-> [intr |-> 1, noff |-> 0, intena |-> 0]]
  /\ lock = [l \in {"cons", "tx"} |-> None]
  /\ th = [c \in CPUs |-> [pc |-> "user", n |-> 0]]
  /\ hd = NoHandler
  /\ panic = "none"
  /\ lines = <<>> /\ line = <<>> /\ eofs = 0 /\ sent = TW - 1

------------------------------------------------------------------------------
(* spinlock.c                                                              *)
(* Mutant: the old state is read after interrupts are turned off.          *)
push_off_late(k) == [intr |-> 0, noff |-> k.noff + 1, intena |-> IF k.noff = 0 THEN 0 ELSE k.intena]
push_off(k) == [intr |-> 0, noff |-> k.noff + 1, intena |-> IF k.noff = 0 THEN k.intr ELSE k.intena]
pop_off(k) == [intr |-> IF k.noff = 1 /\ k.intena = 1 THEN 1 ELSE k.intr,
               noff |-> k.noff - 1, intena |-> k.intena]

(* acquire is a push_off with the test of holding, then the atomic swap.   *)
(* release and the pop_off in it are one step.                             *)
acquire(c, l) ==
  /\ panic = "none"
  /\ cpu' = [cpu EXCEPT ![c] = push_off(@)]
  /\ panic' = IF lock[l] = c THEN "acquire" ELSE "none"

swap(c, l) ==
  /\ panic = "none" /\ lock[l] = None
  /\ lock' = [lock EXCEPT ![l] = c]
  /\ UNCHANGED <<cpu, panic>>

release(c, l) ==
  /\ panic = "none"
  /\ lock' = [lock EXCEPT ![l] = None]
  /\ cpu' = [cpu EXCEPT ![c] = pop_off(@)]
  /\ panic' = IF lock[l] # c THEN "release"
              ELSE IF cpu[c].intr = 1 THEN "interruptible"
              ELSE IF cpu[c].noff < 1 THEN "pop_off" ELSE "none"

(* sleep gives up the lock and the CPU, whose scheduler turns interrupts   *)
(* on.                                                                     *)
sleep(c, l) ==
  /\ panic = "none"
  /\ lock' = [lock EXCEPT ![l] = None]
  /\ cpu' = [cpu EXCEPT ![c] = [intr |-> 1, noff |-> 0, intena |-> @.intena]]
  /\ panic' = IF cpu[c].noff # 1 THEN "sched_locks" ELSE "none"

(* The process of a CPU runs when no handler is on top of it.              *)
At(c, l) == hd.cpu # c /\ th[c].pc = l
Woken(c, l) == IF th[c].pc = "asleep" THEN [th EXCEPT ![c].pc = l] ELSE th

------------------------------------------------------------------------------
(* console.c                                                               *)
Minus(a, b) == (a + W - b) % W
Plus1(a) == (a + 1) % W
InputAt(i) == cons.buf[i % INPUT_BUF_SIZE]

consoleread(c) ==
  /\ c = "reader" /\ At(c, "user")
  /\ acquire(c, "cons")
  /\ th' = [th EXCEPT ![c] = [pc |-> "acquire", n |-> N]]
  /\ UNCHANGED <<cons, tx, device, lock, hd, history, sent>>

(* A process that sleep returns to takes the lock again.                   *)
wakeReader(c) ==
  /\ c = "reader" /\ At(c, "runnable")
  /\ acquire(c, "cons")
  /\ th' = [th EXCEPT ![c].pc = "acquire"]
  /\ UNCHANGED <<cons, tx, device, lock, hd, history, sent>>

readLock(c) ==
  /\ c = "reader" /\ At(c, "acquire") /\ swap(c, "cons")
  /\ th' = [th EXCEPT ![c].pc = "locked"]
  /\ UNCHANGED <<cons, tx, device, hd, history, sent>>

(* kill wakes a process from its sleep; the reader then sees that it was   *)
(* killed, and the writer sleeps again while the buffer is full.           *)
kill(c) ==
  /\ th[c].pc = "asleep" /\ panic = "none"
  /\ th' = Woken(c, "runnable")
  /\ UNCHANGED <<cons, tx, device, cpu, lock, hd, panic, history, sent>>

readReturn(c) == release(c, "cons") /\ th' = [th EXCEPT ![c] = [pc |-> "user", n |-> 0]]

(* Mutant: a ^D after some bytes is used up.                               *)
KeepEof_never(n) == FALSE
(* A ^D after some bytes of this read is left for the next.                *)
KeepEof(n) == n < N

(* One turn of the loop of consoleread.                                    *)
readByte(c) ==
  LET b == InputAt(cons.r)
      n == th[c].n IN
  /\ c = "reader" /\ At(c, "locked")
  /\ \/ /\ cons.r = cons.w
        /\ \/ sleep(c, "cons") /\ th' = [th EXCEPT ![c].pc = "asleep"]
           \/ readReturn(c)                                    \* killed
        /\ UNCHANGED <<cons, lines, eofs>>
     \/ /\ cons.r # cons.w /\ b = "ctrlD"
        /\ readReturn(c)
        /\ cons' = IF KeepEof(n) THEN cons ELSE [cons EXCEPT !.r = Plus1(@)]
        /\ lines' = IF KeepEof(n) THEN lines ELSE Tail(lines)
        /\ eofs' = IF n = N THEN eofs - 1 ELSE eofs
     \/ /\ cons.r # cons.w /\ b # "ctrlD"
        /\ cons' = [cons EXCEPT !.r = Plus1(@)]
        /\ lines' = Tail(lines)
        /\ \/ /\ n > 1 /\ b # "nl"
              /\ th' = [th EXCEPT ![c].n = n - 1]
              /\ UNCHANGED <<cpu, lock, panic>>
           \/ (n = 1 \/ b = "nl") /\ readReturn(c)
           \/ readReturn(c)                                    \* either_copyout failed
        /\ UNCHANGED eofs
  /\ UNCHANGED <<tx, device, hd, line, sent>>

------------------------------------------------------------------------------
(* uart.c, the transmit side.  uartstart(c, Return) is one turn of its     *)
(* loop on the CPU c: it takes the next byte, or returns to its caller.    *)
(* Mutant: one byte too many.                                              *)
TxFull_late == tx.w = (tx.r + UART_TX_BUF_SIZE + 1) % TW
TxFull == tx.w = (tx.r + UART_TX_BUF_SIZE) % TW
(* Mutant: LSR is not looked at.                                           *)
TxNext_blind == tx.w # tx.r
TxNext == tx.w # tx.r /\ thr = 0

consolewrite(c) ==
  /\ c = "writer" /\ (At(c, "user") \/ At(c, "runnable"))
  /\ acquire(c, "tx")
  /\ th' = [th EXCEPT ![c].pc = "acquire"]
  /\ UNCHANGED <<cons, tx, device, lock, hd, history, sent>>

writeLock(c) ==
  /\ c = "writer" /\ At(c, "acquire") /\ swap(c, "tx")
  /\ th' = [th EXCEPT ![c].pc = "locked"]
  /\ UNCHANGED <<cons, tx, device, hd, history, sent>>

uartputc(c) ==
  /\ c = "writer" /\ At(c, "locked")
  /\ \/ /\ TxFull
        /\ sleep(c, "tx")
        /\ th' = [th EXCEPT ![c].pc = "asleep"]
        /\ UNCHANGED tx
     \/ /\ ~TxFull /\ panic = "none"
        /\ tx' = [buf |-> [tx.buf EXCEPT ![tx.w % UART_TX_BUF_SIZE] = tx.w],
                  r |-> tx.r, w |-> (tx.w + 1) % TW]
        /\ th' = [th EXCEPT ![c].pc = "start"]
        /\ UNCHANGED <<cpu, lock, panic>>
  /\ UNCHANGED <<cons, device, hd, history, sent>>

uartstart(c) ==
  LET handler == hd.cpu = c IN
  /\ IF handler THEN hd.pc = "start" ELSE c = "writer" /\ At(c, "start")
  /\ \/ /\ TxNext /\ panic = "none"
        /\ tx' = [tx EXCEPT !.r = (@ + 1) % TW]
        /\ IF handler THEN hd' = [hd EXCEPT !.pc = "thr", !.k = tx.buf[tx.r % UART_TX_BUF_SIZE]]
                      ELSE UNCHANGED hd
        /\ th' = IF handler THEN Woken("writer", "runnable")
                 ELSE [th EXCEPT ![c] = [pc |-> "thr", n |-> tx.buf[tx.r % UART_TX_BUF_SIZE]]]
        /\ UNCHANGED <<cpu, lock, panic>>
     \/ /\ ~TxNext /\ release(c, "tx")
        /\ IF handler THEN hd' = [hd EXCEPT !.pc = "complete"] /\ UNCHANGED th
                      ELSE th' = [th EXCEPT ![c] = [pc |-> "user", n |-> 0]] /\ UNCHANGED hd
        /\ UNCHANGED tx
  /\ UNCHANGED <<cons, device, history, sent>>

(* WriteReg(THR, c) of uartstart.                                          *)
WriteThr(c) ==
  LET handler == hd.cpu = c IN
  /\ IF handler THEN hd.pc = "thr" ELSE c = "writer" /\ At(c, "thr")
  /\ thr' = thr + 1
  /\ IF handler THEN hd' = [hd EXCEPT !.pc = "start", !.k = 0] /\ sent' = hd.k /\ UNCHANGED th
                ELSE th' = [th EXCEPT ![c] = [pc |-> "start", n |-> 0]] /\ sent' = th[c].n /\ UNCHANGED hd
  /\ UNCHANGED <<cons, tx, rx, irq, cpu, lock, panic, history>>

------------------------------------------------------------------------------
(* The handler: kerneltrap or usertrap, devintr, uartintr.                 *)
devintr(c) ==
  /\ irq /\ hd = NoHandler /\ cpu[c].intr = 1 /\ panic = "none"
  /\ irq' = FALSE
  /\ cpu' = [cpu EXCEPT ![c].intr = 0]
  /\ hd' = [cpu |-> c, pc |-> "getc", c |-> None, k |-> 0]
  /\ UNCHANGED <<cons, tx, thr, rx, lock, th, panic, history, sent>>

(* The loop of uartintr: the next character, or on to the transmit side.   *)
uartintr ==
  /\ hd.pc = "getc"
  /\ rx' = None
  /\ hd' = [hd EXCEPT !.pc = IF rx # None THEN "consoleintr" ELSE "uartstart", !.c = rx]
  /\ acquire(hd.cpu, IF rx # None THEN "cons" ELSE "tx")
  /\ UNCHANGED <<cons, tx, thr, irq, lock, th, history, sent>>

handlerLock ==
  /\ hd.pc \in {"consoleintr", "uartstart"}
  /\ swap(hd.cpu, IF hd.pc = "consoleintr" THEN "cons" ELSE "tx")
  /\ hd' = [hd EXCEPT !.pc = IF @ = "consoleintr" THEN "edit" ELSE "start"]
  /\ UNCHANGED <<cons, tx, device, th, history, sent>>

(* Mutant: a character too many.                                           *)
Fits_late == Minus(cons.e, cons.r) <= INPUT_BUF_SIZE
Fits == Minus(cons.e, cons.r) < INPUT_BUF_SIZE

(* The switch of consoleintr; an echo is k characters still to be sent.    *)
consoleintr ==
  LET erases == \/ hd.c = "ctrlH" /\ cons.e # cons.w
                \/ hd.c = "ctrlU" /\ cons.e # cons.w /\ InputAt(Minus(cons.e, 1)) # "nl"
      stores == hd.c \notin {"ctrlH", "ctrlU"} /\ Fits IN
  /\ hd.pc = "edit" /\ panic = "none"
  /\ \/ /\ erases
        /\ cons' = [cons EXCEPT !.e = Minus(@, 1)]
        /\ line' = SubSeq(line, 1, Len(line) - 1)
        /\ hd' = [hd EXCEPT !.pc = "echo", !.k = 3]
        /\ UNCHANGED <<cpu, lock, panic>>
     \/ /\ stores
        /\ hd' = [hd EXCEPT !.pc = "echo", !.k = 1]
        /\ UNCHANGED <<cons, line, cpu, lock, panic>>
     \/ /\ ~erases /\ ~stores
        /\ release(hd.cpu, "cons")
        /\ hd' = [hd EXCEPT !.pc = "getc", !.c = None]
        /\ UNCHANGED <<cons, line>>
  /\ UNCHANGED <<tx, device, th, lines, eofs, sent>>

(* uartputc_sync waits for LSR_TX_IDLE, then writes, with interrupts off.  *)
uartputc_sync ==
  /\ hd.pc = "echo" /\ thr = 0 /\ panic = "none"
  /\ cpu' = [cpu EXCEPT ![hd.cpu] = push_off(@)]
  /\ hd' = [hd EXCEPT !.pc = "sync"]
  /\ UNCHANGED <<cons, tx, device, lock, th, panic, history, sent>>

syncWrite ==
  /\ hd.pc = "sync"
  /\ thr' = thr + 1
  /\ cpu' = [cpu EXCEPT ![hd.cpu] = pop_off(@)]
  /\ hd' = [hd EXCEPT !.pc = IF hd.k > 1 THEN "echo"
                            ELSE IF hd.c = "ctrlU" THEN "edit"
                            ELSE IF hd.c = "ctrlH" THEN "erased" ELSE "store",
                      !.k = @ - 1]
  /\ UNCHANGED <<cons, tx, rx, irq, lock, th, panic, history, sent>>

(* Mutant: a full buffer without a newline is not handed to the reader.    *)
EndsLine_nl(c, e) == c \in {"nl", "ctrlD"}
EndsLine(c, e) == c \in {"nl", "ctrlD"} \/ Minus(e, cons.r) = INPUT_BUF_SIZE

(* The rest of consoleintr after the echo.                                 *)
store ==
  LET e == Plus1(cons.e)
      stores == hd.pc = "store"
      commits == stores /\ EndsLine(hd.c, e) IN
  /\ hd.pc \in {"store", "erased"}
  /\ cons' = IF stores THEN [cons EXCEPT !.buf[cons.e % INPUT_BUF_SIZE] = hd.c, !.e = e,
                                         !.w = IF commits THEN e ELSE @]
             ELSE cons
  /\ th' = IF commits THEN Woken("reader", "runnable") ELSE th
  /\ lines' = IF commits THEN lines \o Append(line, hd.c) ELSE lines
  /\ line' = IF commits THEN <<>> ELSE IF stores THEN Append(line, hd.c) ELSE line
  /\ eofs' = IF stores /\ hd.c = "ctrlD" THEN eofs + 1 ELSE eofs
  /\ release(hd.cpu, "cons")
  /\ hd' = [hd EXCEPT !.pc = "getc", !.c = None]
  /\ UNCHANGED <<tx, device, sent>>

(* plic_complete, and the return from the trap.                            *)
plic_complete ==
  /\ hd.pc = "complete" /\ panic = "none"
  /\ cpu' = [cpu EXCEPT ![hd.cpu].intr = 1]
  /\ hd' = NoHandler
  /\ UNCHANGED <<cons, tx, device, lock, th, panic, history, sent>>

(* The UART: a character arrives; a byte leaves, and with the last of them *)
(* the UART interrupts.                                                    *)
Type(c) ==
  /\ rx = None /\ rx' = c /\ irq' = TRUE
  /\ UNCHANGED <<cons, tx, thr, cpu, lock, th, hd, panic, history, sent>>

Transmit ==
  /\ thr > 0 /\ thr' = thr - 1 /\ irq' = (irq \/ thr = 1)
  /\ UNCHANGED <<cons, tx, rx, cpu, lock, th, hd, panic, history, sent>>

Handler == uartintr \/ handlerLock \/ consoleintr \/ uartputc_sync \/ syncWrite \/ store \/ plic_complete

Run(c) ==
  \/ consoleread(c) \/ wakeReader(c) \/ readLock(c) \/ readByte(c)
  \/ consolewrite(c) \/ writeLock(c) \/ uartputc(c)
  \/ uartstart(c) \/ WriteThr(c)

Next ==
  \/ \E c \in CPUs : Run(c) \/ devintr(c) \/ kill(c)
  \/ Handler
  \/ \E c \in Input : Type(c)
  \/ Transmit

Spec == Init /\ [][Next]_vars

------------------------------------------------------------------------------
Span(a, b) == [k \in 1..Minus(b, a) |-> InputAt(a + k - 1)]

(* The ring buffer holds what was typed, edited and not yet read, however  *)
(* the indices wrap: no typed character overwrites an unread one, and no   *)
(* erase reaches into a line that a read may already have taken.           *)
InputIsTyped == Span(cons.r, cons.w) = lines /\ Span(cons.w, cons.e) = line

(* Every ^D that went into the buffer ends exactly one read with 0 bytes:  *)
(* one that ends a read that has bytes is kept for the next                *)
(* (console.c:101).                                                        *)
EofOnce == eofs = Len(SelectSeq(lines, LAMBDA c : c = "ctrlD"))

(* Nobody waits for what is there or for an interrupt that will not come:  *)
(* the reader for committed input or with the buffer full, the writer for  *)
(* room; and while bytes wait in uart_tx_buf, the UART still has something *)
(* to send, its interrupt is on the way, or a CPU will run uartstart.      *)
NothingForgotten ==
  /\ th["reader"].pc = "asleep" => lines = <<>> /\ Len(line) < INPUT_BUF_SIZE
  /\ th["writer"].pc = "asleep" => TxFull
  /\ tx.r # tx.w => \/ thr > 0 \/ irq
                    \/ hd.pc \notin {"none", "complete"}
                    \/ th["writer"].pc \in {"start", "thr"}

(* A CPU holds a spinlock only with interrupts off, so that no handler     *)
(* meets a lock of the process under it ("acquire"), and has them on again *)
(* when its process is in user mode; release and pop_off are balanced, and *)
(* sleep goes to sched with one lock ("sched locks").                      *)
LocksMaskInterrupts ==
  /\ panic = "none"
  /\ \A c \in CPUs : /\ (\E l \in DOMAIN lock : lock[l] = c) => cpu[c].intr = 0
                     /\ th[c].pc = "user" /\ hd.cpu # c => cpu[c].intr = 1

(* uartputc_sync takes no lock, so its check of LSR can be stale when it   *)
(* writes; still at most one byte per CPU waits in the UART, whose FIFO    *)
(* uartinit enables.  (Two CPUs; the kernel's own printf, which uses       *)
(* uartputc_sync as well, is left out.)                                    *)
FifoFits == thr <= 2

(* Bytes of write() reach the UART in order, each once: whoever runs       *)
(* uartstart, what it writes to THR is the byte after the last one written. *)
OutputInOrder == [][\A c \in CPUs : WriteThr(c) => sent' = (sent + 1) % TW]_vars
=============================================================================
