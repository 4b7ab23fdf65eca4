----------------------------- MODULE MCConsole -----------------------------
(* Buffers of two bytes, indices that wrap at four, reads of two bytes.    *)
EXTENDS Console

MCChars == {"x"}

(* All arithmetic on indices is modulo W or TW, so turning a ring is a      *)
(* symmetry: the history tells what the input ring holds, and the byte of  *)
(* the output ring, in the buffer or in a register, is seen from tx.r.     *)
From(k) == (k + TW - tx.r) % TW
Byte(pc, k) == IF pc = "thr" THEN From(k) ELSE k
MCView == <<InputIsTyped, lines, line, eofs, From(tx.w), From(sent),
            [k \in 1..From(tx.w) |-> From(tx.buf[(tx.r + k - 1) % UART_TX_BUF_SIZE])],
            Byte(th["writer"].pc, th["writer"].n), Byte(hd.pc, hd.k),
            th["reader"], th["writer"].pc, hd.cpu, hd.pc, hd.c,
            thr, rx, irq, cpu, lock, panic>>
=============================================================================
