------------------------------- MODULE Shell -------------------------------
(***************************************************************************)
(* Commands at work: the shell's runcmd and main (user/sh.c) with the      *)
(* programs echo, cat and wc, on top of the descriptors of sysfile.c, the  *)
(* file table of file.c, pipes, and fork, exit and wait.                   *)
(*                                                                         *)
(* A process is the sequence of system calls it is still to make.  runcmd  *)
(* turns a command into such a sequence; a call is a step, and so is each  *)
(* pipeclose, which fileclose does after it has let go of the file table.  *)
(* What a shell process does between two calls is part of the first one.   *)
(* A pipe counts bytes; how readers and writers sleep is in Pipe.          *)
(***************************************************************************)
EXTENDS Naturals, Sequences, FiniteSets, FiniteSetsExt

CONSTANTS NPROC,      \* slots for processes, the shell's included; init has its own
          NOFILE, NFILE, NPIPE, PIPESIZE,
          Commands    \* what is typed: [cmd, count], count being what its wc should print

ASSUME ShellAssumption == NOFILE >= 5 /\ NFILE >= 1 /\ PIPESIZE >= 1

Procs == 1..NPROC
Files == 1..NFILE
Fds == 0..(NOFILE - 1)
INIT == 0            \* the parent of orphans and of the shell

VARIABLES proc,     \* [Procs -> [state, parent, code, ofile, p, closing]]
          ftable,   \* [Files -> [ref, type, pipe, writable]]
          pipe,     \* [1..NPIPE -> [n, readopen, writeopen]]
          panic,
          count,    \* history: bytes that the wc's of the command have counted
          want,     \* history: what they should count
          failed    \* history: some call of the command failed
vars == <<proc, ftable, pipe, panic, count, want, failed>>

------------------------------------------------------------------------------
(* System calls in a program.  P0 and P1 stand for p[0] and p[1].          *)
P0 == NOFILE
P1 == NOFILE + 1
Op(op) == [op |-> op]
Close(fd) == [op |-> "close", fd |-> fd]
Dup(fd) == [op |-> "dup", fd |-> fd]
Fork(code) == [op |-> "fork", code |-> code]
Run(cmd) == [op |-> "run", cmd |-> cmd]
Write(n) == [op |-> "write", n |-> n]
Exit == <<Op("exit")>>

(* Mutant: the parent of a pipeline keeps its end for writing.             *)
runcmd_open(c) ==
  CASE c.type = "PIPE" ->
         <<Op("pipe"),
           Fork(<<Close(1), Dup(P1), Close(P0), Close(P1), Run(c.left)>>),
           Fork(<<Close(0), Dup(P0), Close(P0), Close(P1), Run(c.right)>>),
           Close(P0), Op("wait"), Op("wait")>> \o Exit
    [] c.type = "EXEC" -> <<[op |-> "exec", prog |-> c.prog]>> \o Exit
    [] OTHER -> Exit

runcmd(c) ==
  CASE c.type = "EXEC"  -> <<[op |-> "exec", prog |-> c.prog]>> \o Exit
    [] c.type = "REDIR" -> <<Close(c.fd), Op("open"), Run(c.cmd)>>
    [] c.type = "LIST"  -> <<Fork(<<Run(c.left)>>), Op("wait"), Run(c.right)>>
    [] c.type = "PIPE"  ->
         <<Op("pipe"),
           Fork(<<Close(1), Dup(P1), Close(P0), Close(P1), Run(c.left)>>),
           Fork(<<Close(0), Dup(P0), Close(P0), Close(P1), Run(c.right)>>),
           Close(P0), Close(P1), Op("wait"), Op("wait")>> \o Exit
    [] c.type = "BACK"  -> <<Fork(<<Run(c.cmd)>>)>> \o Exit

(* echo writes its argument and a newline; cat and wc are loops of read.   *)
Program(prog) ==
  CASE prog = "echo" -> <<Write(1), Write(1)>> \o Exit
    [] prog = "cat"  -> <<Op("cat")>>
    [] prog = "wc"   -> <<Op("wc")>>

(* Mutant: the shell does not wait for the command.                        *)
main_nowait(cmd) == <<Fork(<<Run(cmd)>>), Op("getcmd")>>

(* The loop of the shell's main.                                           *)
main(cmd) == <<Fork(<<Run(cmd)>>), Op("wait"), Op("getcmd")>>

(* A process at a runcmd is at the first call that it makes.               *)
Ready(code) == IF code # <<>> /\ Head(code).op = "run" THEN runcmd(Head(code).cmd) ELSE code

Unused == [state |-> "UNUSED", parent |-> INIT, code |-> <<>>, ofile |-> [fd \in Fds |-> 0],
           p |-> <<0, 0>>, closing |-> {}]
Console == [fd \in Fds |-> IF fd <= 2 THEN 1 ELSE 0]
Sh == [Unused EXCEPT !.state = "RUN", !.code = <<Op("getcmd")>>, !.ofile = Console]
FreeFile == [ref |-> 0, type |-> "NONE", pipe |-> 0, writable |-> FALSE]
NoPipe == [n |-> 0, readopen |-> FALSE, writeopen |-> FALSE]

(* File 1 is the console; init holds three references to it too.           *)
Init ==
  /\ proc = [p \in Procs |-> IF p = 1 THEN Sh ELSE Unused]
  /\ ftable = [f \in Files |-> IF f = 1 THEN [FreeFile EXCEPT !.ref = 6, !.type = "DEVICE"] ELSE FreeFile]
  /\ pipe = [i \in 1..NPIPE |-> NoPipe]
  /\ panic = "" /\ count = 0 /\ want = 0 /\ failed = FALSE

------------------------------------------------------------------------------
At(p, op) == /\ panic = "" /\ proc[p].state = "RUN" /\ proc[p].closing = {}
             /\ Head(proc[p].code).op = op
Arg(p) == Head(proc[p].code)
Fd(p, fd) == IF fd >= NOFILE THEN proc[p].p[fd - NOFILE + 1] ELSE fd
argfd(p, fd) == proc[p].ofile[Fd(p, fd)]     \* 0 is the error
FreeFds(p) == {fd \in Fds : proc[p].ofile[fd] = 0}
fdalloc(p) == Min(FreeFds(p))
FreeFiles == {f \in Files : ftable[f].ref = 0}
filealloc == Min(FreeFiles)

Continue(p, r) == proc' = [proc EXCEPT ![p] = [r EXCEPT !.code = Ready(Tail(@))]]
Goto(p, code) == proc' = [proc EXCEPT ![p].code = code]
(* The checks of sh.c and of the programs: report and exit.                *)
GiveUp(p) == Goto(p, Exit) /\ failed' = TRUE

(* fileclose of the descriptors fds of p: a file that loses its last       *)
(* reference is free at once, and the pipe that it named is closed later,  *)
(* from the copy ff.                                                       *)
fileclose(p, fds, code) ==
  LET lost(f) == Cardinality({fd \in fds : proc[p].ofile[fd] = f})
      freed == {f \in Files : lost(f) > 0 /\ lost(f) = ftable[f].ref} IN
  /\ ftable' = [f \in Files |-> IF f \in freed THEN FreeFile ELSE [ftable[f] EXCEPT !.ref = @ - lost(f)]]
  /\ panic' = IF \E f \in Files : lost(f) > ftable[f].ref THEN "fileclose" ELSE ""
  /\ proc' = [proc EXCEPT ![p].ofile = [fd \in Fds |-> IF fd \in fds THEN 0 ELSE @[fd]],
                          ![p].code = Ready(code),
                          ![p].closing = {[pi |-> ftable[f].pipe, writable |-> ftable[f].writable] :
                                            f \in {g \in freed : ftable[g].type = "PIPE"}}]
  /\ UNCHANGED <<pipe, count, want, failed>>

pipeclose(p) ==
  \E c \in proc[p].closing :
    LET pi == IF c.writable THEN [pipe[c.pi] EXCEPT !.writeopen = FALSE]
                            ELSE [pipe[c.pi] EXCEPT !.readopen = FALSE] IN
    /\ panic = ""
    /\ pipe' = [pipe EXCEPT ![c.pi] = IF pi.readopen \/ pi.writeopen THEN pi ELSE NoPipe]
    /\ proc' = [proc EXCEPT ![p].closing = @ \ {c}]
    /\ UNCHANGED <<ftable, panic, count, want, failed>>

sys_close(p) ==
  /\ At(p, "close")
  /\ fileclose(p, {Fd(p, Arg(p).fd)} \ FreeFds(p), Tail(proc[p].code))

sys_dup(p) ==
  LET f == argfd(p, Arg(p).fd)
      ok == f # 0 /\ FreeFds(p) # {} IN
  /\ At(p, "dup")
  /\ ftable' = IF ok THEN [ftable EXCEPT ![f].ref = @ + 1] ELSE ftable
  /\ panic' = IF ok /\ ftable[f].ref < 1 THEN "filedup" ELSE ""
  /\ Continue(p, IF ok THEN [proc[p] EXCEPT !.ofile[fdalloc(p)] = f] ELSE proc[p])
  /\ UNCHANGED <<pipe, count, want, failed>>

(* sys_open of the file of a redirection, which may not exist.             *)
sys_open(p) ==
  /\ At(p, "open")
  /\ \/ GiveUp(p) /\ UNCHANGED ftable
     \/ /\ FreeFiles # {} /\ FreeFds(p) # {}
        /\ ftable' = [ftable EXCEPT ![filealloc] = [FreeFile EXCEPT !.ref = 1, !.type = "INODE"]]
        /\ Continue(p, [proc[p] EXCEPT !.ofile[fdalloc(p)] = filealloc])
        /\ UNCHANGED failed
  /\ UNCHANGED <<pipe, panic, count, want>>

(* pipealloc and sys_pipe; a failure gives back what was allocated.        *)
sys_pipe(p) ==
  LET free == {i \in 1..NPIPE : pipe[i] = NoPipe}
      f1 == Min(FreeFiles \ {filealloc})
      fd1 == Min(FreeFds(p) \ {fdalloc(p)})
      end(w) == [ref |-> 1, type |-> "PIPE", pipe |-> Min(free), writable |-> w]
      ok == free # {} /\ Cardinality(FreeFiles) >= 2 /\ Cardinality(FreeFds(p)) >= 2 IN
  /\ At(p, "pipe")
  /\ \/ ~ok /\ GiveUp(p) /\ UNCHANGED <<ftable, pipe>>
     \/ /\ ok
        /\ pipe' = [pipe EXCEPT ![Min(free)] = [n |-> 0, readopen |-> TRUE, writeopen |-> TRUE]]
        /\ ftable' = [ftable EXCEPT ![filealloc] = end(FALSE), ![f1] = end(TRUE)]
        /\ Continue(p, [proc[p] EXCEPT !.ofile[fdalloc(p)] = filealloc, !.ofile[fd1] = f1,
                                       !.p = <<fdalloc(p), fd1>>])
        /\ UNCHANGED failed
  /\ UNCHANGED <<panic, count, want>>

(* Mutant: fork copies the descriptors without filedup.                    *)
fork1_unshared(p) ==
  LET free == {q \in Procs : proc[q].state = "UNUSED"} IN
  /\ At(p, "fork") /\ free # {}
  /\ proc' = [proc EXCEPT ![Min(free)] = [proc[p] EXCEPT !.parent = p, !.code = Ready(Arg(p).code)],
                          ![p].code = Ready(Tail(@))]
  /\ UNCHANGED <<ftable, pipe, panic, count, want, failed>>

(* fork1: the child has a copy of every descriptor.                        *)
fork1(p) ==
  LET free == {q \in Procs : proc[q].state = "UNUSED"}
      np == Min(free)
      refs(f) == Cardinality({fd \in Fds : proc[p].ofile[fd] = f}) IN
  /\ At(p, "fork")
  /\ \/ free = {} /\ GiveUp(p) /\ UNCHANGED ftable
     \/ /\ free # {}
        /\ ftable' = [f \in Files |-> [ftable[f] EXCEPT !.ref = @ + refs(f)]]
        /\ proc' = [proc EXCEPT ![np] = [proc[p] EXCEPT !.parent = p, !.code = Ready(Arg(p).code)],
                                ![p].code = Ready(Tail(@))]
        /\ UNCHANGED failed
  /\ UNCHANGED <<pipe, panic, count, want>>

(* wait takes a zombie child, or returns at once if there is no child.     *)
wait(p) ==
  LET children == {q \in Procs : proc[q].state # "UNUSED" /\ proc[q].parent = p} IN
  /\ At(p, "wait")
  /\ \E q \in IF children = {} THEN {INIT} ELSE {c \in children : proc[c].state = "ZOMBIE"} :
       proc' = [r \in Procs |-> IF r = q THEN Unused
                                ELSE IF r = p THEN [proc[p] EXCEPT !.code = Ready(Tail(@))]
                                ELSE proc[r]]
  /\ UNCHANGED <<ftable, pipe, panic, count, want, failed>>

(* exit closes all descriptors, as one step, then the pipes that they were *)
(* the last to name, gives its children to init and leaves a zombie.       *)
exit(p) ==
  LET open == Fds \ FreeFds(p) IN
  /\ At(p, "exit")
  /\ \/ open # {} /\ fileclose(p, open, proc[p].code)
     \/ /\ open = {}
        /\ proc' = [q \in Procs |->
             IF q = p THEN [Unused EXCEPT !.state = "ZOMBIE", !.parent = proc[p].parent]
             ELSE IF proc[q].parent = p THEN [proc[q] EXCEPT !.parent = INIT] ELSE proc[q]]
        /\ UNCHANGED <<ftable, pipe, panic, count, want, failed>>

(* init reaps its children, and starts a new shell for one that exited.    *)
(* Its fork takes the slot just freed; that its fork or exec fails, after  *)
(* which init exits and the kernel panics, is left out.                    *)
init(q) ==
  /\ panic = "" /\ proc[q].state = "ZOMBIE" /\ proc[q].parent = INIT
  /\ proc' = [proc EXCEPT ![q] = IF q = 1 THEN Sh ELSE Unused]
  /\ ftable' = IF q = 1 THEN [ftable EXCEPT ![1].ref = @ + 3] ELSE ftable
  /\ UNCHANGED <<pipe, panic, count, want, failed>>

exec(p) ==
  /\ \/ At(p, "exec") /\ Goto(p, Program(Arg(p).prog)) /\ UNCHANGED failed
     \/ At(p, "exec") /\ GiveUp(p)                       \* exec failed
  /\ UNCHANGED <<ftable, pipe, panic, count, want>>

------------------------------------------------------------------------------
(* filewrite on descriptor 1: a byte that fits goes into the pipe, one at  *)
(* a time; a pipe nobody can read refuses them, now and later, so that     *)
(* echo, which does not look at the result, ends like cat, which does.     *)
sys_write(p) ==
  LET f == argfd(p, 1)
      pi == ftable[f].pipe
      rest == IF Arg(p).n = 1 THEN <<>> ELSE <<[Arg(p) EXCEPT !.n = @ - 1]>>
      isPipe == f # 0 /\ ftable[f].type = "PIPE" IN
  /\ At(p, "write")
  /\ \/ ~isPipe /\ Continue(p, proc[p]) /\ UNCHANGED <<pipe, failed>>
     \/ isPipe /\ ~pipe[pi].readopen /\ GiveUp(p) /\ UNCHANGED pipe
     \/ /\ isPipe /\ pipe[pi].readopen /\ pipe[pi].n < PIPESIZE
        /\ pipe' = [pipe EXCEPT ![pi].n = @ + 1]
        /\ Goto(p, rest \o Tail(proc[p].code))
        /\ UNCHANGED failed
  /\ UNCHANGED <<ftable, panic, count, want>>

(* The loop of cat or wc: fileread on descriptor 0 takes all there is.     *)
(* Other files than pipes are at their end.                                *)
sys_read(p) ==
  LET f == argfd(p, 0)
      pi == ftable[f].pipe
      isPipe == f # 0 /\ ftable[f].type = "PIPE"
      n == IF isPipe THEN pipe[pi].n ELSE 0
      wc == Arg(p).op = "wc" IN
  /\ At(p, "cat") \/ At(p, "wc")
  /\ \/ /\ isPipe /\ n > 0
        /\ pipe' = [pipe EXCEPT ![pi].n = 0]
        /\ IF wc THEN count' = count + n /\ UNCHANGED proc
                 ELSE Goto(p, <<Write(n)>> \o proc[p].code) /\ UNCHANGED count
     \/ /\ n = 0 /\ (isPipe => ~pipe[pi].writeopen)
        /\ Goto(p, (IF wc THEN <<Write(1)>> ELSE <<>>) \o Exit)
        /\ UNCHANGED <<pipe, count>>
  /\ UNCHANGED <<ftable, panic, want, failed>>

(* getcmd reads the next command, or the end of the input.                 *)
getcmd(p) ==
  /\ At(p, "getcmd")
  /\ \/ \E c \in Commands : Goto(p, main(c.cmd)) /\ want' = c.count
     \/ Goto(p, Exit) /\ want' = 0
  /\ count' = 0 /\ failed' = FALSE
  /\ UNCHANGED <<ftable, pipe, panic>>

Step(p) ==
  \/ pipeclose(p) \/ sys_close(p) \/ sys_dup(p) \/ sys_open(p) \/ sys_pipe(p)
  \/ fork1(p) \/ wait(p) \/ exit(p) \/ init(p) \/ exec(p)
  \/ sys_write(p) \/ sys_read(p) \/ getcmd(p)

Next == \E p \in Procs : Step(p)

(* The scheduler runs every process that can run.                          *)
Spec == Init /\ [][Next]_vars /\ \A p \in Procs : WF_vars(Step(p))

------------------------------------------------------------------------------
Prompt == proc[1].code = <<Op("getcmd")>>

(* The reference count of a file is the number of descriptors that name    *)
(* it, in all processes; an end of a pipe is open exactly as long as some  *)
(* file names it or a process is about to close it.                        *)
FileRefs ==
  LET held == {<<p, fd>> \in Procs \X Fds : proc[p].ofile[fd] # 0}
      opens(i, w) == \/ \E f \in Files : ftable[f].type = "PIPE" /\ ftable[f].pipe = i /\ ftable[f].writable = w
                     \/ \E p \in Procs : [pi |-> i, writable |-> w] \in proc[p].closing IN
  /\ \A f \in Files : ftable[f].ref = Cardinality({x \in held : proc[x[1]].ofile[x[2]] = f})
                                      + (IF f = 1 THEN 3 ELSE 0)
  /\ \A i \in 1..NPIPE : pipe[i].readopen = opens(i, FALSE) /\ pipe[i].writeopen = opens(i, TRUE)

(* A command none of whose calls failed has done its work when the shell   *)
(* prompts again: what echo wrote went through the pipes, none of it lost  *)
(* to an early end-of-file, and was counted by wc.                         *)
CommandDone == Prompt => failed \/ count = want

(* The shell prompts again and again, whatever failed: no part of a        *)
(* pipeline waits for an end-of-file that some open descriptor holds back. *)
PromptReturns == []<>Prompt
=============================================================================
