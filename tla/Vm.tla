--------------------------------- MODULE Vm ---------------------------------
(***************************************************************************)
(* Physical pages and user page tables: kalloc.c, the user half of vm.c,   *)
(* the memory of a process in proc.c (allocproc, freeproc, growproc, fork) *)
(* and exec.c.                                                             *)
(*                                                                         *)
(* A kernel function is an operator on the memory m: how often each page   *)
(* is on the free list, the entries of the pages used as page tables, the  *)
(* data of the others, and the panic message.  One that returns a value    *)
(* gives [m, v]; v = 0 is failure, as in the code.  A page table has three *)
(* levels of two entries.  PGSIZE is two units, so sizes need not be page  *)
(* aligned.  A call is one step: it works on pages that no other process   *)
(* can reach, and the free pages it finds are any number in the runs.      *)
(***************************************************************************)
EXTENDS Integers, Sequences, FiniteSets, SequencesExt

CONSTANTS NPROC,      \* processes 1..NPROC; 1 is init
          NPAGES,     \* pages the allocator manages
          Programs,   \* what exec loads: a sequence of [vaddr, memsz, value]
          Grow,       \* the arguments of sbrk
          MaxSz       \* bound on p->sz: memory ends before the addresses do

ASSUME PageAssumption == NPAGES \in Nat /\ NPROC \in Nat \ {0}

PGSIZE == 2
PGROUNDUP(sz) == ((sz + PGSIZE - 1) \div PGSIZE) * PGSIZE
TRAMPOLINE == 7     \* virtual pages, of 0..7
TRAPFRAME == 6
PX(level, vpn) == (vpn \div 2^level) % 2

Procs == 1..NPROC
Pages == 1..NPAGES
Text == NPAGES + 1  \* the page of the trampoline code, which is never freed
NoPte == [pa |-> 0, leaf |-> FALSE, u |-> FALSE]
NoTable == [k \in 0..1 |-> NoPte]
Junk == -2          \* what kalloc and kfree fill a page with
None == -1          \* no page the process may use

VARIABLES mem,    \* [free, pte, data, panic]: the memory
          proc,   \* [Procs -> [used, trapframe, pagetable, sz]]
          image   \* [Procs -> [virtual pages -> values]]: history, what a process
                  \* wrote to the pages it may use
vars == <<mem, proc, image>>

Unused == [used |-> FALSE, trapframe |-> 0, pagetable |-> 0, sz |-> 0]

------------------------------------------------------------------------------
Panic(m, s) == [m EXCEPT !.panic = IF @ = "" THEN s ELSE @]

kfree(m, g) ==
  IF g \in Pages THEN [m EXCEPT !.free[g] = @ + 1, !.pte[g] = NoTable, !.data[g] = Junk]
                 ELSE Panic(m, "kfree")

(* The list's order makes no difference: the smallest page stands for its  *)
(* head.                                                                   *)
kalloc(m) ==
  LET S == {g \in Pages : m.free[g] > 0} IN
  IF S = {} THEN [m |-> m, v |-> 0]
  ELSE [m |-> [m EXCEPT !.free[Min(S)] = @ - 1, !.data[Min(S)] = Junk], v |-> Min(S)]

(* walk returns the level-0 table that holds the entry of vpn.             *)
RECURSIVE walkFrom(_, _, _, _, _)
walkFrom(m, table, vpn, alloc, level) ==
  IF level = 0 THEN [m |-> m, v |-> table]
  ELSE LET e == m.pte[table][PX(level, vpn)] IN
       IF e.pa # 0 THEN walkFrom(m, e.pa, vpn, alloc, level - 1)
       ELSE IF ~alloc THEN [m |-> m, v |-> 0]
       ELSE LET k == kalloc(m) IN
            IF k.v = 0 THEN k
            ELSE walkFrom([k.m EXCEPT !.pte[k.v] = NoTable,
                             !.pte[table][PX(level, vpn)] = [NoPte EXCEPT !.pa = k.v]],
                          k.v, vpn, alloc, level - 1)

walk(m, pagetable, vpn, alloc) == walkFrom(m, pagetable, vpn, alloc, 2)

Pte(m, pagetable, vpn) ==
  LET t == walk(m, pagetable, vpn, FALSE).v IN IF t = 0 THEN NoPte ELSE m.pte[t][PX(0, vpn)]

(* walkaddr: the page behind a user address, or 0.                         *)
walkaddr(m, pagetable, vpn) ==
  LET e == Pte(m, pagetable, vpn) IN IF e.u THEN e.pa ELSE 0

mappages(m, pagetable, vpn, pa, u) ==
  LET w == walk(m, pagetable, vpn, TRUE) IN
  IF w.v = 0 THEN w
  ELSE [m |-> IF w.m.pte[w.v][PX(0, vpn)].pa # 0 THEN Panic(w.m, "mappages: remap")
              ELSE [w.m EXCEPT !.pte[w.v][PX(0, vpn)] = [pa |-> pa, leaf |-> TRUE, u |-> u]],
        v |-> 1]

RECURSIVE uvmunmap(_, _, _, _, _)
uvmunmap(m, pagetable, vpn, npages, free) ==
  LET t == walk(m, pagetable, vpn, FALSE).v
      e == m.pte[t][PX(0, vpn)]
      m1 == [m EXCEPT !.pte[t][PX(0, vpn)] = NoPte] IN
  IF npages = 0 THEN m
  ELSE IF t = 0 THEN Panic(m, "uvmunmap: walk")
  ELSE IF e.pa = 0 THEN Panic(m, "uvmunmap: not mapped")
  ELSE uvmunmap(IF free THEN kfree(m1, e.pa) ELSE m1, pagetable, vpn + 1, npages - 1, free)

uvmcreate(m) ==
  LET k == kalloc(m) IN IF k.v = 0 THEN k ELSE [k EXCEPT !.m.pte[k.v] = NoTable]

uvmfirst(m, pagetable) ==
  LET k == kalloc(m) IN mappages([k.m EXCEPT !.data[k.v] = 0], pagetable, 0, k.v, TRUE).m

(* Mutant: the last page is freed although part of it stays in use.        *)
uvmdealloc_down(m, pagetable, oldsz, newsz) ==
  IF newsz >= oldsz THEN m
  ELSE uvmunmap(m, pagetable, newsz \div PGSIZE, PGROUNDUP(oldsz) \div PGSIZE - newsz \div PGSIZE, TRUE)

uvmdealloc(m, pagetable, oldsz, newsz) ==
  IF newsz >= oldsz \/ PGROUNDUP(newsz) >= PGROUNDUP(oldsz) THEN m
  ELSE uvmunmap(m, pagetable, PGROUNDUP(newsz) \div PGSIZE,
                (PGROUNDUP(oldsz) - PGROUNDUP(newsz)) \div PGSIZE, TRUE)

(* uvmalloc, from its page-aligned address a on.                           *)
RECURSIVE growFrom(_, _, _, _, _)
growFrom(m, pagetable, oldsz, a, newsz) ==
  IF a >= newsz THEN [m |-> m, v |-> newsz]
  ELSE LET k == kalloc(m)
           z == [k.m EXCEPT !.data[k.v] = 0]
           map == mappages(z, pagetable, a \div PGSIZE, k.v, TRUE) IN
       IF k.v = 0 THEN [m |-> uvmdealloc(k.m, pagetable, a, oldsz), v |-> 0]
       ELSE IF map.v = 0
         THEN [m |-> uvmdealloc(kfree(map.m, k.v), pagetable, a, oldsz), v |-> 0]
         ELSE growFrom(map.m, pagetable, oldsz, a + PGSIZE, newsz)

uvmalloc(m, pagetable, oldsz, newsz) ==
  IF newsz < oldsz THEN [m |-> m, v |-> oldsz]
  ELSE growFrom(m, pagetable, PGROUNDUP(oldsz), PGROUNDUP(oldsz), newsz)

RECURSIVE freewalk(_, _)
freewalk(m, table) ==
  LET entry(mm, k) == LET e == mm.pte[table][k] IN
        IF e.pa = 0 THEN mm
        ELSE IF e.leaf THEN Panic(mm, "freewalk: leaf")
        ELSE [freewalk(mm, e.pa) EXCEPT !.pte[table][k] = NoPte]
  IN kfree(entry(entry(m, 0), 1), table)

(* Mutant: a partly used last page is forgotten.                           *)
uvmfree_down(m, pagetable, sz) ==
  freewalk(uvmunmap(m, pagetable, 0, sz \div PGSIZE, TRUE), pagetable)

uvmfree(m, pagetable, sz) ==
  freewalk(uvmunmap(m, pagetable, 0, PGROUNDUP(sz) \div PGSIZE, TRUE), pagetable)

(* uvmcopy, from page i on; what it has mapped is undone on failure.       *)
RECURSIVE copyFrom(_, _, _, _, _)
copyFrom(m, old, new, i, npages) ==
  LET e == Pte(m, old, i)
      k == kalloc(m)
      c == [k.m EXCEPT !.data[k.v] = k.m.data[e.pa]]
      map == mappages(c, new, i, k.v, e.u) IN
  IF i = npages THEN [m |-> m, v |-> 1]
  ELSE IF e.pa = 0 THEN [m |-> Panic(m, "uvmcopy: page not present"), v |-> 0]
  ELSE IF k.v = 0 THEN [m |-> uvmunmap(k.m, new, 0, i, TRUE), v |-> 0]
  ELSE IF map.v = 0 THEN [m |-> uvmunmap(kfree(map.m, k.v), new, 0, i, TRUE), v |-> 0]
  ELSE copyFrom(map.m, old, new, i + 1, npages)

uvmcopy(m, old, new, sz) == copyFrom(m, old, new, 0, PGROUNDUP(sz) \div PGSIZE)

uvmclear(m, pagetable, vpn) ==
  LET t == walk(m, pagetable, vpn, FALSE).v IN
  IF t = 0 THEN Panic(m, "uvmclear") ELSE [m EXCEPT !.pte[t][PX(0, vpn)].u = FALSE]

(* proc.c: page tables of processes.                                       *)
proc_pagetable(m, trapframe) ==
  LET c == uvmcreate(m)
      a == mappages(c.m, c.v, TRAMPOLINE, Text, FALSE)
      b == mappages(a.m, c.v, TRAPFRAME, trapframe, FALSE) IN
  IF c.v = 0 THEN c
  ELSE IF a.v = 0 THEN [m |-> uvmfree(a.m, c.v, 0), v |-> 0]
  ELSE IF b.v = 0
    THEN [m |-> uvmfree(uvmunmap(b.m, c.v, TRAMPOLINE, 1, FALSE), c.v, 0), v |-> 0]
    ELSE [m |-> b.m, v |-> c.v]

(* Mutant: the trapframe is freed with the page table.                     *)
proc_freepagetable_all(m, pagetable, sz) ==
  uvmfree(uvmunmap(uvmunmap(m, pagetable, TRAMPOLINE, 1, FALSE), pagetable, TRAPFRAME, 1, TRUE),
          pagetable, sz)

proc_freepagetable(m, pagetable, sz) ==
  uvmfree(uvmunmap(uvmunmap(m, pagetable, TRAMPOLINE, 1, FALSE), pagetable, TRAPFRAME, 1, FALSE),
          pagetable, sz)

freeproc(m, p) ==
  LET m1 == IF p.trapframe # 0 THEN kfree(m, p.trapframe) ELSE m IN
  IF p.pagetable # 0 THEN proc_freepagetable(m1, p.pagetable, p.sz) ELSE m1

(* allocproc, as far as memory goes; p is the process it makes.            *)
allocproc(m) ==
  LET k == kalloc(m)
      pt == proc_pagetable(k.m, k.v)
      p == [used |-> TRUE, trapframe |-> k.v, pagetable |-> pt.v, sz |-> 0] IN
  IF k.v = 0 THEN [m |-> k.m, p |-> Unused]
  ELSE IF pt.v = 0 THEN [m |-> freeproc(pt.m, p), p |-> Unused]
  ELSE [m |-> pt.m, p |-> p]

------------------------------------------------------------------------------
Running(p) == mem.panic = "" /\ proc[p].used
NoImage == [v \in 0..5 |-> None]
Resize(im, oldsz, sz) == [v \in 0..5 |-> IF v * PGSIZE >= sz THEN None
                                         ELSE IF v * PGSIZE >= oldsz THEN 0 ELSE im[v]]

(* kinit puts every page on the list; userinit makes the first process.    *)
Init ==
  LET m == [free |-> [g \in Pages |-> 1], pte |-> [g \in Pages |-> NoTable],
            data |-> [g \in Pages |-> Junk], panic |-> ""]
      a == allocproc(m) IN
  /\ mem = uvmfirst(a.m, a.p.pagetable)
  /\ proc = [p \in Procs |-> IF p = 1 THEN [a.p EXCEPT !.sz = PGSIZE] ELSE Unused]
  /\ image = [p \in Procs |-> IF p = 1 THEN Resize(NoImage, 0, PGSIZE) ELSE NoImage]

(* growproc; the size is unsigned, so shrinking below zero wraps around    *)
(* and shrinks nothing.                                                    *)
sbrk(p, n) ==
  LET q == proc[p]
      lower == IF q.sz + n < 0 THEN q.sz ELSE q.sz + n
      set(sz) == /\ proc' = [proc EXCEPT ![p].sz = sz]
                 /\ image' = [image EXCEPT ![p] = Resize(@, q.sz, sz)] IN
  /\ Running(p) /\ q.sz + n <= MaxSz
  /\ \/ /\ n > 0
        /\ \E a \in {uvmalloc(mem, q.pagetable, q.sz, q.sz + n)} :
             /\ mem' = a.m
             /\ IF a.v = 0 THEN UNCHANGED <<proc, image>> ELSE set(a.v)
     \/ n <= 0 /\ mem' = uvmdealloc(mem, q.pagetable, q.sz, lower) /\ set(lower)

fork(p) ==
  LET free == {q \in Procs : ~proc[q].used}
      np == Min(free) IN
  /\ Running(p) /\ free # {}
  /\ \E a \in {allocproc(mem)} :
       \/ ~a.p.used /\ mem' = a.m /\ UNCHANGED <<proc, image>>
       \/ /\ a.p.used
          /\ \E c \in {uvmcopy(a.m, proc[p].pagetable, a.p.pagetable, proc[p].sz)} :
               \/ c.v = 0 /\ mem' = freeproc(c.m, a.p) /\ UNCHANGED <<proc, image>>
               \/ /\ c.v # 0 /\ mem' = c.m
                  /\ proc' = [proc EXCEPT ![np] = [a.p EXCEPT !.sz = proc[p].sz]]
                  /\ image' = [image EXCEPT ![np] = image[p]]

(* wait frees a child that has exited; init does not exit.                 *)
wait(p) ==
  /\ Running(p) /\ p # 1
  /\ mem' = freeproc(mem, proc[p])
  /\ proc' = [proc EXCEPT ![p] = Unused]
  /\ image' = [image EXCEPT ![p] = NoImage]

loadseg(m, pagetable, s) ==
  LET pages == {walkaddr(m, pagetable, v) :
                  v \in (s.vaddr \div PGSIZE)..((s.vaddr + s.memsz - 1) \div PGSIZE)} IN
  IF 0 \in pages THEN Panic(m, "loadseg: address should exist")
  ELSE [m EXCEPT !.data = [g \in Pages |-> IF g \in pages THEN s.value ELSE @[g]]]

(* One turn of exec's loop over the segments, with a what uvmalloc gave.   *)
(* bad is the segment whose contents cannot be read, or minus one whose    *)
(* header is refused.                                                      *)
loadSegment(r, a, pagetable, s, k, bad) ==
  IF r.v = 0 THEN r
  ELSE IF bad = -k THEN [r EXCEPT !.v = 0]
  ELSE IF a.v = 0 THEN [r EXCEPT !.m = a.m, !.v = 0]
  ELSE [m |-> loadseg(a.m, pagetable, s), v |-> IF bad = k THEN 0 ELSE 1, sz |-> a.v]

load(m, pagetable, prog, bad) ==
  FoldLeft(LAMBDA r, k :
             loadSegment(r, uvmalloc(r.m, pagetable, r.sz, prog[k].vaddr + prog[k].memsz),
                         pagetable, prog[k], k, bad),
           [m |-> m, v |-> 1, sz |-> 0], [k \in 1..Len(prog) |-> k])

(* What a process sees after exec: its segments, a guard page, a stack.    *)
ImageOf(prog, base) == [v \in 0..5 |->
  LET S == {k \in DOMAIN prog : v * PGSIZE \in prog[k].vaddr..(prog[k].vaddr + prog[k].memsz - 1)} IN
  IF v * PGSIZE = base + PGSIZE THEN 0
  ELSE IF v * PGSIZE >= base THEN None
  ELSE IF S = {} THEN 0 ELSE prog[Max(S)].value]

(* exec builds a new page table, and only then frees the old one.  bad is  *)
(* 0, what fails in a segment, or Len(prog) + 1 for arguments that do not  *)
(* fit the stack.                                                          *)
exec(p, prog, bad) ==
  LET q == proc[p]
      Fail(m, pagetable, sz) == /\ mem' = IF pagetable = 0 THEN m ELSE proc_freepagetable(m, pagetable, sz)
                                /\ UNCHANGED <<proc, image>> IN
  /\ Running(p)
  /\ \E t \in {proc_pagetable(mem, q.trapframe)} :
     \/ t.v = 0 /\ Fail(t.m, 0, 0)
     \/ /\ t.v # 0
        /\ \E l \in {load(t.m, t.v, prog, bad)} :
           \/ l.v = 0 /\ Fail(l.m, t.v, l.sz)
           \/ /\ l.v # 0
              /\ \E st \in {uvmalloc(l.m, t.v, PGROUNDUP(l.sz), PGROUNDUP(l.sz) + 2 * PGSIZE)} :
                 \/ st.v = 0 /\ Fail(st.m, t.v, PGROUNDUP(l.sz))
                 \/ /\ st.v # 0
                    /\ \E m \in {uvmclear(st.m, t.v, st.v \div PGSIZE - 2)} :
                       \/ bad = Len(prog) + 1 /\ Fail(m, t.v, st.v)
                       \/ /\ bad # Len(prog) + 1
                          /\ mem' = proc_freepagetable(m, q.pagetable, q.sz)
                          /\ proc' = [proc EXCEPT ![p].pagetable = t.v, ![p].sz = st.v]
                          /\ image' = [image EXCEPT ![p] = ImageOf(prog, PGROUNDUP(l.sz))]

(* A system call that writes the user pages from..to with copyout: it      *)
(* stops at the first page the process may not use.                        *)
RECURSIVE copyout(_, _, _, _, _)
copyout(m, pagetable, from, to, value) ==
  LET pa == walkaddr(m, pagetable, from) IN
  IF from > to \/ pa = 0 THEN m
  ELSE copyout([m EXCEPT !.data[pa] = value], pagetable, from + 1, to, value)

sys_read(p, from, to) ==
  LET stop == {v \in from..to : image[p][v] = None} IN
  /\ Running(p)
  /\ mem' = copyout(mem, proc[p].pagetable, from, to, p)
  /\ image' = [image EXCEPT ![p] = [v \in 0..5 |->
       IF v \in from..to /\ (\A w \in stop : v < w) THEN p ELSE @[v]]]
  /\ UNCHANGED proc

Next ==
  \E p \in Procs :
    \/ \E n \in Grow : sbrk(p, n)
    \/ fork(p) \/ wait(p)
    \/ \E prog \in Programs : \E bad \in (-Len(prog))..(Len(prog) + 1) : exec(p, prog, bad)
    \/ \E from \in 0..1 : sys_read(p, from, from + 1)

Spec == Init /\ [][Next]_vars

------------------------------------------------------------------------------
(* The places that hold a page: the trapframe, the root table, the tables  *)
(* of levels 1 and 0, and the user pages below the two of the kernel.      *)
Places == {<<4, 0>>, <<3, 0>>} \cup ({2} \X (0..1)) \cup ({1} \X (0..3)) \cup ({0} \X (0..5))
PageAt(p, x) ==
  LET root == proc[p].pagetable
      l1(k) == mem.pte[root][k].pa
      l0(k) == IF l1(k \div 2) = 0 THEN 0 ELSE mem.pte[l1(k \div 2)][k % 2].pa IN
  CASE x[1] = 4 -> proc[p].trapframe
    [] x[1] = 3 -> root
    [] x[1] = 2 -> l1(x[2])
    [] x[1] = 1 -> l0(x[2])
    [] x[1] = 0 -> Pte(mem, root, x[2]).pa

(* Every page is on the free list once or in one place of one process: no  *)
(* page is lost or freed twice by a fork, sbrk or exec that runs out of    *)
(* memory anywhere on its way, and no two processes share a page.          *)
PagesOwnedOnce ==
  LET held == {<<p, x, PageAt(p, x)>> : p \in {q \in Procs : proc[q].used}, x \in Places} IN
  \A g \in Pages : mem.free[g] + Cardinality({h \in held : h[3] = g}) = 1

(* Through its page table a process sees what it wrote, zeros where it     *)
(* grew, and nothing else: its image survives a failed exec, fork or sbrk, *)
(* a child starts with a copy, and the guard page is out of reach.         *)
MemoryIsImage ==
  \A p \in Procs, v \in 0..5 :
    LET pa == IF proc[p].used THEN walkaddr(mem, proc[p].pagetable, v) ELSE 0 IN
    image[p][v] = (IF pa = 0 THEN None ELSE mem.data[pa])

(* No page is mapped twice ("remap"), unmapped when it is not there,       *)
(* missing when a process is copied, or left in a page table that is freed *)
(* ("leaf"); no page is freed twice ("kfree"), and uvmclear and loadseg    *)
(* find theirs: after any failure half way.  The panics for unaligned or   *)
(* too large arguments (vm.c:89, 149, 177, 216) and for a page table in    *)
(* the place of a page (vm.c:185) are not in the model.                    *)
NoPanic == mem.panic = ""
==============================================================================
