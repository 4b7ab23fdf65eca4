------------------------------- MODULE Names -------------------------------
(***************************************************************************)
(* Inodes, directories and the system calls on path names: the inode table *)
(* of fs.c (iget, idup, ilock, iunlock, iput, ialloc, iupdate), dirlookup, *)
(* dirlink and namex, and open, mknod, mkdir, link, unlink, chdir and      *)
(* close of sysfile.c, run by several processes.                           *)
(*                                                                         *)
(* An entry of the inode table is named by the inode it holds: iget gives  *)
(* an inode that is in use the entry it has.  A directory is a function    *)
(* from names to inode numbers, 0 for no entry; "." always names the       *)
(* directory itself.  File contents and block addresses are in Blocks;     *)
(* that the disk may be full is a choice made by each dirlink.  A step     *)
(* holds at most one spin lock or buffer at a time and ends where the code *)
(* may wait.  A group commit makes the file system durable only between    *)
(* calls (module Log), so a crash returns to a state with no call active.  *)
(***************************************************************************)
EXTENDS Naturals, Sequences, FiniteSets, FiniteSetsExt

CONSTANTS Procs,     \* processes, each running one call at a time
          Inums,     \* inode numbers, a set of positive numbers
          ROOTINO,   \* the inode number of "/"
          NINODE,    \* entries of the inode table
          DirNames,  \* the names a directory may hold, besides "." and ".."
          Calls,     \* the calls processes make
          None       \* nobody holds the lock

ASSUME InumAssumption == ROOTINO \in Inums /\ Inums \subseteq Nat \ {0}

VARIABLES
  dinode,   \* [Inums -> [type, nlink]]: the inodes on disk, as the cache has them
  dir,      \* [Inums -> [DirNames \cup {".."} -> Inums \cup {0}]]: directory contents
  itable,   \* [Inums -> [ref, valid, lock, type, nlink]]: the inode table
  cwd,      \* [Procs -> Inums]: current directories
  ofile,    \* [Procs -> Inums \cup {0}]: the inode of the open file, if any
  th,       \* [Procs -> record]: where each process is in its call
  panic,    \* the panic message, "" while the kernel runs
  strayed   \* history: a look-up of ".." has led to an inode without a link

vars == <<dinode, dir, itable, cwd, ofile, th, panic, strayed>>

Empty == [n \in DirNames \cup {".."} |-> 0]
NoEntry == [ref |-> 0, valid |-> FALSE, lock |-> None, type |-> "free", nlink |-> 0]

(* pc: the next thing to do, once every inode of puts has been put.        *)
(* free: how far the iput of Head(puts) is in freeing its inode.           *)
Idle == [pc |-> "idle", call |-> [op |-> "none"], path |-> <<>>, ip |-> 0,
         dp |-> 0, puts |-> <<>>, free |-> "no"]

(* The image made by mkfs holds the root directory; userinit gives the     *)
(* first process the root as its current directory and fork passes it on.  *)
Init ==
  /\ dinode = [i \in Inums |-> IF i = ROOTINO THEN [type |-> "DIR", nlink |-> 1]
                                              ELSE [type |-> "free", nlink |-> 0]]
  /\ dir = [i \in Inums |-> IF i = ROOTINO THEN [Empty EXCEPT ![".."] = ROOTINO]
                                           ELSE Empty]
  /\ itable = [i \in Inums |-> IF i = ROOTINO
                                 THEN [NoEntry EXCEPT !.ref = Cardinality(Procs)]
                                 ELSE NoEntry]
  /\ cwd = [p \in Procs |-> ROOTINO]
  /\ ofile = [p \in Procs |-> 0]
  /\ th = [p \in Procs |-> Idle]
  /\ panic = "" /\ strayed = FALSE

(* Process p may take the step at location l of its call.                  *)
At(p, l) == panic = "" /\ th[p].pc = l /\ th[p].puts = <<>>

Goto(p, r) == th' = [th EXCEPT ![p] = r]

(* The call of p walks two paths (link) or one; the second is for a parent.*)
WantsParent(t) == t.call.op \in {"unlink", "create", "mkdir", "mknod", "link2"}

------------------------------------------------------------------------------
(* iget and idup: a reference more, and a fresh entry for an inode that is *)
(* not in the table.                                                       *)
iget(i) ==
  IF itable[i].ref > 0
    THEN /\ itable' = [itable EXCEPT ![i].ref = @ + 1]
         /\ UNCHANGED panic
    ELSE IF Cardinality({j \in Inums : itable[j].ref > 0}) = NINODE
      THEN /\ panic' = "iget: no inodes"
           /\ UNCHANGED itable
      ELSE /\ itable' = [itable EXCEPT ![i].ref = 1, ![i].valid = FALSE]
           /\ UNCHANGED panic

(* ilock: waits for the lock; reads the inode when it is not valid.        *)
ilock(p, i) ==
  LET t == itable[i]
      r == IF t.valid THEN t
           ELSE [t EXCEPT !.valid = TRUE, !.type = dinode[i].type,
                          !.nlink = dinode[i].nlink]
  IN /\ t.lock = None
     /\ itable' = [itable EXCEPT ![i] = [r EXCEPT !.lock = p]]
     /\ panic' = IF t.ref < 1 THEN "ilock"
                 ELSE IF ~t.valid /\ r.type = "free" THEN "ilock: no type" ELSE ""

(* iupdate after the table's entries have become tab.                      *)
iupdate(tab, S) ==
  [i \in Inums |-> IF i \in S THEN [type |-> tab[i].type, nlink |-> tab[i].nlink]
                              ELSE dinode[i]]

(* dirlookup, for a locked directory.                                      *)
dirlookup(d, n) == IF n = "." THEN d ELSE dir[d][n]

(* The iget of what dirlookup found.  A directory does not keep its parent: *)
(* the ".." of a removed one may name an inode that is gone as well.       *)
dirlookup_iget(d, n) ==
  LET i == dirlookup(d, n) IN
  /\ iget(i)
  /\ strayed' = (strayed \/ (n = ".." /\ dinode[i].nlink = 0))

(* isdirempty: no entry but "." and "..".                                  *)
isdirempty(d) == \A n \in DirNames : dir[d][n] = 0

------------------------------------------------------------------------------
(* iunlockput and iput of Head(puts), in the steps of the code: the unlock,*)
(* the test under itable.lock that takes the lock of an inode to be freed, *)
(* itrunc with the iupdate of type 0, the unlock of the invalid entry, and *)
(* the drop of the reference.                                              *)
Putting(p, stage) == panic = "" /\ th[p].puts # <<>> /\ th[p].free = stage

(* The put is an iunlockput: p has the lock, and puts the inode no more    *)
(* after it.  (dirlink puts its own directory when the name is ".".)       *)
Unlocks(p) ==
  LET i == Head(th[p].puts) IN itable[i].lock = p /\ i \notin Range(Tail(th[p].puts))

iunlock(p) ==
  LET i == Head(th[p].puts) IN
  /\ Putting(p, "no") /\ Unlocks(p)
  /\ itable' = [itable EXCEPT ![i].lock = None]
  /\ UNCHANGED <<dinode, dir, cwd, ofile, th, panic, strayed>>

(* Mutant: other references are not looked at.                             *)
LastPut_any(i) == itable[i].valid /\ itable[i].nlink = 0

LastPut(i) == itable[i].ref = 1 /\ itable[i].valid /\ itable[i].nlink = 0

iputLast(p) ==
  LET i == Head(th[p].puts) IN
  /\ Putting(p, "no") /\ itable[i].lock # p /\ LastPut(i)
  /\ itable[i].lock = None
  /\ itable' = [itable EXCEPT ![i].lock = p]
  /\ Goto(p, [th[p] EXCEPT !.free = "trunc"])
  /\ UNCHANGED <<dinode, dir, cwd, ofile, panic, strayed>>

iputTrunc(p) ==
  LET i == Head(th[p].puts)
      tab == [itable EXCEPT ![i].type = "free"] IN
  /\ Putting(p, "trunc")
  /\ itable' = tab
  /\ dinode' = iupdate(tab, {i})
  /\ dir' = [dir EXCEPT ![i] = Empty]
  /\ Goto(p, [th[p] EXCEPT !.free = "invalid"])
  /\ UNCHANGED <<cwd, ofile, panic, strayed>>

(* Mutant: the freed entry stays valid.                                    *)
iputInvalid_valid(p) ==
  /\ Putting(p, "invalid")
  /\ itable' = [itable EXCEPT ![Head(th[p].puts)].lock = None]
  /\ Goto(p, [th[p] EXCEPT !.free = "drop"])
  /\ UNCHANGED <<dinode, dir, cwd, ofile, panic, strayed>>

iputInvalid(p) ==
  LET i == Head(th[p].puts) IN
  /\ Putting(p, "invalid")
  /\ itable' = [itable EXCEPT ![i].valid = FALSE, ![i].lock = None]
  /\ Goto(p, [th[p] EXCEPT !.free = "drop"])
  /\ UNCHANGED <<dinode, dir, cwd, ofile, panic, strayed>>

iputDrop(p) ==
  LET i == Head(th[p].puts) IN
  /\ \/ Putting(p, "drop")
     \/ Putting(p, "no") /\ ~Unlocks(p) /\ ~LastPut(i)
  /\ itable' = [itable EXCEPT ![i].ref = @ - 1]
  /\ Goto(p, [th[p] EXCEPT !.puts = Tail(@), !.free = "no"])
  /\ UNCHANGED <<dinode, dir, cwd, ofile, panic, strayed>>

------------------------------------------------------------------------------
(* namex: begin_op and the first iget or idup, then for every element of   *)
(* the path ilock, the test of the type, dirlookup and iunlockput.         *)
Start(p, path) == IF path.abs THEN ROOTINO ELSE cwd[p]

Begin(p, c) ==
  /\ At(p, "idle") /\ c.op # "close"
  /\ iget(Start(p, c.path))
  /\ Goto(p, [Idle EXCEPT !.pc = "walk", !.call = c, !.path = c.path.elems,
                          !.dp = Start(p, c.path)])
  /\ UNCHANGED <<dinode, dir, cwd, ofile, strayed>>

(* Leaving a call, after putting the inodes of s; a link has its nlink++   *)
(* to undo.                                                                *)
Leave(s) == [Idle EXCEPT !.pc = "end", !.puts = s]
Fail(t, s) ==
  IF t.call.op = "link2" THEN [t EXCEPT !.pc = "link_bad", !.puts = s, !.dp = 0, !.path = <<>>]
                         ELSE Leave(s)

namexEnd(p) ==
  LET t == th[p] IN
  /\ At(p, "walk") /\ t.path = <<>>
  /\ Goto(p, IF WantsParent(t) THEN Fail(t, <<t.dp>>)
                               ELSE [t EXCEPT !.ip = t.dp, !.dp = 0, !.pc = "found"])
  /\ UNCHANGED <<dinode, dir, itable, cwd, ofile, panic, strayed>>

namexLock(p) ==
  /\ At(p, "walk") /\ th[p].path # <<>>
  /\ ilock(p, th[p].dp)
  /\ Goto(p, [th[p] EXCEPT !.pc = "walk_locked"])
  /\ UNCHANGED <<dinode, dir, cwd, ofile, strayed>>

namexStep(p) ==
  LET t == th[p]
      next == dirlookup(t.dp, Head(t.path)) IN
  /\ At(p, "walk_locked")
  /\ \/ /\ itable[t.dp].type # "DIR"
        /\ Goto(p, Fail(t, <<t.dp>>))
        /\ UNCHANGED <<itable, panic, strayed>>
     \/ /\ itable[t.dp].type = "DIR" /\ WantsParent(t) /\ Len(t.path) = 1
        /\ itable' = [itable EXCEPT ![t.dp].lock = None]
        /\ Goto(p, [t EXCEPT !.pc = "parent"])
        /\ UNCHANGED <<panic, strayed>>
     \/ /\ itable[t.dp].type = "DIR" /\ ~(WantsParent(t) /\ Len(t.path) = 1)
        /\ IF next = 0
             THEN /\ Goto(p, Fail(t, <<t.dp>>))
                  /\ UNCHANGED <<itable, panic, strayed>>
             ELSE /\ dirlookup_iget(t.dp, Head(t.path))
                  /\ Goto(p, [t EXCEPT !.puts = <<t.dp>>, !.pc = "walk",
                                       !.dp = next, !.path = Tail(@)])
  /\ UNCHANGED <<dinode, dir, cwd, ofile>>

(* The calls take the lock of what namex returned, or of the inode they    *)
(* looked up or allocated, at the locations of Locks.                      *)
Locks == [found |-> "found_locked", parent |-> "parent_locked",
          unlink_ip |-> "unlink_locked", create_found |-> "create_check",
          create_ilock |-> "create_fill", link_bad |-> "link_undo"]

Lock(p) ==
  LET t == th[p] IN
  /\ t.pc \in DOMAIN Locks /\ At(p, t.pc)
  /\ ilock(p, IF t.pc = "parent" THEN t.dp ELSE t.ip)
  /\ Goto(p, [t EXCEPT !.pc = Locks[t.pc]])
  /\ UNCHANGED <<dinode, dir, cwd, ofile, strayed>>

------------------------------------------------------------------------------
(* What a call does with the inode it found, which it has locked.          *)
UnlockIp(p) ==
  /\ itable' = [itable EXCEPT ![th[p].ip].lock = None]
  /\ Goto(p, Leave(<<>>))

(* Mutant: iunlock instead of iunlockput.                                  *)
PutIp_unlock(p) == UnlockIp(p)

PutIp(p) ==
  /\ Goto(p, Leave(<<th[p].ip>>))
  /\ UNCHANGED itable

(* sys_open from the found or created inode on.  It fails for a directory  *)
(* opened for writing, with no free descriptor (a process has one here),   *)
(* and, as a choice, with no free struct file or a bad device number.      *)
sys_open(p) ==
  LET t == th[p] IN
  /\ At(p, "found_locked") /\ t.call.op \in {"open", "create"}
  /\ \/ PutIp(p) /\ UNCHANGED ofile
     \/ /\ ~(t.call.op = "open" /\ itable[t.ip].type = "DIR" /\ t.call.write)
        /\ ofile[p] = 0
        /\ ofile' = [ofile EXCEPT ![p] = t.ip]
        /\ UnlockIp(p)
  /\ UNCHANGED <<dinode, dir, cwd, panic, strayed>>

(* sys_mkdir and sys_mknod put the inode create returned.                  *)
sys_mkdir(p) ==
  /\ At(p, "found_locked") /\ th[p].call.op \in {"mkdir", "mknod"}
  /\ PutIp(p)
  /\ UNCHANGED <<dinode, dir, cwd, ofile, panic, strayed>>

(* fileclose of the last reference to an inode's struct file.              *)
sys_close(p) ==
  /\ At(p, "idle") /\ ofile[p] # 0 /\ \E c \in Calls : c.op = "close"
  /\ ofile' = [ofile EXCEPT ![p] = 0]
  /\ Goto(p, Leave(<<ofile[p]>>))
  /\ UNCHANGED <<dinode, dir, itable, cwd, panic, strayed>>

(* sys_chdir puts the old directory, ends the transaction and only then    *)
(* changes p->cwd.                                                         *)
sys_chdir(p) ==
  LET t == th[p] IN
  /\ At(p, "found_locked") /\ t.call.op = "chdir"
  /\ \/ /\ itable[t.ip].type # "DIR"
        /\ PutIp(p)
     \/ /\ itable[t.ip].type = "DIR"
        /\ itable' = [itable EXCEPT ![t.ip].lock = None]
        /\ Goto(p, [Leave(<<cwd[p]>>) EXCEPT !.ip = t.ip, !.pc = "chdir_end"])
  /\ UNCHANGED <<dinode, dir, cwd, ofile, panic, strayed>>

(* sys_link: nlink++ before the new name is looked up.                     *)
sys_link(p) ==
  LET t == th[p]
      tab == [itable EXCEPT ![t.ip].nlink = @ + 1, ![t.ip].lock = None] IN
  /\ At(p, "found_locked") /\ t.call.op = "link"
  /\ \/ itable[t.ip].type = "DIR" /\ PutIp(p) /\ UNCHANGED dinode
     \/ /\ itable[t.ip].type # "DIR"
        /\ itable' = tab /\ dinode' = iupdate(tab, {t.ip})
        /\ Goto(p, [t EXCEPT !.pc = "link_new", !.call.op = "link2"])
  /\ UNCHANGED <<dir, cwd, ofile, panic, strayed>>

sys_link_new(p) ==
  LET t == th[p] IN
  /\ At(p, "link_new")
  /\ iget(Start(p, t.call.new))
  /\ Goto(p, [t EXCEPT !.pc = "walk", !.path = t.call.new.elems,
                       !.dp = Start(p, t.call.new)])
  /\ UNCHANGED <<dinode, dir, cwd, ofile, strayed>>

(* dirlink in the locked parent: it fails if the name is there or, as a    *)
(* choice, if the disk is full.                                            *)
sys_link_dp(p) ==
  LET t == th[p]
      old == dirlookup(t.dp, Head(t.path)) IN
  /\ At(p, "parent_locked") /\ t.call.op = "link2"
  /\ \/ /\ old # 0 /\ dirlookup_iget(t.dp, Head(t.path))
        /\ Goto(p, Fail(t, <<old, t.dp>>))
        /\ UNCHANGED dir
     \/ /\ old = 0
        /\ Goto(p, Fail(t, <<t.dp>>))
        /\ UNCHANGED <<dir, itable, panic, strayed>>
     \/ /\ old = 0
        /\ dir' = [dir EXCEPT ![t.dp][Head(t.path)] = t.ip]
        /\ Goto(p, Leave(<<t.dp, t.ip>>))
        /\ UNCHANGED <<itable, panic, strayed>>
  /\ UNCHANGED <<dinode, cwd, ofile>>

sys_link_bad(p) ==
  LET t == th[p]
      tab == [itable EXCEPT ![t.ip].nlink = @ - 1] IN
  /\ At(p, "link_undo")
  /\ itable' = tab /\ dinode' = iupdate(tab, {t.ip})
  /\ Goto(p, Leave(<<t.ip>>))
  /\ UNCHANGED <<dir, cwd, ofile, panic, strayed>>

------------------------------------------------------------------------------
(* sys_unlink: the parent is locked, then the inode it names.              *)
sys_unlink(p) ==
  LET t == th[p]
      n == Head(t.path)
      ip == dirlookup(t.dp, n) IN
  /\ At(p, "parent_locked") /\ t.call.op = "unlink"
  /\ \/ /\ n \in {".", ".."} \/ ip = 0
        /\ Goto(p, Leave(<<t.dp>>))
        /\ UNCHANGED <<itable, panic>>
     \/ /\ n \notin {".", ".."} /\ ip # 0
        /\ iget(ip)
        /\ Goto(p, [t EXCEPT !.ip = ip, !.pc = "unlink_ip"])
  /\ UNCHANGED <<dinode, dir, cwd, ofile, strayed>>

sys_unlink_entry(p) ==
  LET t == th[p]
      isdir == itable[t.ip].type = "DIR"
      tab == [itable EXCEPT ![t.dp].nlink = IF isdir THEN @ - 1 ELSE @] IN
  /\ At(p, "unlink_locked")
  /\ panic' = IF itable[t.ip].nlink < 1 THEN "unlink: nlink < 1" ELSE ""
  /\ \/ /\ isdir /\ ~isdirempty(t.ip)
        /\ Goto(p, Leave(<<t.ip, t.dp>>))
        /\ UNCHANGED <<itable, dinode, dir>>
     \/ /\ ~(isdir /\ ~isdirempty(t.ip))
        /\ dir' = [dir EXCEPT ![t.dp][Head(t.path)] = 0]
        /\ itable' = tab
        /\ dinode' = iupdate(tab, IF isdir THEN {t.dp} ELSE {})
        /\ Goto(p, [t EXCEPT !.puts = <<t.dp>>, !.pc = "unlink_nlink",
                             !.dp = 0, !.path = <<>>])
  /\ UNCHANGED <<cwd, ofile, strayed>>

sys_unlink_nlink(p) ==
  LET t == th[p]
      tab == [itable EXCEPT ![t.ip].nlink = @ - 1] IN
  /\ At(p, "unlink_nlink")
  /\ itable' = tab /\ dinode' = iupdate(tab, {t.ip})
  /\ Goto(p, Leave(<<t.ip>>))
  /\ UNCHANGED <<dir, cwd, ofile, panic, strayed>>

------------------------------------------------------------------------------
(* create: an existing inode is returned for open only; otherwise ialloc   *)
(* takes the first free dinode, and the new inode is filled and linked     *)
(* with both locks held.  Nothing tests that the parent still has a name.  *)
create(p) ==
  LET t == th[p]
      old == dirlookup(t.dp, Head(t.path))
      unused == {i \in Inums : dinode[i].type = "free"}
      new == CHOOSE i \in unused : \A j \in unused : i <= j IN
  /\ At(p, "parent_locked") /\ t.call.op \in {"create", "mkdir", "mknod"}
  /\ \/ /\ old # 0 /\ dirlookup_iget(t.dp, Head(t.path))
        /\ Goto(p, [t EXCEPT !.ip = old, !.puts = <<t.dp>>, !.pc = "create_found",
                             !.dp = 0, !.path = <<>>])
        /\ UNCHANGED dinode
     \/ /\ old = 0 /\ unused = {}
        /\ Goto(p, Leave(<<t.dp>>))
        /\ UNCHANGED <<dinode, itable, panic, strayed>>
     \/ /\ old = 0 /\ unused # {}
        /\ dinode' = [dinode EXCEPT ![new] = [type |-> t.call.type, nlink |-> 0]]
        /\ Goto(p, [t EXCEPT !.ip = new, !.pc = "create_iget"])
        /\ UNCHANGED <<itable, panic, strayed>>
  /\ UNCHANGED <<dir, cwd, ofile>>

create_check(p) ==
  LET t == th[p] IN
  /\ At(p, "create_check")
  /\ IF t.call.op = "create" /\ itable[t.ip].type \in {"FILE", "DEVICE"}
       THEN Goto(p, [t EXCEPT !.pc = "found_locked"]) /\ UNCHANGED itable
       ELSE PutIp(p)
  /\ UNCHANGED <<dinode, dir, cwd, ofile, panic, strayed>>

ialloc_iget(p) ==
  /\ At(p, "create_iget")
  /\ iget(th[p].ip)
  /\ Goto(p, [th[p] EXCEPT !.pc = "create_ilock"])
  /\ UNCHANGED <<dinode, dir, cwd, ofile, strayed>>

create_fill(p) ==
  LET t == th[p]
      isdir == t.call.type = "DIR"
      made == [itable EXCEPT ![t.ip].nlink = 1,
                             ![t.dp].nlink = IF isdir THEN @ + 1 ELSE @]
      failed == [itable EXCEPT ![t.ip].nlink = 0] IN
  /\ At(p, "create_fill")
  /\ \/ /\ itable' = made /\ dinode' = iupdate(made, {t.ip, t.dp})
        /\ dir' = [dir EXCEPT ![t.ip][".."] = IF isdir THEN t.dp ELSE 0,
                              ![t.dp][Head(t.path)] = t.ip]
        /\ Goto(p, [t EXCEPT !.puts = <<t.dp>>, !.pc = "found_locked",
                             !.dp = 0, !.path = <<>>])
     \/ /\ itable' = failed /\ dinode' = iupdate(failed, {t.ip})
        /\ \E linked \in BOOLEAN :
             dir' = [dir EXCEPT ![t.ip][".."] = IF isdir /\ linked THEN t.dp ELSE 0]
        /\ Goto(p, Leave(<<t.ip, t.dp>>))
  /\ UNCHANGED <<cwd, ofile, panic, strayed>>

end_op(p) ==
  LET t == th[p] IN
  /\ t.pc \in {"end", "chdir_end"} /\ At(p, t.pc)
  /\ cwd' = IF t.pc = "chdir_end" THEN [cwd EXCEPT ![p] = t.ip] ELSE cwd
  /\ Goto(p, Idle)
  /\ UNCHANGED <<dinode, dir, itable, ofile, panic, strayed>>

(* A crash loses the tables and keeps what the last commit made durable.   *)
Crash ==
  /\ panic = "" /\ \A p \in Procs : th[p] = Idle
  /\ itable' = [i \in Inums |-> IF i = ROOTINO
                                  THEN [NoEntry EXCEPT !.ref = Cardinality(Procs)]
                                  ELSE NoEntry]
  /\ cwd' = [p \in Procs |-> ROOTINO]
  /\ ofile' = [p \in Procs |-> 0]
  /\ UNCHANGED <<dinode, dir, th, panic, strayed>>

Step(p) ==
  \/ \E c \in Calls : Begin(p, c)
  \/ namexEnd(p) \/ namexLock(p) \/ namexStep(p) \/ Lock(p)
  \/ iunlock(p) \/ iputLast(p) \/ iputTrunc(p) \/ iputInvalid(p) \/ iputDrop(p)
  \/ sys_open(p) \/ sys_mkdir(p) \/ sys_close(p) \/ sys_chdir(p)
  \/ sys_link(p) \/ sys_link_new(p) \/ sys_link_dp(p) \/ sys_link_bad(p)
  \/ sys_unlink(p) \/ sys_unlink_entry(p) \/ sys_unlink_nlink(p)
  \/ create(p) \/ create_check(p) \/ ialloc_iget(p) \/ create_fill(p)
  \/ end_op(p)

(* panic never returns.                                                    *)
Halted == panic # "" /\ UNCHANGED vars

Next == (\E p \in Procs : Step(p)) \/ Crash \/ Halted

Spec == Init /\ [][Next]_vars

------------------------------------------------------------------------------
(* The inodes a call holds a pointer to, besides those of puts.            *)
Registers(t) ==
  CASE t.pc \in {"walk", "walk_locked", "parent", "parent_locked"} ->
         IF t.call.op = "link2" THEN <<t.dp, t.ip>> ELSE <<t.dp>>
    [] t.pc \in {"found", "found_locked", "create_found", "create_check", "link_new",
                 "link_bad", "link_undo", "unlink_nlink", "chdir_end"} -> <<t.ip>>
    [] t.pc \in {"unlink_ip", "unlink_locked", "create_ilock", "create_fill"} ->
         <<t.dp, t.ip>>
    [] t.pc = "create_iget" -> <<t.dp>>
    [] OTHER -> <<>>

Pointers(p) ==
  Registers(th[p]) \o th[p].puts \o <<ofile[p]>>
    \o (IF th[p].pc = "chdir_end" THEN <<>> ELSE <<cwd[p]>>)

Held(p, i) == LET q == Pointers(p) IN Cardinality({k \in DOMAIN q : q[k] = i})

(* The reference count of every inode-table entry is the number of         *)
(* pointers to it: current directories, open files and the local variables *)
(* of running calls, on every path through every call, errors included.    *)
RefCounts == panic = "" => \A i \in Inums :
  itable[i].ref = MapThenSumSet(LAMBDA p : Held(p, i), Procs)

(* fs.c:343: "ip->ref == 1 means no other process can have ip locked, so   *)
(* this acquiresleep() won't block (or deadlock)".                         *)
IputNeverWaits ==
  \A p \in Procs :
    LET i == Head(th[p].puts) IN
    Putting(p, "no") /\ itable[i].lock # p /\ LastPut(i) => itable[i].lock = None

(* ilock meets a free inode ("no type"), and unlink one without a link,    *)
(* only after some process has gone through the ".." of a removed          *)
(* directory to a parent that has no link left; on no other way through    *)
(* these calls.  (iget's panic, for a full table, is not excluded.)        *)
PanicsOnlyIfStrayed == panic \notin {"", "iget: no inodes"} => strayed

(* The number of directory entries that name i.  The ".." of a directory   *)
(* counts while the directory itself has a name; the root has none.        *)
NamedDirs == {dir[d][n] : d \in Inums, n \in DirNames} \ {0}
Links(i) == Cardinality({x \in Inums \X DirNames : dir[x[1]][x[2]] = i})
            + Cardinality({d \in NamedDirs : dir[d][".."] = i})

(* Between any two steps, in the middle of calls too, no inode has fewer   *)
(* links than directory entries, so that no iput frees an inode under a    *)
(* name: link counts up before it adds the entry, unlink counts down       *)
(* after.  (create_fill is one step: it enters the new directory before it *)
(* counts its "..", with both inodes locked.)                              *)
LinksCovered ==
  \A i \in Inums :
    /\ Links(i) <= dinode[i].nlink - (IF i = ROOTINO THEN 1 ELSE 0)
    /\ Links(i) > 0 => dinode[i].type # "free"
=============================================================================
