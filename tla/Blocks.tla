------------------------------- MODULE Blocks -------------------------------
(***************************************************************************)
(* File contents: the free bitmap (balloc, bfree, bzero), the map from a   *)
(* file's blocks to disk blocks (bmap, itrunc), readi and writei of fs.c,  *)
(* fileread and filewrite of file.c, and O_TRUNC of sys_open, run by       *)
(* several processes on the image that mkfs/mkfs.c builds.                 *)
(*                                                                         *)
(* The unit of size is the slot: what one block address, one directory     *)
(* entry or one piece of data takes; a block has BSIZE slots, and so       *)
(* NINDIRECT = BSIZE.  The data written to inode i is the value i, so data *)
(* in the wrong file shows.  A copy from or to user memory succeeds or     *)
(* fails as a whole for one block.  inode is the copy in memory, dinode    *)
(* the one on disk, disk and bitmap the blocks as the buffer cache has     *)
(* them.  As in Names, a crash returns to a state with no transaction open.*)
(***************************************************************************)
EXTENDS Naturals, Sequences, FiniteSets

CONSTANTS Procs, None,
          Files,       \* the entries of the file table (struct file)
          NINODES,     \* inode numbers are 1..NINODES; 1 is the root directory
          IPB,         \* inodes in a block
          FSSIZE,      \* blocks of the disk
          LOGSIZE,     \* blocks of the log
          BSIZE,       \* slots of a block
          NDIRECT,     \* direct block addresses of an inode
          MAXOPBLOCKS, \* blocks a transaction may log
          MkfsFiles,   \* the sizes of the files given to mkfs
          WriteSizes, ReadSizes  \* the sizes of the writes and of the reads

ASSUME SizeAssumption == MAXOPBLOCKS >= 6 /\ BSIZE > 0 /\ NDIRECT > 0

VARIABLES bitmap,  \* the blocks marked in use
          disk,    \* [Blocks -> [0..BSIZE-1 -> Nat]]: data blocks, indirect blocks
          dinode,  \* [Inums -> [size, addrs]]: on disk
          inode,   \* the same, in memory
          lock,    \* [Inums -> Procs \cup {None}]: the sleep lock of the inode
          file,    \* [Files -> [ip, off]]: ip is 0 in a free entry
          th,      \* [Procs -> record]: where each process is
          want,    \* [Inums -> Nat]: history, the slots written and not truncated
          panic

vars == <<bitmap, disk, dinode, inode, lock, file, th, want, panic>>

Inums == 1..NINODES
Blocks == 0..(FSSIZE - 1)
NINDIRECT == BSIZE
MAXFILE == NDIRECT + NINDIRECT
Zeroed == [k \in 0..(BSIZE - 1) |-> 0]
Smaller(a, b) == IF a < b THEN a ELSE b

(* The layout mkfs writes to the super block.                              *)
BPB == BSIZE * 8
ninodeblocks == NINODES \div IPB + 1
nbitmap == FSSIZE \div BPB + 1
inodestart == 2 + LOGSIZE
bmapstart == inodestart + ninodeblocks
nmeta == bmapstart + nbitmap
IBLOCK(i) == i \div IPB + inodestart
BBLOCK(b) == b \div BPB + bmapstart

------------------------------------------------------------------------------
(* mkfs: an image is [din, data, freeblock].                               *)
RECURSIVE iappend(_, _, _)
iappend(img, i, n) ==
  LET size == img.din[i].size
      fbn == size \div BSIZE
      slot == IF fbn < NDIRECT THEN fbn ELSE NDIRECT
      \* the block of the inode's table, then the one of the indirect block
      img1 == IF img.din[i].addrs[slot] # 0 THEN img
              ELSE [img EXCEPT !.din[i].addrs[slot] = img.freeblock,
                               !.freeblock = @ + 1]
      a == img1.din[i].addrs[slot]
      img2 == IF fbn < NDIRECT \/ img1.data[a][fbn - NDIRECT] # 0 THEN img1
              ELSE [img1 EXCEPT !.data[a][fbn - NDIRECT] = img1.freeblock,
                                !.freeblock = @ + 1]
      x == IF fbn < NDIRECT THEN a ELSE img2.data[a][fbn - NDIRECT]
      n1 == Smaller(n, (fbn + 1) * BSIZE - size)
      img3 == [img2 EXCEPT !.din[i].size = @ + n1,
                 !.data[x] = [k \in 0..(BSIZE - 1) |->
                   IF k \in (size % BSIZE)..((size % BSIZE) + n1 - 1) THEN i ELSE @[k]]]
  IN IF n = 0 THEN img ELSE iappend(img3, i, n - n1)

RECURSIVE addFiles(_, _)
addFiles(img, k) ==
  IF k > Len(MkfsFiles) THEN img
  ELSE addFiles(iappend(iappend(img, 1, 1), k + 1, MkfsFiles[k]), k + 1)

(* main: the root with "." and "..", the files with their entries, and the *)
(* size of the root made a whole number of blocks.                         *)
Mkfs ==
  LET empty == [din |-> [i \in Inums |-> [size |-> 0, addrs |-> [k \in 0..NDIRECT |-> 0]]],
                data |-> [b \in Blocks |-> Zeroed], freeblock |-> nmeta]
      img == addFiles(iappend(iappend(empty, 1, 1), 1, 1), 1)
  IN [img EXCEPT !.din[1].size = (@ \div BSIZE + 1) * BSIZE]

Closed == [ip |-> 0, off |-> 0]
Idle == [pc |-> "idle", f |-> None, i |-> 0, n |-> 0, tot |-> 0, n1 |-> 0, logged |-> {}]

Init ==
  /\ disk = Mkfs.data
  /\ bitmap = 0..(Mkfs.freeblock - 1)      \* balloc(freeblock) of mkfs.c
  /\ dinode = Mkfs.din
  /\ inode = dinode
  /\ lock = [i \in Inums |-> None]
  /\ file = [f \in Files |-> Closed]
  /\ th = [p \in Procs |-> Idle]
  /\ want = [i \in Inums |-> IF i = 1 THEN 2 + Len(MkfsFiles) ELSE dinode[i].size]
  /\ panic = ""

------------------------------------------------------------------------------
(* balloc returns the first free block, marked and zeroed, or fails.       *)
FreeBlocks == Blocks \ bitmap
balloc == CHOOSE b \in FreeBlocks : \A c \in FreeBlocks : b <= c

At(p, l) == panic = "" /\ th[p].pc = l
Goto(p, r) == th' = [th EXCEPT ![p] = r]

(* filewrite on a regular file, one transaction at a time: begin_op, ilock *)
(* and the tests of writei.                                                *)
(* Mutant: the bitmap block of each block is not counted.                  *)
MaxWrite_wide == (MAXOPBLOCKS - 1 - 1 - 2) * BSIZE
MaxWrite == ((MAXOPBLOCKS - 1 - 1 - 2) \div 2) * BSIZE

chunk(p, t) ==
  LET n1 == Smaller(t.n, MaxWrite)
      off == file[t.f].off
      bad == off > inode[t.i].size \/ off + n1 > MAXFILE * BSIZE IN
  /\ \/ /\ t.n = 0
        /\ Goto(p, Idle) /\ UNCHANGED lock
     \/ /\ t.n > 0 /\ lock[t.i] = None /\ bad
        /\ Goto(p, Idle) /\ UNCHANGED lock
     \/ /\ t.n > 0 /\ lock[t.i] = None /\ ~bad
        /\ lock' = [lock EXCEPT ![t.i] = p]
        /\ Goto(p, [t EXCEPT !.pc = "bmap", !.n1 = n1, !.tot = 0])
  /\ UNCHANGED <<bitmap, disk, dinode, inode, file, want, panic>>

(* A file may be open in several processes, after a fork, and an inode in  *)
(* several files.  A directory is never open for writing.                  *)
sys_write(p, f, n) ==
  /\ At(p, "idle") /\ file[f].ip \notin {0, 1}
  /\ chunk(p, [Idle EXCEPT !.pc = "chunk", !.f = f, !.i = file[f].ip, !.n = n])

filewrite(p) == At(p, "chunk") /\ chunk(p, th[p])

(* The block of the file that writei is at.                                *)
Fbn(t) == (file[t.f].off + t.tot) \div BSIZE
NeedsIndirect(t) == Fbn(t) >= NDIRECT /\ inode[t.i].addrs[NDIRECT] = 0
Leaf(ip, fbn) == IF fbn < NDIRECT THEN ip.addrs[fbn]
                 ELSE disk[ip.addrs[NDIRECT]][fbn - NDIRECT]

(* bmap, fs.c:401: the indirect block.                                     *)
bmapIndirect(p) ==
  LET t == th[p] IN
  /\ At(p, "bmap") /\ t.tot < t.n1 /\ NeedsIndirect(t)
  /\ \/ /\ FreeBlocks = {}
        /\ Goto(p, [t EXCEPT !.pc = "finish"])
        /\ UNCHANGED <<bitmap, disk, inode>>
     \/ /\ FreeBlocks # {}
        /\ bitmap' = bitmap \cup {balloc}
        /\ disk' = [disk EXCEPT ![balloc] = Zeroed]
        /\ inode' = [inode EXCEPT ![t.i].addrs[NDIRECT] = balloc]
        /\ Goto(p, [t EXCEPT !.logged = @ \cup {BBLOCK(balloc), balloc}])
  /\ UNCHANGED <<dinode, lock, file, want, panic>>

(* The rest of bmap and of one turn of the loop of writei.  The copy from  *)
(* user memory may fail, and then the block stays where bmap put it.       *)
writeBlock(p) ==
  LET t == th[p]
      fbn == Fbn(t)
      old == Leaf(inode[t.i], fbn)
      b == IF old # 0 THEN old ELSE balloc
      ind == inode[t.i].addrs[NDIRECT]
      at == (file[t.f].off + t.tot) % BSIZE
      m == Smaller(t.n1 - t.tot, BSIZE - at)
      fresh == IF old # 0 THEN disk
               ELSE [x \in Blocks |-> IF x = b THEN Zeroed
                      ELSE IF fbn >= NDIRECT /\ x = ind THEN [disk[x] EXCEPT ![fbn - NDIRECT] = b]
                      ELSE disk[x]]
      bmapLog == IF old # 0 THEN {}
                 ELSE {BBLOCK(b), b} \cup (IF fbn >= NDIRECT THEN {ind} ELSE {}) IN
  /\ At(p, "bmap") /\ t.tot < t.n1 /\ ~NeedsIndirect(t)
  /\ \/ /\ old = 0 /\ FreeBlocks = {}
        /\ Goto(p, [t EXCEPT !.pc = "finish"])
        /\ UNCHANGED <<bitmap, disk, inode>>
     \/ /\ old # 0 \/ FreeBlocks # {}
        /\ bitmap' = bitmap \cup {b}
        /\ inode' = [inode EXCEPT ![t.i].addrs = IF fbn < NDIRECT THEN [@ EXCEPT ![fbn] = b] ELSE @]
        /\ \/ /\ disk' = fresh
              /\ Goto(p, [t EXCEPT !.pc = "finish", !.logged = @ \cup bmapLog])
           \/ /\ disk' = [fresh EXCEPT ![b] =
                    [k \in 0..(BSIZE - 1) |-> IF k \in at..(at + m - 1) THEN t.i ELSE @[k]]]
              /\ Goto(p, [t EXCEPT !.tot = @ + m, !.logged = @ \cup bmapLog \cup {b},
                                   !.pc = IF t.tot + m = t.n1 THEN "finish" ELSE "bmap"])
  /\ UNCHANGED <<dinode, lock, file, want, panic>>

(* Mutant: a write in the middle of the file cuts it.                      *)
NewSize_last(size, last) == last
NewSize(size, last) == IF last > size THEN last ELSE size

(* The end of writei, with iupdate, and of the transaction of filewrite.   *)
writeEnd(p) ==
  LET t == th[p]
      last == file[t.f].off + t.tot
      ip == [inode[t.i] EXCEPT !.size = NewSize(@, last)] IN
  /\ At(p, "finish")
  /\ inode' = [inode EXCEPT ![t.i] = ip]
  /\ dinode' = [dinode EXCEPT ![t.i] = ip]
  /\ file' = [file EXCEPT ![t.f].off = last]
  /\ want' = [want EXCEPT ![t.i] = IF last > @ THEN last ELSE @]
  /\ lock' = [lock EXCEPT ![t.i] = None]
  /\ Goto(p, IF t.tot # t.n1 THEN Idle
             ELSE [Idle EXCEPT !.pc = "chunk", !.f = t.f, !.i = t.i, !.n = t.n - t.n1])
  /\ UNCHANGED <<bitmap, disk, panic>>

(* Mutant: an offset beyond the end, left by a truncation, is not met.     *)
ReadLen_within(size, off, n) == IF off > size THEN n ELSE Smaller(n, size - off)
ReadLen(size, off, n) == IF off > size THEN 0 ELSE Smaller(n, size - off)

(* fileread, with the loop of readi: reading stops at the end of the file, *)
(* and a failed copy to user memory reads nothing.  fileread opens no      *)
(* transaction, so the bmap of readi must find every block.                *)
sys_read(p, f, n) ==
  LET i == file[f].ip
      off == file[f].off
      n1 == ReadLen(inode[i].size, off, n)
      fbns == {(off + k) \div BSIZE : k \in 0..(n1 - 1)}
      hole == \E b \in fbns : \/ b >= NDIRECT /\ inode[i].addrs[NDIRECT] = 0
                              \/ Leaf(inode[i], b) = 0 IN
  /\ At(p, "idle") /\ i # 0 /\ lock[i] = None /\ n1 > 0
  /\ panic' = IF hole THEN "log_write outside of trans" ELSE ""
  /\ file' = [file EXCEPT ![f].off = @ + n1]
  /\ UNCHANGED <<bitmap, disk, dinode, inode, lock, th, want>>

(* sys_open of a file that exists: filealloc takes a free entry, with an   *)
(* offset of its own, and O_TRUNC discards the contents.  The offsets of   *)
(* the files that are open on the inode stay as they are.                  *)
sys_open(p, f, i, trunc) ==
  /\ At(p, "idle") /\ lock[i] = None /\ file[f].ip = 0
  /\ file' = [file EXCEPT ![f] = [ip |-> i, off |-> 0]]
  /\ \/ ~trunc /\ UNCHANGED <<lock, th>>
     \/ /\ trunc /\ i # 1
        /\ lock' = [lock EXCEPT ![i] = p]
        /\ Goto(p, [Idle EXCEPT !.pc = "trunc", !.f = f, !.i = i])
  /\ UNCHANGED <<bitmap, disk, dinode, inode, want, panic>>

(* The last fileclose: nobody has a descriptor of the file any more, so    *)
(* nobody is in a call on it.                                              *)
fileclose(p, f) ==
  /\ At(p, "idle") /\ file[f].ip # 0 /\ \A q \in Procs : th[q].f # f
  /\ file' = [file EXCEPT ![f] = Closed]
  /\ UNCHANGED <<bitmap, disk, dinode, inode, lock, th, want, panic>>

(* itrunc: first the direct blocks, then the indirect block with what it   *)
(* lists, then the size and iupdate.  What a free block holds counts as    *)
(* unknown: Junk is no inode's data and no block's address.                *)
Junk == [k \in 0..(BSIZE - 1) |-> FSSIZE]
bfree(S) ==
  /\ bitmap' = bitmap \ S
  /\ disk' = [b \in Blocks |-> IF b \in S THEN Junk ELSE disk[b]]
  /\ panic' = IF S \subseteq bitmap THEN "" ELSE "freeing free block"

itruncDirect(p) ==
  LET t == th[p]
      a == inode[t.i].addrs
      S == {a[k] : k \in 0..(NDIRECT - 1)} \ {0} IN
  /\ At(p, "trunc")
  /\ bfree(S)
  /\ inode' = [inode EXCEPT ![t.i].addrs = [k \in 0..NDIRECT |-> IF k < NDIRECT THEN 0 ELSE a[k]]]
  /\ Goto(p, [t EXCEPT !.pc = "trunc_indirect", !.logged = {BBLOCK(b) : b \in S}])
  /\ UNCHANGED <<dinode, lock, file, want>>

(* Mutant: the indirect block itself is kept.                              *)
IndirectBlocks_listed(a) ==
  IF a = 0 THEN {} ELSE {disk[a][j] : j \in 0..(NINDIRECT - 1)} \ {0}
IndirectBlocks(a) ==
  IF a = 0 THEN {} ELSE {a} \cup ({disk[a][j] : j \in 0..(NINDIRECT - 1)} \ {0})

itruncIndirect(p) ==
  LET t == th[p]
      ip == [size |-> 0, addrs |-> [k \in 0..NDIRECT |-> 0]] IN
  /\ At(p, "trunc_indirect")
  /\ bfree(IndirectBlocks(inode[t.i].addrs[NDIRECT]))
  /\ inode' = [inode EXCEPT ![t.i] = ip]
  /\ dinode' = [dinode EXCEPT ![t.i] = ip]
  /\ want' = [want EXCEPT ![t.i] = 0]
  /\ lock' = [lock EXCEPT ![t.i] = None]
  /\ Goto(p, Idle)
  /\ UNCHANGED file

Quiet == \A p \in Procs : th[p].pc \in {"idle", "chunk"}

Crash ==
  /\ panic = "" /\ Quiet
  /\ inode' = dinode
  /\ file' = [f \in Files |-> Closed]
  /\ th' = [p \in Procs |-> Idle]
  /\ UNCHANGED <<bitmap, disk, dinode, lock, want, panic>>

Step(p) ==
  \/ \E f \in Files, n \in WriteSizes : sys_write(p, f, n)
  \/ \E f \in Files, n \in ReadSizes : sys_read(p, f, n)
  \/ \E f \in Files, i \in Inums, trunc \in BOOLEAN : sys_open(p, f, i, trunc)
  \/ \E f \in Files : fileclose(p, f)
  \/ filewrite(p) \/ bmapIndirect(p) \/ writeBlock(p) \/ writeEnd(p)
  \/ itruncDirect(p) \/ itruncIndirect(p)

Next == (\E p \in Procs : Step(p)) \/ Crash

Spec == Init /\ [][Next]_vars

------------------------------------------------------------------------------
(* The places that hold the address of a block: 0..NDIRECT in the inode,   *)
(* and the slots of the indirect block after them.                         *)
Address(ip, k) ==
  IF k <= NDIRECT THEN ip.addrs[k]
  ELSE IF ip.addrs[NDIRECT] = 0 THEN 0 ELSE disk[ip.addrs[NDIRECT]][k - NDIRECT - 1]

Places(nodes) == {x \in Inums \X (0..(NDIRECT + NINDIRECT)) : Address(nodes[x[1]], x[2]) # 0}

OwnedOnce(nodes) ==
  LET places == Places(nodes)
      used == {Address(nodes[x[1]], x[2]) : x \in places} IN
  /\ Cardinality(used) = Cardinality(places)
  /\ used \cup 0..(nmeta - 1) = bitmap
  /\ used \cap 0..(nmeta - 1) = {}

(* Every block of the bitmap belongs to exactly one place of one inode, or *)
(* to the metadata, through allocation, truncation and failed writes of    *)
(* several processes; the same holds on disk whenever a commit can happen. *)
BlocksOwnedOnce == OwnedOnce(inode) /\ (Quiet => OwnedOnce(dinode))

(* A file that nobody has locked holds exactly the data written to it: a   *)
(* write that ran out of blocks or of user memory kept what it counted,    *)
(* a reused block shows nothing of the file that had it before.            *)
FileContents ==
  \A i \in Inums : lock[i] = None =>
    /\ i # 1 => inode[i].size = want[i]
    /\ \A k \in 0..(want[i] - 1) :
         LET a == Leaf(inode[i], k \div BSIZE) IN a # 0 /\ disk[a][k % BSIZE] = i

(* file.c:149: filewrite writes a few blocks at a time "to avoid exceeding *)
(* the maximum log transaction size"; a block is to spare.                 *)
LogFits ==
  \A p \in Procs :
    th[p].i # 0 => Cardinality(th[p].logged \cup {IBLOCK(th[p].i)}) < MAXOPBLOCKS

(* No readi meets a hole, whose block bmap would allocate outside of a     *)
(* transaction, also with an offset that another process's truncation has  *)
(* left beyond the end (fs.c:477, 511); and no bfree meets a free block.   *)
NoPanic == panic = ""
==============================================================================
