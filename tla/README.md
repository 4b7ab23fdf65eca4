# A TLA+ verification of the xv6 kernel

xv6 is a small Unix-like kernel for RISC-V multiprocessors (`src/kernel`), with
a file-system builder (`src/mkfs`) and user programs (`src/user`). This project
models the parts of the kernel whose correctness depends on orders of events:
several CPUs, processes that sleep and are woken, interrupts, and crashes. TLC
checks the models on small instances; TLAPS proves the central results for
every instance.

## 1. The system

| part | state | operations | what makes it hard | module |
|---|---|---|---|---|
| redo log (`log.c`) | header in memory and on disk, `outstanding`, `committing` | `begin_op`, `end_op`, `log_write`, `commit`, recovery | calls share a transaction; a crash between any two writes, in recovery too; log space | `Log`, `AtomicLog`, safety proved |
| buffer cache (`bio.c`, `sleeplock.c`) | LRU list, `refcnt`, sleep locks | `bread`, `bwrite`, `brelse`, `bpin` | one buffer per block; recycling; lost wakeups | `Bcache`, proved |
| virtio disk (`virtio_disk.c`) | descriptors, two rings | `virtio_disk_rw`, interrupt | driver, device and interrupt interleave; partial allocation; index wrap | `Virtio`, proved |
| names (`fs.c`, `sysfile.c`) | inode table, directories, link counts | `iget`, `iput`, `namex`, `open`, `create`, `link`, `unlink`, `chdir` | last reference against look-up; removed directories; roll-back; crash | `Names` |
| file contents (`fs.c`, `file.c`, `mkfs.c`) | bitmap, block addresses, sizes, offsets | `balloc`, `bmap`, `itrunc`, `readi`, `writei` | disk full half way; indirect blocks; size of a transaction | `Blocks` |
| memory (`kalloc.c`, `vm.c`, `exec.c`) | free list, page tables | `uvmalloc`, `uvmcopy`, `fork`, `exec` | failure half way; nothing leaked or shared | `Vm` |
| processes (`proc.c`) | the table, `wait_lock`, each CPU's current process | `fork`, `exit`, `wait`, `kill`, `sleep`, `wakeup`, scheduler | lost wakeups, a stack freed while in use, orphans, stale `killed` | `Proc`, safety proved |
| pipes (`pipe.c`) | ring buffer, two wrapping indices, two open flags | `pipealloc`, `pipewrite`, `piperead`, `pipeclose` | two sleep channels; kill at any point; both ends closing at once | `Pipe`, `ByteStream`, safety proved |
| console, UART, spin locks, interrupts (`console.c`, `uart.c`, `spinlock.c`, `trap.c`) | input line, transmit ring, interrupt enables | `consoleread`, `consoleintr`, `uartputc`, `uartintr`, `acquire`, `release` | handler against process on two CPUs; a full line; `^D` | `Console`, proved but for `^D` |
| files and the shell (`file.c`, `sysfile.c`, `sh.c`, `init.c`) | file table, descriptors, processes of a command | `dup`, `close`, `pipe`, `fork`, `exit`; `runcmd` | end of file through pipelines; every table may be full | `Shell` |
| boot, switch, dispatch, strings, `printf` | | | straight-line code, assembly, text | not modelled |
| parser of the shell, other programs, tests | | | sequential programs | not modelled |

Interactions: every file-system call runs between `begin_op` and `end_op`; the
log pins buffers in the cache, which reads and writes through the disk driver;
`Names` and `Blocks` are two views of the same calls, one with names and links
and one with blocks and contents, on top of the log's promise that a crash falls
between calls. Log, pipes, console and `wait` all use `sleep`/`wakeup`; `exit`
closes files, which closes pipes; `kill` touches only the process, so every
sleeping loop has to look at `killed` itself. `Shell` composes descriptors, files,
pipes and processes under the shell's programs.

## 2. Modules

Properties, `Init`, `Next` and the specification are at the end of each module.
An operator whose comment starts with "Mutant" is a wrong version of the one
after it; replacing that one by it violates a property (the list is in
`PROJECT.json`). The theorems are in modules of their own that extend the
component's: `LogInvariant` and `LogProof`, `BcacheProof`, `PipeProof`,
`ProcProof`, `VirtioInvariant` and `VirtioProof`, `ConsoleProof` (section 5).

### Log, AtomicLog

`AtomicLog` is the promise: two arrays of blocks, the *current* one seen by the
running system and the *durable* one a restart would find. Calls change the
current one; the durable one takes it over in a single step, and only while no
call is in progress; a crash goes back to the durable one.

`Log` is `log.c`. `lh`, `outstanding` and `committing` are the fields of
`struct log`; `head`, `logdata` and `disk` are the header, the data blocks and
the home blocks on the disk; `cache`, `pin` and `owner` are what the log needs
of the buffer cache: contents, the references `bpin` adds, and the sleep lock.
The actions carry the names of the functions. `begin_op` and the first part of
`end_op` run under `log.lock`, so each pass of a loop is one step. `commit`
takes one step per disk write (`write_log`, `write_head`, `install_trans`,
`commit_clear`), as does recovery (`recover_read_head`, `recover_install`,
`recover_clear`). `Crash` is enabled everywhere. `bget_recycle` takes an unused
buffer away at any time, which is every behaviour the LRU list could show. A
call holds one buffer at a time. The three panics are values of `panic`.

The refinement maps *durable* to the home blocks overlaid with the log blocks
the disk header names, *current* to what `bread` returns (or, before recovery
has ended, to *durable*), and *active* to the processes between `begin_op` and
`end_op`.

### Pipe, ByteStream

`ByteStream` is a bounded FIFO with two ends. `Pipe` is `pipe.c` together with
the reference count `fileclose` drops. `nread` and `nwrite` are unsigned ints of
`UINT` values, and the buffer is indexed modulo `PIPESIZE`. The pipe's lock is a
variable. `kill` does not take it, so a kill falls between any two steps; the
test of `killed` and the `sleep` that follows are separate steps for that
reason. `copyin` and `copyout` may fail at any byte.

### Proc

`Proc` is the process table of `proc.c`. `wait_lock` is a variable because it is
held across other steps. `plock` marks a `p->lock` from `sleep` or `exit` to the
scheduler that releases it; the remaining critical sections of a `p->lock` take
no other lock and are single steps. `fork` has the four sections of the code
(set up, acquire `wait_lock`, set the parent, make runnable). `exit` hands its
children over one by one, each with a complete `wakeup(initproc)`, and `wakeup`
visits the slots one at a time. A process in `acquire(&wait_lock)` cannot be
preempted, because `push_off` has turned interrupts off; anywhere else without
the lock it can. `usertrap`'s test of `killed` appears as the guard of each call
and as `exit`. Closing files in `exit`, exit statuses and memory are left out.
init is taken never to exit by itself and passes `wait` no address.

### Bcache

`Bcache` is `bio.c` with the sleep locks of `sleeplock.c`. `lru` is the list
from `bcache.head.next` on; the other functions are the fields of the buffers.
`bget` ends its section under `bcache.lock` before it calls `acquiresleep`, and
`brelse` gives the sleep lock up before it drops the reference, so both are two
steps with other processes in between. `sleep` on the lock and `wakeup` are
atomic with the lock's own `lk`. A disk transfer is a step of its own. Callers
follow the log's rule: what they change they write or pin before `brelse`, and
they unpin only what is on the disk. A process has one buffer at a time.

### Virtio

`Virtio` is `virtio_disk.c` against a device that is modelled from how the
driver uses it. `free`, `desc`, `ops`, `info`, the two rings and `used_idx` are
the fields of `struct disk`; the device's own state is how far it has read the
avail ring, the requests it works on, the blocks on the disk and its interrupt
status. Each access the two sides share is a step: the ring entry, the index,
the notification, an entry of the used ring, the interrupt and its
acknowledgement. The device finishes requests in any order, and between any two
steps of the driver. Acknowledging is one step, although the code reads the
status and then writes it: the status is already set when the handler runs, so
an interrupt raised between the two is the same as one raised before them.
Indices count modulo `IDX`, 2^16 in the code. The register protocol of
`virtio_disk_init` is the initial state. The caller of `virtio_disk_rw` holds
the buffer's sleep lock.

### Names

An entry of the inode table is named by its inode, since `iget` gives an inode
in use the entry it has. `dinode` and `dir` are inodes and directory contents on
disk as the cache has them, `itable` the table with its copies, `th` where each
process is in its call. `namex` takes one `ilock` at a time, and the calls go on
from what it found, so every place where another process can come in is a step
boundary. `iput` has the five steps of the code: unlock, the test under
`itable.lock`, truncation, the invalid entry, the drop of the reference. A full
disk is a choice at each `dirlink`. `Crash` is possible when no call is active:
that is what the log makes of a crash anywhere. A panic stops the system
(`Halted`). `strayed` is a history: some `..` led to an inode without links, from
a directory that had outlived its parent.

### Blocks

Sizes are in slots: a block address, a directory entry and a unit of data each
take one, and a block has `BSIZE` of them. What is written to inode `i` is the
value `i`, so data in the wrong file is seen. `writei` is one step per block
(with `bmap`), one for an indirect block and one for the end; `itrunc` is two.
`file` is the file table: each open takes an entry with an offset of its own, an
inode may be open several times, and an entry may be in use by several processes,
which inherit it through `fork`. So an offset can be beyond the end of a file that
another process has truncated, also between two transactions of one `write`.
A copy from user memory may fail at each block; a copy that fails in the middle
of a block is taken to have changed nothing. `logged` collects the blocks of the
running transaction. `Init` is computed by the model of `mkfs`.

### Vm

Every function of `kalloc.c` and `vm.c` is an operator from memory to memory;
`fork`, `exec`, `sbrk`, `wait` and a copy to user memory are the actions, since
their page tables are out of other processes' reach. What they share, the number
of free pages, is anything in the reachable states. Page tables have three
levels as in the code, of two entries. A page is two units, so that sizes need
not be aligned. `image` is a history: what the process should see. Arguments are
whole pages where the code has them so, and small: the panics for unaligned or too
large ones are left out, and so is `uvmunmap: not a leaf`.

### Console

Two CPUs, one process that reads lines and one that writes, and one UART
interrupt that either CPU may take whenever its interrupts are on, also in the
middle of a process's kernel code. `push_off` and `pop_off` keep `intr`, `noff`
and `intena` of each CPU; `acquire` is two steps, so that it spins. A section
under a spin lock is a step up to the next access to the UART, because
`uartputc_sync` (the echo) does not take `uart_tx_lock`. `lines`, `line`, `eofs`
and `sent` are histories. `^P`, the character 0 and the mapping of carriage
return to newline are left out, as is the kernel's own `printf`. Of the panics of
`sched` only `sched locks` is there. The UART is modelled from how `uart.c` uses it.

### Shell

A process is the list of system calls it has still to make; `runcmd` of `sh.c`
turns a command into one, and `echo`, `cat` and `wc` are such lists as well.
`fileclose` and the `pipeclose` after it are separate steps, as the code has let
go of `ftable.lock` in between. Pipes count bytes; the sleeping is in `Pipe`.
init's own fork of the next shell takes the slot that the last one left, in one
step with the `wait` that freed it. That this fork or the `exec` of the shell fails
(`init.c:29-37`) is left out: after a failed fork init exits, which the kernel
answers with a panic, and after a failed `exec` init tries again. `exit` hands over
its children and becomes a zombie in one step; `Proc` has the steps. The shell's
parser, `cd`, and the loop that opens the console are left out.

## 3. Runs

| run | instance | checks | result |
|---|---|---|---|
| `log` | 2 processes, 3 blocks, 2 contents, log of 4 blocks, calls of `MAXOPBLOCKS - 1`, fair | `CommitAlone`, `PinsProtectDirty`, `SleeperHasWaker`, `NoPanic`, `CrashAtomic`, `SleeperWoken` | pass |
| `bcache` | 3 processes, 3 blocks, 2 contents, 2 buffers, 1 pinned at most | `OneBufferPerBlock`, `HolderHasItsBlock`, `AsleepOnlyIfLocked`, `NothingLost` | pass |
| `virtio` | 3 processes, 3 blocks, 2 contents, 8 descriptors, indices mod 8 | `DescOwnedOnce`, `NotForgotten`, `RequestServed` | pass |
| `names` | 2 processes, 3 inodes, 2 names, paths of 1 and 2 elements and `..` | `RefCounts`, `IputNeverWaits`, `PanicsOnlyIfStrayed`, `LinksCovered` | pass |
| `blocks` | 2 processes, 2 struct files, 3 inodes, 1 direct and 2 indirect blocks per file, 4 free blocks | `BlocksOwnedOnce`, `FileContents`, `LogFits`, `NoPanic` | pass |
| `vm` | 2 processes, 17 pages, a program of 2 segments | `PagesOwnedOnce`, `MemoryIsImage`, `NoPanic` | pass |
| `proc` | 4 slots, 2 CPUs, 5 process ids, `kill` of any pid and of 0 | `StackInUseOnce`, `NoOrphans`, `NoMissedExit` | pass |
| `pipe` | 2 writers, 1 reader that may be killed, 2 bytes of buffer, indices mod 4, fair | `NoUseAfterFree`, `PipeIsStream`, `WriteReturns`, `EofEndsReads` | pass |
| `console` | input ring of 2, output ring of 2, wrapping indices, reads of 2 bytes | `InputIsTyped`, `EofOnce`, `NothingForgotten`, `LocksMaskInterrupts`, `FifoFits`, `OutputInOrder` | pass |
| `shell` | 4 processes, 5 descriptors each, 4 files, 1 pipe of 1 byte, fair | `FileRefs`, `CommandDone`, `PromptReturns` | pass |
| `pipe_kill` | 2 writers, 2 readers, all may be killed | `ReaderSleepsOnlyWhenEmpty` | violated |
| `proc_lostkill` | 3 slots, 2 CPUs, fair | `KilledExits` | violated |

Why the bounds are enough.

*Log*: two processes are needed for a shared transaction and for a sleeper beside
a commit; two contents tell a new block from an old one. The log has room for two
reservations of two, and a call that should not have been admitted finds a third
block to log. A call here logs one block; calls of several blocks are covered by
the proof.

*Bcache*: three blocks for two buffers, so that misses recycle, and three
processes, so that two wait for one lock and `bget` can run out of buffers. That
panic stops the system, so deadlock is not checked. The code does not rule it
out: `NBUF` is 30, the log may pin 29 blocks, and nothing limits how many
processes hold a buffer.

*Virtio*: eight descriptors, as in the code, are two requests and a rest of two,
so the third process gives two back and sleeps. The indices wrap without end. The
view of `MCVirtio` identifies states that differ only in what no step reads again
or in which of the two contents a block has.

*Names*: an inode can be freed and allocated again while another process is
anywhere in a call on its name; a directory can be removed while a process walks
through it or stands in it, and `..` leads out of removed directories: the run
reaches the panic of section 3, and `PanicsOnlyIfStrayed` says that nothing else
leads to one. The table has as many entries as there are inodes, so it never fills:
the panic of `iget` is not covered (`NINODE` is 50 and `NFILE` 100, so the code does
not rule it out), and the property leaves it out.

*Blocks*: a file of one direct and two indirect blocks crosses the border; two
files cannot both grow to their full size, so every allocation fails in some
state. Two struct files are one inode open twice, or two inodes, and two processes
use one of them at once; the second one's `O_TRUNC` leaves the first one's offset
beyond the end, where `readi` and `writei` must refuse it. The view of `MCBlocks` identifies states that differ only in which free
block an allocation took, and only while `BlocksOwnedOnce` holds.

*Vm*: 17 pages hold two small processes and a third page table during `exec`, and
not two large ones. The view identifies states that differ only in which page
holds what; it keeps the verdict of each property.

*Proc*: four slots give a great-grandchild, so that a zombie can be handed to an
init that is asleep while its own child lives on; five pids reuse a freed slot.

*Pipe*: two bytes of buffer with indices modulo four wrap both ways; `MaxN = 2`
makes a call span a full and an empty buffer; two writers give one wakeup that
several sleepers compete for and the race of the last closers.

*Console*: rings of two fill and wrap, and the output ring holds more than the byte
that goes next, so a lost, repeated or overtaken byte shows; three editing
characters and `^D` meet one ordinary character. The view turns both rings to index
0, which is a symmetry as all arithmetic on indices is modulo their range.

*Shell*: a background job can take the slot, the file or the pipe that a pipeline
needs. The commands are a pipeline into `wc`, one into `cat`, and a list whose
second part is a redirected background job.

### What the violated runs show

* `pipe_kill`: `pipewrite` returns for a killed writer without
  `wakeup(&pi->nread)`, although it may have written bytes; a reader stays
  asleep beside them while another writer keeps the pipe open.
* `proc_lostkill`: `wait` looks at `killed` before it sleeps; a kill in between
  wakes nobody. The same pattern is in `piperead`, `consoleread`, `sys_sleep`.

### What else the modelling showed

These are behaviours of the code that no run states as a property:

* `begin_op` lets calls reserve `LOGSIZE` blocks, but the log `mkfs` lays out has
  `LOGSIZE` blocks *with* its header. Calls of at most one block less than they
  reserve never reach the panic of `log_write` (`ReservationsSuffice`), and
  `LogFits` in `blocks` shows that writes and truncations are such calls.
* A free slot of the process table has pid 0; `kill(0)` marks it killed and
  `allocproc` never clears the mark, so the slot's next process exits at once.
* `create` does not look at the parent's `nlink`: a file made in a directory that
  was just removed keeps a link count of 1 and has no name.
* A directory does not keep its parent: in a removed directory, `..` may name an
  inode that has been freed, and `ilock` then panics. The run `names` reaches this,
  and `PanicsOnlyIfStrayed` allows this and no other way to a panic.
* An inode without a name that is open at a crash is never freed.
* `mkfs` rounds the root's size up by a whole block when its entries fill their
  blocks exactly; the last block then does not exist, and a `read` of the
  directory would allocate it outside a transaction.

## 4. Fairness

A runnable process is eventually run (every scheduler scans the whole table and
the timer preempts), so steps inside the kernel are weakly fair, or strongly
fair where the process can be preempted in between or waits for a spin lock.
That a spin lock starves nobody is an assumption about the hardware's atomic
swap. A file-system call eventually reaches `end_op`, because it is a bounded
loop. `pipe` assumes a reader that goes on reading at least a byte at a time, and
states `WriteReturns` for the last writer left: with others, `wakeup` hands
nothing over and a writer may find the pipe full each time. `shell` assumes that
every process that can take a step takes one; someone keeps typing commands.
The other runs check safety only, and in them user programs are free to stop.

## 5. Proofs

All results below hold for every value of the constants that satisfies the named
assumptions of the module; the runs evaluate those assumptions. None of the
properties is inductive as it stands. Each proof states an inductive invariant
`IInv`, shows that `Init` implies it and that every action keeps it, one lemma per
action or per group of actions that change the same variables, and derives the
properties from it. TLC checked every `IInv` on the instance of the component's run
before it was proved.

| component | theorems (property) | module |
|---|---|---|
| log | `TypeCorrect`, `CommitIsAlone` (`CommitAlone`), `PinsAreRight` (`PinsProtectDirty`), `SleepersHaveWakers` (`SleeperHasWaker`) | `LogInvariant` |
| | `LogImplementsAtomicLog` (`CrashAtomic`), `ReservationsSuffice` (`NoPanic`) | `LogProof` |
| buffer cache | `BlocksCachedOnce` (`OneBufferPerBlock`), `HoldersAreRight` (`HolderHasItsBlock`), `RefcntIsExact`, `SleepersWaitForHolder` (`AsleepOnlyIfLocked`), `CacheLosesNothing` (`NothingLost`) | `BcacheProof` |
| pipes | `PageOutlivesUsers` (`NoUseAfterFree`), `PipeImplementsStream` (`PipeIsStream`) | `PipeProof` |
| processes | `StacksAreExclusive` (`StackInUseOnce`), `ChildrenHaveParents` (`NoOrphans`), `ExitsAreNoticed` (`NoMissedExit`) | `ProcProof` |
| disk driver | `DescriptorsAreOwned` (`DescOwnedOnce`), `RequestsAreServed` (`RequestServed`), `RequestsAreNotForgotten` (`NotForgotten`) | `VirtioProof`, on `VirtioInvariant` |
| console | `LocksAreMasked` (`LocksMaskInterrupts`), `UartFits` (`FifoFits`), `BytesGoInOrder` (`OutputInOrder`), `BufferIsInput` (`InputIsTyped`), `NobodyIsForgotten` (`NothingForgotten`) | `ConsoleProof` |

### The log

From `DataAssumption`, `ProcAssumption` and `SizeAssumption` of `Log`.

`IInv` adds, to the types, `Control` (`outstanding` is the number of active calls,
a commit excludes them, recovery runs alone) and, until a panic, `LogInv`: headers
fit and name no block twice; exactly the logged and not yet installed blocks are
pinned, and an unpinned buffer equals its disk block; at each stage of `commit` the
log slots before `tail` hold the cached contents, or the home blocks before `tail`
hold the log's; the same for recovery; and the disk header is the in-memory one
from `write_head` to `commit_clear` and empty at any other time the system is up.
The refinement again has a lemma per action (`Refine...`): `write_head` is the
abstract commit, `log_write` the abstract write, everything else in commit and
recovery a stutter.

`ReservationsSuffice` is `Roomy => (Spec => []NoPanic)`. `Roomy` says that the log
has `LOGSIZE` blocks with its header (what `mkfs` lays out), that a call logs fewer
blocks than `MAXOPBLOCKS`, and that `MAXOPBLOCKS < LOGSIZE` (10 and 30 in
`param.h`); the instance of the run `log` satisfies it. Without the second part
the panic is reachable, since one of the `LOGSIZE` blocks is the header. The
invariant `Reserved` counts the blocks that the active calls may still log as a set
of pairs (call, number), and says that they and the logged blocks leave
`log_write`'s test one block to spare.

### The buffer cache

From `BcacheAssumption` of `Bcache` (finitely many processes, at least one buffer).
`CacheLosesNothing` is an action property: what a read of a block would return
changes only when its holder changes it.

The heart of the invariant is `RefcntCounts`: `refcnt` is the number of processes
between `bget` and the end of `brelse`, plus one for a pin. It makes a buffer with
`refcnt` 0 safe to recycle although `bget` waits for the sleep lock without
`bcache.lock`. `Claims` says that such a process has the buffer of its block,
`Contents` that a valid buffer that is neither pinned nor being changed equals the
disk. Counting rests on lemmas about adding and removing one element of a finite
set; that `bget` finds the buffer there is rests on the least element of a set of
naturals (`LeastIn`).

### Pipes

From `RolesAssumption`, `BytesAssumption` and `SizeAssumption` of `Pipe`: the range
of the indices is a multiple, at least twofold, of the buffer's size (2^32 and 512
in the code).

`Roles` says who holds the pipe's lock, `Ends` that the page is there while an end
is open and that an end is open until its last process has been through
`pipeclose`, `Ring` that at most `PIPESIZE` bytes lie between the indices and that
a writer past its test of `readopen` still has a reader. The refinement maps the
queue of `ByteStream` to the bytes between `nread` and `nwrite`. Its lemmas are
about `%`: two indices less than a buffer apart are in different places of it,
also when one has wrapped.

### Processes

From `ProcsAssumption` and `PidAssumption` of `Proc`, for any number of slots and
CPUs. `Holders` says who holds `wait_lock`, `Forks` that a process in `fork` has a
slot of its own which nobody can run, `Family` that init stays, and `Exits` what
`exit` and `wait` have done so far: an exiting process that has reached its
`wakeup` has no children left, a parent it has still to wake has not been visited,
and `wait` is about to sleep only without zombie children. The last two, kept by
`wait_lock`, are why no exit is missed.

### The disk driver

From `VirtioAssumption` of `Virtio`: the range of the ring indices is a multiple of
the number of descriptors (2^16 and 8 in the code).

`Chains` says that the descriptors in use are the chains of the requests, three
each and disjoint. `Flight` says that a request is, from its entry in the avail
ring until `virtio_disk_intr` clears `b->disk`, in exactly one of three places: the
part of the avail ring the device has not read, the device, and the part of the
used ring the driver has not read; and that neither part names a descriptor twice.
`Signals` says that whoever has to act next has been notified, interrupted, or is
about to look, and `Transfers` that a request that has left the device is served.
The rings need that fewer than `NUM` requests are under way, which holds because
each takes three descriptors.

### The console

From `SizeAssumption` and `NoneAssumption` of `Console`, for all buffer sizes, index
ranges, characters and sizes of a read.

`OutputInOrder`, an action property, says that every byte the handler or the writer
takes from the ring to the UART is the one after the last such byte.

`IInv` says what the interrupt enable, `noff` and `intena` of each CPU are for every
place the process and the handler can be at (`Enables`), who holds the two locks
(`Holders`), and that the bytes in the UART, plus those that passed the check of
`LSR` and are not written yet, are at most two. The last is why the missing lock in
`uartputc_sync` does no harm: there is one handler and one holder of `uart_tx_lock`,
and each passed the check with the UART empty. `panic = "none"` is part of it, so
none of the tests in `acquire`, `release`, `pop_off` and `sched` fails.

On top of it, for the output, `Order`: the transmit ring holds consecutive bytes
that follow the last one taken, which may still be in a register of the writer or
of the handler; and `Told`: who must send the next byte or wake the writer knows.
For the input, `Kept`: from `cons.r` on the ring spells the committed input and then
the line being edited, and the three indices are as far apart as those are long;
and `Editing`: a full buffer has been committed, there is room for the character
the handler is echoing (although it looked before the echo), and the reader sleeps
only when nothing is committed.

### Only model-checked

* Liveness (`SleeperWoken`, `WriteReturns`, `EofEndsReads`, `PromptReturns`),
  which this prover does not treat.
* `EofOnce` of the console: it counts with `SelectSeq`, a recursive definition, and
  what it computes for every sequence needs induction over data.
* `Blocks` and `Vm`, which are written with recursive operators.
* `Names`: link and reference counts are sums over directories and processes,
  which would need the same induction. `Shell`: its processes are sequences of
  calls computed from a command.

## 6. Not modelled

* Assembly (`entry.S`, `kernelvec.S`, `trampoline.S`, `swtch.S`), `start.c`,
  `main.c`, the registers of PLIC and virtio at initialisation and the kernel's
  own page table: straight-line code whose result is the `Init` of the modules.
* `printf.c` and `string.c` of the kernel, `ulib.c`, `printf.c` and `umalloc.c`
  of the user programs, `grep`, `ls`, the parser of the shell: sequential text
  and list handling.
* `syscall.c`, `sysproc.c` and the argument copies of `sysfile.c`, with `copyin`
  and `copyinstr`: they change no kernel state. `sys_sleep` and the tick count:
  the pattern is that of the other sleeping loops, with the same stale test of
  `killed` as in `proc_lostkill`.
* `sys_fstat`, `filestat`, `stati`, `procdump`: they only read.
* `ramdisk.c` is not linked.
* Two buffers locked at once (indirect block, then bitmap block): `Bcache` gives
  each process one. The order is the same everywhere.
* The overflow of `nextpid`, which is out of the reach of a bounded instance;
  init's exit, a panic by design.
