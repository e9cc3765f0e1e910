# Relay OS in TLA+

Relay OS is a small operating system in Rust: a boot loader, a kernel for one
CPU that is not preemptible, user programs (a shell and its commands), an ext2
driver, a VFS with an in-memory filesystem, and a USB stack (xHCI, mass
storage, keyboards). This directory models the parts of it in which order
matters: who runs, who waits and who is woken; what is on the disk when the
power goes; which of two filesystems answers what; whose end of a pipe is
still open. TLC checks the models on small instances, and TLAPS proves the
most important ones for every value of the constants.

`PROJECT.json` maps each definition to the lines it models, lists the
components, the hazards, the runs, the theorems and, for every property, a
slip in the code that would break it.

## How the parts interact

    programs --system calls--> proc.rs / syscall/* --> process table, holders
                                   |    |    |
                                   |    |    +--> fd table --> pipes
                                   |    |                  \-> open files --> mount table
                                   |    +--> console input <-- keyboards (USB), COM1   |
                                   |    +--> tees (copies of the output in files) -----+
                                   |                                                   v
    timer --ticks-----------> settle / tick                   MemFs, devfs, system image, ext2
    process 1 (init.rs) ----> shell, orphans, error screen                             |
                                                              block cache --> USB disk --> xHCI

One fact shapes all the models: the kernel is not preemptible and there is one
CPU. Kernel code therefore runs from one switch to the next without
interference, and an action of a model is the code between two such points. A
process gives up the CPU only in `proc::block`, at its end, or in
`settle_ticks` at the end of a call or on a tick that interrupts its program.

## Inventory

For each part: its state; the operations that change it; what is hard to get
right; what correct means.

| Part | State and operations | What is hard | Correct means |
|---|---|---|---|
| Process table (`proc/table.rs`, `proc.rs`) | entries with parent, group, state, killed; the run queue; insert, schedule, block, wake, kill, end, reap, tick | kill against block; wake before sleep; orphans; a parent that waits while its child ends | the queue holds the ready processes once each; a killed process neither blocks nor runs its program; no exit is lost; ready processes run |
| Console ownership (`proc/holders.rs`) | the chain of groups that handed the console on | a group in the middle of the chain ends; the chain is full | the foreground is the top of the chain; a reader is in it or wakes |
| Process 1 (`init.rs`, `error_screen.rs`) | the shell it started, the restart limit | orphans end while it waits for the shell | the shell is its child, and is replaced when it ends |
| Console input (`input.rs`, `line.rs`, `tty.rs`) | raw queue, line being typed, lines ready, escape sequence that arrives, mode | full queues; a change of mode with input in it; a Ctrl-C nobody took | nothing typed is lost, doubled or shown twice; no sequence is cut |
| Tees (`tee.rs`) | the stack of copies, their buffers | a write that fails; an owner that ends | a copy holds the output between its push and its pop |
| Pipes (`pipe.rs`, `syscall/pipes.rs`) | ring, ends, who waits | the last end closes while the other side waits; inherited ends | a queue of bytes; nobody waits without a reason |
| fds, open files (`fd.rs`, `file.rs`) | per-process table, shared offsets | a file removed while open | each fd leads to what was opened |
| ext2 block cache (`cache.rs`) | cached blocks, dirty ones, order of use | the device refuses a write in the middle of an eviction or a sync | a store of blocks; what was synced is on the medium |
| ext2 mount, sync, shutdown (`ext2/src/lib.rs`) | the clean mark, the superblock in memory | power cut or refused write at any point | a filesystem in use is not marked clean; what was synced survives |
| ext2 files, directories (`allocator.rs` ... `rename.rs`) | bitmaps, counts, inodes, directory records | a disk that fills up in the middle of a call; rename over an ancestor | the disk is one e2fsck accepts; the answers are the contract's |
| MemFs (`vfs/src/memfs.rs`) | nodes | | the reference for the contract |
| VFS (`vfs/src/mount.rs`, `path.rs`) | mounts, current directories | a directory removed under a walk | paths lead where the tree says |
| xHCI (`usb/src/xhci/*`) | rings with cycle bits, the command that waits, endpoints | a completion that arrives after its command was given up | each completion goes to its own transfer |
| Mass storage (`usb/src/storage/*`) | tag, toggles, phase of a command | stalls, short data, a device that goes | a request succeeds only if the device did it |
| Keyboards (`usb/src/hid/*`) | keys down, repeat, modifiers | a lost device holds a key | each press is one key |
| Memory (`mm/*`, `exec.rs`, `heap`) | frames, page tables, the CPU's cache of them, free lists | a mapping that fails half-way; a program that ends while it is being loaded | each frame has one owner; no program reaches a frame that is not its own |
| Shell (`crates/shell`) | jobs, variables, fds | jobs that end in any order | each job is reported once |

The remaining parts (boot loader, ACPI, PCI, RTC, fonts, the ABI's packing,
the build tools) are straight-line code, tables or text; `PROJECT.json` lists
them with the reason they are left out.

## Modules

| Module | Models | State |
|---|---|---|
| `ProcTable` | `proc/table.rs`, `proc/holders.rs` | the table with its run queue and the chain of holders, one record `t`; each method an operator |
| `TtyInput` | what processes see of the console's input | mode, Ctrl-C that waits, kind of what waits |
| `Processes` | `proc.rs`, `init.rs`, `error_screen.rs` | `t`, where each process goes on (`at`), ticks in a call, foreground, input |
| `InputQueue` | `line.rs`, `input.rs`, and the promise they keep: `TtyInput` with one step per method | bytes by class, each with how often it was shown |
| `Pipe`, `Fifo` | the ring of `pipe.rs`; the bounded queue it implements | memory, start, length |
| `PipeCalls` | `syscall/pipes.rs`, `fd.rs`, the ends of `pipe.rs` | fds, ends, calls that wait |
| `BlockCache`, `Store` | `ext2/src/cache.rs`; the store of blocks it implements | cached data, dirty set, order, device, medium |
| `Ext2Mount` | `ext2/src/lib.rs` over the cache | phase of the mount, superblock in memory |
| `Ext2Files`, `Ext2Ops` | `allocator.rs`, `bitmap.rs`, `inode.rs`, `file.rs`; `dir.rs`, `dirent.rs`, `ops.rs`, `rename.rs` | the filesystem, one record `s` |
| `MemFs`, `Ext2Model` | `vfs/src/memfs.rs`; it and ext2 side by side | the nodes, one record `m`; both, and which inode is which |
| `Vfs` | `mount.rs`, `path.rs`, `devfs.rs`, the filesystem of the system image | mounts, current directory, changes noted for others, one record `x` |
| `OpenFiles`, `Files` | `file.rs`, `fd.rs`, `mounts.rs`, `syscall/files.rs` | per process a current directory and fds; open files; the mount table |
| `TeeStack`, `ConsoleTees` | `tee.rs`; the tees at work in `tty.rs` | the stack of tees, what the files hold |
| `Storage`, `BlockDevice` | `usb/src/storage/*` and the host's disk numbers, against the fake stick of `testing/storage`; the block device it implements | the stick, the driver's tag and phase |
| `Rings` | `xhci/ring.rs` | a producer ring and an event ring, dword by dword, with both their sides |
| `XhciHardware`, `Xhci` | the fake controller of `testing/xhci`; commands, transfers, ports, enumeration and the host | registers and queues; where the driver is (`k`) and its data (`d`) |
| `XhciStart` | `start.rs`, `init.rs`, `caps.rs` | registers, where the driver is |
| `Keyboard` | `hid/keyboard.rs`, `keymap.rs`, the host's key queue | keys down, repeat, modifiers, queue |
| `PageTables`, `AddressSpace` | `mm/frame.rs`, `paging.rs`; `space.rs`, `kstack.rs`, `user.rs` | a memory `m`: the allocator and what the frames hold |
| `Loading` | `read_program`, `elf/src/check.rs`, `exec.rs` | - |
| `Memory` | `mm/mod.rs` and the memory side of `proc.rs` | memory, spaces, kernel stacks, the CPU's cache `tlb` |
| `Heap` | `heap/src/lib.rs`, grown as by `relay-rt/src/allocator.rs` | the free lists, blocks in use |
| `MC*` | the instances TLC checks | |
| `*Proofs` | theorems and their proofs, see below | |

A module without VARIABLES gives each method as an operator from the state to
the state afterwards (or to the set of states there may be); the module above
it takes one of them per action. `Processes` uses `ProcTable` in this way,
and sees the console's input through `TtyInput`, the abstraction that
`InputQueue` is shown to implement (`ImplementsTty`): the two are composed
through that interface and not by a product of their states. The same holds
of `Xhci`, whose rings are queues because `Rings` shows that they are, and of
`Ext2Mount`, whose device may do what `BlockDevice` allows.

An `MC` module that is about several parts (`MCKernel`, `MCDisks`, `MCUsb`,
`MCFiles`, `MCMemory`) chooses at the start which of them a behaviour is
about. The parts share no state, so that nothing is lost by it.

### Processes

`at[p]` says where process p goes on when it has the CPU; it takes the place
of its kernel stack. A system call is one action when it does not wait
(`Call`), or it moves `at[p]` to the loop it waits in (`wait`, `waitC`,
`read`) and the turns of that loop are steps of the kernel. A tick that
interrupts a program calls `settle_ticks` at once; one that comes during
kernel code is counted in `kticks` and settled at the end of the call, as in
the code. Programs are arbitrary: in "user" a process may make any call at any
time, or none for ever. Left out: names, statistics, exit codes, the time
arithmetic of the restart limit (the error screen may come at any end of the
shell, a superset of what the limit allows).

### Console input

Bytes are told apart by what the code tests for: Ctrl-C, Ctrl-D, erase, CR,
LF, ESC, `[`, and lead and continuation bytes of UTF-8. A byte carries how
often the screen has shown it, so that the echo can be a property. The time
limit of an escape sequence may strike whenever the sequence is not complete.

### Pipes

`Pipe` has the bytes, with the two copies a wrapped read or write makes.
`PipeCalls` has the ends, the fds that share them, blocking and wake-ups, with
the ring reduced to its length. A call that waits has done nothing yet, so
that a woken process makes the call again.

### ext2

`BlockCache` has the write-back cache with a device that may refuse each
request. `media[b]` is the set of values block b may hold after a power cut: a
write reaches the medium at the next flush of the device or before it.
`Ext2Mount` uses it for mount, sync, shutdown, power cut and check, one cache
call a step so that each of several may fail. It starts from any device, with
any clean mark and any data. `Ext2Files` and `Ext2Ops` have the filesystem
itself on a device that answers, with blocks of two "bytes" and two direct and
one, two and three times indirect blocks. `Ext2Model` makes every call on
`MemFs` too. It is the exhaustive form of `crates/ext2/tests/model.rs` and
compares as the test does: a call that fails with ENOSPC is not made on the
MemFs, of a write that stops short the MemFs gets the part that fitted, and
ENOSPC is accepted only when no more than the blocks and inodes the call may
need are free.

### Files and tees

A call is one step, since no file call waits. `Files` has what must reach
everyone when one process changes the tree: current directories, open files,
the fds of children and the files of tees. A freed inode may be another
file's at once, so a stale number would show.

### USB

`Xhci` is one thread of control: a label is a place where the driver reads a
register, rings a doorbell or polls, and between two labels the controller
takes any steps. Every wait may run out at any of its polls. What goes wrong
is the repository's own list, the knobs of its fake controller and its fake
stick (a command that hangs, an abort that keeps its place, a stall, an answer
that is wrong or too short), as choices bounded by budgets. `Rings` has what is
below the queues: the cycle bits, the link TRB and the order of the dwords.

### Memory

Three levels of tables with eight entries take the place of four with 512;
`Memory` starts from the machine's memory map as `mm::init` does, on machines
so small that a load may fail at any frame it takes. `tlb` may hold any page the program used
since its tables were loaded or the page flushed, so a missing flush would
show as a program that reaches a frame it gave back.

## Runs

| Run | Shows | Bounds |
|---|---|---|
| `processes` | the run queue is exact and fair; kills; parents, orphans and waits; process 1 and its shell; the console's readers, foreground and holders; Ctrl-C | 3 processes, 4 pids, slices and sleeps of 1 tick, 1 tick per call |
| `progress` | what must happen: ready runs, killed ends, sleeper and reader wake, the shell is replaced | 3 processes, 3 pids, slices of 1 tick |
| `kernel` | input: each byte typed is in one place and shown as often as it should be, a change of mode loses none, `ImplementsTty`; the ring of a pipe, `ImplementsFifo`; ends counted and no wait without a reason | queues and lines of 4 bytes, 10 classes of bytes; ring of 4 bytes, 2 values; 3 processes (symmetric), 1 pipe |
| `disks` | the clean mark, what was synced, read-only mounts, `ImplementsStore`; commands and their answers in turn, flushes that reach the stick, `ImplementsBlockDevice` | 3 blocks, cache of 2, 2 values; sticks of 2 to 5 blocks |
| `ext2_fs` | same answers and tree as MemFs; counts, ownership of blocks, directory records, links, one tree | 2 groups, 5 blocks, 4 inodes, 2 names of different length |
| `usb` | each answer is its own request's; the rules of the controller; no memory freed that it may still write; a slot it has lost shows; both kinds of ring; each press is one key | 1 port, 2 slots, queues of 3; rings of 3 TRBs |
| `files` | what is removed is gone for exactly those who are in it; listings and offsets go on; a tee's file has all of the output or its error is told | 2 processes, 3 filesystems, 2 open files, 1 tee |
| `memory` | every frame has one owner and is counted; what a program reaches is its own; what the checks accept loads; the heap's blocks are apart | 3 levels of 8 entries, machines of about 40 frames, 2 programs |

Why these are enough. Three processes are process 1, a parent and a child, the
most that one interaction of the table involves; a child's child becomes an
orphan when its parent ends. One pid more than processes lets an entry be
freed and taken again. A tick in kernel code (KTMAX 1) is the smallest number
that makes `settle_ticks` act. A line of 4 bytes holds a character of two
bytes, a line feed, and room to be full. The cache holds 2 of 3 blocks, so
that every access may evict a dirty block; the code's least capacity is 4, but
no line of the algorithm depends on the number. Five blocks in groups of three
make a short last group; with two direct entries a file reaches its triple
indirect block. A ring of three TRBs wraps at every place while one or two of
them are handed over. Where a theorem below states the property too, the
bounds do not matter.

The slips listed in `PROJECT.json` as mutants show that each property can
fail within these bounds.

### Fairness

`progress` assumes `WF(System)` and `WF(Timer)`: the CPU goes on executing
kernel code and process 1, and the timer ticks for ever. Kernel code has no
unbounded loop but the ones that wait in `block`, and the local APIC timer is
periodic. Nothing is assumed of programs, which may compute for ever without
a call, nor of the keyboard.

### Where documents and code disagree

Four runs show a sentence of the repository that the code does not keep.

* `clean_means_written`: the clean mark is put into the superblock before the
  other blocks are flushed, and written with them, lowest block first; if a
  later block is refused, the device says clean and misses it.
* `port_news`: a change of a port between `port_changes`' read of PORTSC and
  its write is announced by no event, and neither are later ones.
* `one_transfer`: a `clear_halt` whose first command is carried out late
  leaves the old transfer on the ring, and the next one is queued behind it.
* `moved`: a directory renamed to a path through its own old name is taken for
  removed by everyone who is in it.

## Proofs

The theorems hold for every value of the constants, under the assumptions
named here. Each safety theorem is proved from an inductive invariant, which
TLC found true of every reachable state of a small instance as well.

| Module | Theorem | States |
|---|---|---|
| `ProcessesProofs` | `TypeCorrect` | the types of `Processes` |
| | `QueueIsExact` | `[]QueueExact` |
| | `KilledProcessesOnlyEnd` | `[]KilledOnlyEnds` |
| | `FamilyInductive` | the inductive invariant `KInv` |
| | `NoExitIsLost` | `[]NoLostExit` |
| | `ShellStaysInits` | `[]ShellIsInits` |
| | `ConsoleIsOneGroups` | `[]ConsoleAgrees` |
| | `ChainHasRoom` | `[]HoldersHaveRoom` |
| | `QueueIsFair` | the action property `NoOvertaking` |
| | `CtrlCIsHeeded` | the action property `CtrlCReaches` |
| `PipeProofs` | `RingTypeCorrect` | the types of `Pipe` |
| | `RingIsFifo` | `ImplementsFifo`, a refinement |
| | `PipesStaySound` | `[]PipesSound` |
| `Ext2MountProofs` | `CacheIsSound` | the cache's accounts, and the inductive invariant `MInv` |
| | `MarkedCleanOnlyWhenShutDown` | `[]CleanMark` |
| | `SyncedBlocksAreOnMedium` | `[]SyncedIsOnMedium` |
| | `ReadOnlyNeverWrites` | the action property `ReadOnlyWritesNothing` |
| | `CacheIsStore` | `ImplementsStore`, a refinement |
| `RingsProofs` | `RingsStayAgreed` | `[]RingsAgree` |
| `StorageProofs` | `StickAndDriverAgree` | the inductive invariant `SInv` |
| | `StickStaysInTurn` | `[]InTurn` |
| | `FlushesReach` | `[]FlushReaches` |
| | `StickIsBlockDevice` | `ImplementsBlockDevice`, a refinement |

### Processes

Assumed: MAX, PIDMAX and SLICE are positive, the other bounds natural
numbers. The proof is in three modules, each on top of the one before.
`ProcTableProofs` has the lemmas about the operators of the table: what changes no more than wake-ups and marks (`Stirred`) keeps the table
sound, one lemma for schedule, insert, reap and the chain of holders each, and
then what they do to parents, waits, readers and the console's group.
`StepProofs` has what every action keeps of the first invariant below, and
what the parts of the actions do to the second. `ProcessesProofs` has the
actions for the second invariant, and the theorems. The lemmas assume the few
facts about cardinalities of sets of pids that they need (`Counting`);
`ProcessesProofs` proves these from the library (`CountingHolds`) before the
first theorem, so no theorem rests on an assumption beyond the bounds.

The first invariant is `IInv`: the types; a `Settled` table (the queue is
injective and its range is the ready processes, only the current process runs,
the next pid is free, the chain of holders is injective with process 1 at the
bottom, a killed process is not blocked, process 1 is not killed); and
`UserIsCurrent`: only the current process can be in its program, and not if
it was killed. The last is what `KilledOnlyEnds` needs: a process that is
killed while it is ready stands at a place where the mark is checked before
its program goes on. Every action has a lemma.

The second, `KInv`, strengthens it. Its parts, and what needs them:

* `Kin`: process 1 is alive and everyone else's parent is; an end hands the
  children to process 1, which is why it must not be killed. `NoLostExit` is
  this and `Awaited`: who blocks in `wait` has a child to wait for and none
  that has ended. That an end wakes its parent is not enough for `Awaited`,
  since the children of the one that ends get a new parent that may be
  blocked too: process 1 is woken as well.
* `Born`: groups are named after pids given out, below the next one. Without
  it a group made by `spawn` could be one whose readers are still blocked.
* `Readers` and `Front`: who is blocked in a read of the console is in the
  group the terminal has, and the chain's top is that group as long as it has
  a process. `ConsoleAgrees` is these two.
* `Roles`, `ShellIsInits` and `AtScreen`: process 1 and the programs are each
  at places of their own; the shell process 1 waits for is its child; at the
  error screen all others are marked killed.

`HoldersHaveRoom` follows by counting: the chain is injective, its members
have processes, and there are at most MAX of those. The action properties
come from one lemma per action that also says what became of the queue
(`Advanced`) and of a Ctrl-C (`Heeded`). `NoOvertaking` says of a step that
the processes ready before and after it keep their order, and new ones come
behind; a restart of the machine is the exception the code makes.

### Pipes

The ring, for every size of ring and every set of values: the mapping
takes the bytes from `start` on, modulo the size, and the one or two copies of
a read or a write move the bytes that a queue would move.

The calls, for every number of processes, pipes and fds and every size
of ring (`Sizes`: some bytes, and a None that is no end and no call): `Good`
says that an end is counted open exactly while an fd or a call has it
(`Counted`), and gives every process that waits a reason to (`Reasons`: a
reader an empty ring with a writer, a writer a full ring with a reader). It is inductive because a
transfer, a close and an end each wake exactly those whose reason they took.

### The block cache and the mount

Assumed: there are finitely many blocks, the cache has room for one, None is
no value, the superblock and the descriptors are different blocks. The theorems are about `MSpec`, which is
the part of the run `disks` that is about the filesystem.

`CInv` says of the cache that it is what its books say: blocks in the order of
use without repetition, dirty and clean apart, the counter right, no more than
CAPACITY of them, a clean block equal to the device's. With it every call,
refused at whatever block, maps to a step of `Store` (`CacheIsStore`). `MInv`
adds where a mount or a flush has come to: `Loading` and `Flushing` (what was
read or written so far), `InCache` (the cache has the superblock and the
descriptors as the driver has them, unless they are marked), `NotClean` (no medium of a
filesystem in use can be read as clean), `AllSecured` (after a sync nothing is
left that a power cut could take) and `NeverDirty` (a read-only mount dirties
nothing, which is why it need not write to make room).

### Rings

Assumed (`Sizes`): the ring has more places than are queued at a time, as the
driver queues one command or transfer at a time on rings of 255 TRBs; no event
has the empty body. `EventsGood` says that from ERDP on lie the events seen,
those not seen and the one being written, in less than a lap, and that the
cycle bits tell the controller's lap from the one before. `RingGood` says the
same of a producer ring with up to four dwords still unwritten: `Pending`
gives those, `CycleBits` every cycle bit with the one or two that the unwritten
dwords will flip, `Holds` the TRBs handed over and `Chained` the link between
them. The proof reduces what a side finds n places on to that (`BitsTell`).

### Mass storage

Assumed (`Sizes`): a command moves at least one block, and what a kind of
stick says of itself has its type; the sticks of `MCDisks` are such. Nothing
is assumed of the number of faults, tries and requests. The proof is in two
halves. The first says what one transfer may do to a stick wherever it is,
whether it gets there or not (`CbwOutcome`, `DataInOutcome`, `DataOutOutcome`,
`CswOutcome`, `ResetOutcome`, `ClearOutcome`): it changes no block but those a
data-out phase still waits for, and if the stick is where the driver thinks it
is, it breaks no rule. The second half has one lemma for each step of the
driver, from lemmas for what the code does after a transfer (`FinishKeeps`,
`SendsKeeps`, `GoOnKeeps`, `ExecuteFailsKeeps`, `RecoverKeeps`, `PieceKeeps`).
`StickProofs` has the first half and those lemmas, `StorageProofs` the steps
and the theorems.

`SInv` is what makes them inductive. `InStep` says where the stick is for each
place of the driver, but holds only while no step of a recovery got lost. After
one did, `Placed` is left: the stick is in the phase of the driver's own
command, or waits for one, or has a CSW with an older tag, which is why tags
are never used twice. `Told` says what the CSW of the driver's own command
means: passed, with all of it moved, it means that the data are the stick's
or that the blocks are on it. `DiskOK` says that the blocks moved so far are
on the disk, and that no phase left over from a command given up can still
write to any block but those of the present write and of writes that failed
(`torn`). This last is the reason for `torn` in `BlockDevice`.

A stick that missed a reset may answer a flush with the CSW of the command
before. `FlushReaches` therefore excepts a stick that missed a step of a
recovery; it takes four faults to get there, more than the run has.

### What is only model-checked

* All liveness (`progress`): fairness and ENABLED are out of the prover's
  reach.
* ext2's files, MemFs, the VFS, open files, the input queue: their operators
  recurse over trees of blocks, records, paths or bytes, and what a recursive
  definition computes for every input needs an induction over data that the
  installed provers cannot use. This includes `ImplementsTty`.
* `Xhci`, `Keyboard`, `Memory` and `Heap`: within reach, not done. Their
  invariants relate a thread of control with many labels to its device, or
  free lists to what they hold; the inductive ones are long and have to be
  found first.

## What is not modelled

The boot loader, interrupts and CPU setup, ACPI, PCI, RTC, power and serial
drivers, partitions and the choice of the root, the terminal's drawing, the
shell with its commands, the programs' runtime and the build tools.
`PROJECT.json` gives the reason for each: straight-line code that runs once,
registers and tables of the machine, text in and text out, or, for the shell's
jobs, still to be done.
