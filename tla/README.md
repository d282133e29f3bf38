# TLA+ models of the TwistedOS-V2 kernel

This directory models the kernel of TwistedOS-V2: its scheduler, its process
life cycle with blocking and signals, its physical and virtual memory
bookkeeping, its kernel heap, its pipes, its sockets with poll and epoll, and its
file system down to the ext2 disk. TLC checks the models on small instances.
TLAPS proves the ready queue (the linked list and that it is a round-robin
queue), the type correctness of the process model and its agreement between
status, ready queue and sleep queue, all safety properties of the sockets, the
pipes (that each is a queue of bytes too) and the kernel heap, for any number of
processes, tags, descriptors, bytes and slabs.
Paths are relative to the repository (`src/` is its root); `LL`, `TL`
and `IPC` stand for `Kernel/Layers/Logic/LogicLayer.cpp`,
`Kernel/Layers/Translation/TranslationLayer.cpp` and
`Kernel/Layers/Logic/InterProcessComunicationManager.cpp`, `VFS` and `EXT` for
`Kernel/Layers/Logic/VirtualFileSystem.cpp` and
`Kernel/Layers/Resource/ExtendedFileSystemManager.cpp`.

`PROJECT.json` lists the components, the runs, the source lines every definition
stands for, the hazards and the theorems.

    tlc -workers 2 -config Lifecycle.cfg MCKernel      # one run
    tlapm KernelProofs.tla                             # one module of proofs

## 1. Inventory

The kernel is single-processor. System calls run with interrupts disabled
(`InitSystemCalls` masks IF) from their entry until they return or block, and so
do the handlers of interrupts and exceptions. What interleaves is therefore not
instructions but *pieces of calls between two context switches*: a call blocks,
other processes and interrupts change the tables, and the call goes on with what
it read before.

| Component | State | Operations | Interacts with | Correct when | Status |
|---|---|---|---|---|---|
| Scheduler (`Scheduler.cpp`, `IntrusiveQueue.hpp`) | linked list of tags, pointer to the current one | add, remove, select | called by the logic layer | the list is well formed, nothing dangles, it is a round-robin queue | modelled, proved |
| Process table (`ProcessManager.cpp`) | `Process` entries, `CurrentProcessId` | create, reset, look up | everything | one entry is RUNNING; slots are reused cleanly | modelled, proved in part |
| Wait queues (`SynchronizationManager.cpp`) | sleep, terminal and futex queues; event queues with their watches | add, remove, tick, wake; create, control, copy, remove | `Tick`, TTY, futex, epoll | tags name blocked processes; nobody sleeps for ever; a watch is for the file it was made for | modelled |
| Logic layer (`LogicLayer.cpp`) | the above together | run, schedule, block, wake, kill, signal, tick, fork, exec | all layers | status and queues agree; address spaces are owned | process part modelled, proved in part |
| System calls (`TranslationLayer.cpp`) | frames of blocked calls | about 100 calls | logic layer, VFS, IPC | a blocked call is woken, a call that ends cleans up | process, memory, pipe, socket, poll and naming calls modelled |
| Dispatcher and entry paths (`Dispatcher.cpp`, `Arch/`) | processor, page table in use | interrupts, exceptions, context switch | logic layer | what executes is what is RUNNING | modelled |
| Terminal (`TTY.cpp`) | input buffer, line discipline, screen | read, write, ioctl, input | keyboard, wait queue | bytes come out in order, readers are woken | blocking read only |
| Event devices (`EventDeviceManager.cpp`) | event rings, waiters | read, queue an event | mouse, keyboard | waiters are woken, lists stay clean | blocking read only |
| Pipes and sockets (`IPC`) | pipe objects, endpoint table; sockets, their peers, queues, addresses and buffers | pipe, dup, close, read, write; socket calls, poll | file tables, sleep queue, event queues | reference counts are exact, bytes are FIFO, hang-ups reach sleepers; no pointer dangles, addresses are exclusive, poll tells the truth | modelled but for socket options and datagrams; proved |
| Physical memory (`PhysicalMemoryManager.cpp`) | buddy free lists, counters | allocate, free | everything that maps memory | every page has one owner, no capacity is lost | buddy allocator modelled |
| Address spaces and memory calls (`VirtualMemoryManager.cpp`, `VirtualAddressSpace.cpp`, `TL`) | mapping tables, heaps, page tables | mmap, munmap, brk, fork, execve, exit | physical memory | tables agree with each other and with the allocator | modelled without the table walk |
| Kernel heap (`KernelHeapManager.cpp`) | slabs, class lists | `kmalloc`, `kfree` | the whole kernel | allocations are disjoint, lists exact, nothing lost | modelled, proved |
| VFS (`VirtualFileSystem.cpp`) and naming calls (`TL`) | dentry tree, inodes, root, working directory | lookup, create, link, rename, delete, mount, chdir, chroot | ext2, ramfs, devices | the tree is a tree, inodes count their names, it shows what the disk has, every call finds the same file | names modelled, data and open files not |
| ext2 (`ExtendedFileSystemManager.cpp`) | bitmaps, group descriptors, superblock, inodes, directory blocks | create, delete, rename, enumerate | disk, VFS | blocks and inodes have one owner, counters are exact, whatever transfer fails | changes modelled, reading of data not |
| RAM file system, partitions, ELF loader, decoders | none (parsers) | parse | VFS, processes | the parse agrees with a reference | not modelled; the tree of the RAM file system is an initial state |
| Boot loader, frame buffer, printf, PCI/IDE drivers | – | – | – | – | not modelled: runs once, pure output or device registers |

**What is hard here.** (a) Every blocking call is a wait loop cut in two by a
context switch, and its wake-up, its time-out, a signal and a kill can all come
in between. (b) Status, ready queue, wait queues, `CurrentProcessId` and the page
table are five copies of the same information, written separately by a dozen
functions. (c) Process slots and addresses are reused, and several tables keep
slot numbers of processes that are gone. (d) Tables are small and allocations may
fail half way through fork, mmap and execve. (e) Sizes are rounded to powers of
two in the allocator and nowhere else. (f) File names live twice, in memory and on
the disk, and are changed in stages of which any may fail and few are undone.
(g) Sockets and event queues are found by process and descriptor number, while
fork, exit and execve move descriptors without telling them. The list under "hazards" gives the lines.

## 2. Modules

    SchedulerOps          the queue operations, as operators on one record
      Scheduler           abstract specification: a round-robin queue
      ReadyQueueList      the linked list; implements Scheduler
        ReadyQueueListProofs  its invariants, and that it implements Scheduler
      LogicLayer          process table, wait queues, KillProcess, signals ...
        Kernel            system calls, interrupts, exceptions; the properties
          MCKernel        its instance for TLC
          KernelLemmas    what the operators of LogicLayer do
          KernelProofs    the invariants of Kernel
    PhysicalMemoryManager buddy allocator, as operators on one record
      MemoryMappings      mmap, munmap, brk, fork, execve, exit above it
    KernelHeapManager     kmalloc and kfree
      MCKernelHeap
      KernelHeapProofs    its properties
    PipeChannel           abstract specification: bounded FIFO queues
    PipeBuffer            the ring buffer of a pipe, as operators
      Pipes               pipe calls; implements PipeChannel
        MCPipes
        PipesProofs       its invariants, and that it implements PipeChannel
    Sockets               sockets, event queues, poll and the descriptor calls
      MCSockets
      SocketsProofs       the invariants of the socket objects
      SocketFilesProofs   descriptors and watches against the sockets
    ExtendedFileSystem    the ext2 image, as operators on outcomes
      VirtualFileSystem   the dentry tree over it, as operators
        FileSystem        the calls; the properties
          MCFileSystem
    SequenceOps           two operators on sequences the models share
      SequenceLemmas      facts about sequences, for all the proofs

A layer below is a module of operators on a state record (`SchedulerOps`,
`LogicLayer`, `PhysicalMemoryManager`, `PipeBuffer`, `ExtendedFileSystem`,
`VirtualFileSystem`), because the code calls it in
the middle of an operation: the composed action is the whole handler, from its
entry to the point where it returns or blocks.

**ReadyQueueList.** The variables are the members of `IntrusiveQueue` and
`Scheduler` and of the tags, freed ones included. `AddToReadyQueue` and
`SelectNextProcess` are a step each. `RemoveFromReadyQueue` makes a step per loop
iteration, once in `FindFirst` and once in `IntrusiveQueue::Remove`, so that what
the walks dereference is visible. `order` is an auxiliary variable, the list read
front to back. An allocation of a tag may fail (`AddDropped`). The early return
of `Remove` for a predecessor that cannot be found is unreachable, as
`WalksStayInList` shows, and left out.

**LogicLayer and Kernel.** One variable, `k`, is a record with a field per member
of the C++ structures. `k.cpu` is the process whose context the processor
executes, `k.PageTable` the loaded address space. `k.Call[p]` is the frame of a
blocked call with the locals it needs when it goes on; the actions `Resume...`
are the code after the block. An interrupt's loop over processes or timers is a
sequence of steps (`k.Loop`) that nothing interrupts. The constant `SystemCalls`
says which calls the programs of an instance make, so that each run can afford
deep behaviour of one kind; `SentSignals` are those they send with kill and
`ManagedSignals` those they install handlers for and mask. Files named in the
map: `LL`, `TL`,
`ProcessManager.cpp`, `SynchronizationManager.cpp`, `Dispatcher.cpp`, `TTY.cpp`,
`EventDeviceManager.cpp`, `Arch/x86.cpp`.

**PhysicalMemoryManager and MemoryMappings.** `mem` holds the free lists by order
and the counters. Pages are numbers; a mapping is start, length and first
physical page. The action of a call includes its failures: no block, no slot, no
page table in the middle of a range, a fork that has to give back what it copied.

**KernelHeapManager.** Addresses are counted in units of the allocation header.
Slab descriptors, the doubly linked class lists and the free list of a slab are as
in the code; a large request is a run of slabs with a head and tails.

**PipeBuffer and Pipes.** A pipe has the ring (buffer, two offsets, count) and two
reference counts. The endpoint table is a bag of entries (owner, descriptor,
node); the code's array is searched by all three, so equal entries are
interchangeable. `Read` and `Write` are one call of `HandleReadSystemCall` and
`HandleWriteSystemCall` with their chunk loop, up to the point where it sleeps;
`ResumeRead` and `ResumeWrite` are the pass after a tick. `Moved`, auxiliary, is
what the last step carried between a program and the kernel.

**ExtendedFileSystem, VirtualFileSystem and FileSystem.** A disk is a record of
bitmaps, counters (in the group descriptors, in the superblock and in the
manager), inodes and directory blocks; a directory block is the sequence of its
records with their lengths, which are split, merged and marked unused as in the
code. An operation on it maps an outcome (disk, tree, result, failures so far) to
a *set* of outcomes, because each transfer may fail while `MaxFaults` lasts:
`Then` goes on after a success as the code does, `Otherwise` is what it does after
a failure. The tree is a record of dentries and inodes at addresses. `FileSystem`
has the variables `Tree`, `Disk` and `Cwd` and one action per call, which takes
one of its outcomes. `Departures` is a history variable: the reasons, each a line
of the code, for which tree and disk may differ from then on. Calls that only look
are operators, compared with each other by `LookupsAgree`.

**Sockets.** A socket is a record with the members of the C++ classes that the
calls read; `SocketList` is the manager's list. A file is the node its descriptor
refers to, `Dangling` once that node is deleted: what a process does with one is
undefined, and the model lets it only exit. A handler's work is a record `h` that
is passed through the functions it calls (`CloseDescriptor`, `CloseSocket`,
`RemoveEventQueue` ...). `Call[p]` is the poll or epoll_wait a process sleeps in;
`PollAgain` is the look after a tick, `Woken` the return for terminal input or a
signal. `Lost` and `Departures` are history variables. `socketpair` is left out:
its handler exists, but its case in `POSIX_SystemCalls.cpp` stands in a comment.

## 3. Runs

| Run | Instance | Shows |
|---|---|---|
| `ready_queue_list` | 4 tags, 2 ids | the list stays linked, `CurrentProcess` is null or the head, the walks touch only list members and end, and the list implements `Scheduler` |
| `lifecycle` | null process and 3 user slots; fork, also failing, vfork, execve, exit, wait4, sleep, terminal reads | one process is RUNNING and it is the one that executes; address spaces are neither leaked nor shared outside vfork; nobody is blocked without somebody to wake it |
| `signals` | 2 user slots; SIGKILL, SIGSTOP, SIGCONT and a SIGALRM with or without handler to others and oneself, sleep, pause, rt_sigsuspend, faults, failing forks | queue and status agree, wait-queue tags name blocked processes, rt_sigsuspend never waits over a deliverable signal |
| `waits` | 2 threads; futex with and without time-out, event reads, sleeps, signals with handlers and masks | no call leaves a tag or a flag behind, none is lost |
| `progress` | 2 user slots; fork, exit, sleeps, interval timers | every READY process gets the processor, every sleeper wakes |
| `memory` | 6 pages, 2 mapping slots, 5 pages of mapping area, 2 processes | every page has one owner, the counter is exact and no capacity is lost, mappings agree with page tables |
| `kernel_heap` | 5 slabs, 2 classes, runs of 2 slabs | allocations disjoint, lists exact, empty slabs returned |
| `pipes` | 2 processes with 2 descriptors, 4 table entries, a pipe of 2 bytes, chunks of 2 | counts are those of the table, an open descriptor's pipe exists, the ring is a FIFO queue, a hang-up reaches sleepers |
| `files` | RAM file system with 4 files; ext2 image of 8 inodes and 8 blocks in 2 groups, with a link, an indirect and a double indirect file; 3 calls, 1 failing transfer | the disk stays sound and its counters exact, directories are linked, the tree is a tree and shows the disk, all lookups agree, rename moves or keeps |
| `sockets` | 2 processes with 3 descriptors, 3 sockets, a buffer of 1 byte, 4 calls, poll of 2 descriptors | no pointer dangles, addresses are exclusive, poll agrees with read, write and accept, descriptors and watches are tracked, poll returns |
| `vfork_parent_killed` | violation of `Isolation` | see section 6 |
| `partial_munmap` | violation of `MappedIsNotFree` | see section 6 |

Every property of a passing run has a mutant in `PROJECT.json`: a definition of
the model changed the way a plausible error would change the code, under which
TLC finds the property violated.

**Bounds and why they suffice.**

- Three user slots (`MaxProcesses` 4, one is the null process) in `lifecycle` allow a parent, a
  child and a grandchild or bystander, and the reuse of a slot. Relations in the
  process table are pairwise (parent, vfork link, signal), so a fourth would add
  another bystander. Signals act between a sender and a target: two suffice.
- `MaxTicks` 1 or 2 is the longest sleep; 2 lets a sleep be interrupted in the
  middle and two sleeps expire together.
- `MaxInput` bounds unread terminal and event input. One or two units tell
  "nothing", "enough for one reader" and "left over" apart.
- Four tags give a list with a head, a tail and two tags between them; the proof
  removes this bound.
- Six pages are no power of two: the allocator starts with blocks of two orders
  and merging meets the end of the descriptor. Requests of 1, 3 and 4 pages
  include a rounded one. Two mapping slots are full quickly, and five pages of
  area have room for a mapping, a hole and another mapping.
- Five slabs hold lists of up to five members and two runs of two.
- A pipe of two bytes wraps, fills and empties in a few steps; a write or read of
  three is longer than a chunk, like one of more than 4096 bytes in the code,
  where capacity and chunk are equal as well. The table has one entry per
  descriptor of every process, as in the code; entries that exits leave behind
  fill it, and pipe, dup2 and fork then fail, fork half way through as well.
- In `files`, eight inodes and blocks in two groups make allocation move on to
  the second group; the count of block groups includes one past the end, as in
  the code. A directory block holds six records and the root's has room for one
  more, so that the second creation grows the directory. Three calls (`MaxCalls`)
  create, move and delete, and the initial states include a disk that is mounted
  and root already. One transfer may fail (`MaxFaults`), at every place.
- In `sockets`, the initial states include a client that waits and one that is
  accepted, so that four calls go deep on either side. Three sockets are a
  listener, a client and an accepted one, which fills the table; one byte of
  buffer is empty or full. Ports 1 and 2 are ephemeral and 1 can be bound.
- Address spaces are interchangeable (`SpaceSymmetry`); no run with a liveness
  property uses symmetry.

**Fairness.** `Kernel` assumes `WF(KernelStep)`, the kernel finishing what it has
begun (straight-line code with interrupts off), and `SF(TimerInterrupt)`: the
timer is periodic and its interrupt stays pending while IF is masked, so it is
taken although it is disabled again and again. Nothing is assumed about programs.
`ReadyQueueList` assumes that a loop goes on (`WF(Step)`). `Pipes` assumes
`WF(Resume(p))`: a sleep of a tick ends and round robin runs the process, which is
what `progress` shows of the kernel. `Sockets` assumes `WF(PollAgain(p))` for the
same reason. All other specifications have none.

## 4. What is proved

Every theorem has the form `Spec => []P` (or a refinement), holds for every value
of the constants under the `ASSUME`s of the modules, and follows from an inductive
invariant. The assumptions are that `NULL` and `INVALID` differ from the values
they stand beside, that sizes and bounds are (positive) numbers, that the classes
of the heap fit into a slab, that there are two processes at least, and that
SIGALRM is a signal where setitimer is a call.

**Ready queue** (`ReadyQueueListProofs`). `Invariance` proves
`Inv == TypeOK /\ Linked /\ NoLeak /\ CurrentIsHead /\ WalksStayInList`, and
`ListStaysWellFormed`, `CurrentNeverDangles` and `WalksAreSafe` the three
invariants of the run. None of the parts is inductive alone. Removing a node keeps
the links right only if `Previous` is the node's predecessor on the list
(`WalksStayInList`), which is kept only while the links spell the list (`Linked`)
without repetition; the new tag of `AddToReadyQueue` is not on the list because it
is not on the heap (`NoLeak`); and the rotation in `SelectNextProcess` never meets
a list of one tag because `CurrentProcess` is the head (`CurrentIsHead`).

`ListImplementsScheduler` says that, read as a sequence of
process ids, the list takes steps of `Scheduler`. Beyond `Inv` it needs
`FindsFirst`: the search has passed no tag of the process it is for. Then the tag
that is unlinked is the one the abstract operation removes. The iterations of the
two loops map to stutters.

**Processes and queues** (`KernelLemmas`, `KernelProofs`). `KernelInv` is
`Orderly(k)`, the conjunction of

- the types, and `QueueSound`: the ready queue holds the READY and RUNNING
  processes, each once;
- `RunningOnCpu`: only the executing process can be RUNNING, and
  `CurrentProcessId` names it or nobody. Without it `GetRunningProcess` could
  answer with a process that is not in the queue;
- `SleepersBlocked`: who has a sleep tag has one, and is BLOCKED. Otherwise a tick
  would add a process to the ready queue that is there already;
- `NullAlive`: the null process is runnable, so that `Schedule` always finds one;
- `Quiet`: a process in rt_sigsuspend has no signal it could be delivered, also
  after it was woken;
- `CpuInCall` and `LoopSound`: a process that was killed or stopped while it
  executed makes no call, and an interrupt's loop runs on nobody's stack.

`KernelLemmas` shows of each function of the logic layer what it changes and that
it preserves the first five (`Base`). Some are called in the middle of an
operation, where the new child is not in the queue yet or the process about to
block is in the sleep queue already; their lemmas are about `Unqueued`,
`BaseButQueue` and `BaseBut`. `KernelProofs` has a lemma per action. From the
invariant follow `TypeInvariant`, `ReadyQueueMatches` and `NoSignalMissed`.

**Sockets** (`SocketsProofs`). `SocketInv` has the types, `Peers` and `Exclusive`
(the properties `PeersAreConsistent` and `AddressesAreExclusive`, as formulas about
any sockets) and `Mutual`: a listener that is connected to a client in its own
queue waits in that client's queue. This case, two listeners that connect to each
other, is the one in which accept would leave a peer that does not point back.
The theorems are `PeersConsistent`, `AddressesExclusive` and `PollMatches`.

**Descriptors** (`SocketFilesProofs`). `FileInv` holds as long as no call has left
an owner behind (`Departures`, section 5): sockets are open exactly where they are
recorded, event queues where they were made, their watches are for the files at
their descriptors, and processes that do not exist have no files, which is what
makes fork's copy complete. The theorems are `SocketsTracked` and
`WatchesCurrent`.

**Kernel heap** (`KernelHeapProofs`). `HeapInv` says of slabs, list heads and
headers that they are `Good`, and of the small slabs that none is idle
(`NoneIdle`). `Good` consists of the types, of `Listed` (for every class some
sequence without repetition holds its slabs with free objects, and the links spell
it in both directions; other slabs have no links) and of `Accounted` (every object
of a small slab is free or has a header, a run has one head with a header and
tails that name it, and every header is of one of these). kmalloc and kfree pass
through states in which a slab is idle: a fresh one before its first object is
taken, an emptied one before it is released. The lemmas about their parts
are therefore about intermediate values, with `NoneIdleBut(S, i)` for that
slab. The theorems are `MemoryDisjoint`, `SlabsStayAccounted` and `ListsStayExact`,
the last by showing that the walk of the property, a recursive function, is the
sequence of `Listed` followed by invalid links.

**Pipes** (`PipesProofs`). `PipeInv` consists of

- `Counted`: each count of a pipe is the cardinality of the set of numbered copies
  of the entries for that end (`Entries`), a pipe exists while one count is not
  zero, and its ring is `RingOk`;
- `TableTracked`: what is at a descriptor has an entry under that descriptor;
- `CallSound`: a call that sleeps belongs to a process that exists, and its
  descriptor is still open for reading or writing. `PipeRead` keeps a pointer to
  the pipe while it sleeps; this is why the pipe is still there.

An entry more or less changes one count by one (`EntriesAdded`, `EntriesRemoved`),
so `DuplicatePipeDescriptor` and `ClosePipe` keep them equal (`ReferenceAdded`,
`ReferenceDropped`); dup2 and fork are sequences of these, fork by induction over
the files. Entries nobody will remove (section 5) do no harm to the invariant:
it says that every open file has an entry, not the converse.
`PipesAreChannels` says that `Pipes` implements `PipeChannel`. The ring's type is
not enough for it: `RingOk` adds that the write offset is the read offset plus the
number of unread bytes, modulo the capacity, an equation the code never states
because it keeps all three. From it, `PutBytesAppends` and `TakeBytesTakesOldest`
show what the two loops do to `Contents`; reads, writes and what they do before
and after a sleep are then `Receive`, `Send` or, of no bytes, `Nothing`.
The other theorems are `CountsTracked` and `FilesTracked`.

`SequenceLemmas` holds what all of them use about sequences: which elements
`RemoveAt`, `RemoveFirst`, `Tail`, a rotation or a compaction leave where.
Induction over numbers is used in the form `InductionOverNat`, about a set.

**Only model-checked.**

- Liveness (`ReadyGetsProcessor`, `SleeperWakes`, `HangUpReachesSleepers`,
  `PollReturns`, the end of the ready queue's walks): under fairness, out of the prover's
  reach.
- Of `Kernel`: `OneRunning`, `AddressSpacesOwned`, `Isolation`,
  `BlockedIsWakeable`, `WaitersBlocked`, `NoStaleWaiters`, `NoSpuriousInterrupt`.
  They do not hold of every set of calls. A process that kills or stops itself is
  not RUNNING while it executes; a killed futex waiter leaves its tag; a killed
  vfork parent takes its child's address space along. Each run has calls for
  which they hold; a theorem needs a hypothesis on the programs that says which.
- `MemoryMappings`, and `FileSystem`, where TLC goes through every failing transfer.

## 5. Simplifications

*Everywhere.* An error path that returns before it changes anything is not an
action. Checks for managers that do not exist are left out: they are created at
boot. Logging is left out.

*Kernel.* `kill(0)`, `kill(-pgid)` and process groups are not modelled; `kill(-1)`
and `FUTEX_WAKE n` are sequences of single steps. `sigaction` masks are empty.
The loading of a program is its effect on the address space. Tags can be allocated
(their failure is in `ReadyQueueList`). Terminal reads are those of the blocking
canonical mode; the events of a mouse packet are one. The code after the switch
in `RunProcess` finds what `OneRunning` states. No run combines execve with
handlers. Behaviour that is in the model and asserted by no property: a process
that stops or kills itself executes on until it faults or is preempted; a tick
wakes one of several sleepers that expire together; a vfork child that dies from
a signal leaves its parent blocked; a second exit before wait4 hides the first; a
killed futex waiter leaves its tag to whoever reuses its slot (no run kills one).

*Memory.* Address hints, `mprotect` and device mappings are left out, and
`MAP_FIXED` is used over mapped pages. Of the buffers of an address space only the
heap is modelled. Page-table pages are not counted as memory, but may be missing.
The second process of the instance only exits. In `memory` the programs cut
mappings where the parts are blocks of the allocator (`PartialUnmap` FALSE);
`partial_munmap` shows what happens elsewhere. Entries a failed mmap leaves in the
page table are in the model.

*Kernel heap.* An operation is atomic, since interrupts are off. A pointer without
the magic is ignored by `kfree` and is not an action.

*Pipes.* `O_NONBLOCK` is chosen per call and `FD_CLOEXEC` at execve. `poll` reads
only. Failing allocations undo themselves and are left out. Exit and execve delete
files without telling the pipe, as in the code: entries stay, so the counts of a
pipe are an upper bound of its open descriptors, and `HangUpReachesSleepers` is
about the hang-ups the counts show.

*File system.* A transfer writes a whole bitmap, descriptor, inode or block or
nothing; a failing read has the outcome of the write that would follow it failing.
The mount reads without failures, and there is one ext2 disk. File data, times and
permissions are left out, and so is what becomes of files deleted while open.
Paths are sequences of names; those the programs use (`Paths`, `CreatePaths`)
include links, `..` and relative ones. Deleting a directory leaves
`CurrentFileSystemLocation` pointing at the freed dentry; `Cwd` is 0 then, and the
process uses absolute paths only until it changes directory, since what the code
reads through the pointer is undefined. A directory's descriptor is used while the
directory exists. readlink is left out: a path of the form `/proc/self/fd/N`,
`/proc/thread-self/fd/N` or `/proc/<own pid>/fd/N` of an open descriptor it answers
from the descriptor table, whatever the tree has under that name, and there are no
descriptors here; so are the forms of newfstatat, utimensat and futimesat that name
a descriptor and no path. proc and sysfs make two files each; the
code makes a fixed longer list by the same three functions. In the model and
asserted by no property: what a creation that fails half way allocated is lost;
rename loses the destination when it fails after deleting it; a second name is in
memory only; a path with `..` below a missing directory makes a dentry of that
name on the RAM file system.

*Sockets.* The addresses of deleted sockets are interchangeable: a new one takes
the lowest free number. Received bytes are counted, not told apart. execve closes
one marked descriptor per step. A poll that returns at once and changes nothing is
no step. Datagrams are created, bound and closed, as far as the code goes. In the
model and asserted by no property: fork, exit and execve leave sockets, queues and
watches behind (`Departures`); accept without room for a socket loses its client
(`Lost`); an unlimited poll that wants terminal input does not look at its sockets
again.

## 6. Disagreements between the code and what the repository says of it

- `vfork_parent_killed`: README.md promises "isolation via virtual address space".
  `KillProcess` of a process whose vfork child still runs deletes the address
  space that both use; a new process gets the object while the child is in it.
- `partial_munmap`: the comment on `FreePagesFromDescriptor` describes its
  argument as the "Number of pages to free". It rounds the number up; `munmap` of
  three of four pages frees the fourth, which stays mapped.

## 7. Plan

Done in this order: ready queue and its proof; process life cycle, signals and
waits; memory; kernel heap; pipes; file system; sockets, event queues and poll.

What a further extension would add, most important first:

1. `Terminal`: the line discipline, with bytes in order as a refinement; the
   reader that leaves half a line.
2. Open files: `File` objects, lazily loaded data and their reference counts, over
   `VirtualFileSystem`.
3. `PageTables`: the four-level walk, `CopyPageMapL4` and freeing, as a refinement
   of the presence sets of `MemoryMappings`.
4. A model of signal frames: nested handlers and the masks they restore.
5. Pure algorithms against reference definitions: partition tables, the cpio
   archive, ELF segments, scan codes, mouse packets.

Next theorems: the remaining invariants of `Kernel` for programs that send no
signal which stops or kills; the free lists of the buddy allocator.

**Not modelled.** The boot loader and the kernel's boot run once and before any
process. Frame buffer, console drawing, `printf` and the font are output without
state that others read. The IDE and PCI drivers are device registers; a transfer
that fails is in `ExtendedFileSystem`. The parsers of item 5 read one input once.
Identity, time and information calls (`getpid`, `uname`, `clock_gettime` ...)
change nothing that the modelled parts read.
