# CppOs: a TLA+ model of the kernel

The repository is a teaching operating system for 32-bit x86 in thirteen
stages (`01_bootloader` … `13_disk_driver`). Each stage repeats and extends
the one before it; the last, `src/13_disk_driver`, is the whole system, and
most modules model it. Where an earlier stage does something another way (the
cooperative scheduler of 08, the page tables of 07, the processes and calls of
11 and 12, the interrupt set-up of 03, 04, 09, 10 and 11) it has a module or a
case of its own. Paths below are relative to `13_disk_driver` unless they
start with a stage number.

## 1. Inventory

| Component | Code | State | Operations | Talks to |
|---|---|---|---|---|
| Scheduler | `process.c`, `timer_handler` in `kernel.c` | `current_process`, `process_table`, `ready_queue` (linked by `next`), per PCB `state`, `ticks_remaining`, `context` | create, block, unblock, schedule, schedule_from_interrupt, timer tick | every call below; IRQ 0 |
| Process tree | `syscall.c` (fork, exit, wait), `process_reparent_children`, `cmd_fork`/`cmd_ipc_test` in `shell.c` | `parent`, `first_child`, `next_sibling`, `exit_status` | fork, exit, wait, late linking by the shell | scheduler, heap |
| Messages | `ipc.c` | `msg_queue` of each PCB, `waiting_for_sender` | send, recv, recv_nonblock, call, reply | scheduler, heap |
| Syscall gate | `syscall.c`, `idt.c`, `idt_asm.asm` | the interrupt frame | dispatch on eax, reschedule check at the end | all of the above |
| Heap | `allocator.c` | block list with sizes, free marks, used_memory | kmalloc, kfree | PCBs, messages, FAT and directory caches |
| Keyboard | `keyboard.c` | 256-byte ring, read/write positions, count, shift, caps lock | IRQ 1 handler, getchar, getline | shell |
| Disk driver | `disk.c` | detected disks | detect, read/write sectors by programmed I/O with bounded polling | device registers |
| File system | `filesystem.c` | superblock, FAT and directory caches, descriptor table | format, mount, create, open, close, read, write, delete, sync | disk, heap |
| Physical pages, address spaces | `paging.c` | page bitmap, first free hint | alloc, free, create/destroy/switch a space | heap |
| Interrupt plumbing | `idt.c`, `pic.c`, `tss.c`, `usermode.c`, `*.asm` | IDT, handler table, PIC masks, TSS | register, dispatch, EOI, mode switch | scheduler, keyboard |
| Shell | `shell.c` | command buffer | one command per line | files, processes, messages |
| Cooperative scheduler | `08_process/process.c`, `context.asm`, `kernel.c` | table of slots with PIDs, doubly linked ready queue, stacks from the heap | create, exit, schedule, context switch | heap of stage 08 |
| Page tables | `07_paging/paging.c` | directory and tables in heap memory, CR3, the CPU's TLB | init, map, unmap, translate, allocate and map | heap of stage 07 |
| Processes and calls of 11 and 12 | `11_syscall/process.c`, `syscall.c`, `12_paging_process/process.c` | singly linked ready queue, child lists, PCBs from the heap, address spaces in 12 | fork, exec, exit, wait, timer tick | heap, timer |
| Interrupt set-up of 03, 04, 09, 10 | `idt.c`, `isr.c`, `pic.c`, `kernel.c` of each, `09_usermode/usermode.c` | as above | boot, serve, acknowledge | devices |

What is hard in it:

* **Interrupts against calls.** Calls run with interrupts on (`idt.c` installs
  a trap gate), so a tick can fall between any two calls of a process and into
  the middle of each: between what it has seen of other processes and what it
  does to them. The shell builds process-tree links after the child has become
  runnable.
* **A time slice counter that wraps.** `ticks_remaining` is unsigned and only
  an exact zero after a decrement reschedules. `schedule()` sets it to zero,
  which makes the next tick wrap it.
* **Contexts that are saved on some paths only.** A process leaves the CPU
  by preemption (saved), by a blocked wait (saved, with a changed eax) or by a
  blocked receive or exit (not saved).
* **Blocked processes that still run.** `process_block` marks; the switch comes
  later or, with an empty ready queue, never.
* **One wake-up flag for two waits.** `PROCESS_BLOCKED` stands for waiting for
  a child and waiting for a message.
* **Ownership of memory.** PCBs are freed by the parent, messages by the
  receiver, and either may be gone first.
* **A ring buffer shared with an interrupt handler**, without masking.
* **Polling with a limit.** The disk driver gives up on a drive that may go on,
  and does not look at what its last wait returned.
* **An interrupt controller that is told "end" without being told of what**, and
  boot code that must get four tables right before it opens the lines.
* **Page tables that are reached through the translation they define**, in
  memory from an allocator that may have none.
* **A file system with write-through of some structures only**, cached
  descriptors, and unchecked disk results.

Properties that make the parts correct: the ready queue is the set of ready
processes; the tree's links agree and no zombie is forgotten; nobody who waits
is left waiting for something that has happened; nothing is freed twice; a
ready process runs in the end; what is typed is read once and in order; heap
blocks tile the heap and belong to one client; files share no cluster and each
byte is where a reader looks for it, also after the power has failed; no
command leaves a file open; a read from the disk stores what was asked for and
what was flushed stays; a page has one holder and an address space one owner;
the CPU translates as it was told; an interrupt finds its handler, is
acknowledged once and does not nest.

## 2. Modules

| Module | Models | Correspondence |
|---|---|---|
| `Process` | scheduler of `process.c`, `timer_handler` | Operators with the names of the C functions on one record `s` (cur, state, ready, ticks, ctx). No variables: `Kernel` applies them in the order in which the handlers call the functions. |
| `Kernel` | `process.c` + `ipc.c` + process calls of `syscall.c` + the shell commands that create processes | `sched` is the scheduler record; `parent`, `kids` the tree; `msgq`, `waiting` the messages; `heap` counts kmalloc blocks; `linking` is the child between `process_create_kernel` and the parent link. A call is one action, or, where it looks at another process and acts on what it saw, one for the look and one for the act: `at` is the place a process has reached in its call, `peer` the PID that call has chosen. `Timer` is IRQ 0. `raced` records lost wake-ups, `broken` that a call acted on what was no longer so. |
| `Lifecycle` | what the process layer promises about one PID | Abstract: free, alive, zombie, free again; who reaps, who inherits, and that a process hands its children over before it dies. `Kernel` implements it (`ImplementsLifecycle`). |
| `Keyboard` | `keyboard.c` and the line reader of `shell.c` | `keyboard_irq_handler` is one step, the shell one step per memory access of `keyboard_init` and `keyboard_getchar` (`buffer_count--` is `Load` and `Store`), so that IRQ 1 falls between any two. `unread` and `raced` record history. |
| `KeyFifo` | what the ring buffer promises | Abstract bounded FIFO. `Keyboard` implements it until a character falls between two accesses that belong together (`ImplementsFifo`). |
| `Allocator` | `allocator.c` | Memory in words; `mem` has the header stored at an address, `next` and `prev` are addresses; `kmalloc` first-fits and splits, `kfree` merges both ways. `owned` is what clients hold. |
| `FileSystem` | `filesystem.c` | superblock, FAT, directory and descriptors as in memory, `disk` as written; an operation computes the new memory and the sequence of `disk_write_sectors` it issues, and the power may fail after any prefix of them (`Finish`). `data` says for which file and offset each byte was written. |
| `MCFileSystem` | | `FileSystem` with interchangeable names. |
| `Shell` | the file commands of `shell.c`, and SYS_EXEC's reading of the program | Extends `FileSystem`: each command is a sequence of its calls, with `pc` between them. Implements `FileSystem` under the rules that module assumes of programs (`KeepsTheRules`, proved). A line fits in a cluster, as `SHELL_BUFFER_SIZE` does in `FS_CLUSTER_SIZE`. |
| `PhysicalPages` | page bitmap of `paging.c` | `held` is what callers hold. |
| `Paging`, `MCPaging` | `07_paging/paging.c`; from stage 12 on, on top of `PhysicalPages`, the address spaces of `paging.c` and the memory of the processes of `12_paging_process/process.c` | Stage 07: `mem[f][i]` is entry i of frame f, `tlb` the cached translations, `asked` what callers asked for. `At` is the address translation that each access of the code itself goes through. Stage 12: `blocks` of the heap and their `owners`. |
| `Disk` | `disk.c` | One step per status read and per sector; `drive` is the device with its command, `media` and `cache` hold for each sector where it was meant to go. `NextCommand` is the end of the driver's loop. A drive may fail its identification. |
| `CoopScheduler` | `08_process` | The record `k` is `process_table` with links, queue head, counters; one action for creating, starting, yielding, terminating. |
| `ForkScheduler` | stages 11 and 12 | The record `sys` holds the blocks PCBs are in, with their links; `at` says whether the process is inside `sys_wait` between search and block, or inside `sys_exit` between the zombie mark and the look at its parent (`ExitMark`, `ExitWake`). `unlink` differs between the stages. |
| `Interrupts` | `idt.c`, `pic.c`, `isr.c`, `usermode.c` of six stages | The record `m` is the IDT, handler table, PIC registers, interrupt flag and the stack of interrupted code; `boot` is the list of calls `kernel_main` has yet to make. |
| `Kernel_proof`, `Keyboard_proof`, `Allocator_proof`, `FileSystem_proof`, `Shell_proof`, `Paging_proof` | theorems about the module each is named after and those it is made of | section 4 |
| `Schedulers_proof`, `Devices_proof` | theorems about `CoopScheduler` and `ForkScheduler`, and about `Disk` and `Interrupts` | section 4 |

### What a step is

In `Kernel` a timer interrupt is a step, and so is what a call does between two
places where a tick would make a difference, that is, where it acts on what it
has seen of other processes. These are the places (`at`):

| Between | and | `at` |
|---|---|---|
| fork, or the shell, chooses a PID (`syscall.c:398`, `process.c:105`) | the child is registered | `create` |
| wait has found no zombie (`syscall.c:265`) | saves the context it will resume with (`:595`) | `search` |
| that context is saved | `process_block` (`:602`) | `block` |
| a send has seen a receiver that waits for it (`ipc.c:85`) | `process_unblock` (`:90`) | `wake` |
| a send has seen one that does not | queues the message (`:107`) | `send` |
| a receive has found no message (`ipc.c:117`) | `process_block` (`:134`) | `recv` |
| exit has handed its zombies to an init that is blocked (`process.c:349`) | `process_unblock` of init | `adopt` |
| exit has handed over its children | the zombie mark (`syscall.c:42`) | `mark` |
| the mark | the look at the parent (`:45`) | `exit` |

Some of what a tick does there is harmless, and some loses a wake-up, which
`raced` records. And some leads to damage, when the call goes on with what is
no longer so (`Outdated`): a receiver is woken that is ready already, so that it
is queued twice, or one that has exited, or whose PCB is freed; a message
is queued on a freed PCB; a PID is given to a second process. The step `Break`
sets `broken` there and the model ends: what follows depends on memory
contents. Every property of `Kernel` says "until then"; `kernel_wake` shows the way
there. In the run of three processes the variant of `Break` in `adopt` does not
occur, as it takes a fourth process; the theorems cover it.

What remains one step: a walk along a list of pointers (`process_unblock` and
`process_create_kernel` look for the tail of the ready queue, `shell.c:542` and
`:543` link a child, `sys_wait` walks its children), the loop of
`process_reparent_children`, which in the model wakes init after the last child
has been handed over, and the block, second look and return of `ipc_recv`.

A PCB is named by its PID, since the model ends where two would have the same.
The fields of a freed PCB have a fixed value, since only a new process with the
same PID reads them, after assigning them. Saved registers are reduced to whether they are those of the place where the process
stopped (`ctx`); stacks are not modelled, although `SYS_FORK` makes parent and
child return on the same one. A process that left the CPU without being saved
resumes from a stale context, somewhere in its program, and the rest of
its call is not done (`Leave` in `Timer`; for the shell also the pending link);
the place it really resumes at depends on stack contents.

The vector 0x80 is assumed to be registered, as `11_syscall/kernel.c:390` and
`12_paging_process/kernel.c:171` do; `kernel_main` of stage 13 never calls
`syscall_init`, so the calls of this stage are reachable only directly
(`Interrupts` has it as it is; `Kernel` and the exec command of `Shell` as intended).

In `Keyboard` the accesses are those of the unoptimised build the Makefile
makes. In `FileSystem` a call is one step, and the heap blocks of the two
caches are always there; `disk_write_sectors` writes what it is given, and what
it does inside is `Disk`.

In `ForkScheduler` a tick may fall into user code, into the halt loop of
`sys_exit`, between the search and the block of `sys_wait`, and between the zombie
mark and the look at the parent in `sys_exit`. From the look on, `sys_exit` is one step:
it has just set `ticks_remaining` to 0 (`11_syscall/syscall.c:25`), so that a tick wraps
the counter, which `schedule()` clears again, and takes the CPU from nobody.
List walks are one step, as in `Kernel`. `Interrupts` takes each
thing a handler does as a step and lets lines be raised between any two.

The drive of `Disk`, the PICs and the CPU of `Interrupts` and the translation of
`Paging` are not in the repository. They are modelled from how the code uses
them, and with the freedom real ones have: a drive may ignore a command that
comes while it still asks for data, or start afresh; it may refuse or be late at
any time; RAM may hold entries that look present. The disk's line (IRQ 14) is
masked in every stage, so that no behaviour has an acknowledgement to the
second PIC.

### Assumptions on callers

| Constant | Value in passing runs | Why it is needed |
|---|---|---|
| `SelfSend` | no program sends a message to its own PID | the shell commands `ipc_recv` and `ipc_send` to itself put the running process on the ready queue (section 5) |
| `Overlap` | nobody opens for writing, or deletes, a file somebody has open, and nobody opens one that is being written | two files come to share a cluster (section 5). The shell keeps to it: `ShellKeepsRules` |
| `LongModes` | nobody opens a file of more than one cluster for writing or appending | the rest of the chain is lost (section 5). The shell keeps to it: `ShellKeepsRules` |
| `Cuts` | in `file_system` the power may fail in create, write, close and sync, not in delete or format | section 5 for both. In `shell` it may fail in delete too |
| `ExitSelf` | no process of stage 08 terminates itself | `remove_from_ready_queue` takes a process without predecessor for the head and empties the queue (section 5) |

The theorems have these as hypotheses: `SelfSend = FALSE` in `Kernel_proof`,
`ExitSelf = FALSE` in those of `Schedulers_proof` about stage 08, and in `FileSystem_proof`
`KeepsRules`, which is the three lines about files.

Clients of `Allocator` and `PhysicalPages` free what they hold, once. Callers of
stage 07 do not map or unmap the pages of the heap itself. Nobody of stage 12
destroys the process that runs.

## 3. Runs

| Run | Bounds | Shows |
|---|---|---|
| `kernel` | 3 PIDs, 4 heap blocks, slice 1, counter 0..1, 2 processes inside a call at once, receives wait for PID 2 | Six invariants over every interleaving of calls and ticks (2.1 million states), and refinement of `Lifecycle`. Three PIDs are the smallest tree with a grandchild to reparent; four blocks are three PCBs and a message, or fewer PCBs and a queue of messages; a two-valued counter wraps at once. |
| `kernel_live` | 2 PIDs, 3 heap blocks, slice 2, counter 0..3, 2 inside, receives for anyone or PID 2 | A ready process runs in the end. |
| `kernel_wake` | 3 PIDs, 3 heap blocks, slice 1, counter 0..1, 2 inside, receives for anyone | Ends with a trace: a send wakes a process that does not wait. `findings` in `PROJECT.json`. |
| `keyboard` | ring of 2, line of 3 | A slot is never taken before it is filled nor twice, in every interleaving; until a character falls in a window the ring is a FIFO and everything typed is read. A ring of two fills, drops and wraps at different times on both sides. |
| `allocator` | 16 words, header 2, requests up to 5 | The list tiles the heap, no two free neighbours, `used_memory` exact, clients' blocks apart and big enough. Four blocks with free, used and too small rests. |
| `file_system` | 2 names (symmetric), 2 entries, 2 descriptors, 3 data clusters of 2 bytes, files of up to 5 bytes, 1 power failure | Chains disjoint and long enough, bytes in place, descriptors in step, also after a failure between any two disk writes and what is done then; without a failure no cluster is lost and the counter follows (0.5 million states). A file of 5 bytes fills the disk, so that writes run out of clusters. |
| `shell` | 2 names, 2 entries, 2 descriptors, 2 data clusters of 3 bytes, lines of 3, reads of 2, 1 failure | No command leaves a descriptor open, and every behaviour of the shell is one of `FileSystem` with `Overlap = FALSE` and `LongModes = {}`. Lines as long as a cluster, reads shorter than one, and a disk for two such files: `cat` loops and writes find the disk full. |
| `paging` | 10 pages; tables of 10 entries, pages of 4 units, heap of 34 units; 4 virtual pages, 2 frames; 10 heap blocks | Stage 07: the CPU finds every page where it was asked to be, whatever it has cached and memory held before, tables stay in their blocks. The heap has room for directory, first table and two to three more pieces, so that `alloc_page_at` and tables at different alignments occur, and starvation. Stage 12: no page has two holders, the hint never passes a free page, no heap block of a space or process is lost or shared when creations fail at any allocation. |
| `disk` | 2 positions, the second with a drive, 2 sectors, count register of 3 values, requests of up to 3, 2 polls | Successful reads are right, flushed writes stay, also when later commands time out or are ignored, calls end (0.7 million states). A request of 3 stands for those of 256 and more, which make no progress; addresses reach beyond the drive and beyond the driver's limit. |
| `coop_scheduler` | 4 slots, 3 stacks, 8 PIDs | List, table and stacks agree, everyone runs. Three processes are the shortest list with a middle; the fourth creation finds no stack. |
| `fork_scheduler` | 4 PCBs, 3 PIDs, slice 1, counter 0..1, both stages | Queue and child lists exact although PCBs are freed with pointers to them left and fork repeats PIDs; a zombie is overlooked only through the windows in `sys_wait` and `sys_exit` (1.9 million states). |
| `interrupts` | stages 3, 4, 9, 10, 11, 13; 4 IRQ lines | Handlers found, services acknowledged once and not nested, requests served. |

Two processes inside a call at once (`Inside`) are what every race between a look
and an act needs: one that has looked and is preempted, one that changes what
it saw. `Froms` bounds whom a receive names. Receiving from one sender leaves
messages of others queued and makes a waiting receiver pick who wakes it; a
process in wait takes the other side of it, as any sender wakes it
(`waiting_for_sender` is 0). The theorems hold for every `Inside` and `Froms`.

**Fairness.** In `Kernel` only `Timer`, weakly fair: the PIT keeps interrupting
and interrupts are never disabled outside handlers. Programs need not do
anything. `ReadyRuns` assumes that the slice counter is in the end left to the
timer (`SliceLeftToTimer`): exec restarts the slice and a direct `ipc_recv`
zeroes the counter, and a program that repeats either for ever does keep the
CPU. In `Keyboard` the shell gets the CPU, and other interrupts (the timer)
end its `hlt`; keys need not come. The second is essential: a key that comes
between the test of `buffer_count` and `hlt` does not wake the shell, the next
tick does. In `Disk` the CPU runs the driver; the drive need not do anything.
In `CoopScheduler` `kernel_main` goes on and each process calls
`process_schedule` again, as the loops of `process_a`, `process_b` and
`process_c` do. In `Interrupts` the CPU executes kernel code, and delivery of a
line is strongly fair: the CPU looks for interrupts between instructions, so a
line that is offered again and again is taken; a key is served only if ticks
leave the PIC a moment. Devices and programs need not do anything.

## 4. Proofs

All theorems hold for every value of the constants under the assumptions the
modules name and, where a theorem says so, the rules on callers of section 2.
Each module proves that its invariant holds initially and that each action
preserves it; the theorems about single properties follow from the invariant.
What a recursive function computes is not proved by induction but by the least
argument for which it would fail (`LeastNat`, from the well-foundedness of `<`).

| Module | Hypotheses | Inductive invariant | Theorems |
|---|---|---|---|
| `Kernel_proof` | `SelfSend = FALSE` | `KernelInv`, `TreeInv`, `CallInv`, `SleepersInv`, `HeapInv` | `Consistent`, `ReadyQueueExact`, `OneRunning`, `TreeAgrees`, `ZombiesHaveReaper`, `WaitersWoken`, `RefinesLifecycle`, `BlocksCovered` |
| `Keyboard_proof` | | `KeyboardInv`, `RingInv` | `NeverReadsAhead`, `RefinesFifo` |
| `Allocator_proof` | for `ClientsApart`: no request among those whose rounded size wraps | `HeapInv` | `HeapHolds`, `HeapTiled`, `HeapCoalesced`, `UsedMemoryExact`, `ClientsApart` |
| `FileSystem_proof` | `KeepsRules` | `FilesInv` | `FilesHold`, `TypesHold`, `ChainsAreSound`, `BytesStayInPlace`, `CursorStaysOnChain`, `ClustersAreKept`, `CounterIsRight` |
| `Shell_proof` | for `ShellKeepsFiles`: `SafeCuts` | `ShellInv` | `ShellHolds`, `NothingIsLeftOpen`, `ShellKeepsRules`, `ShellKeepsFiles` |
| `Paging_proof` | | `MemoryInv` | `MemoryHolds`, `TranslationFollows`, `TablesFit`, `SpacesOwnTheirBlocks`, `PagesNotShared`, `HintNeverSkips` |
| `Devices_proof` | | `DiskInv` | `DiskHolds`, `ReadsAreRight`, `AcknowledgedStays` |
| | | `IrqInv` | `InterruptsHold`, `InterruptTypes`, `IrqsAreHandled`, `ServicesDoNotNest` |
| `Schedulers_proof` | for the theorems about `CoopScheduler`: `ExitSelf = FALSE` | `CoopInv` | `CoopHolds`, `CoopTypes`, `QueueStaysList`, `SlotsStayExact` |
| | none for those about `ForkScheduler` | `ForkInv` | `ForkHolds`, `ForkTypes`, `ForkQueueIsReadySet`, `ForkChildrenListed`, `ForkWakeLostOnlyInWindow` |

**Kernel.** `SchedInv` (module `Process`): types; the ready queue has no
duplicates; it holds exactly the ready processes; only the current process is
running; the current process is neither ready nor free; PID 1 is neither free
nor a zombie. None of the first four is inductive without the last two: if the
current process could be ready, `Requeue` and `process_unblock` would queue it
twice, and if PID 1 could exit there would be nobody to take orphans.
`KernelInv` adds the types of the tables and `ShellIsRoot`: nobody is its own
parent and PID 1 is nobody's child. This is what makes every wake-up (by exit,
by adoption, by a send) a wake-up of a process other than the running one. Each
scheduler operation preserves `SchedInv`, and each action is a composition of
them.

`TreeInv`: child lists and parent fields agree (`ListsMatchParents`), parents are
alive (`ParentsAlive`), and the child the shell has yet to link has no parent and so
cannot be reaped meanwhile (`LinkingIsOrphan`).

`CallInv` says what a process inside a call can rely on although others run
meanwhile (`PlaceOK`): the receiver a send has in hand exists as long as `peer` names
it, and is not the sender; a process that has handed over its children in exit
has got no new ones; only the current process is between mark and look, and
a zombie is nowhere else in a call. So the invariants survive the second half
of each call whatever came between, or the step is one of `Break`. The context
of the running process is not that of a sleeper in wait (`Fresh`) unless it is about
to block there; otherwise one that blocks for a message would be taken for one that
sleeps in wait.

`SleepersInv`: who sleeps in wait beside a zombie child is about to be woken, by a
child between mark and look or by an exit that wakes init, or lost a wake-up
to a tick (`raced`). A process enters that sleep from the search, which found no
zombie, and a child that becomes one between search and block makes it `raced`.
The steps that leave tree, states and contexts of sleepers alone have one
lemma in common; the others, which exit, adopt, reap, wake or put to sleep, have
theirs.

On these rests `RefinesLifecycle`: each step is one birth, adoption, handing over,
death or reaping of `Lifecycle`, or leaves all lives as they were, until `broken`.
That an exited process never runs again holds because `process_unblock` is
reached with a blocked process or `Break` is taken instead.

`HeapInv` (of `Kernel`): the blocks that every PCB and queued message needs are
no more than kmalloc has given out. The sum over all processes is a recursive
function; the proof compares its values before and after a step process by
process.

**Keyboard.** Types and `CountWithinUnread` are inductive together. The store of
`reg - 1` stays in range because `reg` is at most the count, which only grows
between load and store; the read position moves over a filled slot because the
count was positive when it was tested. `RingInv` relates the two positions until
a character falls into a window, and with it each access maps to a step of
`KeyFifo` or to none.

**Allocator.** `HeapInv`: the list of blocks is a chain from the start of the
heap to its end in which each block begins where the one before ends (`Chain`), no
two neighbours are free, `used_memory` is the number of bytes in used blocks, and
each used block has one holder. The chain is stated of the set of blocks that
`kmalloc`'s search visits, and splitting and merging add or take one block of it.
`ClientsApart` adds `Roomy` and assumes `MaxRequest + Align <= WordMod`: the
largest requests round up to 0 (section 5).

**FileSystem.** `KeepsRules` is `~ Overlap`, `LongModes = {}` and `SafeCuts` (the
power fails in none of format and delete). `FilesInv`: what is on the disk is
what is in memory; and there is a sequence of clusters for each directory slot
such that the FAT links each (`Linked`), they are disjoint (`Apart`), long enough
for what has been written, with each byte at the place its offset says; a
file has one writer (`OneWriter`), whose descriptor may be ahead of the directory
entry (`Behind`) until it is closed (`Settled`). Without a power failure the
sequences are no longer than needed and cover all allocated clusters (`Clean`).
`fs_write` and `fs_read` are loops: a round preserves the relation between
cursor and sequence, and it holds after all of them because there is no least
round after which it does not. After a failure the proof takes the sequences as
the surviving prefix of disk writes leaves them (`FilesOnDisk`), forgets the
descriptors and is back at `FilesInv` without `Clean`.

**Shell.** The rules above are assumed of programs; that the shell keeps to them
is a theorem, wherever the power fails. `ShellInv` says nothing of clusters, since
after a failure in delete chains may be anything: no entry is longer than a
cluster, the descriptor in use is that of the command under way and no other,
and the writes a command has yet to make fit in the cluster. So
every call it makes is one that `FileSystem` allows with `Overlap = FALSE` and
`LongModes = {}` (`ShellKeepsRules`), and with the theorems about `FileSystem`
follows `ShellKeepsFiles`, without an assumption on calls.

**Paging.** `TablesInv`: directory and tables are distinct frames that lie whole
in the part of the heap already given out, the walk through them gives for each
page what was asked (`Shape`), the heap itself is mapped where its addresses
say, so that the code reaches the tables it changes (`HeapInPlace`), and what the
CPU has cached is what was asked; all of it as long as no table was starved.
`PagesInv` is `MarkedIsHeld` and `HintSound`; `SpacesInv` is `BlocksHaveOneOwner`
with types.

**Disk.** `DiskInv` relates the driver's place in its loop to the drive: unless
a command was ignored (`crossed`), the drive is at sector `s` of the request
(`InStep`), what was read so far is right (`ReadInv`), what was written so far is
in the cache, or after the flush on the medium (`WrittenInv`). `AckedInv`: a sector
that was acknowledged has nothing waiting in the cache and is out of reach of
any write in progress. That includes one the driver has given up on, which
the drive may go on with while the driver has issued the next command: its sectors
lost their acknowledgement when it was called for, and none of them gets it
back before the drive has become idle, since a flush must come first. So
`AckedStays` holds after time-outs and ignored commands as well.

**CoopScheduler.** `CoopInv`: some sequence of slots is the list, forwards and
backwards; it holds the ready processes, and PIDs, stacks, frames and counters
agree. Each operation on the links is an operation on that sequence.

**ForkScheduler.** Freed PCBs keep their links and their parent pointer, and
pointers to them stay behind, so that none of the three invariants is inductive.
`ForkInv` says which pointers are never followed, or do no harm when they are.
There is a sequence `q` which the next links run through from `ready_queue` and which
holds the ready processes (`Queued`), and a sequence `K[p]` for each process that
is its sibling list and holds the children that are not orphans (`Family`). The current
process is taken, not ready, and nobody else runs; the window of `sys_wait` is
not entered by a zombie (`Turns`). A freed PCB is marked ready or zombie, never
blocked (`Freed`): that is why `sys_exit`, which looks through a parent pointer that
may be stale, wakes nobody but a process that lives. Who is in `sys_wait` past the search, or
sleeps there, has no zombie child unless the exit fell into the window (`Waits`).
These together are `Good`. Between the zombie mark and the look at the parent they
do not all hold: a state there is one that satisfies `Good` but for the mark
(`Leaving`). A tick there either changes the counter only, or hands the CPU
over for good with the parent noted as one whose wake-up was lost, which is
`Good` again; otherwise the rest of `sys_exit` completes the step.
Enqueue, dequeue and unlink are `Append`, `Tail` and removal on those sequences; the
recursions of `Follow` and `kernel_main` are covered by the least argument, as above.

**Interrupts.** The properties hold at every moment of booting, so that `IrqInv` has
to say how far it has come: `Booted` says that `boot` is what is left of `kernel_main`
after some `n` calls, and what these have set up: a line that is open has its
handler registered, `sti` comes after both tables are filled, `idt_init` before any
handler is registered, since it forgets them. `Nested` gives the shapes the stack of
interrupted code can have, with the lines in service for each: at most one
system call, above it or above nothing one IRQ handler, with interrupts off; a
fault on its own. `Stacked`: whoever runs in ring 3 or returns there has a TSS. Each
call of `kernel_main` has a lemma that it leaves `Booted` true (`Prepared`), from the
order of the calls in the six programs (`Order`). `OfferedIsServed` then shows that
a line the PICs offer while interrupts are on finds gate and handler.

### Only model-checked

* Liveness (`ReadyRuns`, `AllTypedIsRead`, `EveryoneRuns`, `CallsEnd`, `ServedInTheEnd`): the prover has no
  rule for fairness.
* What happens outside the rules (`Overlap`, `LongModes`, power failures in format
  and delete, `SelfSend`, `ExitSelf`): the properties do not hold there (section 5).

## 5. Where code and comments part

The entry of `findings` in `PROJECT.json` is a run that TLC ends with a trace.
These were met as well. The first group TLC shows when the assumption that
keeps it out of the runs is dropped:

* With `SelfSend` a receiver that marked itself blocked, still runs, and sends to
  itself is put on the ready queue while it is current (`ipc.c:90`; the comment
  in line 88 says that the target is waiting).
* With `Overlap` a file deleted or opened twice while a program writes it ends
  up sharing clusters with another file: `fs_close` stores a stale first
  cluster by name (`filesystem.c:256`).
* With `LongModes = {"write"}` writing over a file of more than one cluster
  always allocates at a cluster boundary and drops the rest of the chain
  (`filesystem.c:336`; the comment says "if a new cluster is needed").
* With `Cuts` including delete, a failure between the FAT and the directory
  leaves an entry that names free clusters (`filesystem.c:412`).
* With `ExitSelf` the ready queue of stage 08 loses all its processes
  (`08_process/process.c:77`).

The modules show these in their definitions:

* A send may wake a process that does not wait any more: after the look at
  `ipc.c:85` a tick lets another send wake it first (`kernel_wake`). It is then on the
  ready queue twice, or has exited and runs again, or its PCB is somebody else's
  memory (`Break`; the comment in line 88 says that the target is waiting).
* The wake-up of a parent is lost if a child exits between the search and the block
  of its wait (`syscall.c:265`, `:602`), or if a tick takes the CPU from a process in
  exit between mark and look (`:42`, `:45`): a zombie is not scheduled again. The same
  happens to init between the hand-over and its wake-up (`process.c:349`). `raced`.
* A tick between the saving of the context for wait and the block replaces that
  context with one inside the call: the process resumes there and blocks
  again, although what it waits for may be there (`WaitBlock`).
* Two creations may choose one PID: the first to register is then no longer in
  `process_table` (`syscall.c:398`, `Break`).
* A message that comes between `ipc_recv`'s two looks at the queue is received,
  and the receiver is marked blocked all the same (`ipc.c:117`, `:134`, `RecvBlock`).
* A process that blocked in `ipc_recv` resumes from a context saved before it
  blocked: only a running process is saved (`process.c:244`, `ctx` in `Kernel`;
  the comment at `ipc.c:137` says that it tries to receive again).
* A resumed wait finds the call number 10 in eax and is not called again
  (`syscall.c:600`; the comment says it will be).
* A blocked wait with an empty ready queue returns to its caller
  (`syscall.c:604`, `WaitBlock`); `ipc_recv` never leaves the CPU by itself.
* After exit the next tick wraps the slice counter, and the zombie keeps the
  CPU until it has run down (`timer_handler`; `ReadyRuns` holds because it does).
* A reaped process leaves its messages allocated (`WaitReap`).
* A message wakes a process that waits for a child (`Expects`).
* A character between load and store of `buffer_count`, or between the resets
  of `keyboard_init`, is counted out: it stays behind, and every later one
  comes one key late (`raced`).
* `kmalloc` of the three largest sizes rounds up to 0 (`RoundUp`).
* `free_clusters` counts the two reserved clusters (`FreeCountFollows`). After a
  power failure it may be off further, and after several exceed the number of
  clusters: the superblock is written last, and what frees clusters adds to the
  old count.
* A failure in `fs_format` after the superblock leaves a disk that looks
  formatted with clusters 0 and 1 free.
* A file of more than one cluster opened for appending is written in its first
  cluster (`fs_open`).
* In stage 11 too a tick between the search of `sys_wait` and `process_block` loses the
  wake-up of a child that exits there (`11_syscall/syscall.c:249`), and one between
  mark and look that of the parent (`:24`, `:25`): `raced` in `ForkScheduler`.
* The exit of stage 11 calls `schedule`, which only sets the counter to 0, so that the
  zombie halts until it has wrapped and run down (`11_syscall/syscall.c:35`; the comment
  there says that the scheduler will choose another process).
* fork of stages 11 and 12 does not enter the child into `process_table`, so that
  the next fork uses the same PID (`FreePids`).
* Stage 03 asks to press any key, but every line is masked (`pic_init_03`): the
  `hlt` never ends (`03_interrupts/kernel.c:91`).
* Stage 13 registers nothing for int 0x80: the shell's `exec` reports success
  because eax still holds the call's number (`Syscall` in `Interrupts`).
* A table for which kmalloc has no memory is put at frame 0, a second one over it
  (`07_paging/paging.c:101`, `starved`). `alloc_page_at` maps the frame that its
  block begins in, which it shares with the block's header and its neighbour
  (`:170`). `get_physical_address` returns 0 for a page at frame 0 and for none.
* A request of 256 sectors or more never ends: the count does not fit in the
  eight bits it is kept in (`disk.c:193`, `CountRegister`). The driver writes the
  flush command without waiting for the last sector (`disk.c:287`), and returns 0
  whether or not it was taken.
* `write` of the shell overwrites the beginning of a file and leaves the rest.

These are outside the models:

* SYS_EXEC clears `file_size + 4096` bytes from 0x100000 on (`syscall.c:479`), where
  `kernel_main` has put the heap (`kernel.c:135`).
* Kernel stacks of stage 13 run into the user stacks from PID 8 on
  (`process.c:115`). fork of stage 11 shares the user stack between parent and
  child, and computes a kernel stack inside the region of the user stacks
  (`11_syscall/syscall.c:361`). In stage 12 `kernel_stack` is the low end of its
  region (`12_paging_process/process.c:47`), and fork leaves `address_space` as
  kmalloc found it.
* `process_create` of stage 08 fills the frame in the opposite order of the one
  `context_switch` pops (`08_process/process.c:137`), so that a new process starts
  with null segment registers; the emulator the Makefile starts does not mind.
  The first switch stores the boot stack pointer through address 0.
* `init_physical_page_bitmap` marks 7 MB where its comment says 8.
* The 32 MB image has 65453 clusters, the FAT cache 16896 entries;
  `alloc_cluster` and `fat_write` check the former (`filesystem.c:43`, `:35`).

## 6. Not modelled

Register and stack contents, with what depends on them: what fork's shared
stacks do, the frames a switch pops, descriptors and the TSS beyond whether a
kernel stack is there. Errors the disk reports to the file system, and caches
kmalloc has no memory for (`FileSystem` takes both as granted; `Disk` shows what
the driver returns). Contents of memory across components, so that exec's
overwriting of the heap is not seen. The boot loaders and other assembly that
runs once; strings, screen and the commands that only print; stages 01, 02 and
05, which print and keep no state; memory attributes other than presence.

## 7. Plan

1. `ReadyQueue`: the links of the ready queue of stage 13 with a tick between any two
   accesses of `process_unblock` and `process_create_kernel`, against the
   sequence that `Process` uses.
2. Disk errors in `FileSystem`, from what `Disk` shows the driver to return;
   descriptors and exit: who owns what `fs_open` returned.
