# NaumiOS in TLA+

A verification project for NaumiOS, a small AArch64 operating system in C
(`src/`): models of the kernel's scheduler, task creation, memory management,
disk, devices and window system and of three of its programs, TLC runs that
check them on small instances, and TLAPS proofs for every instance.
`PROJECT.json` is the index: components, runs, mutants, the map from definitions
to source lines, findings, hazards, theorems.

    tlc -workers 2 -config sched.cfg MCSched.tla     # any run of PROJECT.json
    tlapm SchedProofs.tla                            # and the other *Proofs modules

## 1. The system

NaumiOS runs on one core of QEMU's `virt` machine. Its concurrency is this:

* A 100 Hz timer IRQ (`timer.c`) preempts EL0 processes **and** EL1 kernel
  tasks (kmain, task_a, task_b, shell, compositor). Any timer tick may switch.
* An exception handler runs with IRQs masked, system calls included, so a
  system call is atomic to everyone else. The exception is `SYS_SLEEP_MS`,
  which takes a nested `svc` from inside the call and switches away.
* There are no locks. State that both a kernel task (preemptible) and a system
  call (masked) change is exposed wherever the kernel task is interrupted.
* Nothing is ever reaped: a finished task stays in the ring as a zombie and its
  memory is never given back. Any exception but `svc` halts the machine.

| component | state | operations | talks to |
|---|---|---|---|
| scheduler (`sched.c`) | ring of PCBs, saved contexts, wait queues, `current` | create, tick, sleep, block, wake, exit, kill | exceptions (contexts), compositor (kill, alive), timer |
| exceptions (`exceptions.c/.S`, `timer.c`, `gic.c`) | live ELR/SPSR/SP, tick count | entry, return, nested svc, halt | scheduler, syscalls |
| syscalls (`syscall.c`) | none of its own | dispatch | everything |
| loader (`elf.c`, `spawn.c`) | none of its own | load, spawn | vmm, pmm, heap, scheduler; called by boot, the shell and SYS_SPAWN |
| pmm (`pmm.c`) | bitmap, search cursor | alloc (free has no caller) | heap, vmm, loader, drivers |
| heap (`heap.c`) | address-ordered block list | kmalloc, kfree | every kernel part |
| vmm and sbrk (`vmm.c`, `sched_sbrk`) | page tables, break | new space, map, grow | pmm |
| compositor (`compositor.c`) | windows, z-order, focus, drag, queues, dirty | mouse, keys, sweep, frame; create, draw, present, poll | scheduler, heap, input devices |
| shell (`shell.c`) | line buffer | `run` and read-only commands | loader, disk |
| block device and FAT16 (`virtio_blk.c`, `gpt.c`, `fat16.c`) | one request slot; the volume | read, write, path, chain | heap; shell and syscalls |
| input (`virtio_input.c`, `input.c`) | one ring per device | poll | compositor, shell |
| sound (`virtio_sound.c`) | control requests, one clip in flight | play | syscalls |
| open files (`sched_fd_*`) | four slots per task | open, read, close | heap, FAT16 |
| editor and file manager (`userland/edit`, `userland/filemgr`) | text, cursor, saved mark; directory, selection; ARGFILE.TXT between them | keys, load, save; navigate, open | stdio, SYS_SPAWN |
| doom platform layer (`userland/doom`) | mixer voices, score position, carry | play, stop, update | sound |
| other programs and libc (`userland/`) | own heap, buffers | desktop, console | system calls |

What is hard, and what makes each part correct (the hazards of `PROJECT.json`
give the lines):

* scheduler: contexts restored to their owner across ticks, sleeps, exits and
  nested traps; no lost or doubled ring entry; a READY task to run always; no
  starvation; a deadline that passes before the trap; a killed task that stays dead.
* task creation: the shell links a READY PCB before it has a context, and
  `next_pid++` is not atomic there.
* memory: order and tiling of the block list under split, merge and wraparound
  of page allocation; one owner per page; every exit when memory ends; the fixed
  virtual layout.
* compositor: indices (focus, drag, z-order, queues) that outlive the window
  they name, slots changing hands, `dirty` cleared late.
* disk: one request structure for preemptible and masked callers, a timed-out
  request that completes later, power loss between sector writes, a volume that
  fills up half way, FAT writes whose failure nobody sees.
* devices: rings the device works on between any two accesses of the driver, with
  indices that wrap; a clip that must not change under the device.
* programs: offsets in one flat buffer at every edge a text has; a file as a
  mailbox between two programs, any step of which may fail; keys and fractions of
  a sample that must not accumulate over a song.

## 2. Modules

### TaskLife, Sched, SchedProofs: the scheduler

`TaskLife` is what `sched.h` promises its callers: one runnable task runs, dead
stays dead, nobody is woken before its ticks have passed, a wait queue is FIFO.
`Sched` is `sched.c` with the exception entry and return it relies on. `next` is
the ring of PCBs, `pcb` the saved context (`sp`, `elr`, `spsr`, `sp_el0`, `as`),
`cpu` the live machine, `svc` what `svc_handler()` keeps on the task's stack. A
context value names the task it belongs to, so that taking another task's stack
or address space shows. One action per handler: `BootCreate` and `irq_enable`
(kmain), `sched_tick`, `sched_sleep_ticks` + `ksvc_sleep` (two steps: the
deadline is read with IRQs open and the trap comes later), `sched_block`,
`sched_kill`, `sys_sleep` + `svc_return` (the nested svc), `sched_exit_current`,
`sys_spawn`, `sched_wake_one`, `sched_wake_all`, `exc_handler_halt`.

Time is relative: `wake_tick` holds the ticks left and each IRQ takes one off,
stopping at 0 (due). `wake_sleepers()` compares only `now >= wake_tick`, so this
loses nothing but the 64-bit wrap, which is listed as a hazard not covered. A
sleep of no ticks is a sleep that is due at the next tick, as one of one tick
is. The wait queues have no caller in the tree yet: they are modelled as API,
blocked on by kernel tasks, woken from masked code. `sched_kill` is only called
by the compositor and only on processes that own a window; the model allows it
on any process that exists.

`Sched` implements `TaskLife` (`ImplementsLife`), with the refinement mapping
`status`, `owed`, `queue <- wq`, `running <- current`.

### Spawn, SpawnProofs, SharedFacts: task creation store by store

`alloc_task()` and `task_create_user()` as the shell's `run` executes them,
with the timer between any two of the stores that other tasks can see: read
`next_pid`, write it, read `current->next`, write `current->next` (now READY and
reachable), assign the context. `SYS_SPAWN` by processes is one masked action.
Contexts are reduced to whether they are `filled`.

`SharedFacts` has the lemmas that the proofs of several parts cite: least elements,
division, walks along a function, and a ring into which one more element is linked.

### Pmm, Heap, Vm, Memory, MemoryProofs: memory

`Pmm` is the bitmap and its cyclic search; `Heap` the block list over the pages
it is given, first fit, split, growth page by page, coalescing; `Vm` the tables
of a process, the load of its image and stack, and `sched_sbrk()`. `Memory`
composes them on one pool of pages. `call[c]` and `job` hold the loop state of
the calls in progress; a step is one iteration of a loop, so that memory may
end at any of them. `Caller` are the users of the heap and `Open` those of them
that run with IRQs open: everybody else's call ends before another begins, a
caller in `Open` may be interrupted by a masked one between the pages of
`heap_grow()`, before the run is appended, and inside `pmm_alloc_page()` between
the clear bit it finds (`find_page`) and its setting (`take_page`); for the others
these two are one step, `pmm_alloc_page`. Only run `memory_shell` has a caller in
`Open`, and every property but its own is checked, and proved, of masked callers.
The address spaces are those that system calls and kmain at boot fill in: the
shell's `run` also goes through `spawn_elf_bytes()`, with IRQs open, which `Vm`
leaves out and `Spawn` follows at the PCB only. `elf_load()` may refuse an image
before its first page or, at the header of a later segment, after pages of it were
mapped (`elf_reject`); both leave the process `failed` with what it had got. Where
the code does not test
`pmm_alloc_page()` for 0 (`walk_create`, `vmm_new_addrspace`), it goes on with
page 0, which Limine's HHDM does not map: an EL1 fault, and `down` is the halted
machine.

Sizes are in units of `ALIGN`, a page is four units and a header one, a growth
two pages; the virtual layout (load address, device pages, stack, heap window)
is the source's own, in page numbers. The heap window is cut to three pages.

### Compositor, EventQueue, CompositorProofs: the window system

The window table, keyboard and mouse queues, z-order, focus, drag and dirty
flag, the life of each process, and where `compositor_task` is in its loop
(`at`, `pos`). Each system call is one action (masked). The task is taken apart
at each event it handles, each slot of `gc_dead_windows()`, each window of
`composite_frame()` and `dirty = 0`. Geometry is left out: which window the
pointer is over is any that no full-screen window covers, and which part of it
was hit is a choice. An event remembers the process it was meant for. `missed`
is a history variable: processes (of those in `Watched`) whose window changed
after the current frame may have drawn it.

`EventQueue` takes one window's queue apart at its accesses: `push_event()` in
the task, IRQs open, against `SYS_POLL_INPUT`. The load of `q->count++` may be
the one of the test before it: the kernel is built with `-O2` and `count` is not
volatile. The other interleavings inside a handler (`zorder_remove()` against
`SYS_WIN_CREATE`) are not modelled.

`CompositorProofs` has the proofs.

### Fat16, Fat16Proofs: the volume

The driver knows the FAT's sectors and nothing of the volume's size: a cluster is
free when its entry is 0, and entries behind the last cluster are too. `Clusters`
counts the entries, `Held` the clusters whose sectors the disk has (`OnDisk`);
`fat_alloc_cluster()` hands out the others like any, and a request for one of them
fails (`cluster_fails`). What else may be on a disk behind the volume, where such a
write would succeed, is not modelled.

`SYS_FILE_WRITE` and `SYS_MKDIR` are taken apart at the sectors they write: the FAT,
the clusters and the directory entries are the disk, `op` the local variables of
the call in progress, `at` the write it does next. The calls run with IRQs
masked, so there is one at a time; what comes between its steps is a power loss
(`crash`: only the disk is left) or a request that fails (`fails`, bounded by
`MaxErrors`). The function that writes a FAT entry returns nothing, and so does
its operator: the caller goes on either way. Paths name a file in the root or in
a directory of the root; a name is a value, and block `i` of a file's content is
its version and `i`. Sizes count clusters; a directory cluster is one sector.
`stored` is a history variable, what the last write that returned 0 was of, and
`lossy` says that some call failed: only then may clusters be lost, which the
comment above `write_cluster_chain()` accepts.

### Disk, VirtioBlk, VirtioProofs: the block driver

`Disk` is what `virtio_blk.h` promises: a call moves its own sector, once,
between call and return, and returns 0 only if it did; once a request has timed
out (`broken`) nothing is promised. `VirtioBlk` is the driver at the stores that
the device or another caller can see (header, descriptors, the load and the
store of `avail->idx`, the poll, `last_used_idx`, the status) with the device as
actions of its own: it copies the request when it pops it and moves the data at
any later time. `Masked` are callers in system calls; `Preempt` lets them come
between the stores of the others. `moved` is a history variable.

### VirtioInput, VirtioProofs: the event ring

One device's two rings and `virtio_input_poll()` access by access. The device
fills the next posted buffer between any two; events are numbers, modulo more
than can be under way, so that a lost, doubled or reordered one shows.

### Sound, ProgramProofs: Doom's sound

The score player, the mixer's voices, `dg_sound_update()` and
`virtio_sound_play()` under it. A step is one event of the score, one update's
render, or one submission; the device ends its clip at any time. What sounds is
a set of keys `<<channel, note>>`. `held` and `dropped` are history variables,
what the score holds down and what found no voice; `due` is the score's schedule
less what was played, counted in parts of a sample.

### LineEditor, Editor, ProgramProofs: the editor

`LineEditor` is what the user sees: lines, a row, a column. `Editor` is the flat
buffer of `edit/main.c` with its scans for line ends, and the file it loads and
saves. `ImplementsLines` maps one to the other. A save may reach the disk wholly,
as an empty file or not at all, and the load may give nothing of a file there is;
the program shows neither, and the history variable `io_failed` remembers it.

### Handoff, ProgramProofs: from the file manager to the editor

The file manager's directory, listing and selection, `ARGFILE.TXT`, and editors
that start, read it and empty it, one system call a step, each of which may fail;
editors end at any moment and the desktop starts some without a file. A path is
a sequence of names and slashes, and has a length in characters (`chars`): `Width`
gives that of each name, `Start` what is left of one that is cut. Every copy the
code makes is cut to its buffer (`cut`): `path_down()` and `open_in_editor()` to 63
characters, the system calls' own to 31 (`kernel_resolve`), so a path may lead
elsewhere or nowhere, and the list shown may be of another directory than the path
says. What `path_down()` writes behind a buffer that is full (section 5) is not
followed. `crossed` says that the hand-over under way has overlapped with another
or lost a step of its own.

### MCTables, MCParts

The three tables of the kernel (memory, volume, windows), and the six smaller
parts, share no variable with each other. Each of these two modules puts such
parts side by side: the first state chooses the one that moves (`table`, `part`),
the others stay in one initial state. Every behaviour of a part is there, no two
are interleaved, and the states add up where a product would multiply them.
Fairness is restated for the part that moves. `Unbroken`, a constraint of run
`parts`, stops at the first timed-out disk request: `Disk` promises nothing from
there on, so the states cut off cannot violate it; the other properties are about
other parts, where `timeouts` stays 0.

## 3. Runs

| run | instance | checks |
|---|---|---|
| `sched` | kmain, compositor, one more kernel task, two processes (one from boot), one may fault, sleeps to 2 | type, ring, context ownership, READY runs, wait queue, syscall return, refinement of TaskLife; every READY task runs, every sleeper wakes |
| `tables` | memory: 23 pages with a hole and the bitmap, two processes, requests of 1 and 6 units, two live at a time | list order, tiling, live blocks, page ownership, break backed, heap pages kept, kmalloc returns |
| | volume: a FAT of five clusters, four of them on the disk, a file in the root and two files in a directory that must grow, sizes 0 and 3, power loss anywhere | chains end, no shared cluster, no leak, a stored file reads back |
| | windows: desktop and two programs, two slots, queues of one | z-order, focus, event ownership, sweep |
| `parts` | spawn: shell, one process from boot, three to spawn from either side | ring under preemption |
| | blk: two callers, two sectors, two values, indices modulo 3 | the driver is a Disk |
| | input: a ring of three, two pollers, indices modulo 6 | events in order, once each; none stays |
| | sound: three scores, two voices, one effect slot, device indices modulo 2 | voices, rounding, clip in flight, effects end |
| | editor: texts to four characters, a file that is too long | the buffer is a line editor; the saved mark |
| | handoff: two editors, four directories, paths of seven characters, four for the kernel | the right file is opened, where its path fits |
| `spawn_entry`, `spawn_pid`, `memory_shell`, `memory_sbrk`, `memory_devices`, `compositor_present`, `compositor_queue`, `fat16_io`, `blk_shell` | smaller or the same | one documented claim each, violated (section 5) |

Why the bounds suffice. Two processes and two kernel tasks besides kmain give
every pair of kinds a switch can go between, with a third to run in the
meantime; sleeps of two ticks let one sleeper be due while another is not.
Three spawned tasks let a spawn fall between the shell's stores and its child
exit. Twenty-three pages hold one process and a heap but not two processes and a
heap, so each consumer is the one that finds memory exhausted; the hole breaks
a run of pages; six units take more than a page, so a growth may yield no block
that fits. Two slots for three processes make a slot change hands and the table
fill up; a queue of one is full after one event. Four clusters hold the
directory, its extension and both its files when each takes one cluster (a file
of no bytes takes one), or one file of three: so the disk ends at every
allocation of a call, and a file that shrinks has two clusters to free with a
power loss between them. The fifth entry of the FAT is the one that is handed out
though the disk has no sectors for it; when it is gone too, the FAT is full. Each
file has one content, told apart by its size, in `tables`; the file in the root
has two in `fat16_io`. Disk indices modulo 3 tell a request from the one
before and the one after, and wrap; a ring of three buffers with indices modulo
six goes round both its slots and its indices. The three scores have more keys
than there are voices, a retrigger, a release, all-notes-off, drums, a note of no
velocity, data that ends in a delay, and a loop that never asks for one; eleven
samples in four ticks leave every remainder. Texts of four characters have
first, middle and last lines, empty ones among them, and fill the buffer. Three
levels of directories make paths of none, one and several slashes, and `..`; with
four characters for the kernel the path of a file in the second level fits exactly,
with the double slash that going up and down again leaves it is one too long, the
third level cannot be listed under its own path, and the programs' seven are
filled up by going on, where `path_down()` stops.

`CHECK_DEADLOCK` is off in `compositor_queue` alone, where the events sent are
bounded and run out.

Every property has a mutant: the definition it guards replaced by a plausible
bug, which TLC finds under the same cfg. The mutated operators stand beside the
originals in the modules and are used by nothing else.

### Fairness

* `Sched`: weak fairness of kmain's creations and `irq_enable` (straight-line
  code), `sched_tick` (the timer is periodic, re-armed by its handler) and
  `svc_return` (masked code runs on). None on what tasks choose to do.
* `Memory`: weak fairness of the iterations of each call in progress.
* `Compositor`: weak fairness of the loop's own progress: the task gets the CPU
  again and again (`ReadyRuns` and `SleeperWakes` of `Sched`), and an input
  queue is drained faster than a user fills it.
* `VirtioInput`: weak fairness of polls: the compositor polls in a loop.
* `Sound`: weak fairness of bring-up, of the steps of an update, and of updates,
  which Doom's main loop makes once per tic. None on the device, nor on
  what the game plays.
* `Fat16`, `Spawn`, `VirtioBlk`, `Editor`, `Handoff`, `EventQueue`: no liveness
  property and no fairness. `VirtioBlk`'s poll is bounded by a timeout, which is
  one of its steps.

A fault halts the machine, so the liveness of `Sched` holds "or the machine has
stopped", as the properties say.

## 4. Proofs

Every safety property of a passing run is proved but one, the editor's refinement:
the runs check it on a small instance, the theorem for all values of the constants
that the modules' assumptions allow. Four groups of theorems have a hypothesis of
their own, because the property is false without it: heap callers that are masked
(`memory_shell`), disk callers that exclude each other (`blk_shell`), no failing
request (`fat16_io`), no poll inside another (section 5).

### Scheduler

`SchedProofs`, for every set of tasks and every bound on sleeps
(`TaskAssumption`, `SleepAssumption`):

* `TypeCorrect`, `ContextIsolation`, `RunsReadyAlways`, `QueueExact` and
  `RingAlwaysClosed`: the invariants of run `sched`;
* `SyscallReturns`: a system call that slept returns to its own caller at EL0;
* `Refinement`: `Spec => ImplementsLife`.

The properties alone are not inductive: that the CPU is on the right context after
a switch rests on what every task that may be chosen has saved, and that rests on
how it left. `IInv` adds five facts: during boot the CPU is kmain's (`BootOwned`),
a PCB's address space never changes (`SpaceFixed`), a process inside SYS_SLEEP_MS
has its EL0 return point on its stack (`SvcOwned`), a task that is not blocked has
no wake-up tick (`AwakeNoWake`, without which the wait queue and the sleepers could
overlap), and a kernel task about to trap has its deadline in x0 (`DeadlineSet`).
Saving is one lemma (`SavedKeeps`), switching another (`SwitchOwned`), leaving the
CPU blocked a third (`LeaveKeeps`); each action then has its lemma, and `NextIInv`
puts them together. For the refinement, each action maps to one of TaskLife's or to
a stutter (`NextRefines`).

`RingClosed` speaks of a walk along `next`, a recursive function, and walks are not
changed one link at a time. So the invariant is that there is a numbering of the
tasks linked, in which `next` leads from each number to the one after and from the
last to the first (`IsRing` in `SharedFacts`): linking a task behind another gives
it the number after (`RingInserted`), and a walk along such a ring meets every
number and comes back (`RingWalked`, by the least step at which it would not).

### Task creation

`SpawnProofs`, for any set of processes. `RingStaysClosed`: the
shell reads `current->next` and stores it with IRQs open, and what it has read is
still so when it links, because the only links made meanwhile are made by
processes, behind themselves; so the two stores insert one place into the ring,
whatever was inserted between them (`RInv`).

### Memory

`MemoryProofs` proves `ListInOrder`, `LiveHeld`, `BlocksTile`, `PagesOwnedOnce` and
`TypeOK` (`HeapInOrder`, `HeapHeld`, `HeapTiled`, `PagesOwned`, `MemoryTyped`) for any
memory map, page and header size, requests and processes, under `Open = {}`: every
caller of kmalloc() is masked. The run `memory_shell` shows that the condition is
needed for the order of the list; that a page can be handed out twice without it is
to be read off `pmm.c:90-91` and is claimed by no run. The invariant `HeapInv` rests on a fact of the page allocator: nothing is
ever freed, so its cursor only moves up (`Above`), and the run that `heap_grow()`
collects lies between the last block and the cursor (`RunAbove`). With it
`append_block()` keeps the list in address order (`Chained`); a split and a merge
keep it without help. `Cover`, the units in blocks, is the same before and after a
split, a merge or a kfree(), so blocks tile whole pages (`WholePages`). For
`PagesOwnedOnce`, a step of the heap gains only pages that were free before
(`Gain`), and `OwnedInv` adds that what tables and processes have, and the page in
hand, is in use.

`BreakBacked` and `HeapPagesKept` are proved for any layout, limits and increments,
with no condition: while a SYS_SBRK is at work the pages on its list are those
missing below its new break, and all of them lie above the old one (`SbrkTodo`).

### Volume

`Fat16Proofs`, for any FAT, any disk behind it, any files, sizes and contents.
`VolumeTypes` needs no condition: FAT and directories lead to entries of the FAT and
not past it, and the call in progress has the locals its stage needs, requests that
fail included. It does not say that a cluster is on the disk, and that is not so:
a full volume hands out others, and a call that failed on one may leave it linked.
What was stored is on the disk all the same, because nothing is ever written to such
a cluster (`NotBeyond`). `ChainsStayEnded`,
`NothingIsShared`, `NothingLeaks` and `WritesReadBack` (`ChainsEnd`,
`NoSharedCluster`, `NoLeak`, `ReadBack`) hold with power losses at any moment, under
`MaxErrors = 0`: no request fails. With one failing request TLC finds each of the
four violated (run `fat16_io` shows `ReadBack`, and the same cfg with one of the others
in its place does so for them), since nobody sees that a FAT entry was not written.

The properties speak of walks along the FAT, and a step changes one link of it: no
invariant about walks says enough. `VInv` says instead that each cluster in a chain
has an owner, the slot of the directory whose entry starts the chain, and a
position, counted from 1; a link leads from a position to the next one of the same
owner, and no two clusters have the same owner and position (`Chained`). Owners and
positions are no variables of the module: the invariant says that there are some,
and each step is given the next ones. On this stand the other parts: entries in
clusters are in clusters of a directory (`Foldered`), a name is in a directory once
(`Names`), what was stored last is at positions 1 to its length (`Kept`), what no
one owns is the one cluster the call has marked and not placed (`NotLost`), and what
each stage of a call relies on is still so (`Stage`). A chain ends because its
positions are all different and there are no more of them than clusters; what a
walk meets is read off the positions by the least step that would disagree, where
one would otherwise reason by induction over the walk.

### Window system

`CompositorProofs` proves `Stacked`, `FocusOnWindow`, `EventsForOwner` and
`WindowsTyped` for any processes, slots and queue length.
`Stacked` alone is not inductive: it counts the entries of the z-order, and that the
removal of one leaves one of every other needs the order to be a sequence without
repetition. `CInv` says that (`Order`), and lemmas about inserting into and removing
from such a sequence (`InsertKeepsOrder`, `RemoveKeepsOrder`) carry it through
raise, create, close and sweep. That the loop of a frame stays within the table
follows: the order is no longer than the table (`OrderFits`).

### Devices

`VirtioProofs` proves that the block driver is a Disk (`DriverIsDisk`) and that its
answers are right until the first timeout (`AnswersRight`), for all callers,
sectors, values and index widths, under `Exclusive`: nobody preempts, or every
caller is masked. The run `blk_shell` shows that the condition is needed. The
invariant says for each stage of a call where its request is (in the ring, in work,
completed), what the four indices are relative to `last_used_idx`, and that nothing
is in the queue when nobody is calling; it is claimed while `timeouts` is 0, as one
request too many is then with the device for good. Each action of the driver and
the device maps to a step of Disk or to a stutter.

It also proves `EventsInOrder` (`EventsNeverMixed`) for any number of buffers and
any index width that is a multiple of it, under `~Interrupts`: no poll begins inside
another (section 5 says what happens then). The invariant is that there is an
index `b` of the next event to return and a count `n` of events under way, from which
every index follows (`Counts`); these events are in the buffers that come after `b`
in the ring, in order (`Unread`), and a poll has got a known way with the first
(`Polled`). The buffers come round in the order they were posted, so the one given
back is the one the device will fill last.

### Programs

`ProgramProofs`, for all constants the modules allow:

* `ScoreNeverDrifts`: the identity between schedule, samples left and carry is kept
  by Euclidean division, and samples played are whole. `NoKeyHangs`: what sounds
  is what the score holds and got a voice. `ClipStaysIntact`: the two indices are
  one apart exactly from when a clip is published until the device moves its own,
  and the driver has seen the move before it publishes another (`ClipInv`).
* `TextFits`: cursor and text stay in the buffer (`InText`), wherever the scans for
  line starts and ends send the cursor: an insertion shifts text only inside it.
  `CleanIsOnDisk`: `CleanIsSaved` holds, for which a text that fits must load as it
  is, and `InText` says that it fits. After a load or a save that failed below the
  editor it says nothing: there the missing mark is wrong.
* `LaunchOpensSelected`: `LaunchOpens` holds, for any buffers of which the programs'
  is larger than the kernel's by two at least. A path that was cut fills its buffer
  (`CutLong`), so one that fits the kernel's copy was cut nowhere on its way
  (`FullResolves`). `resolve_path()` is a walk through the path's words, so the way
  along a path and one more name is the way along the path and a step (`NamedUnder`);
  the list shown is of the directory the kernel's copy of the path leads to
  (`Listed`); and a hand-over that nothing has disturbed is in one place: the file
  manager has written the path, or one editor is to read it or has (`Underway`).
  That names are unique in a directory is assumed of the tree (`HandoffAssumption`);
  of FAT16 itself it is a part of `VInv` (`Names`).

### Only model-checked

* All liveness: fairness and ENABLED are beyond the provers.
* `ImplementsLines`, the editor's refinement: the lines of a text are a fold over it,
  and what a fold computes is an induction over data.
* What the hypotheses above leave out: a preempted caller of the heap or the disk,
  a failing request, two polls at once. Those are findings, and what of a property
  survives them is not claimed. Nothing is claimed either where a property sets a
  case apart by a history variable (`io_failed`, `crossed`) or by `Restless`.

## 5. What the runs found

1. `StartsAtEntry` (`spawn_entry`): a tick between `current->next = t` and the
   assignments of `task_create_user()`, in the shell's `run`, dispatches a task
   with no context.
2. `AliveAnswersTrue` (`spawn_pid`): a tick inside `next_pid++` gives two tasks
   one pid, and `sched_task_alive()` may deny a live one.
3. `MappedExactly` (`memory_sbrk`): a failed SYS_SBRK leaves pages above the
   break, against the comment beside it. `BreakBacked` and `HeapPagesKept` hold
   all the same: what is lost is memory, never data.
4. `DevicesMapped` (`memory_devices`): the user stack page is at the GIC
   distributor's address and replaces its mapping in every process. Harmless as
   long as only the CPU interface is touched after boot.
5. `PresentShows` (`compositor_present`): a present that arrives while the frame
   is drawn, after its window, is forgotten until something else changes.
6. `ReadBack` (`fat16_io`): a request that fails inside
   `fat_write_next_cluster()` goes unseen; `fat16_write_file()` returns 0 and the
   file does not read back.
7. `AnswerRight` (`blk_shell`): a disk read of the shell, preempted by a process
   that uses the disk in a system call, returns 0 without its request having been
   done.
8. `ListInOrder` (`memory_shell`): the same shape in the heap. A growth begun by
   the shell and overtaken by a system call's appends its lower pages last;
   coalescing relies on the order.
9. `PollGivesWaiting` (`compositor_queue`): a poll between the load and the store
   of `q->count++` leaves the count one too high, and the process is later given
   an event it already had.

Seen while modelling, and not runs of their own:

* After a timeout the request is still with the device (`virtio_blk.c:217`): its
  completion is taken for the next request's, and its data arrives in a buffer
  the caller has freed. With `MaxTimeouts` 1, `AnswerRight` fails without preemption.
* `keytest` in the shell and the compositor poll one input ring. With
  `Interrupts = TRUE` the second one's repost overwrites the first one's slot, and
  `EventsInOrder` fails.
* A score that loops without a delay keeps `mus_player_advance()` in its loop;
  `EffectsEnd` sets it apart (`Restless`).
* The editor saves the first 64 KiB of a longer file over all of it
  (`edit/main.c:117`), and clears its mark whether or not the save worked. When
  `fopen()` fails on a file there is (`edit/main.c:111-116`: no descriptor, no
  memory, the disk) it shows an empty text with the file's path and no mark, and a
  save puts that text in the file's place. `CleanIsSaved` sets both failures apart
  (`io_failed`).
* A spawn that fails leaves the path in `ARGFILE.TXT`, and the next bare launch
  opens it; the comment at `edit/main.c:227-228` thinks of a later launch only.
  The file manager's own comment names the race of two launches. `LaunchOpens`
  sets both apart (`crossed`).
* Paths are cut in the middle of a name: to 63 characters by the file manager
  (`filemgr/main.c:97,107,113`), to 31 by the kernel (`syscall.c:31,95`). A file
  that is deeper does not open, or another does whose path is what is left; the
  list then shown may be another directory's. `path_up()` leaves a slash at the end
  of the path and `open_in_editor()` adds one, so a path that fits before going up
  may not fit after. `LaunchOpens` claims only what fits.
* With 63 characters in `cur_dir` and no slash at the end, `path_down()` has no room
  for the slash and its 0 (`filemgr/main.c:93-100`). The model does not follow that
  step: `enter_directory` is disabled there.
* `fat_alloc_cluster()` searches every entry of the FAT's sectors
  (`fat16.c:162-175`) and is never told how many clusters the volume has; its
  comment says "or 0 if the volume is full". A full volume hands out the entries
  behind its last cluster, whose sectors are behind its end: where the disk ends
  there, requests for them fail (`Fat16`); where it goes on, a write lands in it.
* `pmm_alloc_page()` tests a bit and sets it with IRQs open on the shell's path
  (`pmm.c:90-91`): a system call that allocates in between is given the same page.
  `Heap` has the two steps for callers in `Open`; no run claims the property for them.
* `..` of a directory of the root names cluster 0, which the path walk takes for
  a chain; a path that goes through it does not resolve (`MCTree` has it).

## 6. Not modelled, and what is left

In order of importance:

1. Preempted callers at a finer grain: `kmalloc()` and `kfree()` inside a split or
   a merge (`scan_hit`, `kfree` and what they call are one step each), the handlers of
   `compositor_task` inside themselves (`zorder_remove()` inside its shift,
   `free_window()` with its choice of a focus, `handle_mouse_press()`), and the
   shell's `run` through `Vm`. What they would show has the shape of findings 7 to 9.
2. The open file table (`sched_fd_*`: four slots of the current task, used in
   masked calls only; nothing frees them when a task ends) and the console.
3. The disk: names in 8.3 form, paths of more than one directory, `kmalloc` failing
   inside FAT16, the partition table, and a promise for a file whose write was cut
   off: shortened, it keeps its old size over a chain already cut, and
   `fat16_read_file()` returns the missing part as it came from `kmalloc()`.
4. libc: `malloc` over SYS_SBRK and stdio, which appear as outcomes only.
5. A proof of the editor's refinement: `Split` as a walk over the text instead of a
   fold, with the positions of the line ends as the invariant.

Left out for good: rendering (framebuffer, fonts, TrueType), UART and device
probing, the demo programs, the vendored engine and fonts, build scripts; what the
ELF header checks look at (that they may refuse, before the first page or between
two segments, is in `Vm`); memory attributes.
