------------------------------- MODULE Memory -------------------------------
(***************************************************************************)
(* Physical memory and its two consumers: the kernel heap (module Heap)    *)
(* and the address spaces (module Vm) draw on one page allocator (module   *)
(* Pmm).  A call made with IRQs masked, from a system call or from kmain   *)
(* at boot, completes before anything else runs; the shell's kmalloc() may *)
(* be interrupted by one.                                                  *)
(***************************************************************************)
EXTENDS Heap, Vm

CONSTANT MaxLive    \* bound: allocations held at a time

vars == <<pmmVars, heapVars, vmVars>>

Init == pmm_init /\ heap_init /\ vm_init

\* No masked call is in progress.
Quiet == (\A c \in Caller \ Open : call[c].at = "idle") /\ job.for = "none" /\ ~down

\* Caller c has the CPU, for a new call or for the next step of its own.
Runs(c) == Quiet \/ (c \notin Open /\ call[c].at # "idle")

GrowStep(c) ==
  grow_page(c) \/ find_page(c) \/ take_page(c) \/ grow_done(c) \/ grow_failed(c)

KmallocStep(c) == Runs(c) /\ (scan_hit(c) \/ scan_miss(c) \/ GrowStep(c))

HeapNext ==
  \E c \in Caller :
    \/ /\ Quiet
       /\ \/ \E n \in Requests : Cardinality(DOMAIN live) < MaxLive /\ kmalloc(c, n)
          \/ \E b \in DOMAIN live : kfree(c, b)
    \/ KmallocStep(c)

VmStep ==
  \/ alloc_user_page
  \/ walk_create
  \/ map_page
  \/ elf_load
  \/ elf_reject
  \/ task_create_user
  \/ sbrk_done

VmNext ==
  \/ /\ Quiet
     /\ \E p \in Procs :
          spawn_elf_bytes(p) \/ \E inc \in Increments : sched_sbrk(p, inc)
  \/ VmStep

halted == down /\ UNCHANGED vars

Next ==
  \/ HeapNext /\ UNCHANGED vmVars
  \/ VmNext /\ UNCHANGED heapVars
  \/ halted

Spec == Init /\ [][Next]_vars

\* A call once made runs to its end: it is masked, or its caller is runnable.
Fairness ==
  /\ \A c \in Caller : WF_vars(KmallocStep(c) /\ UNCHANGED vmVars)
  /\ WF_vars(VmStep /\ UNCHANGED heapVars)

FairSpec == Spec /\ Fairness

-----------------------------------------------------------------------------
\* Properties.

\* Every variable holds a value of its type.
TypeOK ==
  /\ used \subseteq Frame /\ cursor \in 0 .. Frames
  /\ \A b \in Blocks : /\ b \in Addr
                       /\ blk[b].size \in 0 .. Frames * PAGE
                       /\ blk[b].free \in BOOLEAN
                       /\ {blk[b].next, blk[b].prev} \subseteq Blocks \cup {Null}
  /\ {head, tail} \subseteq Blocks \cup {Null}
  /\ DOMAIN live \subseteq Blocks
  /\ space \in [Procs -> {"none", "loading", "live", "failed"}]
  /\ brk \in [Procs -> 0 .. HEAP_MAX * UNITS]
  /\ down \in BOOLEAN

\* "List order always matches address order" (heap.c:9-13): next and prev lead
\* to the neighbours in address order, from heap_head to heap_tail, for all the
\* splitting, merging and growing; kfree() merges wrongly without it.
ListInOrder ==
  /\ \A b \in Blocks :
       /\ IF blk[b].next = Null THEN tail = b /\ \A c \in Blocks : c <= b
          ELSE /\ blk[b].next > b
               /\ \A c \in Blocks : c > b => c >= blk[b].next
               /\ blk[blk[b].next].prev = b
       /\ blk[b].prev = Null <=> head = b
  /\ Blocks = {} <=> head = Null
  /\ Blocks = {} <=> tail = Null

\* The pages the heap has taken, the run it is collecting included.
RunFrames == UNION {call[c].start .. call[c].start + call[c].run - 1 : c \in Caller}

HeapFrames == {f \in Frame : \E b \in Blocks : Page(f) < End(b) /\ b < Page(f) + PAGE} \cup RunFrames

\* Every unit of the heap's pages is in exactly one block, header or payload,
\* and no block reaches over a hole between two runs of pages (heap.c:54-81, 103-116, 133-145).
BlocksTile ==
  /\ \A b, c \in Blocks : b < c => End(b) <= c
  /\ \A b \in Blocks : \A f \in Frame :
       (Page(f) >= b /\ Page(f) < End(b)) => f \in Usable \ Bitmap
  /\ \A f \in HeapFrames \ RunFrames :
       \A u \in Page(f) .. Page(f) + PAGE - 1 : \E b \in Blocks : b <= u /\ u < End(b)

\* What kmalloc() returned stays a block of its own, large enough and never
\* handed out again, until it is freed (heap.c:89-126).
LiveHeld ==
  /\ DOMAIN live = {b \in Blocks : ~blk[b].free}
  /\ \A b \in DOMAIN live : blk[b].size >= live[b]

TableFrames(p) == {tables[p][k] : k \in DOMAIN tables[p]}

UserFrames(p) == {map[p][va].frame : va \in {v \in DOMAIN map[p] : map[p][v].kind # "device"}}

\* Every physical page has one owner: the heap, one table, or one virtual page
\* of one process; so no process can write another's memory or the kernel's
\* (main.c:177-180), through growing heaps, walks that build tables and calls that
\* fail half way.  This is about calls made with IRQs masked, each of which ends
\* before the next begins (Open = {}): a pmm_alloc_page() interrupted between its
\* test and its set of a bit, as on the shell's path, hands out a page twice
\* (pmm.c:90-91).
PagesOwnedOnce ==
  /\ HeapFrames \cap UNION {TableFrames(p) \cup UserFrames(p) : p \in Procs} = {}
  /\ \A p \in Procs :
       /\ TableFrames(p) \cap UserFrames(p) = {}
       /\ \A k, l \in DOMAIN tables[p] : tables[p][k] = tables[p][l] => k = l
       /\ \A v, w \in DOMAIN map[p] :
            map[p][v].kind # "device" /\ map[p][w].kind # "device" /\ map[p][v].frame = map[p][w].frame
              => v = w
  /\ \A p, q \in Procs :
       p # q => (TableFrames(p) \cup UserFrames(p)) \cap (TableFrames(q) \cup UserFrames(q)) = {}

HeapPages(p) == {va \in DOMAIN map[p] : va >= HEAP_BASE}

\* Below the break a process's heap is mapped, after a failed SYS_SBRK too:
\* malloc() never touches a page it has been promised in vain (sched.c:255-284).
BreakBacked ==
  \A p \in Procs : space[p] = "live" =>
    \A a \in HEAP_BASE * UNITS .. brk[p] - 1 : a \div UNITS \in HeapPages(p)

\* A page below the break is never replaced by another one, by the page that a
\* later SYS_SBRK starts in or by one that fails: what a process has stored in
\* its heap stays there (sched.c:271-280).
HeapPagesKept ==
  [][\A p \in Procs : space[p] = "live" =>
       \A a \in HEAP_BASE * UNITS .. brk[p] - 1 : map'[p][a \div UNITS] = map[p][a \div UNITS]]_map

\* "Whatever was mapped by the previous call always covers exactly
\* [TASK_HEAP_BASE, page_align_up(old_brk))" (sched.c:268).
MappedExactly ==
  \A p \in Procs : space[p] = "live" /\ ~(job.for = "sbrk" /\ job.proc = p)
    => HeapPages(p) = HEAP_BASE .. page_up(brk[p]) - 1

\* vmm_new_addrspace() "replicates the kernel's device mappings (UART/GIC)"
\* into each space, because kernel code uses them under it (vmm.h:22-27).
DevicesMapped ==
  \A p \in Procs : space[p] = "live" =>
    \A i \in DOMAIN Devices : map[p][Devices[i]] = [frame |-> Devices[i], kind |-> "device"]

\* kmalloc() returns, with a block or NULL, although a grow may not yield a
\* block large enough and sends it round again (heap.c:95-125).
KmallocReturns == \A c \in Caller : (call[c].at # "idle") ~> (call[c].at = "idle")
=============================================================================
