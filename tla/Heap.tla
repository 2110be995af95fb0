-------------------------------- MODULE Heap --------------------------------
(***************************************************************************)
(* The kernel heap (kernel/mm/heap.c): an address-ordered, doubly linked   *)
(* list of blocks carved out of runs of physical pages.                    *)
(*                                                                         *)
(* Sizes and addresses count ALIGN units, so align_up() has been applied   *)
(* to every request.  kmalloc()'s loop is taken apart into its scan and    *)
(* heap_grow()'s page-by-page steps.  A caller with IRQs masked completes  *)
(* them before anything else runs; the shell may be interrupted between    *)
(* any two, and between finding a clear bit in pmm_alloc_page() and        *)
(* setting it.  The scan, the split and kfree() are one step for it too.   *)
(***************************************************************************)
EXTENDS Pmm

CONSTANTS
  PAGE,         \* PAGE_SIZE, in units
  HDR,          \* sizeof(block_t), in units
  GROW_PAGES,
  Requests,     \* sizes asked of kmalloc()
  Caller,       \* who calls it
  Open          \* callers with IRQs open

ASSUME HeapAssumption ==
  /\ PAGE \in Nat /\ HDR \in Nat \ {0} /\ HDR < PAGE
  /\ GROW_PAGES \in Nat \ {0}
  /\ Requests \subseteq Nat \ {0}
  /\ Open \subseteq Caller

Addr == 0 .. Frames * PAGE
Null == Frames * PAGE + 1       \* no block is there

VARIABLES
  blk,      \* the headers: block address -> size, free, next, prev
  head,     \* heap_head
  tail,     \* heap_tail
  call,     \* each caller's kmalloc() in progress, and heap_grow()'s locals
  live      \* allocations not yet freed: block address -> size asked for

heapVars == <<blk, head, tail, call, live>>

Idle == [at |-> "idle", size |-> 0, need |-> 0, start |-> 0, run |-> 0, page |-> 0]

Blocks == DOMAIN blk

End(b) == b + HDR + blk[b].size

Without(f, x) == [y \in DOMAIN f \ {x} |-> f[y]]

-----------------------------------------------------------------------------
heap_init ==
  /\ blk = <<>>
  /\ head = Null
  /\ tail = Null
  /\ call = [c \in Caller |-> Idle]
  /\ live = <<>>

\* The n-th block of the list.
Nth[n \in Nat] ==
  IF n = 0 THEN head
  ELSE LET b == Nth[n - 1] IN IF b = Null THEN Null ELSE blk[b].next

Fits(b, n) == blk[b].free /\ blk[b].size >= n

\* b is the first free block large enough.
FirstFit(b, n) ==
  \E i \in 0 .. Cardinality(Blocks) :
    /\ Nth[i] = b
    /\ b # Null /\ Fits(b, n)
    /\ \A j \in 0 .. i - 1 : ~Fits(Nth[j], n)

Page(f) == f * PAGE

\* The list after append_block() of a block of n payload units at b.
appended(b, n) ==
  [x \in Blocks \cup {b} |->
     IF x = b THEN [size |-> n, free |-> TRUE, next |-> Null, prev |-> tail]
     ELSE IF x = tail THEN [blk[x] EXCEPT !.next = b]
     ELSE blk[x]]

append_block(b, n) ==
  /\ blk' = appended(b, n)
  /\ tail' = b
  /\ head' = IF tail = Null THEN b ELSE head

-----------------------------------------------------------------------------
\* kmalloc(): scan, and grow until the scan finds a block or no page is left.

kmalloc(c, n) ==
  /\ call[c].at = "idle"
  /\ call' = [call EXCEPT ![c] = [Idle EXCEPT !.at = "scan", !.size = n]]
  /\ UNCHANGED <<pmmVars, blk, head, tail, live>>

\* A split leaves room for a header and at least one unit.
splits(b, n) == blk[b].size >= n + HDR + 1

taken(b) == [blk EXCEPT ![b].free = FALSE]

\* The list after splitting n units off the front of b.
split(b, n) ==
  LET rem == b + HDR + n
  IN  [x \in Blocks \cup {rem} |->
         CASE x = rem -> [size |-> blk[b].size - n - HDR, free |-> TRUE,
                          next |-> blk[b].next, prev |-> b]
           [] x = b -> [blk[b] EXCEPT !.size = n, !.free = FALSE, !.next = rem]
           [] x = blk[b].next /\ x # rem -> [blk[x] EXCEPT !.prev = rem]
           [] OTHER -> blk[x]]

kept_tail(b, rem) == tail

\* heap_tail once rem has been split off b.
moved_tail(b, rem) == IF blk[b].next = Null THEN rem ELSE tail

scan_hit(c) ==
  LET n == call[c].size
  IN  /\ call[c].at = "scan"
      /\ \E b \in Blocks :
           /\ FirstFit(b, n)
           /\ IF splits(b, n)
              THEN blk' = split(b, n) /\ tail' = moved_tail(b, b + HDR + n)
              ELSE blk' = taken(b) /\ UNCHANGED tail
           /\ live' = [x \in DOMAIN live \cup {b} |-> IF x = b THEN n ELSE live[x]]
      /\ call' = [call EXCEPT ![c] = Idle]
      /\ UNCHANGED <<pmmVars, head>>

need_pages(n) ==
  LET pages == (n + HDR + PAGE - 1) \div PAGE
  IN  IF pages < GROW_PAGES THEN GROW_PAGES ELSE pages

scan_miss(c) ==
  /\ call[c].at = "scan"
  /\ \A b \in Blocks : ~FirstFit(b, call[c].size)
  /\ call' = [call EXCEPT ![c].at = "grow", ![c].need = need_pages(call[c].size), ![c].run = 0]
  /\ UNCHANGED <<pmmVars, blk, head, tail, live>>

any_page(c, f) == call[c].run > 0

\* f carries on the run of adjacent pages being collected.
adjacent(c, f) == call[c].run > 0 /\ f = call[c].start + call[c].run

append_run(c) == append_block(Page(call[c].start), call[c].run * PAGE - HDR)

\* What heap_grow() does with a page: one that is not adjacent closes the run.
collect(c, f) ==
  /\ IF adjacent(c, f)
     THEN /\ call' = [call EXCEPT ![c].at = "grow", ![c].run = @ + 1, ![c].need = @ - 1]
          /\ UNCHANGED <<blk, head, tail>>
     ELSE /\ call' = [call EXCEPT ![c].at = "grow", ![c].start = f, ![c].run = 1,
                                  ![c].need = @ - 1]
          /\ IF call[c].run > 0 THEN append_run(c) ELSE UNCHANGED <<blk, head, tail>>
  /\ UNCHANGED live

\* One turn of heap_grow()'s loop.
grow_page(c) ==
  /\ c \notin Open
  /\ call[c].at = "grow"
  /\ call[c].need > 0
  /\ \E f \in Frame : pmm_alloc_page(f) /\ collect(c, f)

\* The same in two steps, for a caller that may be interrupted.
find_page(c) ==
  /\ c \in Open
  /\ call[c].at = "grow"
  /\ call[c].need > 0
  /\ \E f \in Frame :
       /\ first_clear(f)
       /\ call' = [call EXCEPT ![c].at = "take", ![c].page = f]
  /\ UNCHANGED <<pmmVars, blk, head, tail, live>>

take_page(c) ==
  /\ call[c].at = "take"
  /\ take(call[c].page)
  /\ collect(c, call[c].page)

\* The last run is appended and the scan starts again.
grow_done(c) ==
  /\ call[c].at = "grow"
  /\ call[c].need = 0 \/ exhausted
  /\ call[c].run > 0
  /\ append_run(c)
  /\ call' = [call EXCEPT ![c] = [Idle EXCEPT !.at = "scan", !.size = call[c].size]]
  /\ UNCHANGED <<pmmVars, live>>

grown_anyway(c) == [call EXCEPT ![c].at = "scan", ![c].need = 0]

no_memory(c) == [call EXCEPT ![c] = Idle]

\* Not one page: heap_grow() returns 0 and kmalloc() NULL.
grow_failed(c) ==
  /\ call[c].at = "grow"
  /\ exhausted
  /\ call[c].run = 0
  /\ call' = no_memory(c)
  /\ UNCHANGED <<pmmVars, blk, head, tail, live>>

-----------------------------------------------------------------------------
\* kfree(): free, then merge with the next block and into the previous one.

merge_unlinked(list, b) ==
  LET dead == list[b].next
  IN  [x \in DOMAIN list \ {dead} |->
         IF x = b THEN [list[b] EXCEPT !.size = @ + HDR + list[dead].size,
                                       !.next = list[dead].next]
         ELSE list[x]]

\* The list after b has swallowed the block that follows it.
merge(list, b) ==
  LET dead == list[b].next
  IN  [x \in DOMAIN list \ {dead} |->
         CASE x = b -> [list[b] EXCEPT !.size = @ + HDR + list[dead].size,
                                       !.next = list[dead].next]
           [] x = list[dead].next /\ x # b -> [list[x] EXCEPT !.prev = b]
           [] OTHER -> list[x]]

\* b ends where the next block of the list begins.
touches(list, b) == b + HDR + list[b].size = list[b].next

mergeable_any(list, b) == list[b].next # Null /\ touches(list, b)

mergeable(list, b) ==
  /\ list[b].next # Null
  /\ list[list[b].next].free
  /\ touches(list, b)

coalesced(list, b) == IF mergeable(list, b) THEN merge(list, b) ELSE list

kfree(c, b) ==
  LET freed == [blk EXCEPT ![b].free = TRUE]
      once  == coalesced(freed, b)
      p     == once[b].prev
      into  == p # Null /\ once[p].free
      both  == IF into THEN coalesced(once, p) ELSE once
  IN  /\ call[c].at = "idle"
      /\ b \in DOMAIN live
      /\ blk' = both
      /\ tail' = IF tail \in DOMAIN both THEN tail
                 ELSE IF b \in DOMAIN both THEN b ELSE p
      /\ live' = Without(live, b)
      /\ UNCHANGED <<pmmVars, head, call>>
=============================================================================
