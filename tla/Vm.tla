--------------------------------- MODULE Vm ---------------------------------
(***************************************************************************)
(* Address spaces: page tables built on demand (kernel/mm/vmm.c), a new    *)
(* process's space filled by spawn_elf_bytes() and elf_load(), and its     *)
(* heap grown page by page by sched_sbrk().                                *)
(*                                                                         *)
(* Virtual addresses count pages; a break counts units of a page.  A call  *)
(* is taken apart into the pages it allocates, because each of them can    *)
(* find physical memory exhausted.  It is one made by a system call or by  *)
(* kmain at boot, with IRQs masked.  The shell's `run` also goes through   *)
(* spawn_elf_bytes(), with IRQs open: module Spawn follows it to the PCB,  *)
(* this module leaves it out.                                              *)
(***************************************************************************)
EXTENDS Pmm, Sequences

CONSTANTS
  Procs,
  PT_ENTRIES,   \* entries of a page table
  UNITS,        \* units of the break in a page
  Devices,      \* the pages vmm_new_addrspace() maps, in its order
  Image,        \* the pages elf_load() maps, in its order
  STACK_VA,     \* USER_STACK_VA
  HEAP_BASE,    \* TASK_HEAP_BASE
  HEAP_MAX,     \* TASK_HEAP_MAX
  Increments    \* arguments of SYS_SBRK

ASSUME VmAssumption ==
  /\ PT_ENTRIES \in Nat \ {0, 1} /\ UNITS \in Nat \ {0}
  /\ STACK_VA \in Nat /\ HEAP_BASE \in Nat /\ HEAP_MAX \in Nat
  /\ STACK_VA < HEAP_BASE /\ HEAP_BASE < HEAP_MAX
  /\ Increments \subseteq Nat \ {0}

VARIABLES
  space,    \* a process: "none", "loading", "live" or "failed"
  tables,   \* its translation tables, the root as <<0, 0>>: <<level, index>> -> page
  map,      \* its L3 entries: virtual page -> [frame, kind]
  brk,      \* heap_brk
  job,      \* the call in progress
  down      \* an EL1 fault has stopped the machine

vmVars == <<space, tables, map, brk, job, down>>

NoJob == [for |-> "none", proc |-> "none", todo |-> <<>>, held |-> 0, brk |-> 0]

page_up(a) == (a + UNITS - 1) \div UNITS

\* The tables a walk to va passes: the root, then one per level.
Keys(va) == {<<0, 0>>} \cup {<<level, va \div (PT_ENTRIES ^ (4 - level))>> : level \in 1 .. 3}

Work(vas, kind) == [i \in DOMAIN vas |-> [va |-> vas[i], kind |-> kind]]

Extend(f, x, v) == [y \in DOMAIN f \cup {x} |-> IF y = x THEN v ELSE f[y]]

vm_init ==
  /\ space = [p \in Procs |-> "none"]
  /\ tables = [p \in Procs |-> <<>>]
  /\ map = [p \in Procs |-> <<>>]
  /\ brk = [p \in Procs |-> 0]
  /\ job = NoJob
  /\ down = FALSE

-----------------------------------------------------------------------------
\* Mapping the page at the head of the job's list.

Now == Head(job.todo)

Working == job.for # "none" /\ ~down

\* The call returns -1; what it has mapped so far stays mapped.
give_up ==
  /\ job' = NoJob
  /\ space' = IF job.for = "spawn" THEN [space EXCEPT ![job.proc] = "failed"] ELSE space
  /\ UNCHANGED <<pmmVars, tables, map, brk, down>>

\* elf_load(), spawn_elf_bytes() and sched_sbrk() test the page they ask for.
alloc_user_page ==
  /\ Working
  /\ job.todo # <<>>
  /\ Now.kind # "device" /\ job.held = 0
  /\ \/ \E f \in Frame : /\ pmm_alloc_page(f)
                         /\ job' = [job EXCEPT !.held = f]
                         /\ UNCHANGED <<space, tables, map, brk, down>>
     \/ exhausted /\ give_up

Missing == {k \in Keys(Now.va) : k \notin DOMAIN tables[job.proc]}

Ready == Now.kind = "device" \/ job.held # 0

\* walk_create() and vmm_new_addrspace() use what pmm_alloc_page() returns
\* untested: with no page left they write through the address 0, which HHDM
\* does not map, and the EL1 fault ends in exc_handler()'s loop.
walk_create ==
  /\ Working
  /\ job.todo # <<>>
  /\ Ready
  /\ Missing # {}
  /\ \/ \E k \in Missing, f \in Frame :
          /\ \A other \in Missing : k[1] <= other[1]
          /\ pmm_alloc_page(f)
          /\ tables' = [tables EXCEPT ![job.proc] = Extend(@, k, f)]
          /\ UNCHANGED <<space, map, brk, job, down>>
     \/ /\ exhausted
        /\ down' = TRUE
        /\ UNCHANGED <<pmmVars, space, tables, map, brk, job>>

\* The L3 entry, over whatever was there.
map_page ==
  /\ Working
  /\ job.todo # <<>>
  /\ Ready
  /\ Missing = {}
  /\ LET f == IF Now.kind = "device" THEN Now.va ELSE job.held
     IN  map' = [map EXCEPT ![job.proc] = Extend(@, Now.va, [frame |-> f, kind |-> Now.kind])]
  /\ job' = [job EXCEPT !.todo = Tail(@), !.held = 0]
  /\ UNCHANGED <<pmmVars, space, tables, brk, down>>

-----------------------------------------------------------------------------
\* vmm_new_addrspace() maps the devices, elf_load() the image, and
\* spawn_elf_bytes() the stack.

spawn_elf_bytes(p) ==
  /\ job.for = "none" /\ ~down
  /\ space[p] = "none"
  /\ space' = [space EXCEPT ![p] = "loading"]
  /\ job' = [NoJob EXCEPT !.for = "devices", !.proc = p,
                          !.todo = Work(Devices, "device")]
  /\ UNCHANGED <<pmmVars, tables, map, brk, down>>

elf_load ==
  /\ Working
  /\ job.for = "devices"
  /\ job.todo = <<>>
  /\ \/ /\ job' = [job EXCEPT !.for = "spawn",
                              !.todo = Image \o Work(<<STACK_VA>>, "data")]
        /\ UNCHANGED space
     \/ /\ job' = NoJob         \* a header check fails, after the fact
        /\ space' = [space EXCEPT ![job.proc] = "failed"]
  /\ UNCHANGED <<pmmVars, tables, map, brk, down>>

\* A segment is checked only when the segments before it have been mapped, and
\* may be refused then.  Any page of the image may be the first of a segment.
elf_reject ==
  /\ Working
  /\ job.for = "spawn"
  /\ job.todo # <<>> /\ job.held = 0
  /\ give_up

\* alloc_task()'s kmalloc()s can fail only when no page is left.
task_create_user ==
  /\ Working
  /\ job.for = "spawn"
  /\ job.todo = <<>>
  /\ \/ /\ space' = [space EXCEPT ![job.proc] = "live"]
        /\ brk' = [brk EXCEPT ![job.proc] = HEAP_BASE * UNITS]
        /\ job' = NoJob
        /\ UNCHANGED <<pmmVars, tables, map, down>>
     \/ exhausted /\ give_up

-----------------------------------------------------------------------------
\* sched_sbrk(): map [page_up(old break), page_up(new break)), then move it.

\* cur_end: the first page not mapped yet, recomputed from the break.
cur_end_down(p) == brk[p] \div UNITS

cur_end(p) == page_up(brk[p])

needed_end_down(new) == new \div UNITS

needed_end(new) == page_up(new)

sched_sbrk(p, inc) ==
  LET new == brk[p] + inc
  IN  /\ job.for = "none" /\ ~down
      /\ space[p] = "live"
      /\ new <= HEAP_MAX * UNITS
      /\ job' = [NoJob EXCEPT !.for = "sbrk", !.proc = p, !.brk = new,
                   !.todo = Work([i \in 1 .. needed_end(new) - cur_end(p) |-> cur_end(p) + i - 1],
                                 "data")]
      /\ UNCHANGED <<pmmVars, space, tables, map, brk, down>>

sbrk_done ==
  /\ Working
  /\ job.for = "sbrk"
  /\ job.todo = <<>>
  /\ brk' = [brk EXCEPT ![job.proc] = job.brk]
  /\ job' = NoJob
  /\ UNCHANGED <<pmmVars, space, tables, map, down>>
=============================================================================
