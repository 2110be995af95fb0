-------------------------------- MODULE Pmm ---------------------------------
(***************************************************************************)
(* The physical page allocator (kernel/mm/pmm.c): a bitmap searched from a *)
(* cursor.  Pages are numbered; 0 stands for the address 0 by which        *)
(* pmm_alloc_page() says that there is none left.  pmm_free_page() has no  *)
(* caller in the tree and is left out.                                     *)
(***************************************************************************)
EXTENDS Naturals, FiniteSets

CONSTANTS
  Frames,   \* bitmap_page_count
  Usable,   \* pages of the memory map's USABLE entries
  Bitmap    \* those the bitmap itself sits in

ASSUME FrameAssumption ==
  /\ Frames \in Nat
  /\ Usable \subseteq 1 .. Frames - 1
  /\ Bitmap \subseteq Usable

Frame == 0 .. Frames - 1

VARIABLES
  used,     \* the set bits
  cursor    \* search_cursor

pmmVars == <<used, cursor>>

pmm_init ==
  /\ used = (Frame \ Usable) \cup Bitmap
  /\ cursor = 0

exhausted == Frame \subseteq used

keep_bit(f) == used

\* bit_set()
bit_set(f) == used \cup {f}

\* f is the first clear bit from the cursor on, wrapping at the end.
first_clear(f) ==
  /\ f \in Frame \ used
  /\ \A g \in Frame \ used :
       (f + Frames - cursor) % Frames <= (g + Frames - cursor) % Frames

\* The bit is set, whoever has set it meanwhile, and the cursor moved behind it.
take(f) ==
  /\ used' = bit_set(f)
  /\ cursor' = f + 1

\* Both at once, for a caller that nothing interrupts.
pmm_alloc_page(f) == first_clear(f) /\ take(f)
=============================================================================
