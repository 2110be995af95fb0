---------------------------- MODULE MemoryProofs ----------------------------
(***************************************************************************)
(* The heap's list stays in address order and its live blocks stay whole,  *)
(* for any memory, page size and requests, when every caller has its IRQs  *)
(* masked.  What it rests on is that the page allocator only moves up: no  *)
(* page is ever freed, so the search never finds one below its cursor.     *)
(*                                                                         *)
(* A process's heap is backed below its break, and no page of it is ever   *)
(* replaced, for any sizes, limits and requests, and whoever else takes    *)
(* pages meanwhile.  Every page has one owner.                             *)
(***************************************************************************)
EXTENDS Memory, TLAPS

Header == [size : Nat, free : BOOLEAN, next : Nat, prev : Nat]

Ending(l, b) == b + HDR + l[b].size

\* A list of blocks from h to t, in address order, none reaching into the next.
Follows(l, h, t, b) ==
  /\ l[b].next = Null => t = b /\ \A c \in DOMAIN l : c <= b
  /\ l[b].next # Null =>
       /\ l[b].next \in DOMAIN l /\ l[b].next > b
       /\ \A c \in DOMAIN l : c > b => c >= l[b].next
       /\ l[l[b].next].prev = b
       /\ Ending(l, b) <= l[b].next
  /\ l[b].prev = Null <=> h = b
  /\ l[b].prev # Null => l[b].prev \in DOMAIN l /\ l[l[b].prev].next = b

Chained(l, h, t) ==
  /\ l \in [DOMAIN l -> Header]
  /\ DOMAIN l \subseteq Nat
  /\ Null \notin DOMAIN l
  /\ \A b \in DOMAIN l : Follows(l, h, t, b)
  /\ h \in DOMAIN l \cup {Null} /\ (h = Null => DOMAIN l = {})
  /\ t \in DOMAIN l \cup {Null} /\ (t = Null => DOMAIN l = {})
  /\ t # Null => l[t].next = Null

-----------------------------------------------------------------------------
\* Arithmetic of pages.

LEMMA Pages ==
  /\ \A f \in Nat : Page(f) \in Nat /\ Page(f + 1) = Page(f) + PAGE
  /\ \A f, g \in Nat : f <= g => Page(f) <= Page(g)
  /\ \A f, n \in Nat : Page(f + n) = Page(f) + n * PAGE
  /\ Null \in Nat /\ Null = Page(Frames) + 1
<1>0. PAGE \in Nat /\ Frames \in Nat
  BY HeapAssumption, FrameAssumption
<1>1. ASSUME NEW f \in Nat PROVE Page(f) \in Nat /\ Page(f + 1) = Page(f) + PAGE
  BY <1>0 DEF Page
<1>2. ASSUME NEW f \in Nat, NEW n \in Nat PROVE Page(f + n) = Page(f) + n * PAGE /\ n * PAGE \in Nat
  BY <1>0 DEF Page
<1>3. ASSUME NEW f \in Nat, NEW g \in Nat, f <= g PROVE Page(f) <= Page(g)
  <2>1. g - f \in Nat /\ f + (g - f) = g
    BY <1>3
  <2>2. Page(g) = Page(f) + (g - f) * PAGE /\ (g - f) * PAGE \in Nat
    BY <2>1, <1>2
  <2> QED
    BY <2>2, <1>1
<1>4. Null \in Nat /\ Null = Page(Frames) + 1
  BY <1>0 DEF Null, Page
<1> QED
  BY <1>1, <1>2, <1>3, <1>4

LEMMA FramePages == PAGE \in Nat \ {0} /\ \A f \in Frame : f \in Nat /\ Page(f) \in Nat
<1>1. \A f \in Frame : f \in Nat
  BY FrameAssumption DEF Frame
<1>2. PAGE \in Nat \ {0}
  BY HeapAssumption
<1> QED
  BY <1>1, <1>2, Pages

\* The allocator moves up.
Above == used \subseteq Frame /\ cursor \in 0 .. Frames /\ \A f \in Frame \ used : f >= cursor

LEMMA AllocUp == ASSUME Above, NEW f \in Frame, pmm_alloc_page(f)
                 PROVE Above' /\ f >= cursor /\ cursor' = f + 1 /\ f \notin used /\ used' = used \cup {f}
<1>1. f \in Frame \ used /\ cursor' = f + 1 /\ used' = used \cup {f} /\ f >= cursor
  BY DEF pmm_alloc_page, first_clear, take, bit_set, Above
<1>2. Frames \in Nat /\ f \in Nat /\ cursor \in Nat /\ f < Frames
  BY FrameAssumption DEF Frame, Above
<1>3. ASSUME NEW g \in Frame \ used PROVE g >= f
  <2>1. g >= cursor /\ g \in Nat /\ g < Frames
    BY <1>3, FrameAssumption DEF Above, Frame
  <2>2. (f + Frames - cursor) % Frames <= (g + Frames - cursor) % Frames
    BY <1>3 DEF pmm_alloc_page, first_clear
  <2>3. \A a \in Nat : a < Frames => (a + Frames) % Frames = a
    BY <1>2
  <2>4. f + Frames - cursor = (f - cursor) + Frames /\ g + Frames - cursor = (g - cursor) + Frames
        /\ f - cursor \in Nat /\ g - cursor \in Nat /\ f - cursor < Frames /\ g - cursor < Frames
    BY <1>1, <1>2, <2>1
  <2> QED
    BY <2>2, <2>3, <2>4, <1>2, <2>1
<1>4. Above'
  BY <1>1, <1>2, <1>3 DEF Above, Frame
<1> QED
  BY <1>1, <1>4
-----------------------------------------------------------------------------
\* Operations on a list.

LEMMA Marked == ASSUME NEW l, NEW h, NEW t, Chained(l, h, t), NEW b \in DOMAIN l, NEW v \in BOOLEAN
                PROVE Chained([l EXCEPT ![b].free = v], h, t)
<1> DEFINE m == [l EXCEPT ![b].free = v]
<1>1. l \in [DOMAIN l -> Header] /\ DOMAIN m = DOMAIN l
  BY DEF Chained
<1>2. m \in [DOMAIN l -> Header] /\ \A c \in DOMAIN l : m[c].next = l[c].next /\ m[c].prev = l[c].prev /\ m[c].size = l[c].size
  BY <1>1 DEF Header
<1>3. ASSUME NEW c \in DOMAIN l PROVE Follows(m, h, t, c)
  <2>1. Follows(l, h, t, c)
    BY DEF Chained
  <2> QED
    BY <1>1, <1>2, <2>1 DEF Follows, Ending
<1> QED
  BY <1>1, <1>2, <1>3 DEF Chained

\* A free block of n units at b has been added to the list.
Grown(b, n) ==
  /\ DOMAIN blk' = Blocks \cup {b} /\ b \notin Blocks
  /\ blk'[b].size = n /\ blk'[b].free
  /\ \A c \in Blocks : blk'[c].size = blk[c].size /\ blk'[c].free = blk[c].free

LEMMA AppendKeeps ==
  ASSUME Chained(blk, head, tail), NEW b \in Nat, b < Null, NEW n \in Nat,
         \A c \in Blocks : End(c) <= b, append_block(b, n)
  PROVE Chained(blk', head', tail') /\ Grown(b, n)
<1>0. HDR \in Nat \ {0} /\ Null \in Nat
  BY Pages, HeapAssumption
<1>1. blk \in [Blocks -> Header] /\ Blocks \subseteq Nat /\ Null \notin Blocks
  BY DEF Chained, Blocks
<1>2. \A c \in Blocks : c < b
  BY <1>0, <1>1 DEF End, Header
<1>3. /\ DOMAIN blk' = Blocks \cup {b} /\ tail' = b
      /\ head' = IF tail = Null THEN b ELSE head
      /\ blk'[b] = [size |-> n, free |-> TRUE, next |-> Null, prev |-> tail]
      /\ \A c \in Blocks \ {tail} : blk'[c] = blk[c]
      /\ tail # Null => blk'[tail] = [blk[tail] EXCEPT !.next = b]
  BY <1>2, <1>1 DEF append_block, appended, Chained, Blocks
<1>4. tail \in Blocks \cup {Null} /\ head \in Blocks \cup {Null} /\ (tail = Null <=> Blocks = {}) /\ (head = Null <=> Blocks = {})
  BY <1>1 DEF Chained, Blocks
<1>5. blk' \in [DOMAIN blk' -> Header]
  BY <1>0, <1>1, <1>3, <1>4 DEF Header, append_block, appended
<1>6. \A c \in Blocks : /\ blk'[c].prev = blk[c].prev /\ blk'[c].size = blk[c].size
                         /\ blk'[c].free = blk[c].free
                         /\ blk'[c].next = IF c = tail THEN b ELSE blk[c].next
  BY <1>1, <1>3 DEF Header
<1>7. Follows(blk', head', tail', b)
  <2>1. b # Null /\ b \notin Blocks
    BY <1>2, <1>1, <1>0
  <2>2. blk'[b].next = Null /\ blk'[b].prev = tail
    BY <1>3
  <2>3. \A c \in DOMAIN blk' : c <= b
    BY <1>1, <1>2, <1>3
  <2>4. tail = Null <=> head' = b
    BY <2>1, <1>3, <1>4
  <2>5. tail # Null => tail \in DOMAIN blk' /\ blk'[tail].next = b
    BY <1>3, <1>4, <1>6
  <2> QED
    BY <2>2, <2>3, <2>4, <2>5, <1>3 DEF Follows
<1>8. ASSUME NEW c \in Blocks PROVE Follows(blk', head', tail', c)
  <2>1. Follows(blk, head, tail, c)
    BY DEF Chained, Blocks
  <2>2. CASE c = tail
    <3>1. blk[c].next = Null /\ \A d \in Blocks : d <= c
      BY <2>2, <2>1, <1>4, <1>1 DEF Chained, Follows, Blocks
    <3>2. blk'[c].next = b /\ c < b /\ c # Null /\ b # Null /\ b \notin Blocks /\ blk'[b].prev = c
      BY <2>2, <1>1, <1>2, <1>3, <1>6, <1>0
    <3>3. Ending(blk', c) <= b
      BY <1>6 DEF Ending, End
    <3>4. blk'[c].prev = blk[c].prev /\ head' = head
      BY <1>3, <1>6, <2>2, <3>2
    <3>5. blk[c].prev # Null => blk[c].prev \in Blocks /\ blk[blk[c].prev].next = c /\ blk[c].prev # c
      BY <2>1, <3>1, <3>2 DEF Follows, Blocks
    <3>6. blk[c].prev # Null => blk'[blk[c].prev].next = c
      BY <3>5, <1>6, <2>2
    <3>7. \A d \in Blocks \cup {b} : d > c => d >= b
      BY <3>1, <1>1
    <3> QED
      BY <3>2, <3>3, <3>4, <3>5, <3>6, <3>7, <2>1, <1>3 DEF Follows, Blocks
  <2>3. CASE c # tail
    <3>1. blk[c].next # Null /\ blk'[c].next = blk[c].next /\ blk'[c].prev = blk[c].prev /\ tail # Null
      BY <2>3, <2>1, <1>4, <1>6 DEF Follows
    <3>2. blk[c].next \in Blocks /\ blk[c].next > c /\ blk[c].next < b
      BY <3>1, <2>1, <1>2 DEF Follows, Blocks
    <3>3. \A d \in Blocks \cup {b} : d > c => d >= blk[c].next
      BY <3>2, <3>1, <2>1, <1>1 DEF Follows, Blocks
    <3>4. blk'[blk[c].next].prev = c
      BY <3>1, <3>2, <2>1, <1>6 DEF Follows
    <3>5. Ending(blk', c) <= blk[c].next
      BY <3>1, <2>1, <1>6 DEF Follows, Ending
    <3>6. blk[c].prev # Null => blk[c].prev \in Blocks /\ blk[blk[c].prev].next = c
      BY <2>1 DEF Follows, Blocks
    <3>7. blk[c].prev # Null => blk[c].prev # tail
      BY <3>6, <1>1, <1>4 DEF Chained, Blocks
    <3>8. head' = head
      BY <3>1, <1>3
    <3>9. blk[c].prev = Null <=> head = c
      BY <2>1 DEF Follows
    <3>10. blk'[c].prev # Null => blk'[c].prev \in DOMAIN blk' /\ blk'[blk'[c].prev].next = c
      BY <3>6, <3>7, <3>1, <1>6, <1>3
    <3> QED
      BY <3>1, <3>2, <3>3, <3>4, <3>5, <3>8, <3>9, <3>10, <1>3 DEF Follows
  <2> QED
    BY <2>2, <2>3
<1>9. head' \in DOMAIN blk' /\ Null \notin DOMAIN blk' /\ DOMAIN blk' \subseteq Nat
  BY <1>0, <1>1, <1>3, <1>4
<1>10. Chained(blk', head', tail')
  BY <1>3, <1>5, <1>7, <1>8, <1>9 DEF Chained
<1>11. b \notin Blocks
  BY <1>1, <1>2
<1> QED
  BY <1>3, <1>6, <1>10, <1>11 DEF Grown

\* m is the list with n units of b taken and the rest split off.
SplitOff(m, b, n) ==
  /\ DOMAIN m = Blocks \cup {b + HDR + n} /\ b + HDR + n \notin Blocks
  /\ m[b].size = n /\ ~m[b].free
  /\ m[b + HDR + n].size = blk[b].size - n - HDR /\ m[b + HDR + n].free
  /\ \A c \in Blocks \ {b} : m[c].size = blk[c].size /\ m[c].free = blk[c].free

LEMMA SplitKeeps ==
  ASSUME Chained(blk, head, tail), NEW b \in Blocks, NEW n \in Nat \ {0}, splits(b, n),
         End(b) < Null
  PROVE /\ Chained(split(b, n), head, moved_tail(b, b + HDR + n))
        /\ SplitOff(split(b, n), b, n)
<1> DEFINE rem == b + HDR + n
           l == split(b, n)
           nx == blk[b].next
           t == moved_tail(b, rem)
<1>0. HDR \in Nat \ {0} /\ Null \in Nat
  BY Pages, HeapAssumption
<1>1. blk \in [Blocks -> Header] /\ Blocks \subseteq Nat /\ Null \notin Blocks /\ Follows(blk, head, tail, b)
  BY DEF Chained, Blocks
<1>2. rem \in Nat /\ b < rem /\ rem < Null /\ b \in Nat /\ blk[b].size - n - HDR \in Nat /\ rem < End(b)
      /\ rem + HDR + (blk[b].size - n - HDR) = End(b)
  BY <1>0, <1>1 DEF splits, End, Header
<1>3. ASSUME NEW c \in Blocks PROVE c # rem /\ (c > b => c >= End(b)) /\ (c > b <=> c > rem)
  <2>1. c \in Nat
    BY <1>1
  <2>2. c > b => nx # Null /\ c >= nx /\ End(b) <= nx
    BY <1>1, <2>1, <1>2 DEF Follows, End, Ending, Blocks
  <2>3. nx \in Nat /\ End(b) \in Nat
    BY <1>0, <1>1 DEF Header, End
  <2> QED
    BY <2>1, <2>2, <2>3, <1>2
<1>5. nx # Null => nx \in Blocks /\ nx # b /\ nx > b /\ End(b) <= nx
  BY <1>1, <1>2 DEF Follows, Blocks, End, Ending
<1>4. /\ DOMAIN l = Blocks \cup {rem}
      /\ l[rem] = [size |-> blk[b].size - n - HDR, free |-> TRUE, next |-> nx, prev |-> b]
      /\ l[b] = [blk[b] EXCEPT !.size = n, !.free = FALSE, !.next = rem]
      /\ \A c \in Blocks \ {b, nx} : l[c] = blk[c]
      /\ nx \in Blocks /\ nx # b => l[nx] = [blk[nx] EXCEPT !.prev = rem]
  <2>1. rem \notin Blocks /\ b # rem /\ DOMAIN l = Blocks \cup {rem}
    BY <1>2, <1>3 DEF split
  <2>2. l[rem] = [size |-> blk[b].size - n - HDR, free |-> TRUE, next |-> nx, prev |-> b]
    BY <2>1 DEF split
  <2>3. l[b] = [blk[b] EXCEPT !.size = n, !.free = FALSE, !.next = rem]
    <3>1. nx # b
      BY <1>1, <1>5
    <3> QED
      BY <2>1, <3>1 DEF split
  <2>4. ASSUME NEW c \in Blocks \ {b, nx} PROVE l[c] = blk[c]
    BY <2>1 DEF split
  <2>5. ASSUME nx \in Blocks, nx # b PROVE l[nx] = [blk[nx] EXCEPT !.prev = rem]
    BY <2>1, <2>5 DEF split
  <2> HIDE DEF l
  <2> QED
    BY <2>1, <2>2, <2>3, <2>4, <2>5
<1>6. l \in [DOMAIN l -> Header]
  <2>1. nx \in Nat /\ blk[b] \in Header
    BY <1>1 DEF Header
  <2>2. l[rem] \in Header
    BY <1>2, <1>4, <2>1 DEF Header
  <2>3. l[b] \in Header
    BY <1>2, <1>4, <2>1 DEF Header
  <2>4. ASSUME NEW c \in Blocks \ {b} PROVE l[c] \in Header
    <3>1. blk[c] \in Header
      BY <1>1
    <3> QED
      BY <1>2, <1>4, <1>5, <3>1 DEF Header
  <2>5. \A x \in DOMAIN l : l[x] \in Header
    BY <1>4, <2>2, <2>3, <2>4
  <2>6. l = [x \in DOMAIN l |-> l[x]]
    BY DEF split
  <2> HIDE DEF l
  <2> QED
    BY <2>5, <2>6
<1>9. t = IF nx = Null THEN rem ELSE tail
  BY DEF moved_tail
<1> HIDE DEF l, rem, nx, t
<1>7. \A c \in Blocks : /\ l[c].prev = IF c = nx THEN rem ELSE blk[c].prev
                        /\ l[c].next = IF c = b THEN rem ELSE blk[c].next
                        /\ l[c].size = IF c = b THEN n ELSE blk[c].size
                        /\ l[c].free = IF c = b THEN FALSE ELSE blk[c].free
  <2> TAKE c \in Blocks
  <2>1. blk[c] \in Header /\ blk[b] \in Header /\ nx # b
    BY <1>1, <1>5 DEF Header, nx
  <2>2. CASE c = b
    BY <1>4, <2>1, <2>2 DEF Header
  <2>3. CASE c = nx
    <3>1. l[c] = [blk[c] EXCEPT !.prev = rem] /\ c # b
      BY <1>4, <2>1, <2>3
    <3> QED
      BY <3>1, <2>1, <2>3 DEF Header
  <2>4. CASE c # b /\ c # nx
    <3>1. l[c] = blk[c]
      BY <1>4, <2>4
    <3> QED
      BY <3>1, <2>4
  <2> QED
    BY <2>2, <2>3, <2>4
<1>8. /\ l[rem].next = nx /\ l[rem].prev = b /\ l[rem].size = blk[b].size - n - HDR
      /\ l[rem].free
  BY <1>4
<1>10. (nx = Null <=> tail = b) /\ tail \in Blocks /\ head \in Blocks /\ blk[tail].next = Null
  BY <1>1 DEF Chained, Follows, Blocks, nx
<1>11. Ending(l, rem) = End(b) /\ Ending(l, b) = rem
  BY <1>2, <1>7, <1>8 DEF Ending, rem
<1>12. Follows(l, head, t, rem)
  <2>1. \A c \in DOMAIN l : c > rem => c > b /\ c \in Blocks
    BY <1>2, <1>3, <1>4
  <2>2. nx = Null => t = rem /\ \A c \in DOMAIN l : c <= rem
    <3>1. nx = Null => \A c \in Blocks : c <= b
      BY <1>1 DEF Follows, Blocks, nx
    <3> QED
      BY <3>1, <1>1, <1>2, <1>4, <1>9
  <2>3. nx # Null => nx \in DOMAIN l /\ nx > rem /\ l[nx].prev = rem /\ Ending(l, rem) <= nx
    BY <1>3, <1>4, <1>5, <1>7, <1>11
  <2>4. nx # Null => \A c \in DOMAIN l : c > rem => c >= nx
    BY <2>1, <1>1 DEF Follows, Blocks, nx
  <2>5. b # Null /\ head # rem /\ b \in DOMAIN l /\ l[b].next = rem
    BY <1>1, <1>3, <1>4, <1>7, <1>10
  <2> QED
    BY <1>8, <2>2, <2>3, <2>4, <2>5 DEF Follows
<1>13. Follows(l, head, t, b)
  <2>1. rem # Null /\ rem \in DOMAIN l /\ rem > b /\ l[rem].prev = b /\ Ending(l, b) <= rem
    BY <1>2, <1>4, <1>8, <1>11
  <2>2. \A c \in DOMAIN l : c > b => c >= rem
    BY <1>1, <1>2, <1>3, <1>4
  <2>3. l[b].next = rem /\ l[b].prev = blk[b].prev
    BY <1>1, <1>5, <1>7
  <2>4. blk[b].prev # Null => blk[b].prev \in Blocks /\ blk[blk[b].prev].next = b
    BY <1>1 DEF Follows, Blocks
  <2>5. blk[b].prev # Null => l[blk[b].prev].next = b
    <3>1. blk[b].prev # b
      BY <2>4, <1>1, <1>2, <1>5 DEF nx
    <3> QED
      BY <2>4, <3>1, <1>7
  <2>6. blk[b].prev = Null <=> head = b
    BY <1>1 DEF Follows
  <2> QED
    BY <2>1, <2>2, <2>3, <2>4, <2>5, <2>6, <1>4 DEF Follows
<1>14. ASSUME NEW c \in Blocks \ {b} PROVE Follows(l, head, t, c)
  <2>1. Follows(blk, head, tail, c) /\ c \in Blocks /\ c # Null /\ c \in Nat
    BY <1>1 DEF Chained, Blocks
  <2>2. l[c].next = blk[c].next /\ l[c].size = blk[c].size
    BY <1>7
  <2>3. blk[c].next # nx \/ blk[c].next = Null
    <3>1. nx # Null => blk[nx].prev = b
      BY <1>1 DEF Follows, nx
    <3>2. blk[c].next # Null => blk[blk[c].next].prev = c
      BY <2>1 DEF Follows
    <3> QED
      BY <3>1, <3>2
  <2>4. blk[c].next = Null => t = c /\ \A d \in DOMAIN l : d <= c
    <3>1. blk[c].next = Null => tail = c /\ \A d \in Blocks : d <= c
      BY <2>1 DEF Follows, Blocks
    <3>2. blk[c].next = Null => c > b /\ nx # Null
      BY <3>1, <2>1, <1>2, <1>10
    <3> QED
      BY <3>1, <3>2, <1>2, <1>3, <1>4, <1>9, <2>1
  <2>5. ASSUME blk[c].next # Null
        PROVE /\ blk[c].next \in DOMAIN l /\ blk[c].next > c
              /\ \A d \in DOMAIN l : d > c => d >= blk[c].next
              /\ l[blk[c].next].prev = c /\ Ending(l, c) <= blk[c].next
    <3>1. /\ blk[c].next \in Blocks /\ blk[c].next > c /\ \A d \in Blocks : d > c => d >= blk[c].next
          /\ blk[blk[c].next].prev = c /\ Ending(blk, c) <= blk[c].next
      BY <2>1, <2>5 DEF Follows, Blocks
    <3>2. rem > c => rem >= blk[c].next
      <4>1. rem > c => c < b
        BY <1>2, <1>3, <2>1
      <4>2. c < b => b >= blk[c].next
        BY <3>1, <1>2
      <4>3. blk[c].next \in Nat
        BY <3>1, <1>1
      <4> QED
        BY <4>1, <4>2, <4>3, <1>2
    <3>3. l[blk[c].next].prev = c
      BY <3>1, <2>3, <2>5, <1>7
    <3> QED
      BY <3>1, <3>2, <3>3, <2>2, <1>4 DEF Ending
  <2>6. l[c].prev = Null <=> head = c
    <3>1. blk[c].prev = Null <=> head = c
      BY <2>1 DEF Follows
    <3>2. c = nx => blk[c].prev = b /\ b # Null /\ rem # Null
      BY <1>1, <1>2, <2>1 DEF Follows, nx
    <3> QED
      BY <3>1, <3>2, <1>7
  <2>7. l[c].prev # Null => l[c].prev \in DOMAIN l /\ l[l[c].prev].next = c
    <3>1. CASE c = nx
      BY <3>1, <1>4, <1>7, <1>8
    <3>2. CASE c # nx
      <4>1. l[c].prev = blk[c].prev
        BY <3>2, <1>7
      <4>2. blk[c].prev # Null => blk[c].prev \in Blocks /\ blk[blk[c].prev].next = c
        BY <2>1 DEF Follows, Blocks
      <4>3. blk[c].prev # b \/ blk[c].prev = Null
        BY <4>2, <3>2 DEF nx
      <4> QED
        BY <4>1, <4>2, <4>3, <1>4, <1>7
    <3> QED
      BY <3>1, <3>2
  <2> QED
    BY <2>2, <2>4, <2>5, <2>6, <2>7 DEF Follows
<1>15. DOMAIN l \subseteq Nat /\ Null \notin DOMAIN l /\ t \in DOMAIN l /\ head \in DOMAIN l /\ l[t].next = Null
  <2>1. DOMAIN l \subseteq Nat /\ Null \notin DOMAIN l /\ head \in DOMAIN l
    BY <1>1, <1>2, <1>4, <1>10
  <2>2. t \in DOMAIN l
    BY <1>4, <1>9, <1>10
  <2>3. l[t].next = Null
    BY <1>7, <1>8, <1>9, <1>10
  <2> QED
    BY <2>1, <2>2, <2>3
<1>16. \A c \in DOMAIN l : Follows(l, head, t, c)
  BY <1>4, <1>12, <1>13, <1>14
<1>17. Chained(l, head, t)
  BY <1>6, <1>15, <1>16 DEF Chained
<1>18. rem \notin Blocks /\ ~l[b].free /\ l[b].size = n
  BY <1>3, <1>7
<1>19. \A c \in Blocks \ {b} : l[c].size = blk[c].size /\ l[c].free = blk[c].free
  BY <1>7
<1> QED
  BY <1>4, <1>8, <1>17, <1>18, <1>19 DEF l, t, rem, SplitOff

\* m is l with the block that follows b merged into b.
Swallowed(m, l, b) ==
  /\ l[b].next \in DOMAIN l /\ l[b].next # b /\ l[b].next = Ending(l, b)
  /\ DOMAIN m = DOMAIN l \ {l[b].next}
  /\ Ending(m, b) = Ending(l, l[b].next) /\ m[b].free = l[b].free
  /\ \A c \in DOMAIN l \ {b, l[b].next} : m[c].size = l[c].size /\ m[c].free = l[c].free

LEMMA MergeKeeps ==
  ASSUME NEW l, NEW h, NEW t, Chained(l, h, t), NEW b \in DOMAIN l, mergeable(l, b)
  PROVE /\ Chained(merge(l, b), h, IF l[b].next = t THEN b ELSE t)
        /\ Swallowed(merge(l, b), l, b)
<1> DEFINE dead == l[b].next
           nn == l[dead].next
           m == merge(l, b)
           e == IF dead = t THEN b ELSE t
<1>0. HDR \in Nat \ {0} /\ Null \in Nat
  BY Pages, HeapAssumption
<1>1. l \in [DOMAIN l -> Header] /\ DOMAIN l \subseteq Nat /\ Null \notin DOMAIN l
      /\ \A c \in DOMAIN l : Follows(l, h, t, c)
  BY DEF Chained
<1>2. /\ dead \in DOMAIN l /\ dead > b /\ dead # Null /\ l[dead].prev = b /\ Ending(l, b) = dead
      /\ \A c \in DOMAIN l : c > b => c >= dead
  BY <1>1 DEF mergeable, touches, Follows, Ending
<1>3. b \in Nat /\ dead \in Nat /\ b # Null /\ l[b] \in Header /\ l[dead] \in Header /\ nn \in Nat
  BY <1>1, <1>2 DEF Header
<1>4. /\ nn = Null => t = dead /\ \A c \in DOMAIN l : c <= dead
      /\ nn # Null => /\ nn \in DOMAIN l /\ nn > dead /\ nn # b /\ l[nn].prev = dead /\ Ending(l, dead) <= nn
                      /\ \A c \in DOMAIN l : c > dead => c >= nn
  BY <1>1, <1>2, <1>3 DEF Follows
<1>5. /\ DOMAIN m = DOMAIN l \ {dead}
      /\ b \in DOMAIN m
      /\ m[b] = [l[b] EXCEPT !.size = @ + HDR + l[dead].size, !.next = nn]
      /\ nn # Null => m[nn] = [l[nn] EXCEPT !.prev = b] /\ nn \in DOMAIN m
      /\ \A c \in DOMAIN m \ {b, nn} : m[c] = l[c]
  <2>1. DOMAIN m = DOMAIN l \ {dead} /\ b \in DOMAIN m
    BY <1>2, <1>3 DEF merge
  <2>2. m[b] = [l[b] EXCEPT !.size = @ + HDR + l[dead].size, !.next = nn]
    BY <2>1 DEF merge
  <2>3. ASSUME nn # Null PROVE m[nn] = [l[nn] EXCEPT !.prev = b] /\ nn \in DOMAIN m
    BY <1>3, <1>4, <2>1, <2>3 DEF merge
  <2>4. ASSUME NEW c \in DOMAIN m \ {b, nn} PROVE m[c] = l[c]
    BY <2>1 DEF merge
  <2> HIDE DEF m
  <2> QED
    BY <2>1, <2>2, <2>3, <2>4
<1>6. m = [x \in DOMAIN m |-> m[x]]
  BY DEF merge
<1> HIDE DEF dead, nn, m, e
<1>7. \A c \in DOMAIN m : /\ m[c] \in Header
                          /\ m[c].prev = IF c = nn THEN b ELSE l[c].prev
                          /\ m[c].next = IF c = b THEN nn ELSE l[c].next
                          /\ m[c].size = IF c = b THEN l[b].size + HDR + l[dead].size ELSE l[c].size
                          /\ m[c].free = l[c].free
  <2> TAKE c \in DOMAIN m
  <2>1. l[c] \in Header /\ c \in DOMAIN l /\ c # Null
    BY <1>1, <1>5
  <2>2. CASE c = b
    <3>1. c # nn
      BY <2>2, <1>3, <1>4
    <3>2. l[b].size + HDR + l[dead].size \in Nat
      BY <1>0, <1>3 DEF Header
    <3> QED
      BY <2>2, <3>1, <3>2, <1>3, <1>5 DEF Header
  <2>3. CASE c = nn
    <3>1. m[c] = [l[c] EXCEPT !.prev = b] /\ c # b
      BY <2>1, <2>3, <1>4, <1>5
    <3> QED
      BY <3>1, <2>1, <2>3, <1>3 DEF Header
  <2>4. CASE c # b /\ c # nn
    BY <2>1, <2>4, <1>5
  <2> QED
    BY <2>2, <2>3, <2>4
<1>8. Ending(m, b) = Ending(l, dead)
  BY <1>0, <1>2, <1>3, <1>5, <1>7 DEF Ending, Header
<1>9. t \in DOMAIN l /\ h \in DOMAIN l /\ h # dead /\ l[t].next = Null
  <2>1. h # dead
    BY <1>1, <1>2, <1>3 DEF Follows
  <2> QED
    BY <1>1, <2>1 DEF Chained
<1>10. Follows(m, h, e, b)
  <2>1. nn = Null => e = b /\ \A c \in DOMAIN m : c <= b
    <3>1. ASSUME NEW c \in DOMAIN m, nn = Null PROVE c <= b
      BY <3>1, <1>1, <1>2, <1>3, <1>4, <1>5
    <3> QED
      BY <3>1, <1>4 DEF e
  <2>2. nn # Null => /\ nn \in DOMAIN m /\ nn > b /\ m[nn].prev = b /\ Ending(m, b) <= nn
                     /\ \A c \in DOMAIN m : c > b => c >= nn
    <3>1. ASSUME NEW c \in DOMAIN m, c > b, nn # Null PROVE c >= nn
      <4>1. c \in DOMAIN l /\ c # dead /\ c \in Nat /\ c >= dead
        BY <3>1, <1>1, <1>2, <1>5
      <4> QED
        BY <4>1, <3>1, <1>3, <1>4
    <3> QED
      BY <3>1, <1>2, <1>3, <1>4, <1>5, <1>7, <1>8
  <2>3. m[b].next = nn /\ m[b].prev = l[b].prev
    BY <1>3, <1>4, <1>5, <1>7
  <2>4. l[b].prev = Null <=> h = b
    BY <1>1 DEF Follows
  <2>5. l[b].prev # Null => l[b].prev \in DOMAIN m /\ m[l[b].prev].next = b
    <3>1. l[b].prev # Null => l[b].prev \in DOMAIN l /\ l[l[b].prev].next = b
      BY <1>1 DEF Follows
    <3>2. l[b].prev # Null => l[b].prev # b /\ l[b].prev # dead
      BY <3>1, <1>2, <1>3, <1>4 DEF dead, nn
    <3> QED
      BY <3>1, <3>2, <1>5, <1>7
  <2> QED
    BY <2>1, <2>2, <2>3, <2>4, <2>5 DEF Follows
<1>11. ASSUME NEW c \in DOMAIN m, c # b PROVE Follows(m, h, e, c)
  <2>1. Follows(l, h, t, c) /\ c \in DOMAIN l /\ c # dead /\ c \in Nat /\ c # Null
    BY <1>1, <1>5, <1>11
  <2>2. m[c].next = l[c].next /\ m[c].size = l[c].size
    BY <1>7, <1>11
  <2>3. l[c].next # dead
    BY <2>1, <1>2, <1>11 DEF Follows
  <2>4. l[c].next = Null => e = c /\ \A d \in DOMAIN m : d <= c
    <3>1. l[c].next = Null => t = c /\ \A d \in DOMAIN l : d <= c
      BY <2>1 DEF Follows
    <3> QED
      BY <3>1, <2>1, <1>5 DEF e
  <2>5. ASSUME l[c].next # Null
        PROVE /\ l[c].next \in DOMAIN m /\ l[c].next > c
              /\ \A d \in DOMAIN m : d > c => d >= l[c].next
              /\ m[l[c].next].prev = c /\ Ending(m, c) <= l[c].next
    <3>1. /\ l[c].next \in DOMAIN l /\ l[c].next > c /\ \A d \in DOMAIN l : d > c => d >= l[c].next
          /\ l[l[c].next].prev = c /\ Ending(l, c) <= l[c].next
      BY <2>1, <2>5 DEF Follows
    <3>2. l[c].next # nn
      BY <3>1, <2>1, <2>5, <1>4
    <3>3. l[c].next \in DOMAIN m
      BY <3>1, <2>3, <1>5
    <3> QED
      BY <3>1, <3>2, <3>3, <2>2, <1>5, <1>7 DEF Ending
  <2>6. m[c].prev = Null <=> h = c
    <3>1. l[c].prev = Null <=> h = c
      BY <2>1 DEF Follows
    <3>2. c = nn => l[c].prev = dead /\ dead # Null /\ b # Null
      BY <2>1, <1>2, <1>3, <1>4
    <3> QED
      BY <3>1, <3>2, <1>7
  <2>7. m[c].prev # Null => m[c].prev \in DOMAIN m /\ m[m[c].prev].next = c
    <3>1. CASE c = nn
      BY <3>1, <1>5, <1>7
    <3>2. CASE c # nn
      <4>1. m[c].prev = l[c].prev
        BY <3>2, <1>7
      <4>2. l[c].prev # Null => l[c].prev \in DOMAIN l /\ l[l[c].prev].next = c
        BY <2>1 DEF Follows
      <4>3. l[c].prev # Null => l[c].prev # dead /\ l[c].prev # b
        BY <4>2, <3>2, <2>1 DEF nn, dead
      <4> QED
        BY <4>1, <4>2, <4>3, <1>5, <1>7
    <3> QED
      BY <3>1, <3>2
  <2> QED
    BY <2>2, <2>4, <2>5, <2>6, <2>7 DEF Follows
<1>12. h \in DOMAIN m /\ e \in DOMAIN m /\ m[e].next = Null
  <2>1. CASE dead = t
    <3>1. nn = Null
      BY <2>1, <1>9 DEF nn
    <3> QED
      BY <2>1, <3>1, <1>5, <1>7, <1>9 DEF e
  <2>2. CASE dead # t
    <3>1. t # b
      BY <1>2, <1>9 DEF dead
    <3> QED
      BY <2>2, <3>1, <1>5, <1>7, <1>9 DEF e
  <2> QED
    BY <2>1, <2>2
<1>13. \A c \in DOMAIN m : Follows(m, h, e, c)
  BY <1>10, <1>11
<1>14. m \in [DOMAIN m -> Header]
  BY <1>6, <1>7
<1>15. DOMAIN m \subseteq Nat /\ Null \notin DOMAIN m
  BY <1>1, <1>5
<1>16. e # Null /\ h # Null
  BY <1>12, <1>15
<1>17. Chained(m, h, e)
  BY <1>12, <1>13, <1>14, <1>15, <1>16 DEF Chained
<1>18. dead # b /\ \A c \in DOMAIN l \ {b, dead} : m[c].size = l[c].size /\ m[c].free = l[c].free
  BY <1>2, <1>3, <1>5, <1>7
<1>19. m[b].free = l[b].free
  BY <1>5, <1>7
<1>20. b # dead /\ dead = Ending(l, b) /\ dead \in DOMAIN l
  BY <1>2, <1>18
<1> QED
  BY <1>5, <1>8, <1>17, <1>18, <1>19, <1>20 DEF m, e, dead, Swallowed

\* The units the blocks of a list take up.
Cover(l) == {u \in Nat : \E b \in DOMAIN l : b <= u /\ u < Ending(l, b)}

LEMMA MergeCovers ==
  ASSUME NEW l, NEW h, NEW t, Chained(l, h, t), NEW b \in DOMAIN l, mergeable(l, b)
  PROVE Cover(merge(l, b)) = Cover(l)
<1> DEFINE dead == l[b].next
           m == merge(l, b)
<1>1. /\ dead \in DOMAIN l /\ dead # b /\ dead = Ending(l, b)
      /\ DOMAIN m = DOMAIN l \ {dead}
      /\ Ending(m, b) = Ending(l, dead)
      /\ \A c \in DOMAIN l \ {b, dead} : m[c].size = l[c].size
  <2>1. Swallowed(merge(l, b), l, b)
    BY MergeKeeps
  <2> QED
    BY <2>1 DEF Swallowed
<1>2. HDR \in Nat \ {0} /\ b \in Nat /\ DOMAIN l \subseteq Nat /\ l[b].size \in Nat /\ l[dead].size \in Nat
  BY <1>1, HeapAssumption DEF Chained, Header
<1>3. \A c \in DOMAIN l \ {b, dead} : Ending(m, c) = Ending(l, c)
  BY <1>1 DEF Ending
<1>4. b < dead /\ dead < Ending(l, dead) /\ Ending(l, dead) \in Nat /\ dead \in Nat
  BY <1>1, <1>2 DEF Ending
<1> HIDE DEF m, dead
<1>5. ASSUME NEW u \in Nat, NEW c \in DOMAIN m, c <= u, u < Ending(m, c)
      PROVE u \in Cover(l)
  <2>1. CASE c = b
    <3>1. CASE u < dead
      BY <3>1, <2>1, <1>1, <1>5 DEF Cover
    <3>2. CASE u >= dead
      BY <3>2, <2>1, <1>1, <1>5 DEF Cover
    <3> QED
      BY <3>1, <3>2, <1>4
  <2>2. CASE c # b
    BY <2>2, <1>1, <1>3, <1>5 DEF Cover
  <2> QED
    BY <2>1, <2>2
<1>6. ASSUME NEW u \in Nat, NEW c \in DOMAIN l, c <= u, u < Ending(l, c)
      PROVE u \in Cover(m)
  <2>1. CASE c = b \/ c = dead
    <3>1. b <= u /\ u < Ending(m, b)
      BY <2>1, <1>1, <1>2, <1>4, <1>6
    <3> QED
      BY <3>1, <1>1 DEF Cover
  <2>2. CASE c # b /\ c # dead
    BY <2>2, <1>1, <1>3, <1>6 DEF Cover
  <2> QED
    BY <2>1, <2>2
<1>7. Cover(m) = Cover(l)
  BY <1>5, <1>6 DEF Cover
<1> QED
  BY <1>7 DEF m
LEMMA MarkedCovers ==
  ASSUME NEW l, NEW h, NEW t, Chained(l, h, t), NEW b \in DOMAIN l, NEW v \in BOOLEAN
  PROVE Cover([l EXCEPT ![b].free = v]) = Cover(l)
<1> DEFINE m == [l EXCEPT ![b].free = v]
<1>1. DOMAIN m = DOMAIN l /\ \A c \in DOMAIN l : m[c].size = l[c].size
  BY DEF Chained, Header
<1> HIDE DEF m
<1>2. Cover(m) = Cover(l)
  BY <1>1 DEF Cover, Ending
<1> QED
  BY <1>2 DEF m

LEMMA SplitCovers ==
  ASSUME Chained(blk, head, tail), NEW b \in Blocks, NEW n \in Nat, NEW m, SplitOff(m, b, n), splits(b, n)
  PROVE Cover(m) = Cover(blk)
<1> DEFINE rem == b + HDR + n
<1>1. HDR \in Nat \ {0} /\ b \in Nat /\ blk[b].size \in Nat /\ Blocks \subseteq Nat
  BY HeapAssumption DEF Chained, Header, Blocks
<1>2. /\ DOMAIN m = Blocks \cup {rem} /\ rem \notin Blocks
      /\ Ending(m, b) = rem /\ Ending(m, rem) = Ending(blk, b)
      /\ \A c \in Blocks \ {b} : Ending(m, c) = Ending(blk, c)
  BY <1>1 DEF SplitOff, Ending, splits
<1>3. rem \in Nat /\ b < rem /\ rem < Ending(blk, b) /\ Ending(blk, b) \in Nat
  BY <1>1 DEF splits, Ending
<1> HIDE DEF rem
<1>4. ASSUME NEW u \in Nat, NEW c \in DOMAIN m, c <= u, u < Ending(m, c)
      PROVE u \in Cover(blk)
  <2>1. CASE c = b \/ c = rem
    <3>1. b <= u /\ u < Ending(blk, b)
      BY <2>1, <1>1, <1>2, <1>3, <1>4
    <3> QED
      BY <3>1 DEF Cover, Blocks
  <2>2. CASE c # b /\ c # rem
    BY <2>2, <1>2, <1>4 DEF Cover, Blocks
  <2> QED
    BY <2>1, <2>2
<1>5. ASSUME NEW u \in Nat, NEW c \in Blocks, c <= u, u < Ending(blk, c)
      PROVE u \in Cover(m)
  <2>1. CASE c = b
    <3>1. CASE u < rem
      BY <3>1, <2>1, <1>2, <1>5 DEF Cover
    <3>2. CASE u >= rem
      BY <3>2, <2>1, <1>2, <1>5 DEF Cover
    <3> QED
      BY <3>1, <3>2, <1>3
  <2>2. CASE c # b
    BY <2>2, <1>2, <1>5 DEF Cover
  <2> QED
    BY <2>1, <2>2
<1> QED
  BY <1>4, <1>5 DEF Cover, Blocks

LEMMA GrownCovers ==
  ASSUME NEW b \in Nat, NEW n \in Nat, Grown(b, n)
  PROVE Cover(blk') = Cover(blk) \cup {u \in Nat : b <= u /\ u < b + HDR + n}
<1>1. Ending(blk', b) = b + HDR + n /\ \A c \in Blocks : Ending(blk', c) = Ending(blk, c)
  BY DEF Grown, Ending
<1> QED
  BY <1>1 DEF Grown, Cover, Blocks

LEMMA CoalescedKeeps ==
  ASSUME NEW l, NEW h, NEW t, Chained(l, h, t), NEW b \in DOMAIN l
  PROVE /\ Chained(coalesced(l, b), h, IF mergeable(l, b) /\ l[b].next = t THEN b ELSE t)
        /\ mergeable(l, b) => Swallowed(coalesced(l, b), l, b) /\ l[l[b].next].free
        /\ ~mergeable(l, b) => coalesced(l, b) = l
        /\ Cover(coalesced(l, b)) = Cover(l)
<1>1. CASE mergeable(l, b)
  <2>1. coalesced(l, b) = merge(l, b) /\ l[l[b].next].free
    BY <1>1 DEF coalesced, mergeable
  <2>2. Chained(merge(l, b), h, IF l[b].next = t THEN b ELSE t) /\ Swallowed(merge(l, b), l, b)
    BY <1>1, MergeKeeps
  <2>3. Cover(merge(l, b)) = Cover(l)
    BY <1>1, MergeCovers
  <2> QED
    BY <1>1, <2>1, <2>2, <2>3
<1>2. CASE ~mergeable(l, b)
  BY <1>2 DEF coalesced
<1> QED
  BY <1>1, <1>2
\* The same blocks are in use, with the same sizes.
InUse(l) == {x \in DOMAIN l : ~l[x].free}

SameHeld(m, l) == InUse(m) = InUse(l) /\ \A x \in InUse(l) : m[x].size = l[x].size

LEMMA CoalescedHeld ==
  ASSUME NEW l, NEW h, NEW t, Chained(l, h, t), NEW b \in DOMAIN l, l[b].free
  PROVE SameHeld(coalesced(l, b), l)
<1>1. CASE mergeable(l, b)
  <2>1. Swallowed(coalesced(l, b), l, b) /\ l[l[b].next].free
    BY <1>1, CoalescedKeeps
  <2> QED
    BY <2>1 DEF Swallowed, SameHeld, InUse
<1>2. CASE ~mergeable(l, b)
  <2>1. coalesced(l, b) = l
    BY <1>2, CoalescedKeeps
  <2> QED
    BY <2>1 DEF SameHeld
<1> QED
  BY <1>1, <1>2

LEMMA FreeKeeps ==
  ASSUME Chained(blk, head, tail), NEW c, NEW b \in Blocks, kfree(c, b)
  PROVE /\ Chained(blk', head', tail')
        /\ Cover(blk') = Cover(blk)
        /\ InUse(blk') = InUse(blk) \ {b}
        /\ \A x \in InUse(blk') : blk'[x].size = blk[x].size
<1> DEFINE freed == [blk EXCEPT ![b].free = TRUE]
           once == coalesced(freed, b)
           p == once[b].prev
           t1 == IF mergeable(freed, b) /\ freed[b].next = tail THEN b ELSE tail
           both == IF p # Null /\ once[p].free THEN coalesced(once, p) ELSE once
<1>1. /\ blk' = both /\ head' = head
      /\ tail' = IF tail \in DOMAIN both THEN tail ELSE IF b \in DOMAIN both THEN b ELSE p
  BY DEF kfree
<1>2. Chained(freed, head, tail) /\ Cover(freed) = Cover(blk)
  BY Marked, MarkedCovers DEF Blocks
<1>3. /\ DOMAIN freed = Blocks /\ freed[b].free
      /\ InUse(freed) = InUse(blk) \ {b}
      /\ \A x \in InUse(freed) : freed[x].size = blk[x].size
  BY DEF Chained, Header, Blocks, InUse
<1> HIDE DEF freed
<1>4. /\ Chained(once, head, t1) /\ Cover(once) = Cover(blk) /\ SameHeld(once, freed)
      /\ mergeable(freed, b) => Swallowed(once, freed, b)
      /\ ~mergeable(freed, b) => once = freed
  BY <1>2, <1>3, CoalescedKeeps, CoalescedHeld
<1>5. /\ b \in DOMAIN once
      /\ tail \notin DOMAIN once => t1 = b
      /\ tail \in DOMAIN once => t1 = tail
      /\ DOMAIN once \subseteq Blocks
  <2>1. tail \in Blocks
    BY DEF Chained, Blocks
  <2>2. CASE mergeable(freed, b)
    BY <2>1, <2>2, <1>3, <1>4 DEF Swallowed
  <2>3. CASE ~mergeable(freed, b)
    BY <2>1, <2>3, <1>3, <1>4
  <2> QED
    BY <2>2, <2>3
<1> HIDE DEF once, t1
<1>6. p # Null => p \in DOMAIN once /\ once[p].next = b
  BY <1>4, <1>5 DEF Chained, Follows
<1>7. CASE p # Null /\ once[p].free /\ mergeable(once, p)
  <2>1. both = coalesced(once, p) /\ p \in DOMAIN once /\ once[p].next = b
    BY <1>6, <1>7
  <2>2. /\ Chained(both, head, IF b = t1 THEN p ELSE t1)
        /\ Cover(both) = Cover(once) /\ SameHeld(both, once) /\ Swallowed(both, once, p)
    BY <2>1, <1>4, <1>7, CoalescedKeeps, CoalescedHeld
  <2>3. DOMAIN both = DOMAIN once \ {b}
    BY <2>1, <2>2 DEF Swallowed
  <2>4. tail' = IF b = t1 THEN p ELSE t1
    BY <2>3, <1>1, <1>5
  <2> QED
    BY <2>2, <2>4, <1>1, <1>3, <1>4 DEF SameHeld
<1>8. CASE ~(p # Null /\ once[p].free /\ mergeable(once, p))
  <2>1. both = once
    <3>1. CASE p # Null /\ once[p].free
      BY <3>1, <1>8 DEF coalesced
    <3>2. CASE ~(p # Null /\ once[p].free)
      BY <3>2
    <3> QED
      BY <3>1, <3>2
  <2>2. tail' = t1
    BY <2>1, <1>1, <1>5
  <2> QED
    BY <2>1, <2>2, <1>1, <1>3, <1>4 DEF SameHeld
<1> QED
  BY <1>7, <1>8
-----------------------------------------------------------------------------
\* The invariant of the heap.

CallType ==
  call \in [Caller -> [at : {"idle", "scan", "grow"}, size : Nat, need : Nat, start : Nat, run : Nat, page : Nat]]

\* Masked, one call runs at a time; it asks for something.
OneCall ==
  /\ \A c, d \in Caller : call[c].at # "idle" /\ call[d].at # "idle" => c = d
  /\ \A c \in Caller : call[c].at # "idle" => call[c].size > 0

\* Pages of the memory map that the boot code has not kept.
Poolable == Usable \ Bitmap

BootUsed == (Frame \ Usable) \cup Bitmap \subseteq used

\* The run being collected lies between the heap and the cursor.
RunAbove ==
  \A c \in Caller : call[c].run > 0 =>
    /\ call[c].at = "grow"
    /\ call[c].start + call[c].run <= cursor
    /\ \A u \in Cover(blk) : u < Page(call[c].start)
    /\ \A f \in Frame : call[c].start <= f /\ f < call[c].start + call[c].run => f \in used /\ f \in Poolable

CoverBelow == \A u \in Cover(blk) : u < Page(cursor)

InPage(u, f) == Page(f) <= u /\ u < Page(f) + PAGE

\* The heap consists of whole pages.
WholePages ==
  \A f \in Frame : (\E u \in Cover(blk) : InPage(u, f)) =>
    f \in used /\ f \in Poolable /\ \A u \in Nat : InPage(u, f) => u \in Cover(blk)

Held == DOMAIN live = InUse(blk) /\ \A b \in DOMAIN live : blk[b].size >= live[b]

HeapInv ==
  /\ Chained(blk, head, tail)
  /\ Above
  /\ BootUsed
  /\ CallType
  /\ OneCall
  /\ RunAbove
  /\ CoverBelow
  /\ WholePages
  /\ Held

LEMMA RunOfPages ==
  ASSUME NEW f \in Nat, NEW s \in Nat, NEW r \in Nat, NEW u \in Nat, InPage(u, f)
  PROVE (Page(s) <= u /\ u < Page(s) + r * PAGE) <=> (s <= f /\ f < s + r)
<1>1. /\ Page(f) \in Nat /\ Page(f + 1) = Page(f) + PAGE /\ Page(s) \in Nat /\ Page(s + r) \in Nat
      /\ Page(s + r) = Page(s) + r * PAGE /\ f + 1 \in Nat /\ s + r \in Nat /\ Page(f + 1) \in Nat
  <2>1. f + 1 \in Nat /\ s + r \in Nat
    OBVIOUS
  <2>2. Page(f + 1) \in Nat /\ Page(s + r) \in Nat /\ Page(f) \in Nat /\ Page(s) \in Nat
    BY <2>1, Pages
  <2>3. Page(f + 1) = Page(f) + PAGE
    BY Pages
  <2>4. Page(s + r) = Page(s) + r * PAGE
    BY Pages
  <2> QED
    BY <2>1, <2>2, <2>3, <2>4
<1>2. f < s => Page(f + 1) <= Page(s)
  BY <1>1, Pages
<1>3. f >= s => Page(s) <= Page(f)
  BY <1>1, Pages
<1>4. f < s + r => Page(f + 1) <= Page(s + r)
  BY <1>1, Pages
<1>5. f >= s + r => Page(s + r) <= Page(f)
  BY <1>1, Pages
<1>6. PAGE \in Nat
  BY HeapAssumption
<1> HIDE DEF Page
<1>7. Page(s) <= u <=> s <= f
  BY <1>1, <1>2, <1>3, <1>6 DEF InPage
<1>8. u < Page(s + r) <=> f < s + r
  BY <1>1, <1>4, <1>5, <1>6 DEF InPage
<1> QED
  BY <1>1, <1>7, <1>8

\* The run appended covers the pages collected.
LEMMA RunAppended ==
  ASSUME HeapInv, NEW c \in Caller, call[c].run > 0, append_run(c)
  PROVE /\ Chained(blk', head', tail')
        /\ Cover(blk') = Cover(blk) \cup
             {u \in Nat : Page(call[c].start) <= u /\ u < Page(call[c].start) + call[c].run * PAGE}
        /\ InUse(blk') = InUse(blk)
        /\ \A b \in InUse(blk) : blk'[b].size = blk[b].size
        /\ \A u \in Cover(blk') : u < Page(cursor)
<1> DEFINE s == call[c].start
           r == call[c].run
           n == r * PAGE - HDR
<1>1. s \in Nat /\ r \in Nat \ {0} /\ s + r <= cursor /\ cursor \in 0 .. Frames
      /\ PAGE \in Nat /\ HDR \in Nat \ {0} /\ HDR < PAGE /\ Frames \in Nat
  BY HeapAssumption, FrameAssumption DEF HeapInv, CallType, RunAbove, Above
<1>2. n \in Nat
  <2>1. r * PAGE >= PAGE /\ r * PAGE \in Nat
    <3>1. r - 1 \in Nat /\ (r - 1) * PAGE \in Nat
      BY <1>1
    <3>2. r * PAGE = (r - 1) * PAGE + PAGE
      BY <1>1
    <3> QED
      BY <3>1, <3>2, <1>1
  <2> QED
    BY <2>1, <1>1
<1>3. /\ Page(s) \in Nat /\ Page(s + r) = Page(s) + r * PAGE /\ Page(s + r) <= Page(cursor)
      /\ Page(cursor) <= Page(Frames) /\ Null = Page(Frames) + 1 /\ Page(cursor) \in Nat /\ Page(Frames) \in Nat
  <2>1. s + r \in Nat /\ cursor \in Nat /\ cursor <= Frames
    BY <1>1
  <2>2. Page(s) \in Nat /\ Page(cursor) \in Nat /\ Page(Frames) \in Nat
    BY <1>1, <2>1, Pages
  <2>3. Page(s + r) = Page(s) + r * PAGE
    BY <1>1, Pages
  <2>4. Page(s + r) <= Page(cursor) /\ Page(cursor) <= Page(Frames)
    BY <1>1, <2>1, Pages
  <2>5. Null = Page(Frames) + 1
    BY Pages
  <2> QED
    BY <2>2, <2>3, <2>4, <2>5
<1>4. Page(s) < Null /\ Page(s) + HDR + n = Page(s) + r * PAGE
  BY <1>1, <1>2, <1>3
<1>5. \A d \in Blocks : End(d) <= Page(s)
  <2> TAKE d \in Blocks
  <2>1. d \in Nat /\ blk[d].size \in Nat
    BY DEF HeapInv, Chained, Header, Blocks
  <2>2. End(d) - 1 \in Cover(blk)
    BY <2>1, <1>1 DEF Cover, End, Ending, Blocks
  <2>3. End(d) - 1 < Page(s)
    BY <2>2, <1>1 DEF HeapInv, RunAbove
  <2> QED
    BY <2>1, <2>3, <1>1, <1>3 DEF End
<1>6. append_block(Page(s), n)
  BY DEF append_run
<1> HIDE DEF n, s, r
<1>7. Chained(blk', head', tail') /\ Grown(Page(s), n)
  BY <1>2, <1>3, <1>4, <1>5, <1>6, AppendKeeps DEF HeapInv
<1>8. Cover(blk') = Cover(blk) \cup {u \in Nat : Page(s) <= u /\ u < Page(s) + HDR + n}
  BY <1>2, <1>3, <1>7, GrownCovers
<1>9. InUse(blk') = InUse(blk) /\ \A b \in InUse(blk) : blk'[b].size = blk[b].size
  BY <1>7 DEF Grown, InUse, Blocks
<1>10. \A u \in Cover(blk') : u < Page(cursor)
  BY <1>1, <1>3, <1>4, <1>8 DEF HeapInv, CoverBelow
<1> QED
  BY <1>4, <1>7, <1>8, <1>9, <1>10 DEF s, r
-----------------------------------------------------------------------------
\* Its steps.

LEMMA HeapStart == Init => HeapInv
<1> SUFFICES ASSUME Init PROVE HeapInv
  OBVIOUS
<1>1. /\ blk = <<>> /\ head = Null /\ tail = Null /\ live = <<>>
      /\ call = [c \in Caller |-> Idle]
      /\ used = (Frame \ Usable) \cup Bitmap /\ cursor = 0
  BY DEF Init, heap_init, pmm_init
<1>2. DOMAIN blk = {} /\ DOMAIN live = {} /\ blk \in [DOMAIN blk -> Header]
  BY <1>1
<1>3. Chained(blk, head, tail) /\ Cover(blk) = {} /\ InUse(blk) = {}
  BY <1>1, <1>2 DEF Chained, Cover, InUse
<1>4. Above /\ BootUsed
  BY <1>1, FrameAssumption DEF Above, BootUsed, Frame
<1>5. CallType /\ OneCall /\ \A c \in Caller : call[c].run = 0
  BY <1>1 DEF CallType, OneCall, Idle
<1> QED
  BY <1>2, <1>3, <1>4, <1>5 DEF HeapInv, RunAbove, CoverBelow, WholePages, Held

\* The pages of the heap, the run included.
CoverFrames == {f \in Frame : \E u \in Cover(blk) : InPage(u, f)}

\* What the heap gains was free before.
Gain == CoverFrames' \cup RunFrames' \subseteq CoverFrames \cup RunFrames \cup (used' \ used)

LEMMA IdleRuns == HeapInv => \A c \in Caller : call[c].at # "grow" => call[c].run = 0
  BY DEF HeapInv, RunAbove, CallType

\* Another client takes a page.
LEMMA OtherAlloc ==
  ASSUME HeapInv, NEW f \in Frame, pmm_alloc_page(f), UNCHANGED heapVars
  PROVE HeapInv' /\ Gain
<1>1. /\ blk' = blk /\ head' = head /\ tail' = tail /\ call' = call /\ live' = live
      /\ Cover(blk') = Cover(blk) /\ InUse(blk') = InUse(blk)
  BY DEF heapVars
<1>2. Above' /\ f >= cursor /\ cursor' = f + 1 /\ used' = used \cup {f} /\ f \notin used
  BY AllocUp DEF HeapInv
<1>3. cursor \in Nat /\ cursor' \in Nat /\ cursor <= cursor'
  BY <1>2, FrameAssumption DEF HeapInv, Above, Frame
<1>4. Page(cursor) <= Page(cursor') /\ Page(cursor) \in Nat /\ Page(cursor') \in Nat
  BY <1>3, Pages
<1>5. Chained(blk, head, tail)' /\ BootUsed' /\ CallType' /\ OneCall' /\ WholePages' /\ Held'
  BY <1>1, <1>2 DEF HeapInv, Chained, Follows, Ending, BootUsed, CallType, OneCall, WholePages, Held, Cover, InUse
<1>6. RunAbove'
  <2> SUFFICES ASSUME NEW c \in Caller, call[c].run > 0
               PROVE /\ call[c].at = "grow" /\ call[c].start + call[c].run <= cursor'
                     /\ \A u \in Cover(blk) : u < Page(call[c].start)
                     /\ \A g \in Frame : call[c].start <= g /\ g < call[c].start + call[c].run =>
                          g \in used' /\ g \in Poolable
    BY <1>1 DEF RunAbove
  <2>1. call[c].start \in Nat /\ call[c].run \in Nat
    BY DEF HeapInv, CallType
  <2> QED
    BY <2>1, <1>2, <1>3 DEF HeapInv, RunAbove
<1>7. CoverBelow'
  BY <1>1, <1>4 DEF HeapInv, CoverBelow, Cover
<1>8. Gain
  BY <1>1 DEF Gain, CoverFrames, RunFrames
<1> QED
  BY <1>2, <1>5, <1>6, <1>7, <1>8 DEF HeapInv

\* The call is made, the scan misses, or no page is left.
LEMMA CallOnly ==
  ASSUME HeapInv, UNCHANGED <<pmmVars, blk, head, tail, live>>,
         NEW c \in Caller, \A d \in Caller \ {c} : call[d].at = "idle",
         call[c].run = 0,
         NEW k \in [at : {"idle", "scan", "grow"}, size : Nat, need : Nat, start : Nat, run : {0}, page : Nat],
         k.at # "idle" => k.size > 0, call' = [call EXCEPT ![c] = k]
  PROVE HeapInv' /\ Gain
<1>1. blk' = blk /\ head' = head /\ tail' = tail /\ live' = live /\ used' = used /\ cursor' = cursor
      /\ Cover(blk') = Cover(blk) /\ InUse(blk') = InUse(blk)
  BY DEF pmmVars
<1>2. CallType' /\ call'[c] = k /\ \A d \in Caller \ {c} : call'[d] = call[d]
  BY DEF HeapInv, CallType
<1>3. OneCall'
  BY <1>2 DEF OneCall
<1>4. RunAbove'
  <2>1. \A d \in Caller : call'[d].run > 0 => call'[d] = call[d]
    BY <1>2
  <2> QED
    BY <2>1, <1>1 DEF HeapInv, RunAbove
<1>5. Chained(blk, head, tail)' /\ Above' /\ BootUsed' /\ CoverBelow' /\ WholePages' /\ Held'
  BY <1>1 DEF HeapInv, Chained, Follows, Ending, Above, BootUsed, CoverBelow, WholePages, Held, Cover, InUse
<1>6. \A d \in Caller : call'[d].run = 0 \/ call'[d] = call[d]
  BY <1>2
<1>7. \A d \in Caller : call'[d].start .. call'[d].start + call'[d].run - 1
                         \subseteq call[d].start .. call[d].start + call[d].run - 1
  <2> TAKE d \in Caller
  <2>1. call'[d].start \in Nat
    BY <1>2 DEF CallType
  <2> QED
    BY <2>1, <1>6
<1>8. RunFrames' \subseteq RunFrames
  BY <1>7 DEF RunFrames
<1>9. Gain
  BY <1>1, <1>8 DEF Gain, CoverFrames
<1> QED
  BY <1>2, <1>3, <1>4, <1>5, <1>9 DEF HeapInv
\* A block is taken or given back while nothing is being collected.
LEMMA SameCover ==
  ASSUME HeapInv, UNCHANGED pmmVars, Chained(blk', head', tail'), Cover(blk') = Cover(blk), Held',
         \A d \in Caller : call[d].at # "grow",
         CallType', OneCall', \A d \in Caller : call'[d].run = 0
  PROVE HeapInv' /\ Gain
<1>1. used' = used /\ cursor' = cursor
  BY DEF pmmVars
<1>2. Above' /\ BootUsed'
  BY <1>1 DEF HeapInv, Above, BootUsed
<1>3. RunAbove'
  BY DEF RunAbove
<1>4. CoverBelow' /\ WholePages'
  BY <1>1 DEF HeapInv, CoverBelow, WholePages
<1>5. \A d \in Caller : call'[d].start .. call'[d].start + call'[d].run - 1 = {}
  <2> TAKE d \in Caller
  <2>1. call'[d].start \in Nat /\ call'[d].run = 0
    BY DEF CallType
  <2> QED
    BY <2>1
<1>6. RunFrames' = {}
  BY <1>5 DEF RunFrames
<1>7. Gain
  BY <1>6 DEF Gain, CoverFrames
<1> QED
  BY <1>2, <1>3, <1>4, <1>7 DEF HeapInv

LEMMA FreeStep ==
  ASSUME HeapInv, NEW c \in Caller, NEW b \in DOMAIN live, kfree(c, b),
         \A d \in Caller : call[d].at = "idle"
  PROVE HeapInv' /\ Gain
<1>1. b \in Blocks /\ Chained(blk, head, tail)
  BY DEF HeapInv, Held, InUse, Blocks
<1>2. /\ Chained(blk', head', tail') /\ Cover(blk') = Cover(blk)
      /\ InUse(blk') = InUse(blk) \ {b} /\ \A x \in InUse(blk') : blk'[x].size = blk[x].size
  BY <1>1, FreeKeeps
<1>3. UNCHANGED pmmVars /\ call' = call /\ live' = [x \in DOMAIN live \ {b} |-> live[x]]
  BY DEF kfree, Without
<1>4. Held'
  BY <1>2, <1>3 DEF HeapInv, Held
<1>5. CallType' /\ OneCall' /\ \A d \in Caller : call'[d].run = 0
  BY <1>3, IdleRuns DEF HeapInv, CallType, OneCall
<1> QED
  BY <1>2, <1>3, <1>4, <1>5, SameCover

LEMMA HitStep ==
  ASSUME HeapInv, NEW c \in Caller, scan_hit(c)
  PROVE HeapInv' /\ Gain
<1> DEFINE n == call[c].size
<1>1. n \in Nat \ {0} /\ call[c].at = "scan" /\ \A d \in Caller \ {c} : call[d].at = "idle"
  BY DEF HeapInv, CallType, OneCall, scan_hit
<1>2. PICK b \in Blocks :
        /\ FirstFit(b, n)
        /\ IF splits(b, n) THEN blk' = split(b, n) /\ tail' = moved_tail(b, b + HDR + n)
           ELSE blk' = taken(b) /\ UNCHANGED tail
        /\ live' = [x \in DOMAIN live \cup {b} |-> IF x = b THEN n ELSE live[x]]
  BY DEF scan_hit
<1>3. UNCHANGED pmmVars /\ head' = head /\ call' = [call EXCEPT ![c] = Idle]
  BY DEF scan_hit
<1>4. blk[b].free /\ blk[b].size >= n /\ b \notin InUse(blk)
  BY <1>2 DEF FirstFit, Fits, InUse
<1>5. /\ Chained(blk', head', tail') /\ Cover(blk') = Cover(blk)
      /\ InUse(blk') = InUse(blk) \cup {b} /\ blk'[b].size >= n
      /\ \A x \in InUse(blk) : blk'[x].size = blk[x].size
  <2>1. CASE splits(b, n)
    <3>1. HDR \in Nat \ {0} /\ b \in Nat /\ blk[b].size \in Nat /\ cursor \in Nat /\ cursor <= Frames /\ Frames \in Nat
      BY HeapAssumption, FrameAssumption DEF HeapInv, Chained, Header, Blocks, Above
    <3>2. End(b) < Null
      <4>1. End(b) - 1 \in Cover(blk)
        BY <3>1 DEF Cover, End, Ending, Blocks
      <4>2. End(b) - 1 < Page(cursor)
        BY <4>1 DEF HeapInv, CoverBelow
      <4>3. Page(cursor) <= Page(Frames) /\ Page(cursor) \in Nat /\ Page(Frames) \in Nat
        BY <3>1, Pages
      <4>4. Null = Page(Frames) + 1
        BY Pages
      <4>5. End(b) \in Nat
        BY <3>1 DEF End
      <4> QED
        BY <4>2, <4>3, <4>4, <4>5
    <3>3. Chained(blk', head', tail') /\ SplitOff(blk', b, n)
      BY <1>1, <1>2, <1>3, <2>1, <3>2, SplitKeeps DEF HeapInv
    <3>4. Cover(blk') = Cover(blk)
      BY <3>3, <2>1, <1>1, SplitCovers DEF HeapInv
    <3> QED
      BY <3>3, <3>4, <1>1, <1>4 DEF SplitOff, InUse, Blocks
  <2>2. CASE ~splits(b, n)
    <3>1. blk' = [blk EXCEPT ![b].free = FALSE] /\ tail' = tail /\ b \in DOMAIN blk
      BY <1>2, <2>2 DEF taken, Blocks
    <3>2. Chained(blk', head', tail') /\ Cover(blk') = Cover(blk)
      BY <3>1, <1>3, Marked, MarkedCovers DEF HeapInv
    <3>3. DOMAIN blk' = DOMAIN blk /\ \A x \in DOMAIN blk : /\ blk'[x].size = blk[x].size
                                                            /\ blk'[x].free = (x # b /\ blk[x].free)
      BY <3>1 DEF HeapInv, Chained, Header
    <3> QED
      BY <3>1, <3>2, <3>3, <1>4 DEF InUse
  <2> QED
    BY <2>1, <2>2
<1>6. Held'
  <2>1. DOMAIN live' = DOMAIN live \cup {b} /\ live'[b] = n /\ \A x \in DOMAIN live : x # b => live'[x] = live[x]
    BY <1>2
  <2> QED
    BY <2>1, <1>4, <1>5 DEF HeapInv, Held
<1>7. CallType' /\ OneCall' /\ \A d \in Caller : call'[d].run = 0
  BY <1>1, <1>3, IdleRuns DEF HeapInv, CallType, OneCall, Idle
<1>8. \A d \in Caller : call[d].at # "grow"
  BY <1>1
<1> QED
  BY <1>3, <1>5, <1>6, <1>7, <1>8, SameCover
\* The run appended consists of whole pages, which the heap had already taken.
LEMMA RunWhole ==
  ASSUME HeapInv, NEW c \in Caller, call[c].run > 0, append_run(c), used \subseteq used'
  PROVE WholePages' /\ CoverFrames' \subseteq CoverFrames \cup RunFrames
<1> DEFINE s == call[c].start
           r == call[c].run
<1>1. s \in Nat /\ r \in Nat /\ \A g \in Frame : g \in Nat
  BY FrameAssumption DEF HeapInv, CallType, Frame
<1>2. \A g \in Frame : s <= g /\ g < s + r => g \in used /\ g \in Poolable
  BY DEF HeapInv, RunAbove
<1>3. Cover(blk') = Cover(blk) \cup {u \in Nat : Page(s) <= u /\ u < Page(s) + r * PAGE}
  BY RunAppended
<1> HIDE DEF s, r
<1>4. \A u \in Cover(blk') : u \in Nat
  BY DEF Cover
<1>5. \A g \in Frame : \A u \in Nat :
        InPage(u, g) => ((Page(s) <= u /\ u < Page(s) + r * PAGE) <=> (s <= g /\ g < s + r))
  BY <1>1, RunOfPages
<1>6. \A g \in Frame : \A u \in Cover(blk') :
        InPage(u, g) => u \in Cover(blk) \/ (s <= g /\ g < s + r)
  BY <1>3, <1>4, <1>5
<1>7. ASSUME NEW g \in Frame, NEW u \in Cover(blk'), InPage(u, g)
      PROVE g \in used' /\ g \in Poolable /\ \A v \in Nat : InPage(v, g) => v \in Cover(blk')
  <2>1. CASE u \in Cover(blk)
    BY <2>1, <1>3, <1>7 DEF HeapInv, WholePages
  <2>2. CASE s <= g /\ g < s + r
    BY <2>2, <1>2, <1>3, <1>5
  <2> QED
    BY <2>1, <2>2, <1>6, <1>7
<1>8. ASSUME NEW g \in Frame, NEW u \in Cover(blk'), InPage(u, g)
      PROVE g \in CoverFrames \cup RunFrames
  <2>1. CASE u \in Cover(blk)
    BY <2>1, <1>8 DEF CoverFrames
  <2>2. CASE s <= g /\ g < s + r
    <3>1. g \in s .. s + r - 1
      BY <2>2, <1>1
    <3> QED
      BY <3>1 DEF RunFrames, s, r
  <2> QED
    BY <2>1, <2>2, <1>6, <1>8
<1>9. WholePages'
  BY <1>7 DEF WholePages, InPage
<1>10. CoverFrames' \subseteq CoverFrames \cup RunFrames
  BY <1>8 DEF CoverFrames, InPage
<1> QED
  BY <1>9, <1>10

\* A turn of heap_grow().
LEMMA GrowStepKeeps ==
  ASSUME HeapInv, NEW c \in Caller, grow_page(c)
  PROVE HeapInv' /\ Gain
<1> DEFINE s == call[c].start
           r == call[c].run
<1>1. /\ call \in [Caller -> [at : {"idle", "scan", "grow"}, size : Nat, need : Nat, start : Nat, run : Nat, page : Nat]]
      /\ call[c].at = "grow" /\ call[c].need > 0 /\ live' = live
      /\ \A d \in Caller \ {c} : call[d].at = "idle" /\ call[d].run = 0
  BY IdleRuns DEF HeapInv, CallType, OneCall, grow_page, collect
<1>2. PICK f \in Frame :
        /\ pmm_alloc_page(f)
        /\ IF adjacent(c, f)
           THEN /\ call' = [call EXCEPT ![c].at = "grow", ![c].run = @ + 1, ![c].need = @ - 1]
                /\ UNCHANGED <<blk, head, tail>>
           ELSE /\ call' = [call EXCEPT ![c].at = "grow", ![c].start = f, ![c].run = 1, ![c].need = @ - 1]
                /\ IF call[c].run > 0 THEN append_run(c) ELSE UNCHANGED <<blk, head, tail>>
  BY DEF grow_page, collect
<1>3. /\ Above' /\ f >= cursor /\ cursor' = f + 1 /\ used' = used \cup {f} /\ f \notin used
      /\ f \in Nat /\ cursor \in Nat
  BY <1>2, AllocUp, FrameAssumption DEF HeapInv, Above, Frame
<1>4. f \in Poolable /\ BootUsed'
  BY <1>3 DEF HeapInv, BootUsed, Poolable
<1>5. r > 0 => /\ s + r <= cursor
               /\ \A u \in Cover(blk) : u < Page(s)
               /\ \A g \in Frame : s <= g /\ g < s + r => g \in used /\ g \in Poolable
  BY DEF HeapInv, RunAbove
<1>6. Page(f) \in Nat /\ Page(f + 1) \in Nat /\ Page(cursor) \in Nat /\ Page(cursor) <= Page(f) /\ Page(f) <= Page(f + 1)
  <2>1. f + 1 \in Nat /\ f <= f + 1 /\ cursor <= f
    BY <1>3
  <2> QED
    BY <2>1, <1>3, Pages
<1>7. \A u \in Cover(blk) : u \in Nat /\ u < Page(cursor)
  BY DEF HeapInv, CoverBelow, Cover
<1>8. /\ call'[c].at = "grow" /\ call'[c].size = call[c].size
      /\ \A d \in Caller \ {c} : call'[d] = call[d]
      /\ CallType'
  <2>1. call[c].need - 1 \in Nat /\ call[c].run + 1 \in Nat /\ call[c] \in [at : {"idle", "scan", "grow"}, size : Nat, need : Nat, start : Nat, run : Nat, page : Nat]
    BY <1>1
  <2> QED
    BY <2>1, <1>1, <1>2, <1>3 DEF CallType
<1>9. OneCall'
  BY <1>1, <1>8 DEF HeapInv, OneCall
<1>10. CASE adjacent(c, f)
  <2>1. /\ r > 0 /\ f = s + r /\ call'[c].start = s /\ call'[c].run = r + 1
        /\ blk' = blk /\ head' = head /\ tail' = tail /\ Cover(blk') = Cover(blk) /\ InUse(blk') = InUse(blk)
    BY <1>1, <1>2, <1>10 DEF adjacent
  <2>2. s \in Nat /\ r \in Nat
    BY <1>1
  <2>3. Chained(blk, head, tail)' /\ Held'
    BY <1>1, <2>1 DEF HeapInv, Chained, Follows, Ending, Held
  <2>4. RunAbove'
    <3>1. \A d \in Caller : call'[d].run > 0 => d = c
      BY <1>1, <1>8
    <3>2. call'[c].start + call'[c].run <= cursor'
      BY <2>1, <2>2, <1>3
    <3>3. \A g \in Frame : s <= g /\ g < s + (r + 1) => g = f \/ (s <= g /\ g < s + r)
      BY <2>1, <2>2, FrameAssumption DEF Frame
    <3>4. \A g \in Frame : s <= g /\ g < s + (r + 1) => g \in used' /\ g \in Poolable
      BY <3>3, <2>1, <1>3, <1>4, <1>5
    <3> QED
      BY <3>1, <3>2, <3>4, <2>1, <1>5, <1>8 DEF RunAbove
  <2>5. CoverBelow' /\ WholePages'
    BY <2>1, <1>3, <1>6, <1>7 DEF HeapInv, CoverBelow, WholePages
  <2>6. Gain
    <3>1. call'[c].start .. call'[c].start + call'[c].run - 1 \subseteq (call[c].start .. call[c].start + call[c].run - 1) \cup {f}
      BY <2>1, <2>2
    <3>2. RunFrames' \subseteq RunFrames \cup {f}
      BY <3>1, <1>8 DEF RunFrames
    <3> QED
      BY <3>2, <2>1, <1>3 DEF Gain, CoverFrames
  <2> QED
    BY <2>3, <2>4, <2>5, <2>6, <1>3, <1>4, <1>8, <1>9 DEF HeapInv
<1>11. CASE ~adjacent(c, f)
  <2>1. call'[c].start = f /\ call'[c].run = 1
    BY <1>1, <1>2, <1>11
  <2>2. /\ Chained(blk', head', tail')
        /\ InUse(blk') = InUse(blk) /\ \A b \in InUse(blk) : blk'[b].size = blk[b].size
        /\ \A u \in Cover(blk') : u < Page(cursor)
        /\ r = 0 => Cover(blk') = Cover(blk)
        /\ r > 0 => Cover(blk') = Cover(blk) \cup {u \in Nat : Page(s) <= u /\ u < Page(s) + r * PAGE}
    <3>1. CASE r > 0
      <4>1. append_run(c)
        BY <3>1, <1>2, <1>11
      <4> QED
        BY <4>1, <3>1, RunAppended
    <3>2. CASE ~(r > 0)
      <4>1. blk' = blk /\ head' = head /\ tail' = tail
        BY <3>2, <1>2, <1>11
      <4> QED
        BY <4>1, <3>2, <1>7 DEF HeapInv
    <3> QED
      BY <3>1, <3>2
  <2>3. Held'
    BY <2>2, <1>1 DEF HeapInv, Held
  <2>4. \A u \in Cover(blk') : u \in Nat /\ u < Page(f)
    BY <2>2, <1>6 DEF Cover
  <2>5. RunAbove'
    <3>1. \A d \in Caller : call'[d].run > 0 => d = c
      BY <1>1, <1>8
    <3>2. \A g \in Frame : f <= g /\ g < f + 1 => g = f
      BY <1>3, FrameAssumption DEF Frame
    <3> QED
      BY <3>1, <3>2, <2>1, <2>4, <1>3, <1>4, <1>8 DEF RunAbove
  <2>6. CoverBelow'
    BY <2>4, <1>3, <1>6 DEF CoverBelow
  <2>7. WholePages' /\ CoverFrames' \subseteq CoverFrames \cup RunFrames
    <3>1. CASE r > 0
      <4>1. append_run(c) /\ used \subseteq used'
        BY <3>1, <1>2, <1>3, <1>11
      <4> QED
        BY <4>1, <3>1, RunWhole
    <3>2. CASE ~(r > 0)
      <4>1. Cover(blk') = Cover(blk)
        BY <3>2, <2>2, <1>1
      <4> QED
        BY <4>1, <1>3 DEF HeapInv, WholePages, CoverFrames
    <3> QED
      BY <3>1, <3>2
  <2>8. Gain
    <3>1. call'[c].start .. call'[c].start + call'[c].run - 1 = {f}
      BY <2>1, <1>3
    <3>2. RunFrames' \subseteq RunFrames \cup {f}
      BY <3>1, <1>8 DEF RunFrames
    <3> QED
      BY <3>2, <2>7, <1>3 DEF Gain
  <2> QED
    BY <2>2, <2>3, <2>5, <2>6, <2>7, <2>8, <1>3, <1>4, <1>8, <1>9 DEF HeapInv
<1> QED
  BY <1>10, <1>11
\* The last run goes to the list, and the scan starts again.
LEMMA DoneStep ==
  ASSUME HeapInv, NEW c \in Caller, grow_done(c)
  PROVE HeapInv' /\ Gain
<1>1. /\ call[c].at = "grow" /\ call[c].run > 0 /\ append_run(c)
      /\ call' = [call EXCEPT ![c] = [Idle EXCEPT !.at = "scan", !.size = call[c].size]]
      /\ used' = used /\ cursor' = cursor /\ live' = live
  BY DEF grow_done, pmmVars
<1>2. /\ Chained(blk', head', tail') /\ InUse(blk') = InUse(blk)
      /\ \A b \in InUse(blk) : blk'[b].size = blk[b].size
      /\ \A u \in Cover(blk') : u < Page(cursor)
  BY <1>1, RunAppended
<1>3. WholePages' /\ CoverFrames' \subseteq CoverFrames \cup RunFrames
  BY <1>1, RunWhole
<1>4. Above' /\ BootUsed' /\ Held' /\ CoverBelow'
  BY <1>1, <1>2 DEF HeapInv, Above, BootUsed, Held, CoverBelow
<1>5. CallType' /\ OneCall' /\ \A d \in Caller : call'[d].run = 0
  <2>1. call[c].size \in Nat \ {0} /\ \A d \in Caller \ {c} : call[d].at = "idle" /\ call[d].run = 0
    BY <1>1, IdleRuns DEF HeapInv, CallType, OneCall
  <2> QED
    BY <2>1, <1>1 DEF HeapInv, CallType, OneCall, Idle
<1>6. RunAbove'
  BY <1>5 DEF RunAbove
<1>7. RunFrames' = {}
  <2>1. \A d \in Caller : call'[d].start .. call'[d].start + call'[d].run - 1 = {}
    BY <1>5 DEF CallType
  <2> QED
    BY <2>1 DEF RunFrames
<1>8. Gain
  BY <1>3, <1>7 DEF Gain
<1> QED
  BY <1>2, <1>3, <1>4, <1>5, <1>6, <1>8 DEF HeapInv

\* A masked caller's page is found and taken in one step.
LEMMA NoHalves == ASSUME Open = {}, HeapInv, NEW c \in Caller PROVE ~find_page(c) /\ ~take_page(c)
  BY DEF HeapInv, CallType, find_page, take_page

LEMMA HeapStep == ASSUME Open = {}, HeapInv, HeapNext PROVE HeapInv' /\ Gain
<1>1. PICK c \in Caller :
        \/ Quiet /\ \E n \in Requests : kmalloc(c, n)
        \/ Quiet /\ \E b \in DOMAIN live : kfree(c, b)
        \/ scan_hit(c) \/ scan_miss(c) \/ grow_page(c) \/ grow_done(c) \/ grow_failed(c)
  BY NoHalves DEF HeapNext, KmallocStep, GrowStep
<1>2. Quiet => \A d \in Caller : call[d].at = "idle"
  BY DEF Quiet
<1>3. call[c] \in [at : {"idle", "scan", "grow"}, size : Nat, need : Nat, start : Nat, run : Nat, page : Nat]
  BY DEF HeapInv, CallType
<1>4. call[c].at # "idle" => call[c].size > 0 /\ \A d \in Caller \ {c} : call[d].at = "idle"
  BY DEF HeapInv, OneCall
<1>5. ASSUME Quiet, NEW n \in Requests, kmalloc(c, n) PROVE HeapInv' /\ Gain
  <2>1. n \in Nat \ {0}
    BY HeapAssumption
  <2>2. call' = [call EXCEPT ![c] = [Idle EXCEPT !.at = "scan", !.size = n]]
        /\ UNCHANGED <<pmmVars, blk, head, tail, live>>
    BY <1>5 DEF kmalloc
  <2>3. [Idle EXCEPT !.at = "scan", !.size = n]
          \in [at : {"idle", "scan", "grow"}, size : Nat, need : Nat, start : Nat, run : {0}, page : Nat]
        /\ [Idle EXCEPT !.at = "scan", !.size = n].size > 0
    <3> DEFINE R == [at : {"idle", "scan", "grow"}, size : Nat, need : Nat, start : Nat, run : {0}, page : Nat]
               k == [Idle EXCEPT !.at = "scan", !.size = n]
    <3>1. Idle \in R
      BY DEF Idle
    <3>2. n \in Nat /\ n > 0
      BY <2>1
    <3> HIDE DEF Idle
    <3>3. k \in R /\ k.size = n
      BY <3>1, <3>2
    <3> QED
      BY <3>2, <3>3
  <2>4. call[c].run = 0 /\ \A d \in Caller \ {c} : call[d].at = "idle"
    BY <1>2, <1>5, IdleRuns
  <2> QED
    BY <2>2, <2>3, <2>4, CallOnly
<1>6. ASSUME Quiet, NEW b \in DOMAIN live, kfree(c, b) PROVE HeapInv' /\ Gain
  BY <1>2, <1>6, FreeStep
<1>7. CASE scan_hit(c)
  BY <1>7, HitStep
<1>8. CASE scan_miss(c)
  <2>1. /\ call[c].at = "scan" /\ UNCHANGED <<pmmVars, blk, head, tail, live>>
        /\ call' = [call EXCEPT ![c].at = "grow", ![c].need = need_pages(call[c].size), ![c].run = 0]
    BY <1>8 DEF scan_miss
  <2> DEFINE k == [call[c] EXCEPT !.at = "grow", !.need = need_pages(call[c].size), !.run = 0]
  <2>2. need_pages(call[c].size) \in Nat
    <3>1. PAGE \in Nat \ {0} /\ HDR \in Nat \ {0} /\ GROW_PAGES \in Nat /\ call[c].size \in Nat
      BY <1>3, HeapAssumption
    <3>2. call[c].size + HDR + PAGE - 1 \in Nat
      BY <3>1
    <3>3. (call[c].size + HDR + PAGE - 1) \div PAGE \in Nat
      BY <3>1, <3>2
    <3> QED
      BY <3>1, <3>3 DEF need_pages
  <2>3. k \in [at : {"idle", "scan", "grow"}, size : Nat, need : Nat, start : Nat, run : {0}, page : Nat] /\ k.size > 0
    BY <2>1, <2>2, <1>3, <1>4
  <2>4. call' = [call EXCEPT ![c] = k]
    BY <2>1, <1>3 DEF HeapInv, CallType
  <2>5. call[c].run = 0 /\ \A d \in Caller \ {c} : call[d].at = "idle"
    BY <2>1, <1>4, IdleRuns
  <2> HIDE DEF k
  <2> QED
    BY <2>1, <2>3, <2>4, <2>5, CallOnly
<1>9. CASE grow_page(c)
  BY <1>9, GrowStepKeeps
<1>10. CASE grow_done(c)
  BY <1>10, DoneStep
<1>11. CASE grow_failed(c)
  <2>1. /\ call[c].at = "grow" /\ call[c].run = 0 /\ UNCHANGED <<pmmVars, blk, head, tail, live>>
        /\ call' = [call EXCEPT ![c] = Idle]
    BY <1>11 DEF grow_failed, no_memory
  <2>2. Idle \in [at : {"idle", "scan", "grow"}, size : Nat, need : Nat, start : Nat, run : {0}, page : Nat] /\ Idle.at = "idle"
    BY DEF Idle
  <2> QED
    BY <2>1, <2>2, <1>4, CallOnly
<1> QED
  BY <1>1, <1>5, <1>6, <1>7, <1>8, <1>9, <1>10, <1>11
LEMMA VmTakes == VmNext => UNCHANGED pmmVars \/ \E f \in Frame : pmm_alloc_page(f)
  BY DEF VmNext, VmStep, alloc_user_page, walk_create, map_page, elf_load, elf_reject,
         task_create_user, sbrk_done, spawn_elf_bytes, sched_sbrk, give_up

LEMMA HeapNextKeeps == ASSUME Open = {}, HeapInv, [Next]_vars PROVE HeapInv' /\ Gain
<1>1. CASE HeapNext
  BY <1>1, HeapStep
<1>2. ASSUME UNCHANGED heapVars, UNCHANGED pmmVars PROVE HeapInv' /\ Gain
  BY <1>2 DEF heapVars, pmmVars, HeapInv, Chained, Follows, Ending, Above, BootUsed, CallType, OneCall,
              RunAbove, CoverBelow, WholePages, Held, Gain, CoverFrames, RunFrames, Cover, InUse
<1>3. CASE VmNext /\ UNCHANGED heapVars
  BY <1>2, <1>3, VmTakes, OtherAlloc
<1>4. CASE halted \/ UNCHANGED vars
  BY <1>2, <1>4 DEF halted, vars
<1> QED
  BY <1>1, <1>3, <1>4 DEF Next

\* Masked callers keep the heap's invariant: the list in address order, the run
\* of pages being collected above it, whole pages, and what is held in use.
THEOREM HeapHolds == ASSUME Open = {} PROVE Spec => []HeapInv
<1>1. HeapInv /\ [Next]_vars => HeapInv'
  BY HeapNextKeeps
<1>2. Init => HeapInv
  BY HeapStart
<1> QED
  BY <1>1, <1>2, PTL DEF Spec

\* "List order always matches address order" (heap.c:9-13), for every memory,
\* page size, header and sequence of requests of masked callers.
THEOREM HeapInOrder == ASSUME Open = {} PROVE Spec => []ListInOrder
<1>1. HeapInv => ListInOrder
  <2> SUFFICES ASSUME HeapInv PROVE ListInOrder
    OBVIOUS
  <2>1. Chained(blk, head, tail) /\ Blocks \subseteq Nat /\ Null \notin Blocks
    BY DEF HeapInv, Chained, Blocks
  <2> QED
    BY <2>1 DEF ListInOrder, Chained, Follows, Blocks
<1> QED
  BY <1>1, HeapHolds, PTL

\* What kmalloc() returned is a block in use, as large as was asked for, until
\* it is freed (heap.c:89-126).
THEOREM HeapHeld == ASSUME Open = {} PROVE Spec => []LiveHeld
<1>1. HeapInv => LiveHeld
  BY DEF HeapInv, Held, LiveHeld, InUse, Blocks
<1> QED
  BY <1>1, HeapHolds, PTL

LEMMA CoverOf == ASSUME HeapInv, NEW b \in Blocks
                 PROVE /\ b \in Nat /\ End(b) \in Nat /\ b < End(b)
                       /\ \A u \in Nat : b <= u /\ u < End(b) => u \in Cover(blk)
<1>1. HDR \in Nat \ {0} /\ b \in Nat /\ blk[b].size \in Nat
  BY HeapAssumption DEF HeapInv, Chained, Header, Blocks
<1> QED
  BY <1>1 DEF Cover, End, Ending, Blocks

LEMMA HeapFramesAre == HeapInv => HeapFrames = CoverFrames \cup RunFrames
<1> SUFFICES ASSUME HeapInv PROVE HeapFrames = CoverFrames \cup RunFrames
  OBVIOUS
<1>1. PAGE \in Nat \ {0} /\ \A f \in Frame : f \in Nat /\ Page(f) \in Nat
  BY FramePages
<1>2. ASSUME NEW f \in Frame, NEW b \in Blocks, Page(f) < End(b), b < Page(f) + PAGE
      PROVE f \in CoverFrames
  <2>1. CASE b <= Page(f)
    BY <2>1, <1>1, <1>2, CoverOf DEF CoverFrames, InPage
  <2>2. CASE b > Page(f)
    BY <2>2, <1>1, <1>2, CoverOf DEF CoverFrames, InPage
  <2> QED
    BY <2>1, <2>2, <1>1, CoverOf
<1>3. ASSUME NEW f \in CoverFrames
      PROVE \E b \in Blocks : Page(f) < End(b) /\ b < Page(f) + PAGE
  <2>1. PICK u \in Cover(blk) : InPage(u, f) /\ f \in Frame
    BY DEF CoverFrames
  <2>2. PICK b \in Blocks : b <= u /\ u < End(b) /\ u \in Nat
    BY DEF Cover, End, Ending, Blocks
  <2>3. b \in Nat /\ End(b) \in Nat
    BY CoverOf
  <2> QED
    BY <2>1, <2>2, <2>3, <1>1 DEF InPage
<1> QED
  BY <1>2, <1>3 DEF HeapFrames, CoverFrames

\* No two blocks share a unit, none reaches over a hole between two runs of
\* pages, and no unit of the heap's pages is lost (heap.c:54-81, 103-116, 133-145).
THEOREM HeapTiled == ASSUME Open = {} PROVE Spec => []BlocksTile
<1>1. ASSUME HeapInv PROVE BlocksTile
  <2>1. ASSUME NEW b \in Blocks, NEW c \in Blocks, b < c PROVE End(b) <= c
    <3>1. Follows(blk, head, tail, b) /\ b \in Nat /\ c \in Nat /\ End(b) \in Nat
      BY <1>1, CoverOf DEF HeapInv, Chained, Blocks
    <3>2. blk[b].next # Null /\ c >= blk[b].next /\ End(b) <= blk[b].next /\ blk[b].next \in Nat
      BY <3>1, <2>1, <1>1, CoverOf DEF Follows, End, Ending, Blocks
    <3> QED
      BY <3>1, <3>2
  <2>2. ASSUME NEW b \in Blocks, NEW f \in Frame, Page(f) >= b, Page(f) < End(b)
        PROVE f \in Usable \ Bitmap
    <3>1. Page(f) \in Nat /\ PAGE \in Nat \ {0}
      BY FramePages
    <3>2. Page(f) \in Cover(blk) /\ InPage(Page(f), f)
      BY <3>1, <2>2, <1>1, CoverOf DEF InPage
    <3> QED
      BY <3>2, <1>1 DEF HeapInv, WholePages, Poolable
  <2>3. ASSUME NEW f \in HeapFrames \ RunFrames, NEW u \in Page(f) .. Page(f) + PAGE - 1
        PROVE \E b \in Blocks : b <= u /\ u < End(b)
    <3>1. f \in CoverFrames /\ f \in Frame
      BY <2>3, <1>1, HeapFramesAre DEF CoverFrames
    <3>2. Page(f) \in Nat /\ PAGE \in Nat
      BY <3>1, FramePages
    <3>3. u \in Nat /\ InPage(u, f)
      BY <3>2, <2>3 DEF InPage
    <3>4. u \in Cover(blk)
      BY <3>1, <3>3, <1>1 DEF HeapInv, WholePages, CoverFrames
    <3> QED
      BY <3>4 DEF Cover, End, Ending, Blocks
  <2> QED
    BY <2>1, <2>2, <2>3 DEF BlocksTile
<1> QED
  BY <1>1, HeapHolds, PTL
-----------------------------------------------------------------------------
\* The owners of pages.

UserPages(p) == {va \in DOMAIN map[p] : map[p][va].kind # "device"}

JobForm ==
  /\ job = [for |-> job.for, proc |-> job.proc, todo |-> job.todo, held |-> job.held, brk |-> job.brk]
  /\ job.for # "none" => job.proc \in Procs

SpaceForm ==
  /\ tables = [p \in Procs |-> tables[p]]
  /\ map = [p \in Procs |-> map[p]]

SpaceFrames == UNION {TableFrames(p) \cup UserFrames(p) : p \in Procs}

\* What the walks and the mapping have is in use, and the page in hand is nobody's.
SpacesUsed ==
  /\ SpaceFrames \subseteq used
  /\ job.held # 0 => job.held \in used \ (SpaceFrames \cup HeapFrames)

OwnedInv ==
  /\ JobForm
  /\ SpaceForm
  /\ SpacesUsed
  /\ PagesOwnedOnce

LEMMA HeapUsed == HeapInv => HeapFrames \subseteq used
<1> SUFFICES ASSUME HeapInv PROVE HeapFrames \subseteq used
  OBVIOUS
<1>1. CoverFrames \subseteq used
  BY DEF HeapInv, WholePages, CoverFrames
<1>2. ASSUME NEW c \in Caller, NEW f \in call[c].start .. call[c].start + call[c].run - 1
      PROVE f \in used
  <2>1. /\ call[c].start \in Nat /\ call[c].run \in Nat /\ cursor \in Nat /\ cursor <= Frames
        /\ Frames \in Nat
    BY FrameAssumption DEF HeapInv, CallType, Above
  <2>2. call[c].run > 0 /\ f \in Nat /\ call[c].start <= f /\ f < call[c].start + call[c].run
    BY <2>1, <1>2
  <2>3. call[c].start + call[c].run <= cursor
    BY <2>2 DEF HeapInv, RunAbove
  <2>4. f \in Frame
    BY <2>1, <2>2, <2>3 DEF Frame
  <2> QED
    BY <2>2, <2>4 DEF HeapInv, RunAbove
<1>3. RunFrames \subseteq used
  BY <1>2 DEF RunFrames
<1> QED
  BY <1>1, <1>3, HeapFramesAre

\* Page 0 is not for use, so 0 can say that there is no page.
LEMMA NotZero == ASSUME HeapInv, NEW f \in Frame, f \notin used PROVE f # 0
  BY FrameAssumption DEF HeapInv, BootUsed

LEMMA OwnedStart == Init => OwnedInv
<1> SUFFICES ASSUME Init PROVE OwnedInv
  OBVIOUS
<1>1. /\ tables = [p \in Procs |-> <<>>] /\ map = [p \in Procs |-> <<>>] /\ job = NoJob
  BY DEF Init, vm_init
<1>2. \A p \in Procs : DOMAIN tables[p] = {} /\ DOMAIN map[p] = {}
  BY <1>1
<1>3. \A p \in Procs : TableFrames(p) = {} /\ UserFrames(p) = {}
  BY <1>2 DEF TableFrames, UserFrames
<1>4. SpaceFrames = {}
  BY <1>3 DEF SpaceFrames
<1>5. JobForm /\ SpaceForm /\ job.held = 0
  BY <1>1 DEF JobForm, SpaceForm, NoJob
<1>6. PagesOwnedOnce
  BY <1>2, <1>3 DEF PagesOwnedOnce
<1> QED
  BY <1>4, <1>5, <1>6 DEF OwnedInv, SpacesUsed

\* The owners' part of PagesOwnedOnce, without the heap.
SpacesApart ==
  /\ \A p \in Procs :
       /\ TableFrames(p) \cap UserFrames(p) = {}
       /\ \A k, l \in DOMAIN tables[p] : tables[p][k] = tables[p][l] => k = l
       /\ \A v, w \in DOMAIN map[p] :
            map[p][v].kind # "device" /\ map[p][w].kind # "device" /\ map[p][v].frame = map[p][w].frame
              => v = w
  /\ \A p, q \in Procs :
       p # q => (TableFrames(p) \cup UserFrames(p)) \cap (TableFrames(q) \cup UserFrames(q)) = {}

LEMMA Apart == PagesOwnedOnce <=> SpacesApart /\ HeapFrames \cap SpaceFrames = {}
  BY DEF PagesOwnedOnce, SpacesApart, SpaceFrames

\* A step that gives no space a page.
LEMMA SpacesKept ==
  ASSUME OwnedInv, UNCHANGED <<tables, map>>, used \subseteq used', HeapFrames \subseteq used,
         HeapFrames' \subseteq HeapFrames \cup (used' \ used), JobForm',
         job'.held = 0 \/ job'.held = job.held \/ job'.held \in used' \ (used \cup HeapFrames')
  PROVE OwnedInv'
<1>1. SpaceFrames' = SpaceFrames /\ SpacesApart' /\ SpaceForm'
  <2>1. SpacesApart /\ SpaceForm
    BY Apart DEF OwnedInv
  <2>2. tables' = tables /\ map' = map
    OBVIOUS
  <2>3. \A p \in Procs : TableFrames(p)' = TableFrames(p) /\ UserFrames(p)' = UserFrames(p)
    BY <2>2 DEF TableFrames, UserFrames
  <2>4. SpaceFrames' = SpaceFrames
    BY <2>3 DEF SpaceFrames
  <2>5. SpaceForm'
    BY <2>1, <2>2 DEF SpaceForm
  <2>6. SpacesApart'
    BY <2>1, <2>2, <2>3 DEF SpacesApart
  <2> QED
    BY <2>4, <2>5, <2>6
<1>2. HeapFrames' \cap SpaceFrames' = {}
  BY <1>1, Apart DEF OwnedInv, SpacesUsed
<1>3. PagesOwnedOnce'
  <2>1. (PagesOwnedOnce <=> SpacesApart /\ HeapFrames \cap SpaceFrames = {})'
    BY Apart, PTL
  <2> QED
    BY <1>1, <1>2, <2>1
<1>4. SpacesUsed'
  BY <1>1 DEF OwnedInv, SpacesUsed
<1> QED
  BY <1>1, <1>3, <1>4 DEF OwnedInv
LEMMA OwnedFrom ==
  ASSUME JobForm', SpaceForm', SpacesUsed', SpacesApart', HeapFrames' \cap SpaceFrames' = {}
  PROVE OwnedInv'
<1>1. (PagesOwnedOnce <=> SpacesApart /\ HeapFrames \cap SpaceFrames = {})'
  BY Apart, PTL
<1> QED
  BY <1>1 DEF OwnedInv

\* The walk builds a table.
LEMMA TableGiven ==
  ASSUME OwnedInv, NEW f, f \notin used, used' = used \cup {f}, HeapFrames \subseteq used,
         HeapFrames' = HeapFrames, NEW p \in Procs, NEW k, k \notin DOMAIN tables[p],
         tables' = [tables EXCEPT ![p] = Extend(@, k, f)], UNCHANGED <<map, job>>
  PROVE OwnedInv'
<1>1. /\ JobForm /\ SpaceForm /\ SpacesUsed /\ SpacesApart
      /\ map' = map /\ job' = job /\ SpaceFrames \subseteq used
  BY Apart DEF OwnedInv, SpacesUsed
<1>2. /\ tables'[p] = Extend(tables[p], k, f) /\ \A q \in Procs : q # p => tables'[q] = tables[q]
      /\ SpaceForm'
  BY <1>1 DEF SpaceForm
<1>3. /\ DOMAIN tables'[p] = DOMAIN tables[p] \cup {k} /\ tables'[p][k] = f
      /\ \A x \in DOMAIN tables[p] : tables'[p][x] = tables[p][x]
  BY <1>2 DEF Extend
<1>4. /\ TableFrames(p)' = TableFrames(p) \cup {f}
      /\ \A q \in Procs : q # p => TableFrames(q)' = TableFrames(q)
      /\ \A q \in Procs : UserFrames(q)' = UserFrames(q)
  BY <1>1, <1>2, <1>3 DEF TableFrames, UserFrames
<1>5. \A q \in Procs : TableFrames(q) \subseteq used /\ UserFrames(q) \subseteq used
  BY <1>1 DEF SpaceFrames
<1>6. SpaceFrames' = SpaceFrames \cup {f}
  BY <1>4 DEF SpaceFrames
<1>7. SpacesUsed'
  BY <1>1, <1>6 DEF SpacesUsed
<1>8. SpacesApart'
  <2>1. \A q \in Procs : TableFrames(q)' \cap UserFrames(q)' = {}
    BY <1>1, <1>4, <1>5 DEF SpacesApart
  <2>2. \A q \in Procs : \A x, y \in DOMAIN tables'[q] : tables'[q][x] = tables'[q][y] => x = y
    <3>1. \A x \in DOMAIN tables[p] : tables[p][x] # f
      BY <1>5 DEF TableFrames
    <3> QED
      BY <3>1, <1>1, <1>2, <1>3 DEF SpacesApart
  <2>3. \A q, r \in Procs : q # r =>
          (TableFrames(q)' \cup UserFrames(q)') \cap (TableFrames(r)' \cup UserFrames(r)') = {}
    <3> TAKE q, r \in Procs
    <3>1. q # r => (TableFrames(q) \cup UserFrames(q)) \cap (TableFrames(r) \cup UserFrames(r)) = {}
      BY <1>1 DEF SpacesApart
    <3> QED
      BY <3>1, <1>4, <1>5
  <2> QED
    BY <2>1, <2>2, <2>3, <1>1 DEF SpacesApart
<1>9. HeapFrames' \cap SpaceFrames' = {}
  BY <1>6, Apart DEF OwnedInv
<1> QED
  BY <1>1, <1>2, <1>7, <1>8, <1>9, OwnedFrom DEF JobForm

\* The page in hand is mapped, or a device's; what was mapped there is lost.
LEMMA PageGiven ==
  ASSUME OwnedInv, used' = used, HeapFrames' = HeapFrames, NEW p \in Procs, NEW va, NEW e,
         e.kind # "device" => job.held # 0 /\ e.frame = job.held,
         map' = [map EXCEPT ![p] = Extend(@, va, e)], tables' = tables,
         JobForm', job'.held = 0
  PROVE OwnedInv'
<1>1. /\ SpaceForm /\ SpacesUsed /\ SpacesApart
      /\ SpaceFrames \subseteq used
  BY Apart DEF OwnedInv, SpacesUsed
<1>2. /\ map'[p] = Extend(map[p], va, e) /\ \A q \in Procs : q # p => map'[q] = map[q]
      /\ SpaceForm'
  BY <1>1 DEF SpaceForm
<1>3. /\ DOMAIN map'[p] = DOMAIN map[p] \cup {va} /\ map'[p][va] = e
      /\ \A x \in DOMAIN map[p] : x # va => map'[p][x] = map[p][x]
  BY <1>2 DEF Extend
<1> DEFINE new == IF e.kind # "device" THEN {job.held} ELSE {}
<1>4. /\ UserFrames(p)' \subseteq UserFrames(p) \cup new
      /\ \A q \in Procs : q # p => UserFrames(q)' = UserFrames(q)
      /\ \A q \in Procs : TableFrames(q)' = TableFrames(q)
  <2>1. UserFrames(p)' \subseteq UserFrames(p) \cup new
    <3> SUFFICES ASSUME NEW v \in DOMAIN map'[p], map'[p][v].kind # "device"
                 PROVE map'[p][v].frame \in UserFrames(p) \cup new
      BY DEF UserFrames
    <3>1. CASE v = va
      BY <3>1, <1>3
    <3>2. CASE v # va
      BY <3>2, <1>3 DEF UserFrames
    <3> QED
      BY <3>1, <3>2
  <2>2. \A q \in Procs : q # p => UserFrames(q)' = UserFrames(q)
    BY <1>2 DEF UserFrames
  <2>3. \A q \in Procs : TableFrames(q)' = TableFrames(q)
    BY DEF TableFrames
  <2> QED
    BY <2>1, <2>2, <2>3
<1>5. new \subseteq used \ (SpaceFrames \cup HeapFrames)
  BY <1>1 DEF SpacesUsed
<1>6. \A q \in Procs : TableFrames(q) \cap new = {} /\ UserFrames(q) \cap new = {}
  BY <1>5 DEF SpaceFrames
<1>7. SpaceFrames' \subseteq SpaceFrames \cup new
  BY <1>4 DEF SpaceFrames
<1>8. \A v \in DOMAIN map[p] : map[p][v].kind # "device" => map[p][v].frame \notin new
  BY <1>6 DEF UserFrames
<1> HIDE DEF new
<1>9. SpacesUsed'
  BY <1>1, <1>5, <1>7 DEF SpacesUsed
<1>10. SpacesApart'
  <2>1. \A q \in Procs : TableFrames(q)' \cap UserFrames(q)' = {}
    <3> TAKE q \in Procs
    <3>1. TableFrames(q) \cap UserFrames(q) = {}
      BY <1>1 DEF SpacesApart
    <3> QED
      BY <3>1, <1>4, <1>6
  <2>2. \A q \in Procs : \A v, w \in DOMAIN map'[q] :
          map'[q][v].kind # "device" /\ map'[q][w].kind # "device"
          /\ map'[q][v].frame = map'[q][w].frame => v = w
    <3>1. \A v, w \in DOMAIN map'[p] :
            map'[p][v].kind # "device" /\ map'[p][w].kind # "device"
            /\ map'[p][v].frame = map'[p][w].frame => v = w
      <4>1. e.kind # "device" => e.frame \in new
        BY DEF new
      <4> QED
        BY <4>1, <1>1, <1>3, <1>8 DEF SpacesApart
    <3> QED
      BY <3>1, <1>1, <1>2 DEF SpacesApart
  <2>3. \A q, r \in Procs : q # r =>
          (TableFrames(q)' \cup UserFrames(q)') \cap (TableFrames(r)' \cup UserFrames(r)') = {}
    <3> TAKE q, r \in Procs
    <3>1. q # r => (TableFrames(q) \cup UserFrames(q)) \cap (TableFrames(r) \cup UserFrames(r)) = {}
      BY <1>1 DEF SpacesApart
    <3> QED
      BY <3>1, <1>4, <1>6
  <2> QED
    BY <2>1, <2>2, <2>3, <1>1 DEF SpacesApart
<1>11. HeapFrames' \cap SpaceFrames' = {}
  BY <1>5, <1>7, Apart DEF OwnedInv
<1> QED
  BY <1>2, <1>9, <1>10, <1>11, OwnedFrom
\* The heap's callers and the address spaces, one step of either.
LEMMA JobOnly ==
  ASSUME HeapInv, OwnedInv, UNCHANGED <<pmmVars, heapVars, tables, map>>, JobForm',
         job'.held = 0 \/ job'.held = job.held
  PROVE OwnedInv'
<1>1. used' = used /\ HeapFrames' = HeapFrames /\ HeapFrames \subseteq used
  BY HeapUsed DEF pmmVars, heapVars, HeapFrames, RunFrames, Blocks, End
<1> QED
  BY <1>1, SpacesKept

LEMMA VmOwned == ASSUME HeapInv, OwnedInv, VmNext, UNCHANGED heapVars PROVE OwnedInv'
<1>1. HeapFrames' = HeapFrames /\ HeapFrames \subseteq used
  BY HeapUsed DEF heapVars, HeapFrames, RunFrames, Blocks, End
<1>2. JobForm
  BY DEF OwnedInv
<1>3. /\ NoJob.held = 0 /\ NoJob.for = "none"
      /\ NoJob = [for |-> NoJob.for, proc |-> NoJob.proc, todo |-> NoJob.todo,
                  held |-> NoJob.held, brk |-> NoJob.brk]
  BY DEF NoJob
<1>4. CASE give_up
  <2>1. job' = NoJob /\ UNCHANGED <<pmmVars, heapVars, tables, map>>
    BY <1>4 DEF give_up
  <2>2. JobForm'
    BY <2>1, <1>3 DEF JobForm
  <2> QED
    BY <2>1, <2>2, <1>3, JobOnly
<1>5. ASSUME NEW f \in Frame, pmm_alloc_page(f)
      PROVE f \notin used /\ used' = used \cup {f} /\ f # 0
  BY <1>5, AllocUp, NotZero DEF HeapInv
<1>6. CASE alloc_user_page
  <2>1. CASE give_up
    BY <2>1, <1>4
  <2>2. CASE ~give_up
    <3>1. PICK f \in Frame : /\ pmm_alloc_page(f) /\ job' = [job EXCEPT !.held = f]
                             /\ UNCHANGED <<tables, map>>
      BY <2>2, <1>6 DEF alloc_user_page
    <3>2. f \notin used /\ used' = used \cup {f}
      BY <3>1, <1>5
    <3>3. JobForm' /\ job'.held = f
      BY <3>1, <1>2 DEF JobForm
    <3> QED
      BY <3>1, <3>2, <3>3, <1>1, SpacesKept
  <2> QED
    BY <2>1, <2>2
<1>7. CASE walk_create
  <2>1. CASE \E k \in Missing, f \in Frame :
               /\ pmm_alloc_page(f)
               /\ tables' = [tables EXCEPT ![job.proc] = Extend(@, k, f)]
               /\ UNCHANGED <<map, job>>
    <3>1. PICK k \in Missing, f \in Frame :
               /\ pmm_alloc_page(f)
               /\ tables' = [tables EXCEPT ![job.proc] = Extend(@, k, f)]
               /\ UNCHANGED <<map, job>>
      BY <2>1
    <3>2. job.proc \in Procs /\ k \notin DOMAIN tables[job.proc]
      BY <1>2, <1>7 DEF walk_create, Working, JobForm, Missing
    <3>3. f \notin used /\ used' = used \cup {f}
      BY <3>1, <1>5
    <3> QED
      BY <3>1, <3>2, <3>3, <1>1, TableGiven
  <2>2. CASE UNCHANGED <<pmmVars, tables, map, job>>
    BY <2>2, <1>2, JobOnly DEF JobForm
  <2> QED
    BY <2>1, <2>2, <1>7 DEF walk_create
<1>8. CASE map_page
  <2> DEFINE e == [frame |-> IF Now.kind = "device" THEN Now.va ELSE job.held, kind |-> Now.kind]
  <2>1. /\ job.proc \in Procs /\ UNCHANGED <<pmmVars, tables>>
        /\ map' = [map EXCEPT ![job.proc] = Extend(@, Now.va, e)]
        /\ job' = [job EXCEPT !.todo = Tail(@), !.held = 0]
    BY <1>2, <1>8 DEF map_page, Working, JobForm
  <2>2. e.kind # "device" => job.held # 0 /\ e.frame = job.held
    BY <1>8 DEF map_page, Ready
  <2>3. JobForm' /\ job'.held = 0
    BY <2>1, <1>2 DEF JobForm
  <2>4. used' = used
    BY <2>1 DEF pmmVars
  <2> HIDE DEF e
  <2> QED
    BY <2>1, <2>2, <2>3, <2>4, <1>1, PageGiven
<1>9. CASE elf_load
  <2>1. job.proc \in Procs /\ UNCHANGED <<pmmVars, tables, map>>
    BY <1>2, <1>9 DEF elf_load, Working, JobForm
  <2>2. CASE job' = NoJob
    BY <2>1, <2>2, <1>3, JobOnly DEF JobForm
  <2>3. CASE job' = [job EXCEPT !.for = "spawn", !.todo = Image \o Work(<<STACK_VA>>, "data")]
    <3>1. JobForm' /\ job'.held = job.held
      BY <2>1, <2>3, <1>2 DEF JobForm
    <3> QED
      BY <3>1, <2>1, JobOnly
  <2> QED
    BY <2>2, <2>3, <1>9 DEF elf_load
<1>10. CASE task_create_user
  <2>1. CASE give_up
    BY <2>1, <1>4
  <2>2. CASE ~give_up
    <3>1. job' = NoJob /\ UNCHANGED <<pmmVars, tables, map>>
      BY <2>2, <1>10 DEF task_create_user
    <3> QED
      BY <3>1, <1>3, JobOnly DEF JobForm
  <2> QED
    BY <2>1, <2>2
<1>11. CASE sbrk_done
  <2>1. job' = NoJob /\ UNCHANGED <<pmmVars, tables, map>>
    BY <1>11 DEF sbrk_done
  <2> QED
    BY <2>1, <1>3, JobOnly DEF JobForm
<1>12. ASSUME NEW p \in Procs, NEW for, NEW todo, NEW new,
              job' = [for |-> for, proc |-> p, todo |-> todo, held |-> 0, brk |-> new],
              UNCHANGED <<pmmVars, tables, map>>
       PROVE OwnedInv'
  <2>1. JobForm' /\ job'.held = 0
    BY <1>12 DEF JobForm
  <2> QED
    BY <2>1, <1>12, JobOnly
<1>13. ASSUME NEW p \in Procs, spawn_elf_bytes(p) PROVE OwnedInv'
  <2>1. /\ job' = [for |-> "devices", proc |-> p, todo |-> Work(Devices, "device"), held |-> 0, brk |-> 0]
        /\ UNCHANGED <<pmmVars, tables, map>>
    BY <1>13 DEF spawn_elf_bytes, NoJob
  <2> QED
    BY <2>1, <1>12
<1>14. ASSUME NEW p \in Procs, NEW inc \in Increments, sched_sbrk(p, inc) PROVE OwnedInv'
  <2> DEFINE new == brk[p] + inc
             todo == Work([i \in 1 .. needed_end(new) - cur_end(p) |-> cur_end(p) + i - 1], "data")
  <2>1. /\ job' = [for |-> "sbrk", proc |-> p, todo |-> todo, held |-> 0, brk |-> new]
        /\ UNCHANGED <<pmmVars, tables, map>>
    BY <1>14 DEF sched_sbrk, NoJob
  <2> HIDE DEF new, todo
  <2> QED
    BY <2>1, <1>12
<1>15. CASE elf_reject
  BY <1>4, <1>15 DEF elf_reject
<1> QED
  BY <1>6, <1>7, <1>8, <1>9, <1>10, <1>11, <1>13, <1>14, <1>15 DEF VmNext, VmStep

LEMMA OwnedNext == ASSUME Open = {}, HeapInv, OwnedInv, [Next]_vars PROVE OwnedInv'
<1>1. CASE HeapNext /\ UNCHANGED vmVars
  <2>1. HeapInv' /\ Gain
    BY <1>1, HeapStep
  <2>2. (HeapInv => HeapFrames = CoverFrames \cup RunFrames)'
    BY HeapFramesAre, PTL
  <2>3. HeapFrames' \subseteq HeapFrames \cup (used' \ used)
    BY <2>1, <2>2, HeapFramesAre DEF Gain
  <2>4. used \subseteq used'
    BY <1>1, AllocUp, NoHalves DEF HeapNext, KmallocStep, GrowStep, kmalloc, kfree, scan_hit,
                                   scan_miss, grow_page, grow_done, grow_failed, pmmVars, HeapInv
  <2>5. tables' = tables /\ map' = map /\ job' = job
    BY <1>1 DEF vmVars
  <2>6. JobForm'
    BY <2>5 DEF OwnedInv, JobForm
  <2> QED
    BY <2>3, <2>4, <2>5, <2>6, HeapUsed, SpacesKept
<1>2. CASE VmNext /\ UNCHANGED heapVars
  BY <1>2, VmOwned
<1>3. CASE halted \/ UNCHANGED vars
  <2>1. UNCHANGED <<pmmVars, heapVars, vmVars>>
    BY <1>3 DEF halted, vars
  <2>2. UNCHANGED <<pmmVars, heapVars, tables, map, job>>
    BY <2>1 DEF vmVars
  <2> QED
    BY <2>2, JobOnly DEF OwnedInv, JobForm
<1> QED
  BY <1>1, <1>2, <1>3 DEF Next

\* Every physical page has one owner: the heap, one table, or one virtual page
\* of one process, whatever runs out and wherever (main.c:177-180), as long as
\* every caller is masked. One with IRQs open can be given a page that another has
\* got between its pmm.c:90 and 91.
THEOREM PagesOwned == ASSUME Open = {} PROVE Spec => []PagesOwnedOnce
<1>1. HeapInv /\ OwnedInv /\ [Next]_vars => OwnedInv'
  BY OwnedNext
<1>2. Init => OwnedInv
  BY OwnedStart
<1>3. OwnedInv => PagesOwnedOnce
  BY DEF OwnedInv
<1> QED
  BY <1>1, <1>2, <1>3, HeapHolds, PTL DEF Spec

-----------------------------------------------------------------------------
\* Rounding to pages.

LEMMA Div == ASSUME NEW u \in Nat \ {0}, NEW a \in Nat
             PROVE a \div u \in Nat /\ u * (a \div u) <= a /\ a < u * (a \div u) + u
  OBVIOUS

LEMMA AtLeast == ASSUME NEW u \in Nat \ {0}, NEW a \in Nat, NEW q \in Nat, u * q <= a
                 PROVE q <= a \div u
<1>1. a \div u \in Nat /\ a < u * (a \div u) + u
  BY Div
<1>2. ASSUME a \div u < q PROVE FALSE
  <2>1. PICK d \in Nat : q = (a \div u) + 1 + d
    <3>1. q - (a \div u) - 1 \in Nat
      BY <1>1, <1>2
    <3> QED
      BY <3>1, <1>1
  <2>2. u * q = u * (a \div u) + u + u * d /\ u * d \in Nat
    BY <2>1, <1>1
  <2> QED
    BY <1>1, <2>2
<1> QED
  BY <1>1, <1>2

LEMMA PageUp ==
  ASSUME NEW n \in Nat
  PROVE /\ page_up(n) \in Nat
        /\ \A a \in Nat : a < n => a \div UNITS \in Nat /\ a \div UNITS < page_up(n)
        /\ \A m \in Nat : m <= n => page_up(m) <= page_up(n)
<1>1. UNITS \in Nat \ {0}
  BY VmAssumption
<1>2. n + UNITS - 1 \in Nat /\ page_up(n) \in Nat
  BY <1>1, Div DEF page_up
<1>3. ASSUME NEW a \in Nat, a < n PROVE a \div UNITS \in Nat /\ a \div UNITS < page_up(n)
  <2>1. a \div UNITS \in Nat /\ UNITS * (a \div UNITS) <= a
    BY <1>1, Div
  <2>2. UNITS * ((a \div UNITS) + 1) = UNITS * (a \div UNITS) + UNITS
    BY <1>1, <2>1
  <2>3. UNITS * ((a \div UNITS) + 1) <= n + UNITS - 1
    BY <1>1, <1>3, <2>1, <2>2
  <2>4. (a \div UNITS) + 1 <= (n + UNITS - 1) \div UNITS
    BY <1>1, <1>2, <2>1, <2>3, AtLeast
  <2> QED
    BY <1>2, <2>1, <2>4 DEF page_up
<1>4. ASSUME NEW m \in Nat, m <= n PROVE page_up(m) <= page_up(n)
  <2>1. m + UNITS - 1 \in Nat
    BY <1>1
  <2>2. page_up(m) \in Nat /\ UNITS * page_up(m) <= m + UNITS - 1
    BY <1>1, <2>1, Div DEF page_up
  <2>3. UNITS * page_up(m) <= n + UNITS - 1
    BY <1>1, <1>4, <2>2
  <2> QED
    BY <1>1, <1>2, <2>2, <2>3, AtLeast DEF page_up
<1> QED
  BY <1>2, <1>3, <1>4
-----------------------------------------------------------------------------
\* The inductive invariant.

SpaceType ==
  /\ space = [p \in Procs |-> space[p]]
  /\ map = [p \in Procs |-> map[p]]
  /\ brk \in [Procs -> Nat]

\* A call works for a process that is being loaded, or that has called SYS_SBRK.
JobOf ==
  /\ job = [for |-> job.for, proc |-> job.proc, todo |-> job.todo, held |-> job.held, brk |-> job.brk]
  /\ job.for \in {"none", "devices", "spawn", "sbrk"}
  /\ job.for # "none" => job.proc \in Procs
  /\ job.for \in {"devices", "spawn"} => space[job.proc] = "loading"
  /\ job.for = "sbrk" => space[job.proc] = "live"

\* SYS_SBRK has yet to map exactly what the new break lacks, above the old one.
SbrkTodo ==
  job.for = "sbrk" =>
    /\ job.brk \in Nat
    /\ job.todo \in Seq([va : Nat, kind : {"data"}])
    /\ \A i \in DOMAIN job.todo : job.todo[i].va >= page_up(brk[job.proc])
    /\ \A v \in Nat : HEAP_BASE <= v /\ v < page_up(job.brk) =>
         v \in DOMAIN map[job.proc] \/ \E i \in DOMAIN job.todo : job.todo[i].va = v

Backed ==
  \A p \in Procs : space[p] = "live" =>
    \A v \in Nat : HEAP_BASE <= v /\ v < page_up(brk[p]) => v \in DOMAIN map[p]

VmInv == SpaceType /\ JobOf /\ SbrkTodo /\ Backed

LEMMA Below ==
  ASSUME SpaceType, NEW p \in Procs, NEW a \in HEAP_BASE * UNITS .. brk[p] - 1
  PROVE a \div UNITS \in Nat /\ HEAP_BASE <= a \div UNITS /\ a \div UNITS < page_up(brk[p])
<1>1. UNITS \in Nat \ {0} /\ HEAP_BASE \in Nat /\ HEAP_BASE * UNITS \in Nat
  BY VmAssumption
<1>2. brk[p] \in Nat /\ a \in Nat /\ a < brk[p] /\ UNITS * HEAP_BASE <= a
  BY <1>1 DEF SpaceType
<1>3. HEAP_BASE <= a \div UNITS
  BY <1>1, <1>2, AtLeast
<1> QED
  BY <1>2, <1>3, PageUp

LEMMA VmStart == Init => VmInv
<1> SUFFICES ASSUME Init PROVE VmInv
  OBVIOUS
<1>1. /\ space = [p \in Procs |-> "none"] /\ map = [p \in Procs |-> <<>>]
      /\ brk = [p \in Procs |-> 0] /\ job = NoJob
  BY DEF Init, vm_init
<1>2. JobOf /\ SbrkTodo
  BY <1>1 DEF JobOf, SbrkTodo, NoJob
<1> QED
  BY <1>1, <1>2 DEF VmInv, SpaceType, Backed

\* The call is over, or goes on to its next page; no process's heap changes.
LEMMA JobEnds ==
  ASSUME VmInv, job' = NoJob, UNCHANGED <<map, brk>>,
         UNCHANGED space \/ \E s \in {"failed"} : space' = [space EXCEPT ![job.proc] = s]
  PROVE VmInv'
<1>1. JobOf' /\ SbrkTodo'
  BY DEF JobOf, SbrkTodo, NoJob
<1>2. \A p \in Procs : space'[p] = "live" => space[p] = "live"
  BY DEF VmInv, SpaceType
<1> QED
  BY <1>1, <1>2 DEF VmInv, SpaceType, Backed

LEMMA SameSpaces ==
  ASSUME VmInv, UNCHANGED <<space, map, brk>>, JobOf',
         job'.for # "sbrk" \/ (job'.for = job.for /\ job'.proc = job.proc
                               /\ job'.todo = job.todo /\ job'.brk = job.brk)
  PROVE VmInv'
<1>1. SbrkTodo'
  BY DEF VmInv, SbrkTodo
<1> QED
  BY <1>1 DEF VmInv, SpaceType, Backed

LEMMA MapStep == ASSUME VmInv, map_page PROVE VmInv'
<1> DEFINE p == job.proc
           va == Now.va
           e == [frame |-> IF Now.kind = "device" THEN Now.va ELSE job.held, kind |-> Now.kind]
<1>1. /\ job.for # "none" /\ job.todo # <<>>
      /\ map' = [map EXCEPT ![p] = Extend(@, va, e)]
      /\ job' = [job EXCEPT !.todo = Tail(@), !.held = 0]
      /\ UNCHANGED <<space, brk>>
  BY DEF map_page, Working
<1> HIDE DEF e
<1>2. /\ p \in Procs
      /\ DOMAIN map'[p] = DOMAIN map[p] \cup {va}
      /\ \A q \in Procs : q # p => map'[q] = map[q]
      /\ SpaceType'
  BY <1>1 DEF VmInv, SpaceType, JobOf, Extend
<1>3. /\ JobOf' /\ job'.for = job.for /\ job'.proc = p /\ job'.todo = Tail(job.todo) /\ job'.brk = job.brk
  BY <1>1 DEF VmInv, JobOf
<1>4. Backed'
  BY <1>1, <1>2 DEF VmInv, Backed
<1>5. SbrkTodo'
  <2> SUFFICES ASSUME job.for = "sbrk"
               PROVE /\ Tail(job.todo) \in Seq([va : Nat, kind : {"data"}])
                     /\ \A i \in DOMAIN Tail(job.todo) : Tail(job.todo)[i].va >= page_up(brk[p])
                     /\ \A v \in Nat : HEAP_BASE <= v /\ v < page_up(job.brk) =>
                          v \in DOMAIN map'[p] \/ \E i \in DOMAIN Tail(job.todo) : Tail(job.todo)[i].va = v
    BY <1>1, <1>3 DEF VmInv, SbrkTodo
  <2>1. job.todo \in Seq([va : Nat, kind : {"data"}]) /\ job.todo # <<>>
    BY <1>1 DEF VmInv, SbrkTodo
  <2>2. /\ Tail(job.todo) \in Seq([va : Nat, kind : {"data"}])
        /\ DOMAIN Tail(job.todo) = 1 .. Len(job.todo) - 1 /\ DOMAIN job.todo = 1 .. Len(job.todo)
        /\ Len(job.todo) \in Nat \ {0}
        /\ \A i \in 1 .. Len(job.todo) - 1 : Tail(job.todo)[i] = job.todo[i + 1]
        /\ va = job.todo[1].va
    BY <2>1 DEF Now
  <2>3. \A i \in DOMAIN Tail(job.todo) : i + 1 \in DOMAIN job.todo /\ Tail(job.todo)[i] = job.todo[i + 1]
    BY <2>2
  <2>4. \A i \in DOMAIN job.todo : i = 1 \/ (i - 1 \in DOMAIN Tail(job.todo) /\ Tail(job.todo)[i - 1] = job.todo[i])
    BY <2>2
  <2> HIDE DEF va
  <2>5. ASSUME NEW v \in Nat, HEAP_BASE <= v, v < page_up(job.brk)
        PROVE v \in DOMAIN map'[p] \/ \E i \in DOMAIN Tail(job.todo) : Tail(job.todo)[i].va = v
    <3>1. v \in DOMAIN map[p] \/ \E i \in DOMAIN job.todo : job.todo[i].va = v
      BY <2>5 DEF VmInv, SbrkTodo
    <3> QED
      BY <3>1, <2>2, <2>4, <1>2
  <2>6. \A i \in DOMAIN Tail(job.todo) : Tail(job.todo)[i].va >= page_up(brk[p])
    BY <2>3 DEF VmInv, SbrkTodo
  <2> QED
    BY <2>2, <2>5, <2>6
<1> QED
  BY <1>2, <1>3, <1>4, <1>5 DEF VmInv

LEMMA SeqOf == ASSUME NEW S, NEW n \in Nat, NEW s \in [1 .. n -> S] PROVE s \in Seq(S)
  OBVIOUS

LEMMA ElementOf == ASSUME NEW S, NEW s \in Seq(S), NEW i \in DOMAIN s PROVE s[i] \in S
  OBVIOUS

\* The pages sched_sbrk() asks for.
LEMMA SbrkStep == ASSUME VmInv, NEW p \in Procs, NEW inc \in Increments, sched_sbrk(p, inc) PROVE VmInv'
<1> DEFINE new == brk[p] + inc
           from == page_up(brk[p])
           n == page_up(new) - from
           vas == [i \in 1 .. n |-> from + i - 1]
           todo == [i \in DOMAIN vas |-> [va |-> vas[i], kind |-> "data"]]
<1>1. /\ space[p] = "live" /\ UNCHANGED <<space, map, brk>>
      /\ job' = [for |-> "sbrk", proc |-> p, todo |-> todo, held |-> 0, brk |-> new]
  BY DEF sched_sbrk, NoJob, needed_end, cur_end, Work
<1>2. brk[p] \in Nat /\ new \in Nat /\ brk[p] <= new
  BY VmAssumption DEF VmInv, SpaceType
<1>3. from \in Nat /\ page_up(new) \in Nat /\ from <= page_up(new) /\ n \in Nat /\ n = page_up(new) - from
  BY <1>2, PageUp
<1> HIDE DEF from, new, n
<1>4. /\ todo \in Seq([va : Nat, kind : {"data"}]) /\ DOMAIN todo = 1 .. n
      /\ \A i \in 1 .. n : todo[i].va = from + i - 1
  <2>1. DOMAIN vas = 1 .. n /\ \A i \in 1 .. n : vas[i] \in Nat /\ vas[i] = from + i - 1
    BY <1>3
  <2> HIDE DEF vas
  <2>2. \A i \in 1 .. n : [va |-> vas[i], kind |-> "data"] \in [va : Nat, kind : {"data"}]
    BY <2>1
  <2>3. todo \in [1 .. n -> [va : Nat, kind : {"data"}]]
    BY <2>1, <2>2
  <2>4. \A i \in 1 .. n : todo[i].va = from + i - 1
    BY <2>1
  <2> HIDE DEF todo
  <2>5. todo \in Seq([va : Nat, kind : {"data"}])
    BY <2>3, <1>3, SeqOf
  <2>6. DOMAIN todo = 1 .. n
    BY <2>3
  <2> QED
    BY <2>4, <2>5, <2>6
<1> HIDE DEF todo
<1>5. /\ job'.for = "sbrk" /\ job'.proc = p /\ job'.todo = todo /\ job'.brk = new /\ JobOf'
  BY <1>1 DEF JobOf
<1>6. ASSUME NEW v \in Nat, HEAP_BASE <= v, v < page_up(new)
      PROVE v \in DOMAIN map[p] \/ \E i \in DOMAIN todo : todo[i].va = v
  <2>1. CASE v < from
    BY <2>1, <1>1, <1>6 DEF VmInv, Backed, from
  <2>2. CASE v >= from
    <3>1. v - from + 1 \in 1 .. n /\ todo[v - from + 1].va = v
      BY <2>2, <1>3, <1>4, <1>6
    <3> QED
      BY <3>1, <1>4
  <2> QED
    BY <2>1, <2>2, <1>3
<1>7. \A i \in DOMAIN todo : todo[i].va >= from
  BY <1>3, <1>4
<1>8. SbrkTodo'
  BY <1>1, <1>2, <1>4, <1>5, <1>6, <1>7 DEF SbrkTodo, from
<1> QED
  BY <1>1, <1>5, <1>8 DEF VmInv, SpaceType, Backed
LEMMA GiveUpStep == ASSUME VmInv, give_up PROVE VmInv'
  BY JobEnds DEF give_up

LEMMA VmStepKeeps == ASSUME VmInv, VmStep PROVE VmInv'
<1>1. CASE alloc_user_page
  <2>1. CASE \E f \in Frame : job' = [job EXCEPT !.held = f] /\ UNCHANGED <<space, map, brk>>
    <3>1. PICK f \in Frame : job' = [job EXCEPT !.held = f] /\ UNCHANGED <<space, map, brk>>
      BY <2>1
    <3>2. /\ JobOf' /\ job'.for = job.for /\ job'.proc = job.proc
          /\ job'.todo = job.todo /\ job'.brk = job.brk
      BY <3>1 DEF VmInv, JobOf
    <3> QED
      BY <3>1, <3>2, SameSpaces
  <2> QED
    BY <1>1, <2>1, GiveUpStep DEF alloc_user_page
<1>2. CASE walk_create
  <2>1. UNCHANGED <<space, map, brk, job>>
    BY <1>2 DEF walk_create
  <2>2. JobOf'
    BY <2>1 DEF VmInv, JobOf
  <2> QED
    BY <2>1, <2>2, SameSpaces
<1>3. CASE map_page
  BY <1>3, MapStep
<1>4. CASE elf_load
  <2>1. job.for = "devices" /\ UNCHANGED <<map, brk>>
    BY <1>4 DEF elf_load
  <2>2. CASE job' = NoJob /\ space' = [space EXCEPT ![job.proc] = "failed"]
    BY <2>1, <2>2, JobEnds
  <2>3. CASE /\ job' = [job EXCEPT !.for = "spawn", !.todo = Image \o Work(<<STACK_VA>>, "data")]
             /\ UNCHANGED space
    <3>1. JobOf' /\ job'.for = "spawn"
      BY <2>1, <2>3 DEF VmInv, JobOf
    <3> QED
      BY <3>1, <2>1, <2>3, SameSpaces
  <2> QED
    BY <1>4, <2>2, <2>3 DEF elf_load
<1>5. CASE task_create_user
  <2>1. CASE /\ space' = [space EXCEPT ![job.proc] = "live"]
             /\ brk' = [brk EXCEPT ![job.proc] = HEAP_BASE * UNITS]
             /\ job' = NoJob /\ UNCHANGED map
    <3>1. HEAP_BASE \in Nat /\ UNITS \in Nat \ {0} /\ HEAP_BASE * UNITS \in Nat
      BY VmAssumption
    <3>2. SpaceType'
      BY <2>1, <3>1 DEF VmInv, SpaceType
    <3>3. JobOf' /\ SbrkTodo'
      BY <2>1 DEF JobOf, SbrkTodo, NoJob
    <3>4. page_up(HEAP_BASE * UNITS) <= HEAP_BASE
      <4>1. page_up(HEAP_BASE * UNITS) \in Nat
        BY <3>1, PageUp
      <4>2. UNITS * page_up(HEAP_BASE * UNITS) <= UNITS * HEAP_BASE + (UNITS - 1)
        BY <3>1, Div DEF page_up
      <4>3. ASSUME page_up(HEAP_BASE * UNITS) > HEAP_BASE PROVE FALSE
        <5>1. PICK d \in Nat : page_up(HEAP_BASE * UNITS) = HEAP_BASE + 1 + d
          <6>1. page_up(HEAP_BASE * UNITS) - HEAP_BASE - 1 \in Nat
            BY <4>1, <4>3, <3>1
          <6> QED
            BY <6>1, <4>1, <3>1
        <5>2. UNITS * (HEAP_BASE + 1 + d) = UNITS * HEAP_BASE + UNITS + UNITS * d /\ UNITS * d \in Nat
          BY <3>1
        <5> QED
          BY <4>2, <5>1, <5>2, <3>1
      <4> QED
        BY <4>1, <4>3, <3>1
    <3>5. Backed'
      <4> SUFFICES ASSUME NEW p \in Procs, space'[p] = "live", NEW v \in Nat,
                          HEAP_BASE <= v, v < page_up(brk'[p])
                   PROVE v \in DOMAIN map'[p]
        BY DEF Backed, page_up
      <4>1. p # job.proc => space[p] = "live" /\ brk'[p] = brk[p]
        BY <2>1 DEF VmInv, SpaceType
      <4>2. p = job.proc => brk'[p] = HEAP_BASE * UNITS
        BY <2>1 DEF VmInv, SpaceType
      <4>3. p = job.proc => FALSE
        BY <4>2, <3>1, <3>4, PageUp
      <4> QED
        BY <4>1, <4>3, <2>1 DEF VmInv, Backed
    <3> QED
      BY <3>2, <3>3, <3>5 DEF VmInv
  <2> QED
    BY <1>5, <2>1, GiveUpStep DEF task_create_user
<1>7. CASE elf_reject
  BY <1>7, GiveUpStep DEF elf_reject
<1>6. CASE sbrk_done
  <2>1. /\ job.for = "sbrk" /\ job.todo = <<>> /\ brk' = [brk EXCEPT ![job.proc] = job.brk]
        /\ job' = NoJob /\ UNCHANGED <<space, map>>
    BY <1>6 DEF sbrk_done
  <2>2. job.brk \in Nat /\ job.proc \in Procs
    BY <2>1 DEF VmInv, SbrkTodo, JobOf
  <2>3. SpaceType' /\ JobOf' /\ SbrkTodo'
    BY <2>1, <2>2 DEF VmInv, SpaceType, JobOf, SbrkTodo, NoJob
  <2>4. \A v \in Nat : HEAP_BASE <= v /\ v < page_up(job.brk) => v \in DOMAIN map[job.proc]
    <3>1. DOMAIN job.todo = {}
      BY <2>1
    <3> QED
      BY <3>1, <2>1 DEF VmInv, SbrkTodo
  <2>5. Backed'
    <3> SUFFICES ASSUME NEW p \in Procs, space[p] = "live", NEW v \in Nat,
                        HEAP_BASE <= v, v < page_up(brk'[p])
                 PROVE v \in DOMAIN map[p]
      BY <2>1 DEF Backed, page_up
    <3>1. CASE p = job.proc
      <4>1. brk'[p] = job.brk
        BY <3>1, <2>1 DEF VmInv, SpaceType
      <4> QED
        BY <4>1, <3>1, <2>4
    <3>2. CASE p # job.proc
      <4>1. brk'[p] = brk[p]
        BY <3>2, <2>1 DEF VmInv, SpaceType
      <4> QED
        BY <4>1 DEF VmInv, Backed
    <3> QED
      BY <3>1, <3>2
  <2> QED
    BY <2>3, <2>5 DEF VmInv
<1> QED
  BY <1>1, <1>2, <1>3, <1>4, <1>5, <1>6, <1>7 DEF VmStep

LEMMA VmInvNext == VmInv /\ [Next]_vars => VmInv'
<1> SUFFICES ASSUME VmInv, [Next]_vars PROVE VmInv'
  OBVIOUS
<1>1. CASE VmStep
  BY <1>1, VmStepKeeps
<1>2. ASSUME NEW p \in Procs, spawn_elf_bytes(p) PROVE VmInv'
  <2>1. /\ job' = [for |-> "devices", proc |-> p, todo |-> Work(Devices, "device"), held |-> 0, brk |-> 0]
        /\ space' = [space EXCEPT ![p] = "loading"] /\ UNCHANGED <<map, brk>>
    BY <1>2 DEF spawn_elf_bytes, NoJob
  <2>2. SpaceType' /\ space'[p] = "loading" /\ \A q \in Procs : q # p => space'[q] = space[q]
    BY <2>1 DEF VmInv, SpaceType
  <2>3. JobOf' /\ SbrkTodo'
    BY <2>1, <2>2 DEF JobOf, SbrkTodo
  <2>4. Backed'
    BY <2>1, <2>2 DEF VmInv, Backed
  <2> QED
    BY <2>2, <2>3, <2>4 DEF VmInv
<1>3. ASSUME NEW p \in Procs, NEW inc \in Increments, sched_sbrk(p, inc) PROVE VmInv'
  BY <1>3, SbrkStep
<1>4. CASE UNCHANGED vmVars
  BY <1>4 DEF vmVars, VmInv, SpaceType, JobOf, SbrkTodo, Backed
<1>5. UNCHANGED vmVars \/ VmNext
  BY DEF Next, halted, vars, vmVars
<1> QED
  BY <1>1, <1>2, <1>3, <1>4, <1>5 DEF VmNext

-----------------------------------------------------------------------------

\* A live process's pages are mapped up to its break, and what SYS_SBRK is still
\* to map lies above it.
THEOREM SpacesHold == Spec => []VmInv
  BY VmStart, VmInvNext, PTL DEF Spec

\* Below the break a process's heap is mapped, after a SYS_SBRK that failed too
\* (sched.c:255-284).
THEOREM BreakAlwaysBacked == Spec => []BreakBacked
<1>1. VmInv => BreakBacked
  BY Below DEF VmInv, BreakBacked, Backed, HeapPages
<1> QED
  BY <1>1, SpacesHold, PTL

\* No page below the break is replaced by another one (sched.c:271-280).
THEOREM HeapPagesStay == Spec => HeapPagesKept
<1>1. VmInv /\ [Next]_vars =>
        [\A p \in Procs : space[p] = "live" =>
           \A a \in HEAP_BASE * UNITS .. brk[p] - 1 : map'[p][a \div UNITS] = map[p][a \div UNITS]]_map
  <2> SUFFICES ASSUME VmInv, [Next]_vars, map' # map, NEW p \in Procs, space[p] = "live",
                      NEW a \in HEAP_BASE * UNITS .. brk[p] - 1
               PROVE map'[p][a \div UNITS] = map[p][a \div UNITS]
    OBVIOUS
  <2>1. map_page
    BY DEF Next, halted, vars, vmVars, VmNext, VmStep, alloc_user_page, walk_create, elf_load, elf_reject,
           task_create_user, sbrk_done, spawn_elf_bytes, sched_sbrk, give_up
  <2> DEFINE x == a \div UNITS
             e == [frame |-> IF Now.kind = "device" THEN Now.va ELSE job.held, kind |-> Now.kind]
  <2>2. /\ map' = [map EXCEPT ![job.proc] = Extend(@, Now.va, e)]
        /\ job.for # "none" /\ job.todo # <<>>
    BY <2>1 DEF map_page, Working
  <2>3. x \in Nat /\ HEAP_BASE <= x /\ x < page_up(brk[p])
    BY Below DEF VmInv
  <2>4. x \in DOMAIN map[p]
    BY <2>3 DEF VmInv, Backed
  <2> HIDE DEF e, x
  <2>5. CASE p # job.proc
    BY <2>2, <2>5 DEF VmInv, SpaceType, x
  <2>6. CASE p = job.proc
    <3>1. job.for = "sbrk"
      BY <2>2, <2>6 DEF VmInv, JobOf
    <3>2. 1 \in DOMAIN job.todo /\ Now = job.todo[1] /\ Now.va \in Nat
      <4>1. job.todo \in Seq([va : Nat, kind : {"data"}]) /\ job.todo # <<>>
        BY <2>2, <3>1 DEF VmInv, SbrkTodo
      <4>2. 1 \in DOMAIN job.todo /\ Now = job.todo[1]
        BY <4>1 DEF Now
      <4>3. job.todo[1] \in [va : Nat, kind : {"data"}]
        BY <4>1, <4>2, ElementOf
      <4> QED
        BY <4>2, <4>3
    <3>3. Now.va >= page_up(brk[p])
      BY <3>1, <3>2, <2>6 DEF VmInv, SbrkTodo
    <3>4. brk[p] \in Nat /\ page_up(brk[p]) \in Nat
      BY PageUp DEF VmInv, SpaceType
    <3>5. x # Now.va
      BY <2>3, <3>2, <3>3, <3>4
    <3>6. map'[p] = Extend(map[p], Now.va, e)
      BY <2>2, <2>6 DEF VmInv, SpaceType
    <3> QED
      BY <2>4, <3>5, <3>6 DEF Extend, x
  <2> QED
    BY <2>5, <2>6
<1> QED
  BY <1>1, SpacesHold, PTL DEF Spec, HeapPagesKept
-----------------------------------------------------------------------------
\* Types.  The bounds on blocks follow from the heap's invariant; a break keeps
\* to its limit because sched_sbrk() tests the one it is to become.

SpaceBound ==
  /\ space \in [Procs -> {"none", "loading", "live", "failed"}]
  /\ brk \in [Procs -> 0 .. HEAP_MAX * UNITS]
  /\ job.for = "sbrk" => job.brk \in 0 .. HEAP_MAX * UNITS
  /\ down \in BOOLEAN

LEMMA GiveUpBound == ASSUME VmInv, SpaceBound, give_up PROVE SpaceBound'
<1>1. job'.for = "none" /\ UNCHANGED <<brk, down>>
  BY DEF give_up, NoJob
<1>2. space' \in [Procs -> {"none", "loading", "live", "failed"}]
  BY DEF give_up, SpaceBound
<1> QED
  BY <1>1, <1>2 DEF SpaceBound

LEMMA VmStepBound == ASSUME VmInv, SpaceBound, VmStep PROVE SpaceBound'
<1>0. /\ space \in [Procs -> {"none", "loading", "live", "failed"}]
      /\ brk \in [Procs -> 0 .. HEAP_MAX * UNITS] /\ down \in BOOLEAN
      /\ job = [for |-> job.for, proc |-> job.proc, todo |-> job.todo, held |-> job.held, brk |-> job.brk]
  BY DEF SpaceBound, VmInv, JobOf
<1>1. CASE alloc_user_page
  <2>1. CASE \E f \in Frame : job' = [job EXCEPT !.held = f] /\ UNCHANGED <<space, brk, down>>
    <3>1. job'.for = job.for /\ job'.brk = job.brk
      BY <1>0, <2>1
    <3> QED
      BY <2>1, <3>1 DEF SpaceBound
  <2> QED
    BY <1>1, <2>1, GiveUpBound DEF alloc_user_page
<1>2. CASE walk_create
  BY <1>2 DEF walk_create, SpaceBound
<1>3. CASE map_page
  <2>1. job'.for = job.for /\ job'.brk = job.brk /\ UNCHANGED <<space, brk, down>>
    BY <1>0, <1>3 DEF map_page
  <2> QED
    BY <2>1 DEF SpaceBound
<1>4. CASE elf_load
  <2>1. UNCHANGED <<brk, down>> /\ job.for = "devices"
    BY <1>4 DEF elf_load
  <2>2. job'.for \in {"spawn", "none"}
    <3>1. job' = NoJob \/ \E t \in {Image \o Work(<<STACK_VA>>, "data")} :
                            job' = [job EXCEPT !.for = "spawn", !.todo = t]
      BY <1>4 DEF elf_load
    <3>2. ASSUME NEW t, job' = [job EXCEPT !.for = "spawn", !.todo = t] PROVE job'.for = "spawn"
      BY <1>0, <3>2
    <3>3. NoJob.for = "none"
      BY DEF NoJob
    <3> QED
      BY <3>1, <3>2, <3>3
  <2>3. space' \in [Procs -> {"none", "loading", "live", "failed"}]
    BY <1>0, <1>4 DEF elf_load
  <2> QED
    BY <2>1, <2>2, <2>3 DEF SpaceBound
<1>5. CASE task_create_user
  <2>1. CASE /\ space' = [space EXCEPT ![job.proc] = "live"]
             /\ brk' = [brk EXCEPT ![job.proc] = HEAP_BASE * UNITS]
             /\ job' = NoJob /\ UNCHANGED down
    <3>1. HEAP_BASE * UNITS \in 0 .. HEAP_MAX * UNITS
      <4>1. /\ HEAP_BASE \in Nat /\ HEAP_MAX \in Nat /\ UNITS \in Nat
            /\ HEAP_MAX - HEAP_BASE \in Nat /\ HEAP_MAX = HEAP_BASE + (HEAP_MAX - HEAP_BASE)
        BY VmAssumption
      <4>2. /\ HEAP_MAX * UNITS = HEAP_BASE * UNITS + (HEAP_MAX - HEAP_BASE) * UNITS
            /\ HEAP_BASE * UNITS \in Nat /\ (HEAP_MAX - HEAP_BASE) * UNITS \in Nat
        BY <4>1
      <4> QED
        BY <4>2
    <3> QED
      BY <1>0, <2>1, <3>1 DEF SpaceBound, NoJob
  <2> QED
    BY <1>5, <2>1, GiveUpBound DEF task_create_user
<1>7. CASE elf_reject
  BY <1>7, GiveUpBound DEF elf_reject
<1>6. CASE sbrk_done
  <2>1. /\ job.brk \in 0 .. HEAP_MAX * UNITS /\ brk' = [brk EXCEPT ![job.proc] = job.brk]
        /\ job' = NoJob /\ UNCHANGED <<space, down>>
    BY <1>6 DEF sbrk_done, SpaceBound
  <2> QED
    BY <1>0, <2>1 DEF SpaceBound, NoJob
<1> QED
  BY <1>1, <1>2, <1>3, <1>4, <1>5, <1>6, <1>7 DEF VmStep

LEMMA SpaceBoundNext == VmInv /\ SpaceBound /\ [Next]_vars => SpaceBound'
<1> SUFFICES ASSUME VmInv, SpaceBound, [Next]_vars PROVE SpaceBound'
  OBVIOUS
<1>1. CASE VmStep
  BY <1>1, VmStepBound
<1>2. ASSUME NEW p \in Procs, spawn_elf_bytes(p) PROVE SpaceBound'
  <2>1. job'.for = "devices" /\ space' = [space EXCEPT ![p] = "loading"] /\ UNCHANGED <<brk, down>>
    BY <1>2 DEF spawn_elf_bytes, NoJob
  <2> QED
    BY <2>1 DEF SpaceBound
<1>3. ASSUME NEW p \in Procs, NEW inc \in Increments, sched_sbrk(p, inc) PROVE SpaceBound'
  <2>1. /\ job'.brk = brk[p] + inc /\ brk[p] + inc <= HEAP_MAX * UNITS
        /\ UNCHANGED <<space, brk, down>>
    BY <1>3 DEF sched_sbrk, NoJob
  <2>2. brk[p] \in Nat /\ inc \in Nat
    BY VmAssumption DEF VmInv, SpaceType
  <2>3. brk[p] + inc \in 0 .. HEAP_MAX * UNITS
    BY <2>1, <2>2, VmAssumption
  <2> QED
    BY <2>1, <2>3 DEF SpaceBound
<1>4. CASE UNCHANGED vmVars
  BY <1>4 DEF vmVars, SpaceBound
<1>5. UNCHANGED vmVars \/ VmNext
  BY DEF Next, halted, vars, vmVars
<1> QED
  BY <1>1, <1>2, <1>3, <1>4, <1>5 DEF VmNext

LEMMA SpaceBoundStart == Init => SpaceBound
<1>1. HEAP_MAX * UNITS \in Nat
  BY VmAssumption
<1>2. 0 \in 0 .. HEAP_MAX * UNITS
  BY <1>1
<1>3. NoJob.for = "none"
  BY DEF NoJob
<1> QED
  BY <1>2, <1>3 DEF Init, vm_init, SpaceBound

\* A block lies below the allocator's cursor, header and payload.
LEMMA BlockInPool ==
  ASSUME HeapInv, NEW b \in Blocks
  PROVE  b \in Addr /\ blk[b].size \in 0 .. Frames * PAGE
<1>1. /\ b \in Nat /\ End(b) \in Nat /\ b < End(b)
      /\ \A u \in Nat : b <= u /\ u < End(b) => u \in Cover(blk)
  BY CoverOf
<1>2. End(b) - 1 \in Nat /\ b <= End(b) - 1 /\ End(b) - 1 < End(b)
  BY <1>1
<1>3. End(b) - 1 < Page(cursor)
  BY <1>1, <1>2 DEF HeapInv, CoverBelow
<1>4. cursor \in Nat /\ cursor <= Frames /\ Frames \in Nat
  BY FrameAssumption DEF HeapInv, Above
<1>5. Page(cursor) <= Page(Frames) /\ Page(cursor) \in Nat /\ Page(Frames) \in Nat
  BY <1>4, Pages
<1>6. blk[b].size \in Nat /\ HDR \in Nat /\ End(b) = b + HDR + blk[b].size
  BY HeapAssumption DEF HeapInv, Chained, Header, Blocks, End
<1>7. Page(Frames) = Frames * PAGE
  BY DEF Page
<1> QED
  BY <1>1, <1>3, <1>5, <1>6, <1>7 DEF Addr

\* Every variable of the two consumers of memory and of their allocator keeps its
\* type: blocks lie in the pool, breaks under TASK_HEAP_MAX (sched.c:264).
THEOREM MemoryTyped == ASSUME Open = {} PROVE Spec => []TypeOK
<1>1. ASSUME HeapInv, VmInv, SpaceBound PROVE TypeOK
  <2>1. used \subseteq Frame /\ cursor \in 0 .. Frames
    BY <1>1 DEF HeapInv, Above
  <2>2. ASSUME NEW b \in Blocks
        PROVE  /\ blk[b].free \in BOOLEAN
               /\ {blk[b].next, blk[b].prev} \subseteq Blocks \cup {Null}
    <3>1. blk[b] \in Header /\ Follows(blk, head, tail, b)
      BY <1>1 DEF HeapInv, Chained, Blocks
    <3> QED
      BY <3>1 DEF Follows, Header, Blocks
  <2>3. {head, tail} \subseteq Blocks \cup {Null}
    BY <1>1 DEF HeapInv, Chained, Blocks
  <2>4. DOMAIN live \subseteq Blocks
    BY <1>1 DEF HeapInv, Held, InUse, Blocks
  <2> QED
    BY <1>1, <2>1, <2>2, <2>3, <2>4, BlockInPool DEF TypeOK, SpaceBound
<1> QED
  BY <1>1, SpaceBoundStart, SpaceBoundNext, HeapHolds, SpacesHold, PTL DEF Spec
=============================================================================
