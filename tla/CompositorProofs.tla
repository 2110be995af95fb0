-------------------------- MODULE CompositorProofs --------------------------
(***************************************************************************)
(* The window table, its z-order and its queues agree for any number of    *)
(* processes, windows and queued events, and no queue outgrows its ring.   *)
(***************************************************************************)
EXTENDS Compositor, FiniteSetTheorems, FunctionTheorems, TLAPS

-----------------------------------------------------------------------------
\* The z-order as a sequence: what it lists, each once, the set B below the rest.

Listed(z) == {z[i] : i \in DOMAIN z}

Once(z) == \A i, j \in DOMAIN z : z[i] = z[j] => i = j

Below(z, B) == \A i, j \in DOMAIN z : i < j /\ z[j] \in B => z[i] \in B

\* A list without repetition is as long as the set it lists.
LEMMA OnceLength ==
  ASSUME NEW z \in Seq(Slot), Once(z)
  PROVE  Len(z) = Cardinality(Listed(z))
<1>1. /\ Len(z) \in Nat
      /\ DOMAIN z = 1 .. Len(z)
      /\ z \in [1 .. Len(z) -> Listed(z)]
  BY DEF Listed
<1>2. z \in Bijection(1 .. Len(z), Listed(z))
  <2>1. z \in Injection(1 .. Len(z), Listed(z))
    BY <1>1 DEF Once, Injection, IsInjective
  <2>2. z \in Surjection(1 .. Len(z), Listed(z))
    BY <1>1 DEF Listed, Surjection
  <2> QED
    BY <2>1, <2>2 DEF Bijection
<1> QED
  BY <1>1, <1>2, Fun_ExistsBij, FS_CountingElements

\* zorder_remove(): the entry for s goes, the rest keep their order.
LEMMA RemoveKeepsOrder ==
  ASSUME NEW z \in Seq(Slot), NEW s \in Slot, NEW B, Once(z)
  PROVE  /\ zorder_remove(z, s) \in Seq(Slot)
         /\ Once(zorder_remove(z, s))
         /\ Listed(zorder_remove(z, s)) = Listed(z) \ {s}
         /\ Below(z, B) => Below(zorder_remove(z, s), B)
<1> DEFINE r == zorder_remove(z, s)
<1>1. CASE \A i \in DOMAIN z : z[i] # s
  <2>1. r = z
    BY <1>1 DEF zorder_remove
  <2> QED
    BY <1>1, <2>1 DEF Listed
<1>2. ASSUME NEW gap \in DOMAIN z, z[gap] = s
      PROVE  /\ r \in Seq(Slot)
             /\ Once(r)
             /\ Listed(r) = Listed(z) \ {s}
             /\ Below(z, B) => Below(r, B)
  <2>1. gap = CHOOSE i \in DOMAIN z : z[i] = s
    BY <1>2 DEF Once
  <2>2. r = [i \in 1 .. Len(z) - 1 |-> IF i < gap THEN z[i] ELSE z[i + 1]]
    BY <1>2, <2>1 DEF zorder_remove
  <2> HIDE DEF r
  <2>3. /\ Len(z) \in Nat \ {0} /\ DOMAIN z = 1 .. Len(z) /\ gap \in 1 .. Len(z)
        /\ \A i \in 1 .. Len(z) : z[i] \in Slot
    BY <1>2
  <2>4. /\ r \in Seq(Slot) /\ DOMAIN r = 1 .. Len(z) - 1
        /\ \A i \in 1 .. Len(z) - 1 : r[i] = IF i < gap THEN z[i] ELSE z[i + 1]
    <3>1. r \in [1 .. Len(z) - 1 -> Slot]
      BY <2>2, <2>3
    <3> QED
      BY <2>2, <2>3, <3>1
  <2> DEFINE old(i) == IF i < gap THEN i ELSE i + 1
  <2>5. \A i \in DOMAIN r : old(i) \in DOMAIN z /\ old(i) # gap /\ r[i] = z[old(i)]
    BY <2>3, <2>4
  <2>6. \A i, j \in DOMAIN r : i < j <=> old(i) < old(j)
    BY <2>3, <2>4
  <2>7. \A k \in DOMAIN z \ {gap} : \E i \in DOMAIN r : old(i) = k
    <3> SUFFICES ASSUME NEW k \in DOMAIN z \ {gap} PROVE \E i \in DOMAIN r : old(i) = k
      OBVIOUS
    <3>1. CASE k < gap
      BY <3>1, <2>3, <2>4
    <3>2. CASE k > gap
      <4>1. k - 1 \in DOMAIN r /\ old(k - 1) = k
        BY <3>2, <2>3, <2>4
      <4> QED
        BY <4>1
    <3> QED
      BY <3>1, <3>2, <2>3
  <2> HIDE DEF old
  <2>8. Once(r)
    <3> SUFFICES ASSUME NEW i \in DOMAIN r, NEW j \in DOMAIN r, r[i] = r[j] PROVE i = j
      BY DEF Once
    <3>1. old(i) = old(j) /\ old(i) \in Nat
      BY <2>3, <2>5 DEF Once
    <3>2. ~(i < j) /\ ~(j < i)
      BY <2>6, <3>1
    <3> QED
      BY <3>2, <2>3, <2>4
  <2>9. Listed(r) = Listed(z) \ {s}
    <3>1. Listed(r) \subseteq Listed(z) \ {s}
      BY <1>2, <2>5 DEF Listed, Once
    <3>2. ASSUME NEW x \in Listed(z), x # s PROVE x \in Listed(r)
      <4>1. PICK k \in DOMAIN z : z[k] = x
        BY <3>2 DEF Listed
      <4>2. PICK i \in DOMAIN r : old(i) = k
        BY <1>2, <3>2, <4>1, <2>7
      <4> QED
        BY <4>1, <4>2, <2>5 DEF Listed
    <3> QED
      BY <3>1, <3>2
  <2>10. Below(z, B) => Below(r, B)
    BY <2>5, <2>6 DEF Below
  <2> QED
    BY <2>4, <2>8, <2>9, <2>10 DEF r
<1> QED
  BY <1>1, <1>2

\* zorder_insert() of a window not listed: at the bottom when it is in B, else on top.
LEMMA InsertKeepsOrder ==
  ASSUME NEW z \in Seq(Slot), NEW s \in Slot, NEW B, NEW bottom \in BOOLEAN,
         Once(z), s \notin Listed(z), bottom <=> s \in B
  PROVE  /\ zorder_insert(z, s, bottom) \in Seq(Slot)
         /\ Once(zorder_insert(z, s, bottom))
         /\ Listed(zorder_insert(z, s, bottom)) = Listed(z) \cup {s}
         /\ Below(z, B) => Below(zorder_insert(z, s, bottom), B)
<1> DEFINE r == zorder_insert(z, s, bottom)
<1>0. Len(z) \in Nat /\ DOMAIN z = 1 .. Len(z) /\ \A i \in DOMAIN z : z[i] # s
  BY DEF Listed
<1>1. CASE bottom
  <2>1. /\ r \in Seq(Slot) /\ DOMAIN r = 1 .. Len(z) + 1 /\ r[1] = s
        /\ \A i \in 2 .. Len(z) + 1 : r[i] = z[i - 1]
    BY <1>1 DEF zorder_insert
  <2> HIDE DEF r
  <2>2. \A i \in DOMAIN z : i + 1 \in DOMAIN r /\ r[i + 1] = z[i]
    BY <1>0, <2>1
  <2>3. \A i \in DOMAIN r : i = 1 \/ i - 1 \in DOMAIN z
    BY <1>0, <2>1
  <2>4. Once(r)
    BY <1>0, <2>1, <2>3 DEF Once
  <2>5. Listed(r) = Listed(z) \cup {s}
    <3>1. Listed(r) \subseteq Listed(z) \cup {s}
      BY <1>0, <2>1, <2>3 DEF Listed
    <3>2. 1 \in DOMAIN r
      BY <1>0, <2>1
    <3>3. Listed(z) \cup {s} \subseteq Listed(r)
      BY <2>1, <2>2, <3>2 DEF Listed
    <3> QED
      BY <3>1, <3>3
  <2>6. Below(z, B) => Below(r, B)
    <3> SUFFICES ASSUME Below(z, B), NEW i \in DOMAIN r, NEW j \in DOMAIN r, i < j, r[j] \in B
                 PROVE  r[i] \in B
      BY DEF Below
    <3>1. CASE i = 1
      BY <3>1, <1>1, <2>1
    <3>2. CASE i # 1
      <4>1. i - 1 \in DOMAIN z /\ j - 1 \in DOMAIN z /\ i - 1 < j - 1
        BY <3>2, <1>0, <2>1
      <4>2. r[i] = z[i - 1] /\ r[j] = z[j - 1]
        BY <3>2, <4>1, <1>0, <2>1
      <4> QED
        BY <4>1, <4>2 DEF Below
    <3> QED
      BY <3>1, <3>2
  <2> QED
    BY <2>1, <2>4, <2>5, <2>6 DEF r
<1>2. CASE ~bottom
  <2>1. /\ r \in Seq(Slot) /\ DOMAIN r = 1 .. Len(z) + 1 /\ r[Len(z) + 1] = s
        /\ \A i \in 1 .. Len(z) : r[i] = z[i]
    BY <1>2 DEF zorder_insert
  <2> HIDE DEF r
  <2>2. Once(r)
    BY <1>0, <2>1 DEF Once
  <2>3. Listed(r) = Listed(z) \cup {s}
    <3>1. Listed(r) \subseteq Listed(z) \cup {s}
      <4> SUFFICES ASSUME NEW i \in DOMAIN r PROVE r[i] \in Listed(z) \cup {s}
        BY DEF Listed
      <4>1. i \in DOMAIN z \/ i = Len(z) + 1
        BY <1>0, <2>1
      <4> QED
        BY <4>1, <1>0, <2>1 DEF Listed
    <3>2. Len(z) + 1 \in DOMAIN r /\ \A i \in DOMAIN z : i \in DOMAIN r
      BY <1>0, <2>1
    <3>3. Listed(z) \cup {s} \subseteq Listed(r)
      BY <1>0, <2>1, <3>2 DEF Listed
    <3> QED
      BY <3>1, <3>3
  <2>4. Below(z, B) => Below(r, B)
    <3> SUFFICES ASSUME Below(z, B), NEW i \in DOMAIN r, NEW j \in DOMAIN r, i < j, r[j] \in B
                 PROVE  r[i] \in B
      BY DEF Below
    <3>1. i \in DOMAIN z /\ j \in DOMAIN z
      BY <1>0, <1>2, <2>1
    <3> QED
      BY <3>1, <1>0, <2>1 DEF Below
  <2> QED
    BY <2>1, <2>2, <2>3, <2>4 DEF r
<1> QED
  BY <1>1, <1>2

-----------------------------------------------------------------------------
\* The inductive invariant.  That no window is listed twice is what makes the
\* list and the table agree when one is removed; Stacked itself only counts.

Typed ==
  /\ win \in [Slot -> [pid : Apps \cup {None}, max : BOOLEAN]]
  /\ kbd \in [Slot -> Seq(Event)]
  /\ mouse \in [Slot -> Seq(Event)]
  /\ zorder \in Seq(Slot)
  /\ life \in [Apps -> {"alive", "dead"}]

Bottom == {s \in Slot : Borderless(s)}

Order(z) ==
  /\ z \in Seq(Slot)
  /\ Once(z)
  /\ Listed(z) = Used
  /\ Below(z, Bottom)

CInv == Typed /\ Order(zorder) /\ FocusOnWindow /\ EventsForOwner

LEMMA OrderIsStacked == Order(zorder) => Stacked
<1> SUFFICES ASSUME Order(zorder) PROVE Stacked
  OBVIOUS
<1>1. {zorder[i] : i \in DOMAIN zorder} = Used
  BY DEF Order, Listed
<1>2. Len(zorder) = Cardinality(Used)
  BY OnceLength DEF Order
<1>3. \A i, j \in DOMAIN zorder : i < j /\ Borderless(zorder[j]) => Borderless(zorder[i])
  BY DEF Order, Below, Bottom
<1> QED
  BY <1>1, <1>2, <1>3 DEF Stacked

\* The window on top is one of those listed.
LEMMA TopListed ==
  ASSUME NEW z \in Seq(Slot)
  PROVE  IF Listed(z) = {} THEN Top(z) = None ELSE Top(z) \in Listed(z)
<1>1. z = <<>> => Listed(z) = {} /\ Top(z) = None
  BY DEF Listed, Top
<1>2. z # <<>> => Len(z) \in DOMAIN z /\ Top(z) = z[Len(z)]
  BY DEF Top
<1> QED
  BY <1>1, <1>2 DEF Listed

LEMMA PushOwned ==
  ASSUME NEW q \in Seq(Event), NEW e \in Event, NEW p, e.to = p,
         \A i \in DOMAIN q : q[i].to = p
  PROVE  /\ push_event(q, e) \in Seq(Event)
         /\ \A i \in DOMAIN push_event(q, e) : push_event(q, e)[i].to = p
  BY DEF push_event

LEMMA InitCInv == InitDesk => CInv
<1> SUFFICES ASSUME InitDesk PROVE CInv
  OBVIOUS
<1>1. Used = {}
  BY DEF InitDesk, Used
<1>2. Order(zorder)
  BY <1>1 DEF InitDesk, Order, Once, Listed, Below
<1> QED
  BY <1>1, <1>2, CompositorAssumption DEF InitDesk, CInv, Typed, FocusOnWindow, EventsForOwner

\* free_window() of a window in the table.
LEMMA FreeKeeps ==
  ASSUME CInv, NEW s \in Used, free_window(s), life' \in [Apps -> {"alive", "dead"}]
  PROVE  CInv'
<1> DEFINE z == zorder_remove(zorder, s)
<1>1. /\ s \in Slot /\ win' = [win EXCEPT ![s] = [pid |-> None, max |-> FALSE]]
      /\ zorder' = z /\ focused' = focus_after(s, z) /\ drag' = drag_after(s)
      /\ kbd' = kbd /\ mouse' = mouse
  BY DEF free_window, Used
<1>2. Typed'
  BY <1>1, RemoveKeepsOrder DEF CInv, Typed, Order
<1>3. Used' = Used \ {s} /\ Bottom' = Bottom \ {s}
  BY <1>1, CompositorAssumption DEF CInv, Typed, Used, Bottom, Borderless
<1>4. /\ z \in Seq(Slot) /\ Once(z) /\ Listed(z) = Used \ {s} /\ Below(z, Bottom)
  BY <1>1, RemoveKeepsOrder DEF CInv, Order
<1>5. Order(zorder)'
  <2>1. Below(z, Bottom \ {s})
    <3>1. \A i \in DOMAIN z : z[i] # s
      BY <1>4 DEF Listed
    <3> QED
      BY <1>4, <3>1 DEF Below
  <2> QED
    BY <1>1, <1>3, <1>4, <2>1 DEF Order
<1>6. FocusOnWindow'
  <2>1. IF Used' = {} THEN focused' = None ELSE focused' \in Used'
    BY <1>1, <1>3, <1>4, TopListed DEF CInv, FocusOnWindow, focus_after
  <2>2. drag' \in Used' \cup {None}
    BY <1>1, <1>3 DEF CInv, FocusOnWindow, drag_after
  <2> QED
    BY <2>1, <2>2 DEF FocusOnWindow
<1>7. EventsForOwner'
  <2>1. \A r \in Used' : r \in Used /\ win'[r] = win[r]
    BY <1>1, <1>3 DEF CInv, Typed, Used
  <2> QED
    BY <1>1, <2>1 DEF CInv, EventsForOwner
<1> QED
  BY <1>2, <1>5, <1>6, <1>7 DEF CInv

\* raise_and_focus() of a window in the table, its owner unchanged.
LEMMA RaiseKeeps ==
  ASSUME CInv, NEW s \in Used, raise_and_focus(s),
         win' \in [Slot -> [pid : Apps \cup {None}, max : BOOLEAN]],
         \A r \in Slot : win'[r].pid = win[r].pid,
         drag' \in {drag, s}
  PROVE  Order(zorder)' /\ FocusOnWindow'
<1>1. Used' = Used /\ Bottom' = Bottom /\ s \in Slot
  BY DEF Used, Bottom, Borderless
<1>2. zorder' = raised(s) /\ focused' = s
  BY DEF raise_and_focus
<1>3. ASSUME Borderless(s) PROVE Order(zorder)'
  BY <1>1, <1>2, <1>3 DEF raised, CInv, Order
<1>4. ASSUME ~Borderless(s) PROVE Order(zorder)'
  <2> DEFINE z == zorder_remove(zorder, s)
  <2>1. z \in Seq(Slot) /\ Once(z) /\ Listed(z) = Used \ {s} /\ Below(z, Bottom)
    BY <1>1, RemoveKeepsOrder DEF CInv, Order
  <2>2. s \notin Bottom /\ s \notin Listed(z)
    BY <1>4, <2>1 DEF Bottom
  <2>3. zorder' = zorder_insert(z, s, FALSE)
    BY <1>2, <1>4 DEF raised
  <2> HIDE DEF z
  <2>4. /\ zorder' \in Seq(Slot) /\ Once(zorder') /\ Below(zorder', Bottom)
        /\ Listed(zorder') = Listed(z) \cup {s}
    BY <1>1, <2>1, <2>2, <2>3, InsertKeepsOrder
  <2> QED
    BY <1>1, <2>1, <2>4 DEF Order
<1>5. FocusOnWindow'
  BY <1>1, <1>2 DEF CInv, FocusOnWindow
<1> QED
  BY <1>3, <1>4, <1>5

LEMMA CreateKeeps ==
  ASSUME CInv, NEW p \in Apps, compositor_create_window(p)
  PROVE  CInv'
<1>1. PICK s \in Slot \ Used :
        /\ kbd' = emptied(kbd, s)
        /\ mouse' = emptied(mouse, s)
        /\ \/ /\ win' = [win EXCEPT ![s] = [pid |-> p, max |-> FALSE]]
              /\ zorder' = zorder_insert(zorder, s, p \in Desktop)
              /\ focused' = s
           \/ UNCHANGED <<win, zorder, focused>>
  BY DEF compositor_create_window
<1>2. drag' = drag /\ life' = life
  BY DEF compositor_create_window
<1>3. /\ kbd' = [kbd EXCEPT ![s] = <<>>] /\ mouse' = [mouse EXCEPT ![s] = <<>>]
      /\ kbd' \in [Slot -> Seq(Event)] /\ mouse' \in [Slot -> Seq(Event)]
  BY <1>1 DEF emptied, CInv, Typed
<1>4. CASE UNCHANGED <<win, zorder, focused>>
  <2>1. Used' = Used /\ Bottom' = Bottom
    BY <1>4 DEF Used, Bottom, Borderless
  <2>2. \A r \in Used : win'[r] = win[r] /\ kbd'[r] = kbd[r] /\ mouse'[r] = mouse[r]
    BY <1>3, <1>4 DEF CInv, Typed, Used
  <2>3. EventsForOwner'
    BY <2>1, <2>2 DEF CInv, EventsForOwner
  <2> QED
    BY <1>2, <1>3, <1>4, <2>1, <2>3 DEF CInv, Typed, Order, FocusOnWindow
<1>5. CASE /\ win' = [win EXCEPT ![s] = [pid |-> p, max |-> FALSE]]
           /\ zorder' = zorder_insert(zorder, s, p \in Desktop)
           /\ focused' = s
  <2>1. /\ Used' = Used \cup {s}
        /\ Bottom' = IF p \in Desktop THEN Bottom \cup {s} ELSE Bottom
        /\ s \notin Bottom /\ s \notin Listed(zorder)
    BY <1>5, CompositorAssumption DEF CInv, Typed, Order, Used, Bottom, Borderless
  <2>2. Below(zorder, Bottom')
    <3>1. \A i \in DOMAIN zorder : zorder[i] # s
      BY <2>1 DEF Listed
    <3> QED
      BY <2>1, <3>1 DEF CInv, Order, Below
  <2>3. /\ zorder' \in Seq(Slot) /\ Once(zorder')
        /\ Listed(zorder') = Listed(zorder) \cup {s}
        /\ Below(zorder', Bottom')
    <3> DEFINE bottom == p \in Desktop
               B == Bottom'
    <3>1. bottom \in BOOLEAN /\ (bottom <=> s \in B) /\ zorder \in Seq(Slot) /\ Once(zorder)
      BY <2>1 DEF CInv, Order
    <3>2. zorder' = zorder_insert(zorder, s, bottom) /\ Below(zorder, B)
      BY <1>5, <2>2
    <3> HIDE DEF bottom, B
    <3>3. /\ zorder' \in Seq(Slot) /\ Once(zorder')
          /\ Listed(zorder') = Listed(zorder) \cup {s} /\ Below(zorder', B)
      BY <2>1, <3>1, <3>2, InsertKeepsOrder
    <3> QED
      BY <3>3 DEF B
  <2>4. Order(zorder)'
    BY <2>1, <2>3 DEF CInv, Order
  <2>5. Typed'
    BY <1>2, <1>3, <1>5, <2>3 DEF CInv, Typed
  <2>6. FocusOnWindow'
    BY <1>2, <1>5, <2>1 DEF CInv, FocusOnWindow
  <2>7. EventsForOwner'
    <3>1. \A r \in Used : r # s => win'[r] = win[r] /\ kbd'[r] = kbd[r] /\ mouse'[r] = mouse[r]
      BY <1>3, <1>5 DEF CInv, Typed, Used
    <3>2. kbd'[s] = <<>> /\ mouse'[s] = <<>>
      BY <1>3 DEF CInv, Typed
    <3> QED
      BY <2>1, <3>1, <3>2 DEF CInv, EventsForOwner
  <2> QED
    BY <2>4, <2>5, <2>6, <2>7 DEF CInv
<1> QED
  BY <1>1, <1>4, <1>5

LEMMA PressKeeps ==
  ASSUME CInv, NEW s \in Slot, handle_mouse_press(s)
  PROVE  CInv'
<1>1. s \in Used
  BY DEF handle_mouse_press, Hit, CInv, Order, Listed
<1>2. win[s] \in [pid : Apps \cup {None}, max : BOOLEAN] /\ win[s].pid \in Apps
  BY <1>1 DEF CInv, Typed, Used
<1>3. /\ kbd[s] \in Seq(Event) /\ mouse[s] \in Seq(Event)
      /\ \A i \in DOMAIN kbd[s] : kbd[s][i].to = win[s].pid
      /\ \A i \in DOMAIN mouse[s] : mouse[s][i].to = win[s].pid
  BY <1>1 DEF CInv, Typed, EventsForOwner
<1>4. CASE press_client(s)
  <2> DEFINE e == [type |-> "click", to |-> win[s].pid]
             q == push_event(mouse[s], e)
  <2>1. /\ raise_and_focus(s) /\ UNCHANGED <<win, kbd, drag, life>>
        /\ mouse' = [mouse EXCEPT ![s] = q]
    BY <1>4 DEF press_client
  <2>2. e \in Event /\ e.to = win[s].pid
    BY <1>2 DEF Event
  <2> HIDE DEF e
  <2>3. q \in Seq(Event) /\ \A i \in DOMAIN q : q[i].to = win[s].pid
    BY <1>3, <2>2, PushOwned
  <2> HIDE DEF q
  <2>4. Order(zorder)' /\ FocusOnWindow'
    BY <1>1, <2>1, RaiseKeeps DEF CInv, Typed
  <2>5. Typed'
    BY <2>1, <2>3, <2>4 DEF CInv, Typed, Order
  <2>6. Used' = Used /\ \A r \in Used : mouse'[r] = IF r = s THEN q ELSE mouse[r]
    BY <2>1 DEF Used, CInv, Typed
  <2>7. EventsForOwner'
    BY <2>1, <2>3, <2>6 DEF CInv, EventsForOwner
  <2> QED
    BY <2>4, <2>5, <2>7 DEF CInv
<1>5. CASE press_maximize(s)
  <2> DEFINE e == [type |-> "resize", to |-> win[s].pid]
             q == push_event(kbd[s], e)
  <2>1. /\ raise_and_focus(s) /\ UNCHANGED <<mouse, drag, life>>
        /\ win' = [win EXCEPT ![s].max = ~@] /\ kbd' = [kbd EXCEPT ![s] = q]
    BY <1>5 DEF press_maximize
  <2>2. e \in Event /\ e.to = win[s].pid
    BY <1>2 DEF Event
  <2> HIDE DEF e
  <2>3. q \in Seq(Event) /\ \A i \in DOMAIN q : q[i].to = win[s].pid
    BY <1>3, <2>2, PushOwned
  <2> HIDE DEF q
  <2>4. /\ win' \in [Slot -> [pid : Apps \cup {None}, max : BOOLEAN]]
        /\ \A r \in Slot : win'[r].pid = win[r].pid
    BY <1>2, <2>1 DEF CInv, Typed
  <2>5. Order(zorder)' /\ FocusOnWindow'
    BY <1>1, <2>1, <2>4, RaiseKeeps
  <2>6. Typed'
    BY <2>1, <2>3, <2>4, <2>5 DEF CInv, Typed, Order
  <2>7. Used' = Used /\ \A r \in Used : kbd'[r] = IF r = s THEN q ELSE kbd[r]
    BY <2>1, <2>4 DEF Used, CInv, Typed
  <2>8. EventsForOwner'
    BY <2>1, <2>3, <2>4, <2>7 DEF CInv, EventsForOwner, Used
  <2> QED
    BY <2>5, <2>6, <2>8 DEF CInv
<1>6. CASE press_title(s) \/ press_border(s)
  <2>1. raise_and_focus(s) /\ UNCHANGED <<win, kbd, mouse, life>> /\ drag' \in {drag, s}
    BY <1>6 DEF press_title, press_border
  <2>2. Order(zorder)' /\ FocusOnWindow'
    BY <1>1, <2>1, RaiseKeeps DEF CInv, Typed
  <2> QED
    BY <2>1, <2>2 DEF CInv, Typed, Order, EventsForOwner, Used
<1>7. CASE close_window(s)
  <2>1. life' = [life EXCEPT ![victim(s)] = "dead"] /\ free_window(s)
    BY <1>7 DEF close_window
  <2>2. life' \in [Apps -> {"alive", "dead"}]
    BY <2>1 DEF CInv, Typed
  <2> QED
    BY <1>1, <2>1, <2>2, FreeKeeps
<1> QED
  BY <1>4, <1>5, <1>6, <1>7 DEF handle_mouse_press

LEMMA KeyKeeps == CInv /\ key => CInv'
<1> SUFFICES ASSUME CInv, key PROVE CInv'
  OBVIOUS
<1> DEFINE e == [type |-> "key", to |-> win[focused].pid]
           q == push_event(kbd[focused], e)
<1>1. focused \in Used /\ focused \in Slot
  BY DEF key, CInv, FocusOnWindow, Used
<1>2. kbd' = [kbd EXCEPT ![focused] = q] /\ UNCHANGED <<win, mouse, zorder, focused, drag, life>>
  BY DEF key
<1>3. e \in Event /\ e.to = win[focused].pid
  BY <1>1 DEF CInv, Typed, Used, Event
<1> HIDE DEF e
<1>4. q \in Seq(Event) /\ \A i \in DOMAIN q : q[i].to = win[focused].pid
  BY <1>1, <1>3, PushOwned DEF CInv, Typed, EventsForOwner
<1> HIDE DEF q
<1>5. Used' = Used /\ \A r \in Used : kbd'[r] = IF r = focused THEN q ELSE kbd[r]
  BY <1>2 DEF Used, CInv, Typed
<1>6. EventsForOwner'
  BY <1>2, <1>4, <1>5 DEF CInv, EventsForOwner
<1> QED
  BY <1>1, <1>2, <1>4, <1>6 DEF CInv, Typed, Order, Used, Bottom, Borderless, FocusOnWindow

LEMMA PollKeeps ==
  ASSUME CInv, NEW p \in Apps, compositor_poll_event(p)
  PROVE  CInv'
<1>1. PICK s \in find_by_pid(p) :
        \/ kbd[s] # <<>> /\ kbd' = [kbd EXCEPT ![s] = Tail(@)] /\ UNCHANGED mouse
        \/ mouse[s] # <<>> /\ mouse' = [mouse EXCEPT ![s] = Tail(@)] /\ UNCHANGED kbd
  BY DEF compositor_poll_event
<1>2. UNCHANGED <<win, zorder, focused, drag, life>> /\ s \in Slot
  BY DEF compositor_poll_event, find_by_pid
<1>3. ASSUME NEW q \in Seq(Event), q # <<>>
      PROVE  Tail(q) \in Seq(Event) /\ \A i \in DOMAIN Tail(q) : i + 1 \in DOMAIN q /\ Tail(q)[i] = q[i + 1]
  BY <1>3
<1>4. kbd' \in [Slot -> Seq(Event)] /\ mouse' \in [Slot -> Seq(Event)]
  <2>1. /\ kbd \in [Slot -> Seq(Event)] /\ mouse \in [Slot -> Seq(Event)]
        /\ kbd[s] \in Seq(Event) /\ mouse[s] \in Seq(Event)
    BY <1>2 DEF CInv, Typed
  <2>2. CASE kbd[s] # <<>> /\ kbd' = [kbd EXCEPT ![s] = Tail(@)] /\ UNCHANGED mouse
    <3>1. Tail(kbd[s]) \in Seq(Event)
      BY <1>3, <2>1, <2>2
    <3> QED
      BY <2>1, <2>2, <3>1
  <2>3. CASE mouse[s] # <<>> /\ mouse' = [mouse EXCEPT ![s] = Tail(@)] /\ UNCHANGED kbd
    <3>1. Tail(mouse[s]) \in Seq(Event)
      BY <1>3, <2>1, <2>3
    <3> QED
      BY <2>1, <2>3, <3>1
  <2> QED
    BY <1>1, <2>2, <2>3
<1>5. ASSUME NEW r \in Used
      PROVE  /\ \A i \in DOMAIN kbd'[r] : kbd'[r][i].to = win[r].pid
             /\ \A i \in DOMAIN mouse'[r] : mouse'[r][i].to = win[r].pid
  <2>1. /\ kbd[r] \in Seq(Event) /\ \A i \in DOMAIN kbd[r] : kbd[r][i].to = win[r].pid
        /\ mouse[r] \in Seq(Event) /\ \A i \in DOMAIN mouse[r] : mouse[r][i].to = win[r].pid
        /\ r \in Slot
    BY <1>5 DEF CInv, Typed, EventsForOwner, Used
  <2>2. kbd'[r] = kbd[r] \/ (kbd[r] # <<>> /\ kbd'[r] = Tail(kbd[r]))
    BY <1>1, <1>2, <2>1 DEF CInv, Typed
  <2>3. mouse'[r] = mouse[r] \/ (mouse[r] # <<>> /\ mouse'[r] = Tail(mouse[r]))
    BY <1>1, <1>2, <2>1 DEF CInv, Typed
  <2>4. \A i \in DOMAIN kbd'[r] : kbd'[r][i].to = win[r].pid
    <3>1. CASE kbd'[r] = kbd[r]
      BY <2>1, <3>1
    <3>2. CASE kbd[r] # <<>> /\ kbd'[r] = Tail(kbd[r])
      <4>1. \A i \in DOMAIN kbd'[r] : i + 1 \in DOMAIN kbd[r] /\ kbd'[r][i] = kbd[r][i + 1]
        BY <1>3, <2>1, <3>2
      <4> QED
        BY <2>1, <4>1
    <3> QED
      BY <2>2, <3>1, <3>2
  <2>5. \A i \in DOMAIN mouse'[r] : mouse'[r][i].to = win[r].pid
    <3>1. CASE mouse'[r] = mouse[r]
      BY <2>1, <3>1
    <3>2. CASE mouse[r] # <<>> /\ mouse'[r] = Tail(mouse[r])
      <4>1. \A i \in DOMAIN mouse'[r] : i + 1 \in DOMAIN mouse[r] /\ mouse'[r][i] = mouse[r][i + 1]
        BY <1>3, <2>1, <3>2
      <4> QED
        BY <2>1, <4>1
    <3> QED
      BY <2>3, <3>1, <3>2
  <2> QED
    BY <2>4, <2>5
<1>6. Used' = Used
  BY <1>2 DEF Used
<1>7. EventsForOwner'
  BY <1>2, <1>5, <1>6 DEF EventsForOwner
<1> QED
  BY <1>2, <1>4, <1>7 DEF CInv, Typed, Order, Used, Bottom, Borderless, FocusOnWindow

LEMMA NextCInv == CInv /\ [NextDesk]_deskVars => CInv'
<1> SUFFICES ASSUME CInv, [NextDesk]_deskVars PROVE CInv'
  OBVIOUS
<1>0. ASSUME UNCHANGED windowVars, life' \in [Apps -> {"alive", "dead"}] PROVE CInv'
  BY <1>0 DEF windowVars, CInv, Typed, Order, Used, Bottom, Borderless, FocusOnWindow, EventsForOwner
<1>1. ASSUME NEW p \in Apps, Syscall(p) PROVE CInv'
  <2>1. CASE compositor_present(p)
    BY <1>0, <2>1 DEF compositor_present, CInv, Typed
  <2>2. CASE exit(p)
    BY <1>0, <2>2 DEF exit, CInv, Typed
  <2> QED
    BY <1>1, <2>1, <2>2, CreateKeeps, PollKeeps DEF Syscall
<1>2. CASE release
  BY <1>2 DEF release, CInv, Typed, Order, Used, Bottom, Borderless, FocusOnWindow, EventsForOwner
<1>3. CASE gc_dead_windows
  <2>1. life' = life /\ life \in [Apps -> {"alive", "dead"}]
    BY <1>3 DEF gc_dead_windows, CInv, Typed
  <2>2. CASE owner_dead(pos)
    BY <1>3, <2>1, <2>2, FreeKeeps DEF gc_dead_windows, owner_dead
  <2>3. CASE ~owner_dead(pos)
    BY <1>0, <1>3, <2>1, <2>3 DEF gc_dead_windows
  <2> QED
    BY <2>2, <2>3
<1>4. CASE move \/ mouse_drained \/ keyboard_drained \/ gc_done \/ composite_window \/ clear_dirty
  BY <1>0, <1>4 DEF move, mouse_drained, keyboard_drained, gc_done, composite_window, clear_dirty,
     CInv, Typed
<1>5. CASE UNCHANGED deskVars
  BY <1>0, <1>5 DEF deskVars, windowVars, CInv, Typed
<1> QED
  BY <1>1, <1>2, <1>3, <1>4, <1>5, PressKeeps, KeyKeeps DEF NextDesk, Loop

THEOREM CompositorInvariance == SpecDesk => []CInv
  BY InitCInv, NextCInv, PTL DEF SpecDesk

\* The z-order lists every window once and nothing else, the desktop below the
\* rest, whatever windows come, go and are raised (compositor.c:105-141).
THEOREM AlwaysStacked == SpecDesk => []Stacked
<1>1. CInv => Stacked
  BY OrderIsStacked DEF CInv
<1> QED
  BY <1>1, CompositorInvariance, PTL

\* The indices the loops use without a test, focused_idx and drag_idx, name
\* windows of the table (compositor.c:210-225).
THEOREM FocusAlwaysOnWindow == SpecDesk => []FocusOnWindow
<1>1. CInv => FocusOnWindow
  BY DEF CInv
<1> QED
  BY <1>1, CompositorInvariance, PTL

\* No process reads an event meant for the slot's last owner (compositor.c:172-173).
THEOREM EventsReachOwner == SpecDesk => []EventsForOwner
<1>1. CInv => EventsForOwner
  BY DEF CInv
<1> QED
  BY <1>1, CompositorInvariance, PTL

-----------------------------------------------------------------------------
\* The loop indices and the bounds of the queues.

Bounded ==
  /\ \A s \in Slot : Len(kbd[s]) <= EVQ_SIZE /\ Len(mouse[s]) <= EVQ_SIZE
  /\ dirty \in BOOLEAN
  /\ at \in {"mouse", "keyboard", "gc", "frame"}
  /\ pos \in 1 .. MAX_WINDOWS + 1
  /\ missed \subseteq Apps

\* The z-order is no longer than the table.
LEMMA OrderFits == CInv => Len(zorder) <= MAX_WINDOWS
<1> SUFFICES ASSUME CInv PROVE Len(zorder) <= MAX_WINDOWS
  OBVIOUS
<1>1. zorder \in Seq(Slot) /\ Len(zorder) = Cardinality(Listed(zorder))
  BY OnceLength DEF CInv, Order
<1>2. Listed(zorder) \in SUBSET Slot
  BY <1>1 DEF Listed
<1>3. IsFiniteSet(Slot) /\ Cardinality(Slot) = MAX_WINDOWS
  BY FS_Interval, CompositorAssumption DEF Slot
<1>4. Cardinality(Listed(zorder)) <= Cardinality(Slot)
  BY <1>2, <1>3, FS_Subset
<1> QED
  BY <1>1, <1>3, <1>4

LEMMA PushBounded ==
  ASSUME NEW q \in Seq(Event), Len(q) <= EVQ_SIZE, NEW e \in Event
  PROVE  Len(push_event(q, e)) <= EVQ_SIZE
  BY CompositorAssumption DEF push_event

\* Queues of which one at most changes stay short if that one does.
LEMMA OneQueue ==
  ASSUME NEW f \in [Slot -> Seq(Event)], \A r \in Slot : Len(f[r]) <= EVQ_SIZE,
         NEW s \in Slot, NEW q \in Seq(Event), Len(q) <= EVQ_SIZE
  PROVE  \A r \in Slot : Len([f EXCEPT ![s] = q][r]) <= EVQ_SIZE
  OBVIOUS

LEMMA QueuesBounded ==
  ASSUME CInv, Bounded, NextDesk
  PROVE  \A r \in Slot : Len(kbd'[r]) <= EVQ_SIZE /\ Len(mouse'[r]) <= EVQ_SIZE
<1>0. /\ kbd \in [Slot -> Seq(Event)] /\ mouse \in [Slot -> Seq(Event)]
      /\ \A r \in Slot : Len(kbd[r]) <= EVQ_SIZE /\ Len(mouse[r]) <= EVQ_SIZE
      /\ EVQ_SIZE \in Nat \ {0}
  BY CompositorAssumption DEF CInv, Typed, Bounded
<1>1. ASSUME NEW p \in Apps, compositor_create_window(p)
      PROVE  \A r \in Slot : Len(kbd'[r]) <= EVQ_SIZE /\ Len(mouse'[r]) <= EVQ_SIZE
  <2>1. PICK s \in Slot : kbd' = [kbd EXCEPT ![s] = <<>>] /\ mouse' = [mouse EXCEPT ![s] = <<>>]
    BY <1>1 DEF compositor_create_window, emptied
  <2>2. <<>> \in Seq(Event) /\ Len(<<>>) <= EVQ_SIZE
    BY <1>0
  <2> QED
    BY <1>0, <2>1, <2>2, OneQueue
<1>2. ASSUME NEW p \in Apps, compositor_poll_event(p)
      PROVE  \A r \in Slot : Len(kbd'[r]) <= EVQ_SIZE /\ Len(mouse'[r]) <= EVQ_SIZE
  <2>1. PICK s \in Slot :
          \/ kbd[s] # <<>> /\ kbd' = [kbd EXCEPT ![s] = Tail(@)] /\ UNCHANGED mouse
          \/ mouse[s] # <<>> /\ mouse' = [mouse EXCEPT ![s] = Tail(@)] /\ UNCHANGED kbd
    BY <1>2 DEF compositor_poll_event, find_by_pid
  <2>2. ASSUME NEW q \in Seq(Event), q # <<>>, Len(q) <= EVQ_SIZE
        PROVE  Tail(q) \in Seq(Event) /\ Len(Tail(q)) <= EVQ_SIZE
    BY <1>0, <2>2
  <2>3. CASE kbd[s] # <<>> /\ kbd' = [kbd EXCEPT ![s] = Tail(@)] /\ UNCHANGED mouse
    <3>1. kbd[s] \in Seq(Event) /\ Len(kbd[s]) <= EVQ_SIZE
      BY <1>0
    <3>2. Tail(kbd[s]) \in Seq(Event) /\ Len(Tail(kbd[s])) <= EVQ_SIZE
      BY <2>2, <2>3, <3>1
    <3> QED
      BY <1>0, <2>3, <3>2, OneQueue
  <2>4. CASE mouse[s] # <<>> /\ mouse' = [mouse EXCEPT ![s] = Tail(@)] /\ UNCHANGED kbd
    <3>1. mouse[s] \in Seq(Event) /\ Len(mouse[s]) <= EVQ_SIZE
      BY <1>0
    <3>2. Tail(mouse[s]) \in Seq(Event) /\ Len(Tail(mouse[s])) <= EVQ_SIZE
      BY <2>2, <2>4, <3>1
    <3> QED
      BY <1>0, <2>4, <3>2, OneQueue
  <2> QED
    BY <2>1, <2>3, <2>4
<1>3. ASSUME NEW s \in Slot, handle_mouse_press(s)
      PROVE  \A r \in Slot : Len(kbd'[r]) <= EVQ_SIZE /\ Len(mouse'[r]) <= EVQ_SIZE
  <2>1. s \in Used
    BY <1>3 DEF handle_mouse_press, Hit, CInv, Order, Listed
  <2>2. win[s].pid \in Apps
    BY <2>1 DEF CInv, Typed, Used
  <2>3. kbd[s] \in Seq(Event) /\ Len(kbd[s]) <= EVQ_SIZE
        /\ mouse[s] \in Seq(Event) /\ Len(mouse[s]) <= EVQ_SIZE
    BY <1>0
  <2>4. CASE press_client(s)
    <3> DEFINE e == [type |-> "click", to |-> win[s].pid]
               q == push_event(mouse[s], e)
    <3>1. kbd' = kbd /\ mouse' = [mouse EXCEPT ![s] = q]
      BY <2>4 DEF press_client
    <3>2. e \in Event /\ e.to = win[s].pid
      BY <2>2 DEF Event
    <3> HIDE DEF e
    <3>3. Len(q) <= EVQ_SIZE /\ q \in Seq(Event)
      BY <2>3, <3>2, PushBounded DEF push_event
    <3> HIDE DEF q
    <3> QED
      BY <1>0, <3>1, <3>3, OneQueue
  <2>5. CASE press_maximize(s)
    <3> DEFINE e == [type |-> "resize", to |-> win[s].pid]
               q == push_event(kbd[s], e)
    <3>1. mouse' = mouse /\ kbd' = [kbd EXCEPT ![s] = q]
      BY <2>5 DEF press_maximize
    <3>2. e \in Event /\ e.to = win[s].pid
      BY <2>2 DEF Event
    <3> HIDE DEF e
    <3>3. Len(q) <= EVQ_SIZE /\ q \in Seq(Event)
      BY <2>3, <3>2, PushBounded DEF push_event
    <3> HIDE DEF q
    <3> QED
      BY <1>0, <3>1, <3>3, OneQueue
  <2> QED
    BY <1>0, <1>3, <2>4, <2>5 DEF handle_mouse_press, close_window, free_window, press_title, press_border
<1>4. ASSUME key PROVE \A r \in Slot : Len(kbd'[r]) <= EVQ_SIZE /\ Len(mouse'[r]) <= EVQ_SIZE
  <2> DEFINE e == [type |-> "key", to |-> win[focused].pid]
             q == push_event(kbd[focused], e)
  <2>1. focused \in Used /\ focused \in Slot
    BY <1>4 DEF key, CInv, FocusOnWindow, Used
  <2>2. mouse' = mouse /\ kbd' = [kbd EXCEPT ![focused] = q]
    BY <1>4 DEF key
  <2>3. e \in Event
    BY <2>1 DEF CInv, Typed, Used, Event
  <2> HIDE DEF e
  <2>4. Len(q) <= EVQ_SIZE /\ q \in Seq(Event)
    BY <1>0, <2>1, <2>3, PushBounded DEF push_event
  <2> HIDE DEF q
  <2> QED
    BY <1>0, <2>1, <2>2, <2>4, OneQueue
<1>5. CASE UNCHANGED <<kbd, mouse>>
  BY <1>0, <1>5
<1> QED
  BY <1>1, <1>2, <1>3, <1>4, <1>5 DEF NextDesk, Syscall, Loop, compositor_present, exit, release, move,
     mouse_drained, keyboard_drained, gc_dead_windows, gc_done, composite_window, clear_dirty,
     windowVars, free_window

LEMMA LoopBounded ==
  ASSUME CInv, Bounded, NextDesk
  PROVE  /\ at' \in {"mouse", "keyboard", "gc", "frame"}
         /\ pos' \in 1 .. MAX_WINDOWS + 1
<1>0. /\ at \in {"mouse", "keyboard", "gc", "frame"} /\ pos \in 1 .. MAX_WINDOWS + 1
      /\ MAX_WINDOWS \in Nat \ {0} /\ Len(zorder) \in Nat /\ Len(zorder) <= MAX_WINDOWS
  BY CompositorAssumption, OrderFits DEF Bounded, CInv, Typed
<1>1. CASE UNCHANGED <<at, pos>>
  BY <1>0, <1>1
<1>2. CASE mouse_drained \/ keyboard_drained \/ gc_done \/ clear_dirty
  BY <1>0, <1>2 DEF mouse_drained, keyboard_drained, gc_done, clear_dirty
<1>3. CASE gc_dead_windows
  BY <1>0, <1>3 DEF gc_dead_windows, swept
<1>4. CASE composite_window
  BY <1>0, <1>4 DEF composite_window
<1> QED
  BY <1>1, <1>2, <1>3, <1>4 DEF NextDesk, Loop, Syscall, compositor_create_window, compositor_present,
     compositor_poll_event, exit, handle_mouse_press, release, move, key

LEMMA MissedBounded ==
  ASSUME CInv, Bounded, NextDesk
  PROVE  missed' \subseteq Apps /\ dirty' \in BOOLEAN
<1>0. missed \subseteq Apps /\ dirty \in BOOLEAN /\ Watched \subseteq Apps
  BY CompositorAssumption DEF Bounded
<1>1. ASSUME NEW p \in Apps, Syscall(p) PROVE missed' \subseteq Apps /\ dirty' \in BOOLEAN
  BY <1>0, <1>1 DEF Syscall, compositor_create_window, compositor_present, compositor_poll_event, exit, late
<1>2. ASSUME NEW s \in Slot, handle_mouse_press(s) PROVE missed' \subseteq Apps /\ dirty' \in BOOLEAN
  BY <1>0, <1>2 DEF handle_mouse_press, press_client, close_window, free_window, press_maximize,
     press_title, press_border
<1>3. CASE Loop
  BY <1>0, <1>3 DEF Loop, mouse_drained, keyboard_drained, gc_dead_windows, free_window, gc_done,
     composite_window, clear_dirty
<1>4. CASE release \/ move \/ key
  BY <1>0, <1>4 DEF release, move, key
<1> QED
  BY <1>1, <1>2, <1>3, <1>4 DEF NextDesk

LEMMA BoundedNext == CInv /\ Bounded /\ [NextDesk]_deskVars => Bounded'
<1>1. ASSUME CInv, Bounded, NextDesk PROVE Bounded'
  BY <1>1, QueuesBounded, LoopBounded, MissedBounded DEF Bounded
<1>2. ASSUME Bounded, UNCHANGED deskVars PROVE Bounded'
  BY <1>2 DEF Bounded, deskVars
<1> QED
  BY <1>1, <1>2

\* Every variable of the window system keeps its type, and no event queue
\* outgrows its ring (compositor.c:69-76).
THEOREM DeskTyped == SpecDesk => []WindowsTyped
<1>1. InitDesk => Bounded
  BY CompositorAssumption DEF InitDesk, Bounded
<1>2. ASSUME CInv, Bounded PROVE WindowsTyped
  <2>1. ASSUME NEW s \in Slot, NEW q \in {kbd[s], mouse[s]}
        PROVE  Len(q) <= EVQ_SIZE /\ \A i \in DOMAIN q : q[i] \in Event
    <3>1. q \in Seq(Event)
      BY <1>2, <2>1 DEF CInv, Typed
    <3> QED
      BY <1>2, <2>1, <3>1 DEF Bounded
  <2>2. {focused, drag} \subseteq Slot \cup {None}
    BY <1>2 DEF CInv, FocusOnWindow, Used
  <2> QED
    BY <1>2, <2>1, <2>2 DEF CInv, Typed, Bounded, WindowsTyped
<1> QED
  BY <1>1, <1>2, BoundedNext, CompositorInvariance, PTL DEF SpecDesk
=============================================================================
