---------------------------- MODULE Fat16Proofs -----------------------------
(***************************************************************************)
(* The volume is intact after each sector written, for any size of it, any *)
(* paths and any sizes of files: proofs by an owner and a position given   *)
(* to each cluster.                                                        *)
(***************************************************************************)
EXTENDS Fat16, TLAPS, FiniteSetTheorems, WellFoundedInduction

-----------------------------------------------------------------------------
\* Numbers and chains.

LEMMA LeastOf == ASSUME NEW S \in SUBSET Nat, S # {}
                 PROVE  \E n \in S : \A m \in S : n <= m
<1> DEFINE R == OpToRel(<, Nat)
<1>1. PICK n \in S : \A m \in S : ~(<<m, n>> \in R)
  <2> HIDE DEF R
  <2>1. IsWellFoundedOn(R, Nat)
    BY NatLessThanWellFounded DEF R
  <2> QED
    BY <2>1, WFMin
<1>2. \A m \in S : ~(m < n)
  BY <1>1 DEF OpToRel
<1> QED
  BY <1>2

Value == Cluster \cup {Free, EOC}

next(c) == IF c \in Cluster THEN fat[c] ELSE c

FatTyped == fat \in [Cluster -> Value]

LEMMA ValueFacts == /\ Clusters \in Nat \ {0} /\ Cluster \subseteq Nat
                    /\ Free \notin Cluster /\ EOC \notin Cluster /\ Root \notin Cluster /\ Free # EOC
                    /\ \A c \in Cluster : c \in 2 .. Clusters + 1
<1>1. Clusters \in Nat \ {0}
  BY Fat16Assumption
<1> QED
  BY <1>1 DEF Cluster, Free, EOC, Root

LEMMA NextTyped == ASSUME FatTyped, NEW c \in Value PROVE next(c) \in Value
BY DEF FatTyped, next, Value

\* A walk of any length exists.
LEMMA WalkExists ==
  ASSUME FatTyped, NEW first \in Value, NEW n \in Nat
  PROVE  \E w \in [0 .. n -> Value] : w[0] = first /\ \A k \in 1 .. n : w[k] = next(w[k - 1])
<1> DEFINE Is(w, m) == w[0] = first /\ \A k \in 1 .. m : w[k] = next(w[k - 1])
           Bad == {m \in Nat : ~ \E w \in [0 .. m -> Value] : Is(w, m)}
<1>1. SUFFICES ASSUME Bad # {} PROVE FALSE
  OBVIOUS
<1>2. PICK m \in Bad : \A k \in Bad : m <= k
  BY <1>1, LeastOf
<1>3. m # 0
  <2>1. [k \in 0 .. 0 |-> first] \in [0 .. 0 -> Value]
    OBVIOUS
  <2>2. Is([k \in 0 .. 0 |-> first], 0)
    OBVIOUS
  <2> QED
    BY <2>1, <2>2
<1>4. m - 1 \in Nat /\ m - 1 \notin Bad
  <2>1. m \in Nat
    BY <1>2
  <2>2. m - 1 \in Nat /\ ~(m <= m - 1)
    BY <2>1, <1>3
  <2> HIDE DEF Bad
  <2> QED
    BY <2>2, <1>2
<1>5. PICK w \in [0 .. m - 1 -> Value] : Is(w, m - 1)
  BY <1>4
<1> DEFINE u == [k \in 0 .. m |-> IF k = m THEN next(w[m - 1]) ELSE w[k]]
<1>6. w[m - 1] \in Value
  BY <1>4, <1>5
<1>7. next(w[m - 1]) \in Value
  BY <1>6, NextTyped
<1>8. u \in [0 .. m -> Value]
  BY <1>4, <1>5, <1>7
<1>9. Is(u, m)
  <2>1. u[0] = first
    BY <1>3, <1>5, <1>4
  <2>2. ASSUME NEW k \in 1 .. m PROVE u[k] = next(u[k - 1])
    <3>1. k - 1 \in 0 .. m - 1 /\ u[k - 1] = w[k - 1]
      BY <1>4
    <3>2. CASE k = m
      BY <3>1, <3>2
    <3>3. CASE k # m
      <4>1. k \in 1 .. m - 1 /\ u[k] = w[k]
        BY <3>3, <1>4
      <4> QED
        BY <4>1, <3>1, <1>5
    <3> QED
      BY <3>2, <3>3
  <2> QED
    BY <2>1, <2>2
<1> QED
  BY <1>8, <1>9

LEMMA WalkFacts ==
  ASSUME FatTyped, NEW first \in Value
  PROVE  /\ walk(first) \in [0 .. Clusters -> Value]
         /\ walk(first)[0] = first
         /\ \A k \in 1 .. Clusters : walk(first)[k] = next(walk(first)[k - 1])
<1> DEFINE Step(w) == [n \in 0 .. Clusters |->
                         IF n = 0 THEN first ELSE IF w[n - 1] \in Cluster THEN fat[w[n - 1]] ELSE w[n - 1]]
<1>1. PICK w \in [0 .. Clusters -> Value] : w[0] = first /\ \A k \in 1 .. Clusters : w[k] = next(w[k - 1])
  BY WalkExists, ValueFacts
<1>2. w = Step(w)
  <2>1. \A n \in 0 .. Clusters : w[n] = Step(w)[n]
    BY <1>1, ValueFacts DEF next
  <2> QED
    BY <1>1, <2>1
<1>3. walk(first) = CHOOSE v : v = Step(v)
  BY DEF walk
<1>4. walk(first) = Step(walk(first))
  BY <1>2, <1>3
<1> HIDE DEF Step
<1>5. \A v : v = Step(v) => v = w
  <2> SUFFICES ASSUME NEW v, v = Step(v) PROVE v = w
    OBVIOUS
  <2>1. v = [n \in 0 .. Clusters |-> v[n]]
    BY DEF Step
  <2> DEFINE Bad == {n \in 0 .. Clusters : v[n] # w[n]}
  <2>2. SUFFICES ASSUME Bad # {} PROVE FALSE
    BY <2>1, <1>1
  <2>3. PICK n \in Bad : \A k \in Bad : n <= k
    <3>1. Bad \in SUBSET Nat
      BY ValueFacts
    <3> HIDE DEF Bad
    <3> QED
      BY <2>2, <3>1, LeastOf
  <2>4. n # 0
    BY <1>1, ValueFacts DEF Step
  <2>5. n - 1 \in 0 .. Clusters /\ v[n - 1] = w[n - 1]
    BY <2>3, <2>4, ValueFacts
  <2>6. v[n] = next(v[n - 1])
    BY <2>4, <2>3 DEF Step, next
  <2> QED
    BY <2>3, <2>4, <2>5, <2>6, <1>1
<1>6. walk(first) = w
  BY <1>4, <1>5
<1> QED
  BY <1>1, <1>6

\* A chain from a cluster: it starts there, follows the FAT, and stops where the
\* FAT leaves the clusters or after as many steps as there are clusters.
LEMMA ChainFacts ==
  ASSUME FatTyped, NEW first \in Cluster
  PROVE  /\ chain(first) \in Seq(Cluster)
         /\ Len(chain(first)) \in 1 .. Clusters
         /\ DOMAIN chain(first) = 1 .. Len(chain(first))
         /\ chain(first)[1] = first
         /\ \A k \in 1 .. Len(chain(first)) - 1 : chain(first)[k + 1] = fat[chain(first)[k]]
         /\ Len(chain(first)) = Clusters \/ fat[chain(first)[Len(chain(first))]] \notin Cluster
<1> DEFINE w == walk(first)
           inside == {n \in 1 .. Clusters : w[n - 1] \in Cluster}
           out == {n \in 1 .. Clusters : w[n] \notin Cluster} \cup {Clusters}
<1>1. /\ w \in [0 .. Clusters -> Value] /\ w[0] = first
      /\ \A k \in 1 .. Clusters : w[k] = next(w[k - 1])
  BY WalkFacts DEF Value
<1>2. chain(first) = [n \in inside |-> w[n - 1]]
  BY DEF chain
<1> HIDE DEF w
<1>3. PICK m \in out : \A k \in out : m <= k
  <2>1. out \in SUBSET Nat /\ out # {}
    BY ValueFacts
  <2> HIDE DEF out
  <2> QED
    BY <2>1, LeastOf
<1>4. m \in 1 .. Clusters
  BY <1>3, ValueFacts
<1>5. \A k \in 1 .. m : w[k - 1] \in Cluster
  <2> SUFFICES ASSUME NEW k \in 1 .. m, w[k - 1] \notin Cluster PROVE FALSE
    OBVIOUS
  <2>1. k # 1
    BY <1>1
  <2>2. k - 1 \in out
    BY <2>1, <1>4, ValueFacts
  <2> QED
    BY <2>2, <1>3, <1>4
<1>6. \A k \in m + 1 .. Clusters : w[k - 1] \notin Cluster
  <2> DEFINE Bad == {k \in m + 1 .. Clusters : w[k - 1] \in Cluster}
  <2>1. SUFFICES ASSUME Bad # {} PROVE FALSE
    OBVIOUS
  <2>2. Bad \in SUBSET Nat
    BY <1>4
  <2>3. PICK k \in Bad : \A j \in Bad : k <= j
    BY <2>1, <2>2, LeastOf
  <2>4. w[k - 1] \in Cluster /\ k \in m + 1 .. Clusters /\ k \in Nat /\ m \in Nat
    BY <2>3, <1>4
  <2>5. m # Clusters
    BY <2>4, ValueFacts
  <2>6. w[m] \notin Cluster
    BY <1>3, <2>5
  <2>7. k # m + 1
    BY <2>4, <2>6
  <2>8. k - 1 \in m + 1 .. Clusters /\ k - 1 \notin Bad
    BY <2>3, <2>4, <2>7, ValueFacts
  <2>9. w[k - 2] \notin Cluster
    BY <2>8, <2>4
  <2>10. k - 1 \in 1 .. Clusters /\ (k - 1) - 1 = k - 2
    BY <2>8, <2>4
  <2>11. w[k - 1] = next(w[k - 2])
    BY <1>1, <2>10
  <2> QED
    BY <2>9, <2>11, <2>4 DEF next
<1>7. inside = 1 .. m
  BY <1>4, <1>5, <1>6, ValueFacts
<1>8. chain(first) = [n \in 1 .. m |-> w[n - 1]]
  BY <1>2, <1>7
<1>9. chain(first) \in Seq(Cluster) /\ Len(chain(first)) = m
  <2>1. [n \in 1 .. m |-> w[n - 1]] \in [1 .. m -> Cluster]
    BY <1>5
  <2> QED
    BY <2>1, <1>8, <1>4, ValueFacts
<1>10. ASSUME NEW k \in 1 .. m - 1 PROVE chain(first)[k + 1] = fat[chain(first)[k]]
  <2>1. k \in 1 .. m /\ k + 1 \in 1 .. m /\ (k + 1) - 1 = k /\ k \in 1 .. Clusters
    BY <1>4, ValueFacts
  <2>2. chain(first)[k + 1] = w[k] /\ chain(first)[k] = w[k - 1]
    BY <2>1, <1>8
  <2> QED
    BY <2>1, <2>2, <1>1, <1>5 DEF next
<1>11. ASSUME m # Clusters PROVE fat[chain(first)[m]] \notin Cluster
  <2>1. w[m] \notin Cluster
    BY <1>3, <1>11
  <2>2. chain(first)[m] = w[m - 1] /\ w[m - 1] \in Cluster /\ w[m] = next(w[m - 1])
    BY <1>1, <1>4, <1>5, <1>8, ValueFacts
  <2> QED
    BY <2>1, <2>2 DEF next
<1>12. chain(first)[1] = first
  BY <1>8, <1>4, <1>1
<1> QED
  BY <1>4, <1>8, <1>9, <1>10, <1>11, <1>12

-----------------------------------------------------------------------------
\* Types.

\* Where an entry may be.
Slot == ({Root} \X (1 .. RootSlots)) \cup (Cluster \X (1 .. DirSlots))

Path == Files \cup Dirs \cup {<<>>}

Written == UNION {Values[p] : p \in Files}

Text == Written \cup {"zero"}

Length == Sizes \cup {0}

First == Cluster \cup {Free}

Call == [at : Stages, path : Path, slot : Slot, dir : BOOLEAN, v : Text, size : Length, i : Nat,
         prev : Value, cur : Value, c : Value, first : First]

DataTyped == data \in [Cluster -> [block : Block, slots : [1 .. DirSlots -> Entry]]]

RootTyped == root \in [1 .. RootSlots -> Entry]

StoredTyped ==
  /\ stored = [p \in Files |-> stored[p]]
  /\ \A p \in Files : stored[p] \in [v : Values[p], size : Sizes] \cup {Unknown}

Extending == op.at \in {"extend", "extend_zero", "attach"}

Making == op.at \in {"make", "make_zero", "entry"}

Writing == op.at \in {"take", "link", "data", "free"}

\* What each stage of a call knows of its own local variables.
StageTyped ==
  /\ op.at # "idle" /\ op.dir => op.path \in Dirs
  /\ op.at # "idle" /\ ~op.dir => op.path \in Files /\ op.v \in Values[op.path] /\ op.size \in Sizes
  /\ Making => op.dir
  /\ Writing => ~op.dir
  /\ Extending \/ Making => op.i = 0
  /\ op.at \in {"extend_zero", "make_zero", "attach", "link", "data"} => op.c \in Cluster
  /\ op.at \in {"entry", "link", "data", "free"} \/ (op.at = "take" /\ op.i > 0) => op.first \in Cluster
  /\ op.i \in 0 .. needed
  /\ op.at \in {"link", "data"} => op.i < needed
  /\ op.at = "free" => op.i = needed

OthersTyped == StoredTyped /\ errors \in 0 .. MaxErrors /\ lossy \in BOOLEAN

TInv ==
  /\ FatTyped /\ DataTyped /\ RootTyped
  /\ op \in Call /\ StageTyped
  /\ OthersTyped

LEMMA SizesNat == \A n \in Sizes : n \in Nat
BY Fat16Assumption, Zenon

LEMMA SlotCounts == RootSlots \in Nat \ {0} /\ DirSlots \in Nat \ {0} /\ MaxErrors \in Nat
BY Fat16Assumption, Zenon

LEMMA PathFacts == ASSUME NEW p \in Files \cup Dirs
                   PROVE  p \in Seq(STRING \ {""}) /\ Len(p) \in {1, 2}
BY Fat16Assumption, Zenon

LEMMA ElementOf == ASSUME NEW S, NEW s \in Seq(S), NEW k \in 1 .. Len(s) PROVE s[k] \in S
OBVIOUS

LEMMA LeafFacts == ASSUME NEW p \in Files \cup Dirs PROVE leaf(p) \in STRING /\ leaf(p) # ""
<1>1. p \in Seq(STRING \ {""}) /\ Len(p) \in 1 .. Len(p)
  <2>1. \A n \in {1, 2} : n \in 1 .. n
    OBVIOUS
  <2>2. Len(p) \in {1, 2} /\ p \in Seq(STRING \ {""})
    BY PathFacts
  <2> QED
    BY <2>1, <2>2
<1>2. leaf(p) \in STRING \ {""}
  BY <1>1, ElementOf DEF leaf
<1> QED
  BY <1>2

LEMMA NeededTyped == ASSUME op.size \in Length PROVE needed \in Nat \ {0}
<1>1. op.size \in Nat
  BY SizesNat DEF Length
<1> QED
  BY <1>1 DEF needed

LEMMA NilTyped == Nil \in Entry /\ Nil.first \notin Cluster /\ ~Nil.dir /\ Zeroed.slots \in [1 .. DirSlots -> Entry]
BY ValueFacts DEF Nil, Entry, Free, Zeroed

LEMMA EntryFacts ==
  ASSUME NEW e \in Entry
  PROVE  /\ e.first \in Cluster \cup {0} /\ e.dir \in BOOLEAN
         /\ e # Nil => e.first \in Cluster
         /\ e.dir => e # Nil
<1>1. CASE e = Nil
  <2>1. e.first = 0 /\ e.dir = FALSE
    BY <1>1, Zenon DEF Nil
  <2> QED
    BY <1>1, <2>1
<1>2. CASE e # Nil
  BY <1>2 DEF Entry
<1> QED
  BY <1>1, <1>2

LEMMA EntryTyped ==
  ASSUME DataTyped, RootTyped, NEW a \in Slot
  PROVE  entry(a) \in Entry
<1>1. CASE a \in {Root} \X (1 .. RootSlots)
  BY <1>1 DEF RootTyped, entry
<1>2. CASE a \in Cluster \X (1 .. DirSlots)
  <2>1. a[1] # Root /\ a[1] \in Cluster /\ a[2] \in 1 .. DirSlots
    BY <1>2, ValueFacts
  <2> QED
    BY <2>1 DEF DataTyped, entry
<1> QED
  BY <1>1, <1>2 DEF Slot

LEMMA NoCallTyped == NoCall \in Call
<1>1. <<Root, 1>> \in Slot
  BY SlotCounts DEF Slot
<1>2. 0 \in Value /\ 0 \in First
  BY DEF Value, First, Free
<1>3. <<>> \in Path /\ "zero" \in Text
  BY Zenon DEF Path, Text
<1>4. 0 \in Length /\ 0 \in Nat
  BY DEF Length
<1> QED
  BY <1>1, <1>2, <1>3, <1>4 DEF NoCall, Call, Stages

LEMMA InitTInv == InitVolume => TInv
<1> SUFFICES ASSUME InitVolume PROVE TInv
  OBVIOUS
<1>1. FatTyped
  BY DEF InitVolume, FatTyped, Value
<1>2. DataTyped /\ RootTyped
  BY NilTyped DEF InitVolume, DataTyped, RootTyped, Zeroed, Block
<1>3. op \in Call
  BY NoCallTyped DEF InitVolume
<1>4. StageTyped
  <2>1. op.at = "idle" /\ op.i = 0 /\ op.size = 0
    BY DEF InitVolume, NoCall
  <2>2. needed = 1
    BY <2>1 DEF needed
  <2> QED
    BY <2>1, <2>2 DEF StageTyped, Extending, Making, Writing
<1>5. OthersTyped
  <2>1. StoredTyped
    BY DEF InitVolume, StoredTyped
  <2>2. MaxErrors \in 0 .. MaxErrors
    BY SlotCounts
  <2> QED
    BY <2>1, <2>2 DEF InitVolume, OthersTyped
<1> QED
  BY <1>1, <1>2, <1>3, <1>4, <1>5 DEF TInv

\* A directory's slots are places for entries, in clusters of its own chain.
LEMMA SlotsTyped ==
  ASSUME TInv, NEW d \in Cluster \cup {Root}
  PROVE  /\ extent(d) # <<>> /\ extent(d) \in Seq(Cluster \cup {Root})
         /\ d # Root => extent(d) \in Seq(Cluster) /\ Len(extent(d)) \in Nat \ {0}
         /\ \A t \in slots(d) : /\ slot_of(t) \in Slot
                                /\ t[1] \in DOMAIN extent(d) /\ t[2] = extent(d)[t[1]] /\ t[3] \in Nat
<1>1. CASE d = Root
  <2>1. extent(d) = <<Root>>
    BY <1>1 DEF extent
  <2>2. ASSUME NEW t \in slots(d)
        PROVE  /\ slot_of(t) \in Slot
               /\ t[1] \in DOMAIN extent(d) /\ t[2] = extent(d)[t[1]] /\ t[3] \in Nat
    <3>1. PICK k \in DOMAIN extent(d), s \in 1 .. RootSlots : t = <<k, extent(d)[k], s>>
      BY <1>1 DEF slots
    <3>2. k = 1 /\ extent(d)[k] = Root
      BY <2>1, <3>1
    <3> QED
      BY <2>1, <3>1, <3>2 DEF slot_of, Slot
  <2> QED
    BY <1>1, <2>1, <2>2
<1>2. CASE d # Root
  <2>1. extent(d) = chain(d) /\ d \in Cluster
    BY <1>2 DEF extent
  <2>2. /\ extent(d) \in Seq(Cluster) /\ Len(extent(d)) \in 1 .. Clusters
        /\ DOMAIN extent(d) = 1 .. Len(extent(d))
    BY <2>1, ChainFacts DEF TInv
  <2>3. ASSUME NEW t \in slots(d)
        PROVE  /\ slot_of(t) \in Slot
               /\ t[1] \in DOMAIN extent(d) /\ t[2] = extent(d)[t[1]] /\ t[3] \in Nat
    <3>1. PICK k \in DOMAIN extent(d), s \in 1 .. DirSlots : t = <<k, extent(d)[k], s>>
      BY <1>2 DEF slots
    <3>2. extent(d)[k] \in Cluster
      BY <2>2, <3>1
    <3> QED
      BY <3>1, <3>2 DEF slot_of, Slot
  <2>4. extent(d) # <<>> /\ extent(d) \in Seq(Cluster \cup {Root}) /\ Len(extent(d)) \in Nat \ {0}
    <3>1. extent(d) \in [1 .. Len(extent(d)) -> Cluster \cup {Root}]
      BY <2>2
    <3>2. Len(extent(d)) \in Nat \ {0}
      BY <2>2, ValueFacts
    <3> QED
      BY <2>2, <3>1, <3>2
  <2> QED
    BY <2>2, <2>3, <2>4
<1> QED
  BY <1>1, <1>2

LEMMA FoundTyped ==
  ASSUME TInv, NEW d \in Cluster \cup {Root}, NEW name
  PROVE  find_in_dir(d, name) \subseteq Slot /\ free_slot(d) \subseteq Slot
BY SlotsTyped DEF find_in_dir, free_slot

LEMMA ParentTyped ==
  ASSUME TInv, NEW p \in Files \cup Dirs, NEW d \in resolve_parent(p)
  PROVE  /\ d \in Cluster \cup {Root}
         /\ Len(p) = 1 => d = Root
         /\ Len(p) # 1 => /\ d \in Cluster /\ Len(p) = 2
                          /\ \E b \in find_in_dir(Root, p[1]) : entry(b).dir /\ d = entry(b).first
<1>1. Len(p) \in {1, 2}
  BY PathFacts
<1>2. CASE Len(p) = 1
  BY <1>2 DEF resolve_parent
<1>3. CASE Len(p) # 1
  <2>1. PICK b \in find_in_dir(Root, p[1]) : entry(b).dir /\ d = entry(b).first
    BY <1>3 DEF resolve_parent
  <2>2. entry(b) \in Entry
    BY <2>1, FoundTyped, EntryTyped DEF TInv
  <2> QED
    BY <1>1, <1>3, <2>1, <2>2, EntryFacts
<1> QED
  BY <1>2, <1>3

\* The first step of a call changes only where it is and what it works on.
LEMMA FindTyped ==
  ASSUME TInv, NEW start \in Call, start.path \in Files \cup Dirs, NEW d \in resolve_parent(start.path),
         NEW existing, find_or_create_dirent(d, start, existing)
  PROVE  /\ op' \in Call /\ op'.at \in {start.at, "extend"}
         /\ op'.path = start.path /\ op'.dir = start.dir /\ op'.v = start.v /\ op'.size = start.size
         /\ op'.i = start.i /\ op'.first = start.first /\ op'.c = start.c
<1>1. d \in Cluster \cup {Root} /\ (d # Root => d \in Cluster)
  BY ParentTyped
<1>2. CASE \E a \in find_in_dir(d, leaf(start.path)) :
             existing /\ ~entry(a).dir /\ op' = [start EXCEPT !.slot = a, !.cur = entry(a).first]
  <2>1. PICK a \in find_in_dir(d, leaf(start.path)) : op' = [start EXCEPT !.slot = a, !.cur = entry(a).first]
    BY <1>2
  <2>2. a \in Slot /\ entry(a) \in Entry
    BY <1>1, FoundTyped, EntryTyped DEF TInv
  <2>3. entry(a).first \in Value
    BY <2>2, EntryFacts DEF Value, Free
  <2> QED
    BY <2>1, <2>2, <2>3 DEF Call
<1>3. CASE \E a \in free_slot(d) : op' = [start EXCEPT !.slot = a]
  <2>1. PICK a \in Slot : op' = [start EXCEPT !.slot = a]
    BY <1>1, <1>3, FoundTyped
  <2> QED
    BY <2>1 DEF Call
<1>4. CASE d # Root /\ op' = [start EXCEPT !.at = "extend", !.prev = extent(d)[Len(extent(d))]]
  <2>1. extent(d) \in Seq(Cluster) /\ Len(extent(d)) \in Nat \ {0}
    BY <1>1, <1>4, SlotsTyped
  <2>2. extent(d)[Len(extent(d))] \in Value
    BY <2>1 DEF Value
  <2>3. "extend" \in Stages
    BY DEF Stages
  <2> QED
    BY <1>4, <2>2, <2>3 DEF Call
<1> QED
  BY <1>2, <1>3, <1>4 DEF find_or_create_dirent

LEMMA WriteFileTyped ==
  ASSUME TInv, NEW p \in Files, NEW v \in Values[p], NEW n \in Sizes, fat16_write_file(p, v, n)
  PROVE  TInv'
<1> DEFINE start == [NoCall EXCEPT !.at = "take", !.path = p, !.v = v, !.size = n]
<1>1. /\ start \in Call /\ start.path = p /\ start.at = "take" /\ start.v = v /\ start.size = n
      /\ start.i = 0 /\ start.first = 0 /\ start.dir = FALSE
  <2>1. p \in Path /\ v \in Text /\ n \in Length /\ "take" \in Stages
    BY DEF Path, Text, Written, Length, Stages
  <2>2. NoCall.i = 0 /\ NoCall.first = 0 /\ NoCall.dir = FALSE
    BY DEF NoCall
  <2> QED
    BY <2>1, <2>2, NoCallTyped DEF Call
<1> HIDE DEF start
<1>2. PICK d \in resolve_parent(p) : find_or_create_dirent(d, start, TRUE)
  BY DEF fat16_write_file, start
<1>3. p \in Files \cup Dirs
  OBVIOUS
<1>4. /\ op' \in Call /\ op'.at \in {"take", "extend"} /\ op'.path = p /\ op'.v = v /\ op'.size = n
      /\ op'.i = 0 /\ op'.dir = FALSE
  BY <1>1, <1>2, <1>3, FindTyped
<1>5. needed' \in Nat \ {0}
  <2>1. op'.size \in Nat
    BY <1>4, SizesNat
  <2> QED
    BY <2>1 DEF needed
<1>6. StageTyped'
  BY <1>4, <1>5 DEF StageTyped, Extending, Making, Writing
<1>7. FatTyped' /\ DataTyped' /\ RootTyped'
  BY DEF fat16_write_file, TInv, FatTyped, DataTyped, RootTyped
<1>8. OthersTyped'
  BY DEF fat16_write_file, TInv, OthersTyped, StoredTyped
<1> QED
  BY <1>4, <1>6, <1>7, <1>8 DEF TInv

LEMMA MkdirTyped ==
  ASSUME TInv, NEW p \in Dirs, fat16_mkdir(p)
  PROVE  TInv'
<1> DEFINE start == [NoCall EXCEPT !.at = "make", !.path = p, !.dir = TRUE]
<1>1. /\ start \in Call /\ start.path = p /\ start.at = "make"
      /\ start.i = 0 /\ start.dir = TRUE /\ start.size = 0
  <2>1. p \in Path /\ "make" \in Stages
    BY DEF Path, Stages
  <2>2. NoCall.i = 0 /\ NoCall.size = 0
    BY DEF NoCall
  <2> QED
    BY <2>1, <2>2, NoCallTyped DEF Call
<1> HIDE DEF start
<1>2. PICK d \in resolve_parent(p) : find_or_create_dirent(d, start, FALSE)
  BY DEF fat16_mkdir, start
<1>3. p \in Files \cup Dirs
  OBVIOUS
<1>4. /\ op' \in Call /\ op'.at \in {"make", "extend"} /\ op'.path = p /\ op'.i = 0 /\ op'.dir = TRUE
      /\ op'.size = 0
  BY <1>1, <1>2, <1>3, FindTyped
<1>5. needed' = 1
  BY <1>4 DEF needed
<1>6. StageTyped'
  BY <1>4, <1>5 DEF StageTyped, Extending, Making, Writing
<1>7. FatTyped' /\ DataTyped' /\ RootTyped' /\ OthersTyped'
  BY DEF fat16_mkdir, TInv, FatTyped, DataTyped, RootTyped, OthersTyped, StoredTyped
<1> QED
  BY <1>4, <1>6, <1>7 DEF TInv

LEMMA LinkTyped ==
  ASSUME FatTyped, NEW c, NEW x \in Value, fat_write_next_cluster(c, x)
  PROVE  FatTyped'
BY DEF FatTyped, fat_write_next_cluster

LEMMA FailTyped == ASSUME TInv, fail, FatTyped', errors' \in 0 .. MaxErrors, UNCHANGED <<data, root>> PROVE TInv'
<1>1. op' \in Call /\ op'.at = "idle" /\ op'.i = 0 /\ op'.size = 0
  BY NoCallTyped DEF fail, NoCall
<1>2. needed' = 1
  BY <1>1 DEF needed
<1>3. StageTyped'
  BY <1>1, <1>2 DEF StageTyped, Extending, Making, Writing
<1>4. DataTyped' /\ RootTyped' /\ OthersTyped'
  BY DEF TInv, DataTyped, RootTyped, fail, OthersTyped, StoredTyped
<1> QED
  BY <1>1, <1>3, <1>4 DEF TInv

LEMMA ErrorsTyped == ASSUME TInv, fails \/ UNCHANGED errors PROVE errors' \in 0 .. MaxErrors
BY SlotCounts DEF TInv, OthersTyped, fails

LEMMA ClusterErrorsTyped == ASSUME TInv, NEW c, cluster_fails(c) PROVE errors' \in 0 .. MaxErrors
BY ErrorsTyped DEF cluster_fails

\* A step of a call that keeps what is written and where.
StepTo(at, slot, i, prev, cur, c, first) ==
  op' = [op EXCEPT !.at = at, !.slot = slot, !.i = i, !.prev = prev, !.cur = cur, !.c = c, !.first = first]

StepOf(at, i, c, first) ==
  /\ at \in Stages /\ at # "idle" /\ op.at # "idle"
  /\ at \in {"make", "make_zero", "entry"} => op.dir /\ i = 0
  /\ at \in {"take", "link", "data", "free"} => ~op.dir
  /\ at \in {"extend", "extend_zero", "attach"} => i = 0
  /\ at \in {"extend_zero", "make_zero", "attach", "link", "data"} => c \in Cluster
  /\ at \in {"entry", "link", "data", "free"} \/ (at = "take" /\ i > 0) => first \in Cluster
  /\ i \in 0 .. needed /\ (at \in {"link", "data"} => i < needed) /\ (at = "free" => i = needed)

VolumeStep == FatTyped' /\ DataTyped' /\ RootTyped' /\ errors' \in 0 .. MaxErrors /\ UNCHANGED <<stored, lossy>>

LEMMA StepTyped ==
  ASSUME TInv, VolumeStep,
         NEW at, NEW slot \in Slot, NEW i \in Nat, NEW prev \in Value, NEW cur \in Value,
         NEW c \in Value, NEW first \in First,
         StepTo(at, slot, i, prev, cur, c, first), StepOf(at, i, c, first)
  PROVE  TInv'
<1>1. /\ op' \in Call /\ op'.at = at /\ op'.i = i /\ op'.c = c /\ op'.first = first
      /\ op'.path = op.path /\ op'.dir = op.dir /\ op'.v = op.v /\ op'.size = op.size
  BY DEF TInv, Call, StepTo, StepOf
<1>2. needed' = needed
  BY <1>1 DEF needed
<1>3. StageTyped'
  BY <1>1, <1>2 DEF TInv, StageTyped, Extending, Making, Writing, StepOf
<1>4. OthersTyped'
  BY DEF TInv, OthersTyped, StoredTyped, VolumeStep
<1> QED
  BY <1>1, <1>3, <1>4 DEF TInv, VolumeStep

LEMMA AllocDirectoryTyped == ASSUME TInv, alloc_directory PROVE TInv'
<1>1. DataTyped' /\ RootTyped'
  BY DEF alloc_directory, TInv, DataTyped, RootTyped
<1>2. CASE alloc_fails /\ fail /\ UNCHANGED fat
  BY <1>2, FailTyped, ErrorsTyped DEF alloc_directory, alloc_fails, TInv, FatTyped
<1>3. CASE \E c \in Cluster :
             /\ fat_alloc_cluster(c)
             /\ op' = [op EXCEPT !.at = IF @ = "extend" THEN "extend_zero" ELSE "make_zero", !.c = c]
             /\ UNCHANGED <<lossy, stored>>
  <2>1. PICK c \in Cluster :
             /\ fat_alloc_cluster(c)
             /\ op' = [op EXCEPT !.at = IF @ = "extend" THEN "extend_zero" ELSE "make_zero", !.c = c]
             /\ UNCHANGED <<lossy, stored>>
    BY <1>3
  <2> DEFINE at == IF op.at = "extend" THEN "extend_zero" ELSE "make_zero"
  <2>2. /\ StepTo(at, op.slot, op.i, op.prev, op.cur, c, op.first) /\ c \in Value
        /\ op.slot \in Slot /\ op.i \in Nat /\ op.prev \in Value /\ op.cur \in Value /\ op.first \in First
    BY <2>1 DEF TInv, Call, StepTo, Value
  <2>3. StepOf(at, op.i, c, op.first)
    BY DEF alloc_directory, TInv, StageTyped, Extending, Making, Stages, StepOf
  <2>4. VolumeStep
    <3>1. FatTyped'
      BY <2>1, LinkTyped DEF fat_alloc_cluster, TInv, Value
    <3>2. errors' \in 0 .. MaxErrors
      BY <2>1, ErrorsTyped DEF fat_alloc_cluster, fat_write_next_cluster
    <3> QED
      BY <1>1, <2>1, <3>1, <3>2 DEF VolumeStep
  <2> HIDE DEF at
  <2> QED
    BY <2>2, <2>3, <2>4, StepTyped
<1> QED
  BY <1>2, <1>3 DEF alloc_directory

LEMMA ZeroDirectoryTyped == ASSUME TInv, zero_directory PROVE TInv'
<1>1. RootTyped'
  BY DEF zero_directory, TInv, RootTyped
<1>2. CASE cluster_fails(op.c) /\ fail /\ UNCHANGED <<fat, data>>
  <2>1. FatTyped' /\ errors' \in 0 .. MaxErrors
    BY <1>2, ClusterErrorsTyped DEF TInv, FatTyped
  <2> QED
    BY <1>2, <2>1, FailTyped DEF zero_directory
<1>3. CASE /\ data' = [data EXCEPT ![op.c] = Zeroed]
           /\ fat_write_next_cluster(op.c, EOC)
           /\ op' = [op EXCEPT !.at = IF @ = "extend_zero" THEN "attach" ELSE "entry", !.first = op.c]
           /\ UNCHANGED <<lossy, stored>>
  <2> DEFINE at == IF op.at = "extend_zero" THEN "attach" ELSE "entry"
  <2>1. op.c \in Cluster
    BY DEF zero_directory, TInv, StageTyped
  <2>2. /\ StepTo(at, op.slot, op.i, op.prev, op.cur, op.c, op.c) /\ op.c \in Value /\ op.c \in First
        /\ op.slot \in Slot /\ op.i \in Nat /\ op.prev \in Value /\ op.cur \in Value
    BY <1>3, <2>1 DEF TInv, Call, StepTo, Value, First
  <2>3. StepOf(at, op.i, op.c, op.c)
    BY <2>1 DEF zero_directory, TInv, StageTyped, Extending, Making, Stages, StepOf
  <2>4. VolumeStep
    <3>1. FatTyped' /\ errors' \in 0 .. MaxErrors
      BY <1>3, LinkTyped, ErrorsTyped DEF fat_write_next_cluster, TInv, Value
    <3>2. DataTyped'
      BY <1>3, <2>1, NilTyped DEF TInv, DataTyped, Zeroed, Block
    <3> QED
      BY <1>1, <1>3, <3>1, <3>2 DEF VolumeStep
  <2> HIDE DEF at
  <2> QED
    BY <2>2, <2>3, <2>4, StepTyped
<1> QED
  BY <1>2, <1>3 DEF zero_directory

LEMMA AttachTyped == ASSUME TInv, attach_directory PROVE TInv'
<1> DEFINE at == IF op.dir THEN "make" ELSE "take"
<1>1. op.c \in Cluster
  BY DEF attach_directory, TInv, StageTyped
<1>2. /\ StepTo(at, <<op.c, 1>>, op.i, 0, op.cur, op.c, 0)
      /\ op.i \in Nat /\ op.cur \in Value /\ op.c \in Value
  BY DEF attach_directory, TInv, Call, StepTo
<1>3. <<op.c, 1>> \in Slot
  BY <1>1, SlotCounts DEF Slot
<1>4. 0 \in Value /\ 0 \in First
  BY DEF Value, First, Free
<1>5. StepOf(at, op.i, op.c, 0)
  BY <1>1 DEF attach_directory, TInv, StageTyped, Extending, Stages, StepOf
<1>6. VolumeStep
  <2>1. FatTyped' /\ errors' \in 0 .. MaxErrors
    BY <1>1, LinkTyped, ErrorsTyped DEF attach_directory, fat_write_next_cluster, TInv, Value
  <2> QED
    BY <2>1 DEF attach_directory, TInv, DataTyped, RootTyped, VolumeStep
<1> HIDE DEF at
<1> QED
  BY <1>2, <1>3, <1>4, <1>5, <1>6, StepTyped

LEMMA TakeTyped == ASSUME TInv, take_cluster PROVE TInv'
<1> DEFINE at == IF op.prev = 0 THEN "data" ELSE "link"
           first(c) == IF op.first = 0 THEN c ELSE op.first
<1>1. op.at = "take" /\ op.i < needed /\ DataTyped' /\ RootTyped'
  BY DEF take_cluster, TInv, DataTyped, RootTyped
<1>2. ASSUME NEW c \in Cluster, NEW cur \in Value, op' = claimed(c, cur)
      PROVE  /\ StepTo(at, op.slot, op.i, op.prev, cur, c, first(c))
             /\ StepOf(at, op.i, c, first(c))
             /\ op.slot \in Slot /\ op.i \in Nat /\ op.prev \in Value /\ c \in Value /\ first(c) \in First
  <2>1. first(c) \in Cluster
    BY DEF TInv, Call, First, Free
  <2> QED
    BY <1>1, <1>2, <2>1 DEF claimed, StepTo, StepOf, TInv, Call, First, Value, StageTyped, Writing, Stages
<1> HIDE DEF at, first
<1>3. CASE \E c \in Cluster, cur \in Value : /\ op' = claimed(c, cur)
                                             /\ FatTyped' /\ errors' \in 0 .. MaxErrors
                                             /\ UNCHANGED <<lossy, stored>>
  BY <1>1, <1>2, <1>3, StepTyped DEF VolumeStep
<1>4. CASE /\ op.cur \in Cluster
           /\ op' = claimed(op.cur, fat[op.cur]) /\ UNCHANGED errors
           /\ UNCHANGED <<fat, lossy, stored>>
  <2>1. fat[op.cur] \in Value /\ FatTyped' /\ errors' \in 0 .. MaxErrors
    BY <1>4, ErrorsTyped DEF TInv, FatTyped
  <2> QED
    BY <1>3, <1>4, <2>1
<1>5. CASE op.cur \in Cluster /\ op' = claimed(op.cur, EOC) /\ fails /\ UNCHANGED <<fat, lossy, stored>>
  <2>1. EOC \in Value /\ FatTyped' /\ errors' \in 0 .. MaxErrors
    BY <1>5, ErrorsTyped DEF TInv, FatTyped, Value
  <2> QED
    BY <1>3, <1>5, <2>1
<1>6. CASE \E c \in Cluster : fat_alloc_cluster(c) /\ op' = claimed(c, op.cur) /\ UNCHANGED <<lossy, stored>>
  <2>1. PICK c \in Cluster : fat_alloc_cluster(c) /\ op' = claimed(c, op.cur) /\ UNCHANGED <<lossy, stored>>
    BY <1>6
  <2>2. op.cur \in Value /\ FatTyped'
    BY <2>1, LinkTyped DEF fat_alloc_cluster, TInv, Value, Call
  <2>3. errors' \in 0 .. MaxErrors
    BY <2>1, ErrorsTyped DEF fat_alloc_cluster, fat_write_next_cluster
  <2> QED
    BY <1>3, <2>1, <2>2, <2>3
<1>7. CASE alloc_fails /\ fail /\ UNCHANGED fat
  <2>1. errors' \in 0 .. MaxErrors /\ FatTyped'
    BY <1>7, ErrorsTyped DEF alloc_fails, TInv, FatTyped
  <2> QED
    BY <1>7, <2>1, FailTyped DEF take_cluster
<1> QED
  BY <1>4, <1>5, <1>6, <1>7 DEF take_cluster

LEMMA LinkClusterTyped == ASSUME TInv, link_cluster PROVE TInv'
<1>1. op.c \in Cluster /\ op.c \in Value
  BY DEF link_cluster, TInv, StageTyped, Value
<1>2. /\ StepTo("data", op.slot, op.i, op.prev, op.cur, op.c, op.first)
      /\ op.slot \in Slot /\ op.i \in Nat /\ op.prev \in Value /\ op.cur \in Value /\ op.first \in First
  BY DEF link_cluster, TInv, Call, StepTo
<1>3. StepOf("data", op.i, op.c, op.first)
  BY <1>1 DEF link_cluster, TInv, StageTyped, Writing, Stages, StepOf
<1>4. VolumeStep
  <2>1. FatTyped' /\ errors' \in 0 .. MaxErrors
    BY <1>1, LinkTyped, ErrorsTyped DEF link_cluster, fat_write_next_cluster, TInv
  <2> QED
    BY <2>1 DEF link_cluster, TInv, DataTyped, RootTyped, VolumeStep
<1> QED
  BY <1>1, <1>2, <1>3, <1>4, StepTyped

LEMMA WriteDataTyped == ASSUME TInv, write_data PROVE TInv'
<1> DEFINE block == IF op.i < op.size THEN [v |-> op.v, i |-> op.i + 1] ELSE Zero
<1>1. op.c \in Cluster /\ op.c \in Value /\ ~op.dir /\ op.i \in Nat
  BY DEF write_data, TInv, StageTyped, Value, Writing, Call
<1>2. block \in Block
  BY <1>1 DEF write_data, TInv, StageTyped, Block
<1>3. FatTyped' /\ RootTyped'
  BY DEF write_data, TInv, FatTyped, RootTyped
<1>4. CASE cluster_fails(op.c) /\ fail /\ UNCHANGED data
  BY <1>3, <1>4, FailTyped, ClusterErrorsTyped DEF write_data
<1>5. CASE /\ data' = [data EXCEPT ![op.c] = [Zeroed EXCEPT !.block = block]]
           /\ op' = [op EXCEPT !.at = "take", !.i = @ + 1, !.prev = op.c]
           /\ UNCHANGED <<errors, lossy, stored>>
  <2>1. [Zeroed EXCEPT !.block = block] \in [block : Block, slots : [1 .. DirSlots -> Entry]]
    BY <1>2, NilTyped DEF Zeroed
  <2>2. DataTyped'
    BY <1>5, <2>1 DEF TInv, DataTyped
  <2>3. /\ StepTo("take", op.slot, op.i + 1, op.c, op.cur, op.c, op.first)
        /\ op.slot \in Slot /\ op.i + 1 \in Nat /\ op.cur \in Value /\ op.first \in First
    <3>1. op.slot \in Slot /\ op.i + 1 \in Nat /\ op.cur \in Value /\ op.first \in First
      BY <1>1 DEF TInv, Call
    <3>2. op \in Call
      BY DEF TInv
    <3> QED
      BY <1>5, <3>1, <3>2 DEF Call, StepTo
  <2>4. needed \in Nat
    BY NeededTyped DEF TInv, Call
  <2>5. StepOf("take", op.i + 1, op.c, op.first)
    BY <1>1, <2>4 DEF write_data, TInv, StageTyped, Stages, StepOf
  <2>6. VolumeStep
    BY <1>3, <1>5, <2>2, ErrorsTyped DEF VolumeStep
  <2> QED
    BY <1>1, <2>3, <2>5, <2>6, StepTyped
<1> QED
  BY <1>4, <1>5 DEF write_data

LEMMA EndChainTyped == ASSUME TInv, end_chain PROVE TInv'
<1>1. /\ StepTo("free", op.slot, op.i, op.prev, op.cur, op.c, op.first) /\ op.c \in Value
      /\ op.slot \in Slot /\ op.i \in Nat /\ op.prev \in Value /\ op.cur \in Value /\ op.first \in First
  BY DEF end_chain, TInv, Call, StepTo
<1>2. needed \in Nat \ {0}
  BY NeededTyped DEF TInv, Call
<1>3. StepOf("free", op.i, op.c, op.first)
  BY <1>2 DEF end_chain, TInv, StageTyped, Writing, Stages, StepOf
<1>4. VolumeStep
  <2>1. FatTyped' /\ errors' \in 0 .. MaxErrors
    BY LinkTyped, ErrorsTyped DEF end_chain, fat_write_next_cluster, TInv, Value
  <2> QED
    BY <2>1 DEF end_chain, TInv, DataTyped, RootTyped, VolumeStep
<1> QED
  BY <1>1, <1>3, <1>4, StepTyped

LEMMA FreeLeftTyped == ASSUME TInv, free_left PROVE TInv'
<1>1. op.cur \in Cluster /\ fat[op.cur] \in Value /\ EOC \in Value /\ Free \in Value
  BY DEF free_left, TInv, FatTyped, Value
<1>2. PICK cur \in Value : op' = [op EXCEPT !.cur = cur]
  BY <1>1 DEF free_left, next_left
<1>3. /\ StepTo("free", op.slot, op.i, op.prev, cur, op.c, op.first) /\ op.c \in Value
      /\ op.slot \in Slot /\ op.i \in Nat /\ op.prev \in Value /\ op.first \in First
  <2>1. op.at = "free" /\ op \in Call
    BY DEF free_left, TInv
  <2> QED
    BY <1>2, <2>1 DEF Call, StepTo
<1>4. StepOf("free", op.i, op.c, op.first)
  BY DEF free_left, TInv, StageTyped, Writing, Stages, StepOf
<1>5. VolumeStep
  <2>1. FatTyped'
    BY <1>1, LinkTyped DEF free_left, TInv, FatTyped
  <2>2. errors' \in 0 .. MaxErrors
    BY ErrorsTyped DEF free_left, fat_write_next_cluster
  <2> QED
    BY <2>1, <2>2 DEF free_left, TInv, DataTyped, RootTyped, VolumeStep
<1> QED
  BY <1>3, <1>4, <1>5, StepTyped

LEMMA WriteEntryTyped == ASSUME TInv, write_entry PROVE TInv'
<1> DEFINE e == [name |-> leaf(op.path), dir |-> op.dir, first |-> op.first, size |-> op.size]
<1>1. op.at \in {"entry", "free"} /\ FatTyped'
  BY DEF write_entry, all_freed, TInv, FatTyped
<1>2. op.path \in Files \cup Dirs /\ (~op.dir => op.path \in Files /\ op.v \in Values[op.path] /\ op.size \in Sizes)
  BY <1>1 DEF TInv, StageTyped, Call
<1>3. e \in Entry
  <2>1. leaf(op.path) \in STRING
    BY <1>2, LeafFacts
  <2>2. op.first \in Cluster /\ op.dir \in BOOLEAN /\ op.size \in Sizes \cup {0}
    BY <1>1 DEF TInv, StageTyped, Call, Length
  <2> QED
    BY <2>1, <2>2 DEF Entry
<1> HIDE DEF e
<1>4. CASE fails /\ fail /\ UNCHANGED <<data, root>>
  BY <1>1, <1>4, FailTyped, ErrorsTyped
<1>5. CASE /\ set_entry(op.slot, e)
           /\ stored' = IF op.dir THEN stored
                        ELSE [stored EXCEPT ![op.path] = [v |-> op.v, size |-> op.size]]
           /\ op' = NoCall
           /\ UNCHANGED <<errors, lossy>>
  <2>1. op.slot \in Slot
    BY DEF TInv, Call
  <2>2. DataTyped' /\ RootTyped'
    <3>1. CASE op.slot[1] = Root
      BY <1>3, <1>5, <2>1, <3>1, ValueFacts DEF set_entry, TInv, DataTyped, RootTyped, Slot
    <3>2. CASE op.slot[1] # Root
      <4>1. op.slot[1] \in Cluster /\ op.slot[2] \in 1 .. DirSlots
        BY <2>1, <3>2 DEF Slot
      <4>2. data' = [data EXCEPT ![op.slot[1]].slots[op.slot[2]] = e] /\ UNCHANGED root
        BY <1>5, <3>2 DEF set_entry
      <4>3. data[op.slot[1]] \in [block : Block, slots : [1 .. DirSlots -> Entry]]
        BY <4>1 DEF TInv, DataTyped
      <4>4. [data[op.slot[1]].slots EXCEPT ![op.slot[2]] = e] \in [1 .. DirSlots -> Entry]
        BY <1>3, <4>1, <4>3
      <4> QED
        BY <4>1, <4>2, <4>3, <4>4 DEF TInv, DataTyped, RootTyped
    <3> QED
      BY <3>1, <3>2
  <2>3. op' \in Call /\ op'.at = "idle" /\ op'.i = 0 /\ op'.size = 0
    BY <1>5, NoCallTyped DEF NoCall
  <2>4. StageTyped'
    <3>1. needed' = 1
      BY <2>3 DEF needed
    <3> QED
      BY <2>3, <3>1 DEF StageTyped, Extending, Making, Writing
  <2>5. OthersTyped'
    BY <1>2, <1>5 DEF TInv, OthersTyped, StoredTyped
  <2> QED
    BY <1>1, <2>2, <2>3, <2>4, <2>5 DEF TInv
<1> QED
  BY <1>4, <1>5 DEF write_entry, e

LEMMA NextTInv == TInv /\ [NextVolume]_volumeVars => TInv'
<1> SUFFICES ASSUME TInv, [NextVolume]_volumeVars PROVE TInv'
  OBVIOUS
<1>1. CASE \E p \in Files : \E v \in Values[p], n \in Sizes : fat16_write_file(p, v, n)
  BY <1>1, WriteFileTyped
<1>2. CASE \E p \in Dirs : fat16_mkdir(p)
  BY <1>2, MkdirTyped
<1>3. CASE crash
  BY <1>3, FailTyped, ErrorsTyped DEF crash, TInv, FatTyped
<1>4. CASE UNCHANGED volumeVars
  BY <1>4 DEF volumeVars, TInv, FatTyped, DataTyped, RootTyped, StageTyped, OthersTyped, StoredTyped, needed,
              Extending, Making, Writing
<1> QED
  BY <1>1, <1>2, <1>3, <1>4, AllocDirectoryTyped, ZeroDirectoryTyped, AttachTyped, TakeTyped,
     LinkClusterTyped, WriteDataTyped, EndChainTyped, FreeLeftTyped, WriteEntryTyped DEF NextVolume

LEMMA TInvTyped == TInv => VolumeTyped
<1> SUFFICES ASSUME TInv PROVE VolumeTyped
  OBVIOUS
<1>1. op.path \in Files \cup Dirs \cup {<<>>} /\ op.at \in Stages /\ op.i \in 0 .. needed
  BY DEF TInv, Call, Path, StageTyped
<1>2. {op.prev, op.cur, op.c, op.first} \subseteq Cluster \cup {Free, EOC}
  BY DEF TInv, Call, Value, First
<1>3. /\ fat \in [Cluster -> Cluster \cup {Free, EOC}]
      /\ data \in [Cluster -> [block : Block, slots : [1 .. DirSlots -> Entry]]]
      /\ root \in [1 .. RootSlots -> Entry]
  BY DEF TInv, FatTyped, Value, DataTyped, RootTyped
<1> QED
  BY <1>1, <1>2, <1>3 DEF TInv, OthersTyped, StoredTyped, VolumeTyped

\* The values of the FAT and the entries of directories stay within the FAT's own
\* entries, for any volume and however many requests fail (fat16.c:99-257): not
\* within the volume, whose number of clusters no line of the driver compares with.
THEOREM VolumeTypes == SpecVolume => []VolumeTyped
BY InitTInv, NextTInv, TInvTyped, PTL DEF SpecVolume

-----------------------------------------------------------------------------
(* Without failing requests each cluster in a chain can be given an owner,  *)
(* the slot whose entry starts the chain, and a position, so that links     *)
(* lead from a position to the next and no two clusters have the same.      *)
(* Below f stands for the FAT, E for the entries, hand for clusters of the  *)
(* call in progress that nothing refers to.                                 *)

Nobody == <<Root, 0>>

OwnersTyped(own, pos) == own \in [Cluster -> Slot \cup {Nobody}] /\ pos \in [Cluster -> Nat]

\* A link leads to an allocated cluster, the next one of the same owner.
Links(f, own, pos) ==
  \A d \in Cluster : f[d] \in Cluster =>
    /\ f[f[d]] # Free
    /\ own[f[d]] = own[d]
    /\ own[d] # Nobody => pos[f[d]] = pos[d] + 1

Heads(E, own, pos) ==
  \A a \in Slot : E[a].first \in Cluster => own[E[a].first] = a /\ pos[E[a].first] = 1

Rooted(f, E, hand, own, pos) ==
  \A c \in Cluster : own[c] # Nobody =>
    /\ f[c] # Free
    /\ pos[c] # 0
    /\ c = E[own[c]].first \/ (\E d \in Cluster : f[d] = c) \/ c \in hand

Unique(own, pos) ==
  \A c, d \in Cluster : own[c] # Nobody /\ own[c] = own[d] /\ pos[c] = pos[d] => c = d

Chained(f, E, hand, own, pos) ==
  /\ OwnersTyped(own, pos) /\ Links(f, own, pos) /\ Heads(E, own, pos)
  /\ Rooted(f, E, hand, own, pos) /\ Unique(own, pos)

\* A cluster that is marked, and nothing more.
Fresh(f, own, c) == c \in Cluster /\ f[c] = EOC /\ own[c] = Nobody /\ \A d \in Cluster : f[d] # c

Fats == [Cluster -> Value]
Directory == [Slot -> Entry]

LEMMA NobodyFacts == Nobody \notin Slot /\ \A a \in Slot : a # Nobody
BY ValueFacts, SlotCounts DEF Nobody, Slot

\* A free cluster is nobody's and nothing leads to it; marking it changes no chain.
LEMMA MarkKeeps ==
  ASSUME NEW f \in Fats, NEW E \in Directory, NEW hand, NEW own, NEW pos, Chained(f, E, hand, own, pos),
         NEW c \in Cluster, f[c] = Free
  PROVE  /\ Chained([f EXCEPT ![c] = EOC], E, hand, own, pos)
         /\ Fresh([f EXCEPT ![c] = EOC], own, c)
<1> DEFINE g == [f EXCEPT ![c] = EOC]
<1>1. own[c] = Nobody
  BY DEF Chained, Rooted
<1>2. \A d \in Cluster : f[d] # c
  BY DEF Chained, Links
<1>3. g[c] = EOC /\ \A d \in Cluster : d # c => g[d] = f[d]
  BY DEF Fats
<1>4. EOC \notin Cluster /\ EOC # Free /\ Free \notin Cluster
  BY ValueFacts
<1> HIDE DEF g
<1>5. \A d \in Cluster : g[d] \in Cluster => d # c /\ g[d] = f[d] /\ g[d] # c
  BY <1>2, <1>3, <1>4
<1>6. Links(g, own, pos)
  BY <1>3, <1>5 DEF Chained, Links
<1>7. Rooted(g, E, hand, own, pos)
  <2> SUFFICES ASSUME NEW b \in Cluster, own[b] # Nobody
               PROVE  /\ g[b] # Free /\ pos[b] # 0
                      /\ b = E[own[b]].first \/ (\E d \in Cluster : g[d] = b) \/ b \in hand
    BY DEF Rooted
  <2>1. /\ f[b] # Free /\ pos[b] # 0
        /\ b = E[own[b]].first \/ (\E d \in Cluster : f[d] = b) \/ b \in hand
    BY DEF Chained, Rooted
  <2>2. \A d \in Cluster : f[d] = b => g[d] = b
    BY <1>3, <1>4
  <2> QED
    BY <1>3, <1>1, <2>1, <2>2
<1>8. Fresh(g, own, c)
  BY <1>1, <1>2, <1>3, <1>4 DEF Fresh
<1> QED
  BY <1>6, <1>7, <1>8 DEF Chained, g

\* A fresh cluster becomes the k-th of an owner that has none there: behind the
\* (k-1)-th, or as the first one in hand.
LEMMA AdoptKeeps ==
  ASSUME NEW f \in Fats, NEW E \in Directory, NEW hand, NEW own, NEW pos, Chained(f, E, hand, own, pos),
         NEW c, Fresh(f, own, c), NEW a \in Slot, NEW k \in Nat, k # 0,
         \A d \in Cluster : ~(own[d] = a /\ pos[d] = k),
         NEW g, NEW hand2, hand \subseteq hand2, NEW own2, NEW pos2,
         own2 = [own EXCEPT ![c] = a], pos2 = [pos EXCEPT ![c] = k],
         \/ g = f /\ c \in hand2
         \/ \E p \in Cluster : /\ g = [f EXCEPT ![p] = c] /\ f[p] = EOC
                               /\ own[p] = a /\ k = pos[p] + 1
  PROVE  Chained(g, E, hand2, own2, pos2)
<1>1. c \in Cluster /\ f[c] = EOC /\ own[c] = Nobody /\ \A d \in Cluster : f[d] # c
  BY DEF Fresh
<1>2. /\ own2 \in [Cluster -> Slot \cup {Nobody}] /\ pos2 \in [Cluster -> Nat]
      /\ own2[c] = a /\ pos2[c] = k
      /\ \A d \in Cluster : d # c => own2[d] = own[d] /\ pos2[d] = pos[d]
  BY <1>1 DEF Chained, OwnersTyped
<1>3. EOC \notin Cluster /\ EOC # Free /\ Free \notin Cluster
  BY ValueFacts
<1>4. /\ \A d \in Cluster : g[d] # f[d] => f[d] = EOC /\ g[d] = c /\ own[d] = a /\ k = pos[d] + 1 /\ d # c
      /\ c \in hand2 \/ \E d \in Cluster : g[d] = c
  <2>1. CASE g = f /\ c \in hand2
    BY <2>1
  <2>2. CASE \E p \in Cluster : /\ g = [f EXCEPT ![p] = c] /\ f[p] = EOC
                                /\ own[p] = a /\ k = pos[p] + 1
    <3>1. PICK p \in Cluster : g = [f EXCEPT ![p] = c] /\ f[p] = EOC /\ own[p] = a /\ k = pos[p] + 1
      BY <2>2
    <3>2. g[p] = c /\ \A d \in Cluster : d # p => g[d] = f[d]
      BY <3>1 DEF Fats
    <3>3. p # c
      BY <1>1, <3>1, NobodyFacts
    <3> QED
      BY <3>1, <3>2, <3>3
  <2> QED
    BY <2>1, <2>2
<1>5. g[c] = EOC
  BY <1>1, <1>4
<1>6. Links(g, own2, pos2)
  <2> SUFFICES ASSUME NEW d \in Cluster, g[d] \in Cluster
               PROVE  g[g[d]] # Free /\ own2[g[d]] = own2[d] /\ (own2[d] # Nobody => pos2[g[d]] = pos2[d] + 1)
    BY DEF Links
  <2>1. CASE g[d] # f[d]
    <3>1. g[d] = c /\ own[d] = a /\ k = pos[d] + 1 /\ d # c
      BY <1>4, <2>1
    <3> QED
      BY <1>2, <1>3, <1>5, <3>1
  <2>2. CASE g[d] = f[d]
    <3>1. d # c /\ f[d] # c
      BY <1>1, <1>3, <2>2
    <3>2. f[f[d]] # Free /\ own[f[d]] = own[d] /\ (own[d] # Nobody => pos[f[d]] = pos[d] + 1)
      BY <2>2 DEF Chained, Links
    <3>3. g[f[d]] # Free
      BY <1>1, <1>3, <1>4, <2>2, <3>2
    <3> QED
      BY <1>2, <2>2, <3>1, <3>2, <3>3
  <2> QED
    BY <2>1, <2>2
<1>7. Heads(E, own2, pos2)
  <2> SUFFICES ASSUME NEW b \in Slot, E[b].first \in Cluster
               PROVE  own2[E[b].first] = b /\ pos2[E[b].first] = 1
    BY DEF Heads
  <2>1. own[E[b].first] = b /\ pos[E[b].first] = 1
    BY DEF Chained, Heads
  <2>2. E[b].first # c
    BY <1>1, <2>1, NobodyFacts
  <2> QED
    BY <1>2, <2>1, <2>2
<1>8. Rooted(g, E, hand2, own2, pos2)
  <2> SUFFICES ASSUME NEW b \in Cluster, own2[b] # Nobody
               PROVE  /\ g[b] # Free /\ pos2[b] # 0
                      /\ b = E[own2[b]].first \/ (\E d \in Cluster : g[d] = b) \/ b \in hand2
    BY DEF Rooted
  <2>1. CASE b = c
    BY <1>2, <1>3, <1>4, <1>5, <2>1
  <2>2. CASE b # c
    <3>1. /\ f[b] # Free /\ pos[b] # 0
          /\ b = E[own[b]].first \/ (\E d \in Cluster : f[d] = b) \/ b \in hand
      BY <1>2, <2>2 DEF Chained, Rooted
    <3>2. g[b] # Free
      BY <1>1, <1>3, <1>4, <3>1
    <3>3. \A d \in Cluster : f[d] = b => g[d] = b
      BY <1>3, <1>4
    <3> QED
      BY <1>2, <2>2, <3>1, <3>2, <3>3
  <2> QED
    BY <2>1, <2>2
<1>9. Unique(own2, pos2)
  <2> SUFFICES ASSUME NEW b \in Cluster, NEW d \in Cluster,
                      own2[b] # Nobody, own2[b] = own2[d], pos2[b] = pos2[d], b # d
               PROVE  FALSE
    BY DEF Unique
  <2>1. CASE b = c \/ d = c
    BY <1>2, <2>1
  <2>2. CASE b # c /\ d # c
    BY <1>2, <2>2 DEF Chained, Unique
  <2> QED
    BY <2>1, <2>2
<1> QED
  BY <1>2, <1>6, <1>7, <1>8, <1>9 DEF Chained, OwnersTyped

\* What is in hand may change as long as it covers what only the hand holds.
LEMMA HandKeeps ==
  ASSUME NEW f, NEW E, NEW hand, NEW own, NEW pos, Chained(f, E, hand, own, pos),
         NEW hand2, \A c \in Cluster : c \in hand /\ own[c] # Nobody =>
                      c = E[own[c]].first \/ (\E d \in Cluster : f[d] = c) \/ c \in hand2
  PROVE  Chained(f, E, hand2, own, pos)
BY DEF Chained, Rooted

\* The rest of a chain that is cut is in hand.
LEMMA CutKeeps ==
  ASSUME NEW f \in Fats, NEW E \in Directory, NEW hand, NEW own, NEW pos, Chained(f, E, hand, own, pos),
         NEW p \in Cluster, NEW hand2, hand \subseteq hand2, f[p] \in Cluster => f[p] \in hand2,
         own[p] # Nobody
  PROVE  /\ Chained([f EXCEPT ![p] = EOC], E, hand2, own, pos)
         /\ f[p] \in Cluster => /\ own[f[p]] = own[p] /\ pos[f[p]] = pos[p] + 1
                                /\ \A d \in Cluster : [f EXCEPT ![p] = EOC][d] # f[p]
<1> DEFINE g == [f EXCEPT ![p] = EOC]
<1>1. g[p] = EOC /\ \A d \in Cluster : d # p => g[d] = f[d]
  BY DEF Fats
<1>2. EOC \notin Cluster /\ EOC # Free /\ Free \notin Cluster
  BY ValueFacts
<1> HIDE DEF g
<1>3. Links(g, own, pos)
  BY <1>1, <1>2 DEF Chained, Links
<1>4. Rooted(g, E, hand2, own, pos)
  <2> SUFFICES ASSUME NEW b \in Cluster, own[b] # Nobody
               PROVE  /\ g[b] # Free /\ pos[b] # 0
                      /\ b = E[own[b]].first \/ (\E d \in Cluster : g[d] = b) \/ b \in hand2
    BY DEF Rooted
  <2>1. /\ f[b] # Free /\ pos[b] # 0
        /\ b = E[own[b]].first \/ (\E d \in Cluster : f[d] = b) \/ b \in hand
    BY DEF Chained, Rooted
  <2> QED
    BY <1>1, <1>2, <2>1
<1>5. ASSUME f[p] \in Cluster
      PROVE  own[f[p]] = own[p] /\ pos[f[p]] = pos[p] + 1 /\ \A d \in Cluster : g[d] # f[p]
  <2>1. own[f[p]] = own[p] /\ pos[f[p]] = pos[p] + 1
    BY <1>5 DEF Chained, Links
  <2>2. ASSUME NEW d \in Cluster, g[d] = f[p] PROVE FALSE
    <3>1. d # p /\ f[d] = f[p]
      BY <1>1, <1>2, <1>5, <2>2
    <3>2. own[d] = own[p] /\ pos[f[d]] = pos[d] + 1
      BY <1>5, <2>1, <3>1 DEF Chained, Links
    <3>3. pos[d] = pos[p]
      BY <2>1, <3>1, <3>2 DEF Chained, OwnersTyped
    <3> QED
      BY <3>1, <3>2, <3>3 DEF Chained, Unique
  <2> QED
    BY <2>1, <2>2
<1> QED
  BY <1>3, <1>4, <1>5 DEF Chained, g

\* Only one cluster leads to the next one of a chain.
LEMMA NextOf ==
  ASSUME NEW f \in Fats, NEW E \in Directory, NEW hand, NEW own, NEW pos, Chained(f, E, hand, own, pos),
         NEW c \in Cluster, own[c] # Nobody, f[c] \in Cluster
  PROVE  /\ f[c] # c /\ own[f[c]] = own[c] /\ pos[f[c]] = pos[c] + 1
         /\ \A d \in Cluster : d # c => f[d] # f[c]
<1>1. own[f[c]] = own[c] /\ pos[f[c]] = pos[c] + 1 /\ f[c] # c
  BY DEF Chained, Links, OwnersTyped
<1>2. ASSUME NEW d \in Cluster, d # c, f[d] = f[c] PROVE FALSE
  <2>1. own[d] = own[c] /\ pos[f[d]] = pos[d] + 1
    BY <1>1, <1>2 DEF Chained, Links
  <2>2. pos[d] = pos[c]
    BY <1>1, <1>2, <2>1 DEF Chained, OwnersTyped
  <2> QED
    BY <1>2, <2>1, <2>2 DEF Chained, Unique
<1> QED
  BY <1>1, <1>2

\* A cluster nothing refers to is freed, and the next one is in hand.
LEMMA FreeKeeps ==
  ASSUME NEW f \in Fats, NEW E \in Directory, NEW hand, NEW own, NEW pos, Chained(f, E, hand, own, pos),
         NEW c \in Cluster, own[c] # Nobody, pos[c] # 1, \A d \in Cluster : f[d] # c,
         NEW hand2, \A d \in hand : d = c \/ d \in hand2, f[c] \in Cluster => f[c] \in hand2,
         NEW own2, own2 = [own EXCEPT ![c] = Nobody], NEW g, g = [f EXCEPT ![c] = Free]
  PROVE  Chained(g, E, hand2, own2, pos)
<1>1. g[c] = Free /\ \A d \in Cluster : d # c => g[d] = f[d]
  BY DEF Fats
<1>2. EOC \notin Cluster /\ EOC # Free /\ Free \notin Cluster
  BY ValueFacts
<1>3. /\ own2 \in [Cluster -> Slot \cup {Nobody}] /\ own2[c] = Nobody
      /\ \A d \in Cluster : d # c => own2[d] = own[d]
  BY DEF Chained, OwnersTyped
<1>4. Links(g, own2, pos)
  BY <1>1, <1>2, <1>3 DEF Chained, Links
<1>5. Heads(E, own2, pos)
  BY <1>3 DEF Chained, Heads
<1>6. Rooted(g, E, hand2, own2, pos)
  <2> SUFFICES ASSUME NEW b \in Cluster, own2[b] # Nobody
               PROVE  /\ g[b] # Free /\ pos[b] # 0
                      /\ b = E[own2[b]].first \/ (\E d \in Cluster : g[d] = b) \/ b \in hand2
    BY DEF Rooted
  <2>0. b # c /\ own2[b] = own[b]
    BY <1>3
  <2>1. /\ f[b] # Free /\ pos[b] # 0
        /\ b = E[own[b]].first \/ (\E d \in Cluster : f[d] = b) \/ b \in hand
    BY <2>0 DEF Chained, Rooted
  <2>2. \A d \in Cluster : f[d] = b => g[d] = b \/ b \in hand2
    BY <1>1
  <2> QED
    BY <1>1, <2>0, <2>1, <2>2
<1>7. Unique(own2, pos)
  BY <1>3 DEF Chained, Unique
<1> QED
  BY <1>3, <1>4, <1>5, <1>6, <1>7 DEF Chained, OwnersTyped

\* A new or rewritten entry whose chain was in hand.
LEMMA EntryKeeps ==
  ASSUME NEW f \in Fats, NEW E \in Directory, NEW hand, NEW own, NEW pos, Chained(f, E, hand, own, pos),
         NEW a \in Slot, NEW e \in Entry, e.first \in Cluster, own[e.first] = a, pos[e.first] = 1,
         NEW hand2, \A c \in Cluster \cap hand : c = e.first \/ c \in hand2
  PROVE  Chained(f, [E EXCEPT ![a] = e], hand2, own, pos)
<1> DEFINE F == [E EXCEPT ![a] = e]
<1>1. F[a] = e /\ \A b \in Slot : b # a => F[b] = E[b]
  BY DEF Directory
<1> HIDE DEF F
<1>2. Heads(F, own, pos)
  BY <1>1 DEF Chained, Heads
<1>3. Rooted(f, F, hand2, own, pos)
  <2> SUFFICES ASSUME NEW b \in Cluster, own[b] # Nobody
               PROVE  b = F[own[b]].first \/ (\E d \in Cluster : f[d] = b) \/ b \in hand2
    BY DEF Chained, Rooted
  <2>1. b = E[own[b]].first \/ (\E d \in Cluster : f[d] = b) \/ b \in hand
    BY DEF Chained, Rooted
  <2>2. own[b] \in Slot
    BY DEF Chained, OwnersTyped
  <2>3. CASE b = E[own[b]].first /\ own[b] = a
    <3>1. pos[b] = 1
      BY <2>2, <2>3 DEF Chained, Heads
    <3>2. b = e.first
      BY <2>3, <3>1 DEF Chained, Unique
    <3> QED
      BY <1>1, <2>3, <3>2
  <2>4. CASE b = E[own[b]].first /\ own[b] # a
    BY <1>1, <2>2, <2>4
  <2>5. CASE b \in hand
    BY <1>1, <2>5
  <2> QED
    BY <2>1, <2>3, <2>4, <2>5
<1> QED
  BY <1>2, <1>3 DEF Chained, F

\* What the call in progress took beyond the n-th cluster is given up.
LEMMA DropKeeps ==
  ASSUME NEW f \in Fats, NEW E \in Directory, NEW hand, NEW own, NEW pos, Chained(f, E, hand, own, pos),
         NEW a \in Slot, NEW n \in Nat, n = 0 => E[a].first \notin Cluster,
         \A d \in Cluster : own[d] = a /\ pos[d] = n => f[d] \notin Cluster,
         NEW hand2,
         \A c \in Cluster \cap hand : c \in hand2 \/ own[c] = Nobody
                                      \/ (own[c] = a /\ (pos[c] > n \/ c = E[a].first)),
         NEW own2, own2 = [c \in Cluster |-> IF own[c] = a /\ pos[c] > n THEN Nobody ELSE own[c]]
  PROVE  Chained(f, E, hand2, own2, pos)
<1>1. /\ own2 \in [Cluster -> Slot \cup {Nobody}]
      /\ \A c \in Cluster : own2[c] = IF own[c] = a /\ pos[c] > n THEN Nobody ELSE own[c]
  BY DEF Chained, OwnersTyped
<1>2. pos \in [Cluster -> Nat] /\ a # Nobody
  BY NobodyFacts DEF Chained, OwnersTyped
<1>3. \A c \in Cluster : own2[c] # Nobody => own2[c] = own[c]
  BY <1>1
<1>4. Links(f, own2, pos)
  <2> SUFFICES ASSUME NEW d \in Cluster, f[d] \in Cluster
               PROVE  f[f[d]] # Free /\ own2[f[d]] = own2[d] /\ (own2[d] # Nobody => pos[f[d]] = pos[d] + 1)
    BY DEF Links
  <2>1. f[f[d]] # Free /\ own[f[d]] = own[d] /\ (own[d] # Nobody => pos[f[d]] = pos[d] + 1)
    BY DEF Chained, Links
  <2>2. own[d] = a => pos[d] # n
    OBVIOUS
  <2> QED
    BY <1>1, <1>2, <2>1, <2>2
<1>5. Heads(E, own2, pos)
  <2> SUFFICES ASSUME NEW b \in Slot, E[b].first \in Cluster
               PROVE  own2[E[b].first] = b /\ pos[E[b].first] = 1
    BY DEF Heads
  <2>1. own[E[b].first] = b /\ pos[E[b].first] = 1
    BY DEF Chained, Heads
  <2>2. b = a => ~(1 > n)
    OBVIOUS
  <2> QED
    BY <1>1, <2>1, <2>2
<1>6. Rooted(f, E, hand2, own2, pos)
  <2> SUFFICES ASSUME NEW b \in Cluster, own2[b] # Nobody
               PROVE  /\ f[b] # Free /\ pos[b] # 0
                      /\ b = E[own2[b]].first \/ (\E d \in Cluster : f[d] = b) \/ b \in hand2
    BY DEF Rooted
  <2>1. own2[b] = own[b] /\ ~(own[b] = a /\ pos[b] > n)
    BY <1>1, <1>3
  <2>2. /\ f[b] # Free /\ pos[b] # 0
        /\ b = E[own[b]].first \/ (\E d \in Cluster : f[d] = b) \/ b \in hand
    BY <2>1 DEF Chained, Rooted
  <2> QED
    BY <2>1, <2>2
<1>7. Unique(own2, pos)
  BY <1>3 DEF Chained, Unique
<1> QED
  BY <1>1, <1>2, <1>4, <1>5, <1>6, <1>7 DEF Chained, OwnersTyped

\* A slot without an entry, and nothing in hand, owns no first cluster.
LEMMA NoFirst ==
  ASSUME NEW f \in Fats, NEW E \in Directory, NEW hand, NEW own, NEW pos, Chained(f, E, hand, own, pos),
         NEW a \in Slot, E[a].first \notin Cluster,
         NEW c \in Cluster, own[c] = a, pos[c] = 1, c \notin hand
  PROVE  FALSE
<1>1. own[c] # Nobody
  BY NobodyFacts
<1>2. PICK d \in Cluster : f[d] = c
  BY <1>1 DEF Chained, Rooted
<1>3. own[d] = own[c] /\ pos[c] = pos[d] + 1 /\ pos[d] \in Nat
  BY <1>1, <1>2 DEF Chained, Links, OwnersTyped
<1> QED
  BY <1>1, <1>3 DEF Chained, Rooted

\* Nothing comes after a cluster that is the last one.
LEMMA NoNext ==
  ASSUME NEW f \in Fats, NEW E \in Directory, NEW hand, NEW own, NEW pos, Chained(f, E, hand, own, pos),
         NEW p \in Cluster, own[p] \in Slot, f[p] \notin Cluster,
         NEW c \in Cluster, own[c] = own[p], pos[c] = pos[p] + 1, c \notin hand
  PROVE  FALSE
<1>1. own[c] # Nobody /\ pos[p] \in Nat /\ pos[p] # 0
  BY NobodyFacts DEF Chained, OwnersTyped, Rooted
<1>2. c # E[own[c]].first
  BY <1>1 DEF Chained, Heads
<1>3. PICK d \in Cluster : f[d] = c
  BY <1>1, <1>2 DEF Chained, Rooted
<1>4. own[d] = own[c] /\ pos[c] = pos[d] + 1 /\ pos[d] \in Nat
  BY <1>1, <1>3 DEF Chained, Links, OwnersTyped
<1>5. d = p
  BY <1>1, <1>4 DEF Chained, Unique
<1> QED
  BY <1>3, <1>5

-----------------------------------------------------------------------------
\* Names: which directory a slot is in, and that a name is in it once.

\* An entry of the root directory that is a directory.
Folder(E, b) == b \in Slot /\ b[1] = Root /\ E[b].dir

\* The clusters other entries are in belong to such a directory.
Foldered(E, own) == \A a \in Slot : a[1] # Root /\ E[a] # Nil => Folder(E, own[a[1]])

\* The directory a slot is in.
Parent(own, a) == IF a[1] = Root THEN Nobody ELSE own[a[1]]

\* No other slot of a's directory has an entry of that name.
Alone(E, own, a, name) == \A b \in Slot : Parent(own, b) = Parent(own, a) /\ E[b].name = name => b = a

Names(E, own) == \A a \in Slot : E[a] # Nil => E[a].name # "" /\ Alone(E, own, a, E[a].name)

Absent(E, own, b, name) == \A a \in Slot : a[1] # Root /\ own[a[1]] = b => E[a].name # name

\* The slot a is in the directory the path p leads to.
IsAt(E, own, p, a) ==
  IF Len(p) = 1 THEN a[1] = Root ELSE a[1] # Root /\ Folder(E, own[a[1]]) /\ E[own[a[1]]].name = p[1]

\* The slot a is for the path p: it has no entry, or that of the file to be rewritten.
Placed(E, own, p, a) ==
  /\ IsAt(E, own, p, a)
  /\ E[a] = Nil \/ (~E[a].dir /\ E[a].name = leaf(p))
  /\ Alone(E, own, a, leaf(p))

\* The first n blocks of a file of that size.
Holds(own, pos, D, a, n, v, size) ==
  \A k \in 1 .. n : \E c \in Cluster : /\ own[c] = a /\ pos[c] = k
                                       /\ D[c].block = (IF k <= size THEN [v |-> v, i |-> k] ELSE Zero)

\* What was stored last is in place.
Kept(E, own, pos, D, st) ==
  \A p \in Files : st[p] # Unknown =>
    \E a \in Slot : /\ IsAt(E, own, p, a) /\ E[a].name = leaf(p) /\ ~E[a].dir /\ E[a].size = st[p].size
                    /\ Holds(own, pos, D, a, st[p].size, st[p].v, st[p].size)

LEMMA SlotFacts == ASSUME NEW a \in Slot
                   PROVE  /\ a = <<a[1], a[2]>>
                          /\ a[1] = Root => a[2] \in 1 .. RootSlots
                          /\ a[1] # Root => a[1] \in Cluster /\ a[2] \in 1 .. DirSlots
BY ValueFacts DEF Slot

\* Clusters of no directory may change hands.
LEMMA NamesKept ==
  ASSUME NEW E \in Directory, NEW own, NEW own2, Foldered(E, own), Names(E, own),
         \A c \in Cluster : own2[c] = own[c] \/ ~Folder(E, own[c])
  PROVE  /\ Foldered(E, own2) /\ Names(E, own2)
         /\ \A p, a : a \in Slot /\ IsAt(E, own, p, a) => IsAt(E, own2, p, a)
         /\ \A p, a : p \in Files \cup Dirs /\ a \in Slot /\ Placed(E, own, p, a) => Placed(E, own2, p, a)
         /\ \A b, p : p \in Files \cup Dirs /\ Absent(E, own, b, leaf(p)) => Absent(E, own2, b, leaf(p))
<1>1. Nil.name = ""
  BY DEF Nil
<1>2. \A a \in Slot : a[1] # Root => a[1] \in Cluster
  BY SlotFacts
<1>3. \A a \in Slot : a[1] # Root /\ Folder(E, own[a[1]]) => own2[a[1]] = own[a[1]]
  BY <1>2
<1>4. \A a \in Slot : E[a] # Nil => Parent(own2, a) = Parent(own, a)
  BY <1>3 DEF Foldered, Parent
<1>5. Foldered(E, own2)
  BY <1>3 DEF Foldered
<1>6. ASSUME NEW a \in Slot, NEW name, name # "", Alone(E, own, a, name), Parent(own2, a) = Parent(own, a)
      PROVE  Alone(E, own2, a, name)
  BY <1>1, <1>4, <1>6 DEF Alone
<1>7. Names(E, own2)
  BY <1>4, <1>6 DEF Names
<1>8. ASSUME NEW p, NEW a \in Slot, IsAt(E, own, p, a) PROVE IsAt(E, own2, p, a) /\ Parent(own2, a) = Parent(own, a)
  BY <1>3, <1>8 DEF IsAt, Parent
<1>9. ASSUME NEW p \in Files \cup Dirs, NEW a \in Slot, Placed(E, own, p, a) PROVE Placed(E, own2, p, a)
  <2>1. leaf(p) # ""
    BY LeafFacts
  <2> QED
    BY <1>6, <1>8, <1>9, <2>1 DEF Placed
<1>10. ASSUME NEW p \in Files \cup Dirs, NEW b, Absent(E, own, b, leaf(p)), NEW a \in Slot,
              a[1] # Root, own2[a[1]] = b, E[a].name = leaf(p)
       PROVE  FALSE
  <2>1. leaf(p) # ""
    BY LeafFacts
  <2>2. E[a] # Nil
    BY <1>1, <1>10, <2>1
  <2>3. own[a[1]] = b
    BY <1>4, <1>10, <2>2 DEF Parent
  <2> QED
    BY <1>10, <2>3 DEF Absent
<1> QED
  BY <1>5, <1>7, <1>8, <1>9, <1>10 DEF Absent

LEMMA SameSeq ==
  ASSUME NEW S, NEW s \in Seq(S), NEW t \in Seq(S), Len(s) = Len(t), \A k \in 1 .. Len(s) : s[k] = t[k]
  PROVE  s = t
OBVIOUS

LEMMA PathOfSlot ==
  ASSUME NEW E \in Directory, NEW own, NEW a \in Slot, NEW p \in Files \cup Dirs, NEW q \in Files \cup Dirs,
         IsAt(E, own, p, a), IsAt(E, own, q, a), leaf(p) = leaf(q)
  PROVE  p = q
<1>1. p \in Seq(STRING \ {""}) /\ q \in Seq(STRING \ {""})
  BY PathFacts
<1>2. Len(p) \in {1, 2} /\ Len(q) \in {1, 2}
  BY PathFacts
<1>3. Len(p) = Len(q) /\ (Len(p) = 2 => p[1] = q[1])
  <2>1. CASE Len(p) = 1
    BY <1>2, <2>1 DEF IsAt
  <2>2. CASE Len(p) = 2
    BY <1>2, <2>2 DEF IsAt
  <2> QED
    BY <1>2, <2>1, <2>2
<1>4. p[Len(p)] = q[Len(q)]
  BY DEF leaf
<1>5. \A k \in 1 .. Len(p) : p[k] = q[k]
  BY <1>2, <1>3, <1>4
<1> QED
  BY <1>1, <1>3, <1>5, SameSeq

\* What is kept stays in place while only the slot a, of a path that nothing is
\* kept of, and clusters of no directory are worked on.
LEMMA KeptKeeps ==
  ASSUME NEW E \in Directory, NEW own, NEW pos, NEW D, NEW st, Kept(E, own, pos, D, st),
         Foldered(E, own), Names(E, own),
         NEW a, NEW q \in Files \cup Dirs, a \in Slot => Placed(E, own, q, a) /\ st[q] = Unknown,
         NEW own2, NEW pos2, NEW D2,
         \A c \in Cluster : own2[c] = own[c] \/ ~Folder(E, own[c]),
         \A c \in Cluster : own[c] # Nobody /\ own[c] # a =>
             own2[c] = own[c] /\ pos2[c] = pos[c] /\ D2[c].block = D[c].block
  PROVE  Kept(E, own2, pos2, D2, st)
<1> SUFFICES ASSUME NEW p \in Files, st[p] # Unknown
             PROVE  \E b \in Slot : /\ IsAt(E, own2, p, b) /\ E[b].name = leaf(p) /\ ~E[b].dir
                                    /\ E[b].size = st[p].size
                                    /\ Holds(own2, pos2, D2, b, st[p].size, st[p].v, st[p].size)
  BY DEF Kept
<1>1. PICK b \in Slot : /\ IsAt(E, own, p, b) /\ E[b].name = leaf(p) /\ ~E[b].dir /\ E[b].size = st[p].size
                        /\ Holds(own, pos, D, b, st[p].size, st[p].v, st[p].size)
  BY DEF Kept
<1>2. IsAt(E, own2, p, b)
  BY <1>1, NamesKept
<1>3. b # a
  <2> SUFFICES ASSUME b = a PROVE FALSE
    OBVIOUS
  <2>0. p \in Files \cup Dirs /\ Nil.name = ""
    BY DEF Nil
  <2>1. E[b] # Nil
    BY <1>1, <2>0, LeafFacts
  <2>2. IsAt(E, own, q, b) /\ leaf(q) = leaf(p)
    BY <1>1, <2>1 DEF Placed
  <2>3. p = q
    BY <1>1, <2>0, <2>2, PathOfSlot
  <2> QED
    BY <2>3
<1>4. Holds(own2, pos2, D2, b, st[p].size, st[p].v, st[p].size)
  <2>1. b # Nobody
    BY NobodyFacts
  <2> QED
    BY <1>1, <1>3, <2>1 DEF Holds
<1> QED
  BY <1>1, <1>2, <1>4

\* F is E with e in the slot a.
Put(E, a, e, F) == F \in Directory /\ F[a] = e /\ \A b \in Slot : b # a => F[b] = E[b]

\* The entry of a path, written into the slot that was found for it.
LEMMA EntryPlaced ==
  ASSUME NEW E \in Directory, NEW own, Foldered(E, own), Names(E, own),
         NEW p \in Files \cup Dirs, NEW a \in Slot, Placed(E, own, p, a),
         NEW e, e.name = leaf(p), NEW F, Put(E, a, e, F)
  PROVE  /\ Foldered(F, own) /\ Names(F, own)
         /\ \A q, b : b \in Slot /\ IsAt(E, own, q, b) => IsAt(F, own, q, b)
<1>1. F[a] = e /\ \A b \in Slot : b # a => F[b] = E[b]
  BY DEF Put
<1>2. ~E[a].dir
  BY NilTyped DEF Placed
<1>3. \A b : Folder(E, b) => b # a /\ Folder(F, b) /\ F[b].name = E[b].name
  BY <1>1, <1>2 DEF Folder
<1>4. \A q, b : b \in Slot /\ IsAt(E, own, q, b) => IsAt(F, own, q, b)
  BY <1>3 DEF IsAt
<1>5. Foldered(F, own)
  <2>1. a[1] # Root => Folder(F, own[a[1]])
    BY <1>3 DEF Placed, IsAt
  <2> QED
    BY <1>1, <1>3, <2>1 DEF Foldered
<1>6. Names(F, own)
  <2>1. leaf(p) # "" /\ Nil.name = ""
    BY LeafFacts DEF Nil
  <2> SUFFICES ASSUME NEW b \in Slot, F[b] # Nil
               PROVE  F[b].name # "" /\ Alone(F, own, b, F[b].name)
    BY DEF Names
  <2>2. CASE b = a
    <3>1. Alone(E, own, a, leaf(p))
      BY DEF Placed
    <3> QED
      BY <1>1, <2>1, <2>2, <3>1 DEF Alone
  <2>3. CASE b # a
    <3>1. F[b] = E[b] /\ F[b].name # "" /\ Alone(E, own, b, E[b].name)
      BY <1>1, <2>3 DEF Names
    <3>2. Alone(E, own, a, leaf(p))
      BY DEF Placed
    <3> QED
      BY <1>1, <2>3, <3>1, <3>2 DEF Alone
  <2> QED
    BY <2>2, <2>3
<1> QED
  BY <1>1, <1>4, <1>5, <1>6

-----------------------------------------------------------------------------
\* The invariant: the structure above, and what each stage of a call knows of it.

entries == [a \in Slot |-> entry(a)]

Hand == (IF Writing THEN {op.first} ELSE {}) \cup (IF op.at = "free" THEN {op.cur} ELSE {})

Mine(own, pos, c, k) == c \in Cluster /\ own[c] = op.slot /\ pos[c] = k

\* op.cur is what follows c, if anything does.
Follows(c) == fat[c] = op.cur \/ (op.cur \notin Cluster /\ fat[c] = EOC)

\* op.prev is the last cluster of a directory that has no entry of the name.
Growing(own) ==
  /\ op.prev \in Cluster /\ fat[op.prev] = EOC
  /\ Folder(entries, own[op.prev]) /\ Len(op.path) # 1 /\ entries[own[op.prev]].name = op.path[1]
  /\ Absent(entries, own, own[op.prev], leaf(op.path))
  /\ op.i = 0 /\ op.cur = 0

\* The blocks written so far, and the first cluster of the chain.
Filled(own, pos) ==
  /\ Holds(own, pos, data, op.slot, op.i, op.v, op.size)
  /\ op.first \in Cluster => Mine(own, pos, op.first, 1)

Taking(own, pos) ==
  \/ op.i = 0 /\ op.prev = 0 /\ op.first = 0 /\ op.cur = entries[op.slot].first
  \/ op.i > 0 /\ Mine(own, pos, op.prev, op.i) /\ Follows(op.prev)

Linking(own, pos) ==
  /\ op.i > 0 /\ Mine(own, pos, op.prev, op.i) /\ Follows(op.c)
  /\ fat[op.prev] = op.c \/ (fat[op.prev] = EOC /\ Fresh(fat, own, op.c) /\ op.cur \notin Cluster)

Freeing(own, pos) ==
  /\ Mine(own, pos, op.prev, op.i) /\ fat[op.prev] = EOC
  /\ op.cur \in Cluster => /\ own[op.cur] = op.slot /\ pos[op.cur] > op.i
                           /\ \A d \in Cluster : fat[d] # op.cur

Stage(own, pos) ==
  /\ op.at # "idle" /\ ~op.dir => stored[op.path] = Unknown
  /\ op.at # "idle" /\ ~Extending => Placed(entries, own, op.path, op.slot)
  /\ Extending => Growing(own)
  /\ op.at \in {"extend_zero", "attach", "make_zero", "entry"} => Fresh(fat, own, op.c)
  /\ Making => entries[op.slot] = Nil
  /\ op.at = "entry" => op.first = op.c
  /\ Writing => Filled(own, pos)
  /\ op.at = "take" => Taking(own, pos)
  /\ op.at = "link" => Linking(own, pos)
  /\ op.at = "data" => Mine(own, pos, op.c, op.i + 1) /\ Follows(op.c)
  /\ op.at = "free" => Freeing(own, pos)

\* An allocated cluster has an owner or is the one the call is about to place.
NotLost(own) ==
  ~lossy => \A c \in Cluster : fat[c] # Free =>
              \/ own[c] # Nobody
              \/ op.at \in {"extend_zero", "make_zero", "attach", "entry", "link"} /\ c = op.c

Sound(own, pos) ==
  /\ Chained(fat, entries, Hand, own, pos)
  /\ Foldered(entries, own) /\ Names(entries, own) /\ Kept(entries, own, pos, data, stored)
  /\ NotLost(own)
  /\ Stage(own, pos)

\* Nothing was ever written where the disk has no sectors.
NotBeyond == \A c \in Cluster : c \notin OnDisk => data[c].block = Zero

VInv == TInv /\ NotBeyond /\ \E own, pos : Sound(own, pos)

LEMMA NoFailure == ASSUME TInv, MaxErrors = 0 PROVE ~fails
BY DEF TInv, OthersTyped, fails

LEMMA EntriesTyped == ASSUME TInv PROVE entries \in Directory /\ fat \in Fats /\ \A a \in Slot : entries[a] = entry(a)
BY EntryTyped DEF TInv, entries, Directory, FatTyped, Fats

LEMMA ZeroSlots == \A s \in 1 .. DirSlots : Zeroed.slots[s] = Nil
BY DEF Zeroed

\* The slots of a cluster that no directory has are empty.
LEMMA NoSlots ==
  ASSUME NEW E, NEW own, Foldered(E, own), NEW a \in Slot, a[1] # Root, ~Folder(E, own[a[1]])
  PROVE  E[a] = Nil
BY DEF Foldered

\* Writing all of a cluster that no directory has changes no entry.
LEMMA EntriesSame ==
  ASSUME TInv, NEW own, Foldered(entries, own), UNCHANGED root,
         \/ UNCHANGED data
         \/ \E c \in Cluster : \E x : data' = [data EXCEPT ![c] = [Zeroed EXCEPT !.block = x]] /\ ~Folder(entries, own[c])
  PROVE  entries' = entries
<1>1. CASE UNCHANGED data
  BY <1>1 DEF entries, entry
<1>2. CASE \E c \in Cluster : \E x : data' = [data EXCEPT ![c] = [Zeroed EXCEPT !.block = x]]
                                 /\ ~Folder(entries, own[c])
  <2>1. PICK c \in Cluster : \E x : data' = [data EXCEPT ![c] = [Zeroed EXCEPT !.block = x]] /\ ~Folder(entries, own[c])
    BY <1>2
  <2>2. data'[c].slots = Zeroed.slots /\ \A d \in Cluster : d # c => data'[d] = data[d]
    BY <2>1 DEF TInv, DataTyped, Zeroed
  <2>3. \A a \in Slot : entry(a)' = entry(a)
    <3> SUFFICES ASSUME NEW a \in Slot PROVE entry(a)' = entry(a)
      OBVIOUS
    <3>1. CASE a[1] = Root
      BY <3>1 DEF entry
    <3>2. CASE a[1] # Root
      <4>1. a[1] \in Cluster /\ a[2] \in 1 .. DirSlots
        BY <3>2, SlotFacts
      <4>2. a[1] = c => entry(a) = Nil
        BY <2>1, <3>2, NoSlots, EntriesTyped
      <4> QED
        BY <2>2, <3>2, <4>1, <4>2, ZeroSlots DEF entry
    <3> QED
      BY <3>1, <3>2
  <2> QED
    BY <2>3 DEF entries
<1> QED
  BY <1>1, <1>2

\* What a step within a call keeps: nothing but clusters of its own slot and
\* clusters of nobody's is written or changes hands.
Current == IF Writing THEN op.slot ELSE Nobody

LEMMA Carried ==
  ASSUME TInv, NEW own, NEW pos, Sound(own, pos), entries' = entries, stored' = stored,
         NEW own2, NEW pos2, op.at # "idle",
         \A c \in Cluster : own[c] # Nobody /\ own[c] # Current =>
             own2[c] = own[c] /\ pos2[c] = pos[c] /\ data'[c].block = data[c].block
  PROVE  /\ Foldered(entries', own2) /\ Names(entries', own2) /\ Kept(entries', own2, pos2, data', stored')
         /\ \A a \in Slot : Placed(entries, own, op.path, a) => Placed(entries', own2, op.path, a)
         /\ \A b : Absent(entries, own, b, leaf(op.path)) => Absent(entries', own2, b, leaf(op.path))
<1>1. entries \in Directory /\ op.path \in Files \cup Dirs /\ op.slot \in Slot
  BY EntriesTyped DEF TInv, StageTyped, Call
<1>2. /\ Foldered(entries, own) /\ Names(entries, own) /\ Kept(entries, own, pos, data, stored)
      /\ Current \in Slot => Placed(entries, own, op.path, Current) /\ stored[op.path] = Unknown
  BY NobodyFacts DEF Sound, Stage, Current, Extending, Writing, TInv, StageTyped
<1>3. \A c \in Cluster : own2[c] = own[c] \/ ~Folder(entries, own[c])
  <2>1. Current \in Slot => ~entries[Current].dir
    BY <1>2, NilTyped DEF Placed
  <2> QED
    BY <2>1, NobodyFacts DEF Folder
<1>4. Foldered(entries, own2) /\ Names(entries, own2)
  BY <1>1, <1>2, <1>3, NamesKept
<1>5. Kept(entries, own2, pos2, data', stored)
  <2>1. PICK a, q, D, D2, st, E : /\ a = Current /\ q = op.path /\ D = data /\ D2 = data' /\ st = stored
                                 /\ E = entries
    OBVIOUS
  <2>2. /\ E \in Directory /\ Kept(E, own, pos, D, st) /\ Foldered(E, own) /\ Names(E, own)
        /\ q \in Files \cup Dirs /\ (a \in Slot => Placed(E, own, q, a) /\ st[q] = Unknown)
    BY <1>1, <1>2, <2>1
  <2>3. \A c \in Cluster : own2[c] = own[c] \/ ~Folder(E, own[c])
    BY <1>3, <2>1
  <2>4. \A c \in Cluster : own[c] # Nobody /\ own[c] # a =>
          own2[c] = own[c] /\ pos2[c] = pos[c] /\ D2[c].block = D[c].block
    BY <2>1
  <2>5. Kept(E, own2, pos2, D2, st)
    BY <2>2, <2>3, <2>4, KeptKeeps
  <2> QED
    BY <2>1, <2>5
<1>6. /\ \A a \in Slot : Placed(entries, own, op.path, a) => Placed(entries, own2, op.path, a)
      /\ \A b : Absent(entries, own, b, leaf(op.path)) => Absent(entries, own2, b, leaf(op.path))
  BY <1>1, <1>2, <1>3, NamesKept
<1> QED
  BY <1>4, <1>5, <1>6

LEMMA InitSound == InitVolume => VInv
<1> SUFFICES ASSUME InitVolume PROVE VInv
  OBVIOUS
<1>1. PICK own : own = [c \in Cluster |-> Nobody]
  OBVIOUS
<1>2. PICK pos : pos = [c \in Cluster |-> 0]
  OBVIOUS
<1>3. TInv
  BY InitTInv
<1>4. \A a \in Slot : entries[a] = Nil
  <2> SUFFICES ASSUME NEW a \in Slot PROVE entry(a) = Nil
    BY DEF entries
  <2>1. CASE a[1] = Root
    BY <2>1, SlotFacts DEF InitVolume, entry
  <2>2. CASE a[1] # Root
    BY <2>2, SlotFacts, ZeroSlots DEF InitVolume, entry
  <2> QED
    BY <2>1, <2>2
<1>5. \A c \in Cluster : fat[c] = Free /\ own[c] = Nobody /\ Free \notin Cluster /\ Nil.first \notin Cluster
  BY <1>1, ValueFacts, NilTyped DEF InitVolume
<1>6. Chained(fat, entries, Hand, own, pos)
  <2>1. OwnersTyped(own, pos)
    BY <1>1, <1>2 DEF OwnersTyped
  <2>2. Links(fat, own, pos) /\ Rooted(fat, entries, Hand, own, pos) /\ Unique(own, pos)
    BY <1>5 DEF Links, Rooted, Unique
  <2>3. Heads(entries, own, pos)
    BY <1>4, <1>5 DEF Heads
  <2> QED
    BY <2>1, <2>2, <2>3 DEF Chained
<1>7. Foldered(entries, own) /\ Names(entries, own)
  BY <1>4 DEF Foldered, Names
<1>8. Kept(entries, own, pos, data, stored)
  BY DEF Kept, InitVolume
<1>9. NotLost(own)
  BY <1>5 DEF NotLost
<1>10. Stage(own, pos)
  BY DEF InitVolume, NoCall, Stage, Extending, Making, Writing
<1>11. NotBeyond
  BY DEF NotBeyond, InitVolume, Zeroed
<1> QED
  BY <1>3, <1>6, <1>7, <1>8, <1>9, <1>10, <1>11 DEF VInv, Sound

\* A call that is over: what it took for a new entry, or had cut off and not
\* freed yet, is nobody's.
LEMMA FailSound ==
  ASSUME TInv, MaxErrors = 0, NEW own, NEW pos, Sound(own, pos),
         op.at # "idle", fail, UNCHANGED <<fat, data, root>>
  PROVE  \E own2, pos2 : Sound(own2, pos2)'
<1>1. entries \in Directory /\ fat \in Fats /\ op.slot \in Slot /\ op.i \in Nat
  BY EntriesTyped DEF TInv, Call
<1>2. Chained(fat, entries, Hand, own, pos) /\ Foldered(entries, own) /\ Free \notin Cluster
  BY ValueFacts DEF Sound
<1>3. entries' = entries /\ stored' = stored
  BY <1>2, EntriesSame DEF fail
<1>4. op'.at = "idle" /\ lossy' = TRUE /\ Hand' = {}
  BY DEF fail, NoCall, Hand, Writing
<1>5. NotLost(own)' /\ Stage(own, pos)'
  BY <1>4 DEF NotLost, Stage, Extending, Making, Writing
<1>6. ASSUME NEW own2, Chained(fat, entries, {}, own2, pos),
             \A c \in Cluster : own[c] # Current => own2[c] = own[c]
      PROVE  Sound(own2, pos)'
  <2>1. Chained(fat', entries', Hand', own2, pos)
    BY <1>3, <1>4, <1>6
  <2>2. /\ Foldered(entries', own2) /\ Names(entries', own2)
        /\ Kept(entries', own2, pos, data', stored')
    BY <1>3, <1>6, Carried
  <2>3. NotLost(own2)' /\ Stage(own2, pos)'
    BY <1>4 DEF NotLost, Stage, Extending, Making, Writing
  <2> QED
    BY <2>1, <2>2, <2>3 DEF Sound
<1>7. CASE ~Writing
  <2>1. Hand = {}
    BY <1>7 DEF Hand, Writing
  <2> QED
    BY <1>2, <1>6, <2>1
<1>8. CASE Writing /\ (entries[op.slot] = Nil \/ op.at = "free")
  <2> DEFINE n == IF entries[op.slot] = Nil THEN 0 ELSE op.i
  <2>1. PICK own2 : own2 = [c \in Cluster |-> IF own[c] = op.slot /\ pos[c] > n THEN Nobody ELSE own[c]]
    OBVIOUS
  <2>2. Filled(own, pos) /\ (op.at = "free" => Freeing(own, pos) /\ op.i # 0)
    <3>1. op.at = "free" => op.i = needed /\ needed \in Nat \ {0}
      BY NeededTyped DEF TInv, StageTyped, Call
    <3> QED
      BY <1>8, <3>1 DEF Sound, Stage
  <2>3. n \in Nat /\ (n = 0 => entries[op.slot].first \notin Cluster)
    BY <1>1, <1>8, <2>2, NilTyped
  <2>4. \A d \in Cluster : own[d] = op.slot /\ pos[d] = n => fat[d] \notin Cluster
    <3>1. CASE n = 0
      BY <1>1, <1>2, <3>1, NobodyFacts DEF Chained, Rooted
    <3>2. CASE n # 0
      <4>1. Mine(own, pos, op.prev, n) /\ fat[op.prev] = EOC
        BY <1>8, <2>2, <3>2 DEF Freeing
      <4> QED
        BY <1>1, <1>2, <4>1, ValueFacts, NobodyFacts DEF Mine, Chained, Unique
    <3> QED
      BY <3>1, <3>2
  <2>5. ASSUME NEW c \in Cluster \cap Hand
        PROVE  own[c] = op.slot /\ (pos[c] > n \/ c = entries[op.slot].first)
    <3>1. CASE c = op.first
      <4>1. own[c] = op.slot /\ pos[c] = 1
        BY <2>2, <2>5, <3>1 DEF Filled, Mine
      <4>2. CASE entries[op.slot] = Nil
        BY <4>1, <4>2
      <4>3. CASE entries[op.slot] # Nil
        <5>1. entries[op.slot].first \in Cluster
          BY <1>1, <4>3, EntryFacts DEF Directory
        <5> QED
          BY <1>1, <1>2, <2>5, <4>1, <5>1, NobodyFacts DEF Chained, Heads, Unique
      <4> QED
        BY <4>2, <4>3
    <3>2. CASE c = op.cur /\ op.at = "free"
      BY <1>1, <1>2, <2>2, <2>5, <3>2 DEF Freeing, Chained, OwnersTyped
    <3> QED
      BY <1>8, <2>5, <3>1, <3>2 DEF Hand
  <2> HIDE DEF n
  <2>6. Chained(fat, entries, {}, own2, pos)
    BY <1>1, <1>2, <2>1, <2>3, <2>4, <2>5, DropKeeps
  <2>7. \A c \in Cluster : own[c] # Current => own2[c] = own[c]
    BY <1>8, <2>1 DEF Current
  <2> QED
    BY <1>6, <2>6, <2>7
<1>9. CASE Writing /\ entries[op.slot] # Nil /\ op.at # "free"
  <2>1. entries[op.slot].first \in Cluster
    BY <1>1, <1>9, EntryFacts DEF Directory
  <2>2. ASSUME NEW c \in Cluster, c \in Hand PROVE c = entries[own[c]].first
    <3>1. c = op.first /\ own[c] = op.slot /\ pos[c] = 1
      BY <1>9, <2>2 DEF Hand, Sound, Stage, Filled, Mine
    <3> QED
      BY <1>1, <1>2, <2>1, <3>1, NobodyFacts DEF Chained, Heads, Unique
  <2>3. Chained(fat, entries, {}, own, pos)
    BY <1>2, <2>2, HandKeeps
  <2> QED
    BY <1>6, <2>3
<1> QED
  BY <1>7, <1>8, <1>9

LEMMA AllocDirectorySound ==
  ASSUME TInv, MaxErrors = 0, NEW own, NEW pos, Sound(own, pos), alloc_directory
  PROVE  \E own2, pos2 : Sound(own2, pos2)'
<1>1. entries \in Directory /\ fat \in Fats /\ op \in Call /\ ~fails
  BY EntriesTyped, NoFailure DEF TInv
<1>2. Chained(fat, entries, Hand, own, pos) /\ Foldered(entries, own) /\ NotLost(own) /\ Stage(own, pos)
  BY DEF Sound
<1>3. entries' = entries
  BY <1>2, EntriesSame DEF alloc_directory
<1>4. CASE alloc_fails /\ fail /\ UNCHANGED fat
  BY <1>4, FailSound DEF alloc_directory
<1>5. CASE \E c \in Cluster :
             /\ fat_alloc_cluster(c)
             /\ op' = [op EXCEPT !.at = IF @ = "extend" THEN "extend_zero" ELSE "make_zero", !.c = c]
             /\ UNCHANGED <<lossy, stored>>
  <2>1. PICK c \in Cluster :
             /\ fat_alloc_cluster(c)
             /\ op' = [op EXCEPT !.at = IF @ = "extend" THEN "extend_zero" ELSE "make_zero", !.c = c]
             /\ UNCHANGED <<lossy, stored>>
    BY <1>5
  <2>2. /\ op' = [op EXCEPT !.at = op'.at, !.c = c] /\ op'.c = c
        /\ op'.at = IF op.at = "extend" THEN "extend_zero" ELSE "make_zero"
        /\ op'.path = op.path /\ op'.dir = op.dir /\ op'.slot = op.slot /\ op'.prev = op.prev
        /\ op'.i = op.i /\ op'.cur = op.cur /\ op'.first = op.first
    BY <1>1, <2>1 DEF Call
  <2>3. op.at \in {"extend", "make"} /\ op'.at \in {"extend_zero", "make_zero"} /\ Hand = {} /\ Hand' = {}
    BY <2>2 DEF alloc_directory, Hand, Writing
  <2>4. fat[c] = Free /\ fat' = [fat EXCEPT ![c] = EOC]
    BY <1>1, <2>1 DEF fat_alloc_cluster, free_cluster, fat_write_next_cluster
  <2>5. Chained(fat', entries', Hand', own, pos) /\ Fresh(fat', own, c)
    BY <1>1, <1>2, <1>3, <2>3, <2>4, MarkKeeps
  <2>6. \A d \in Cluster : d # c => fat'[d] = fat[d]
    BY <1>1, <2>4 DEF Fats
  <2>7. /\ Foldered(entries', own) /\ Names(entries', own) /\ Kept(entries', own, pos, data', stored')
        /\ \A a \in Slot : Placed(entries, own, op.path, a) => Placed(entries', own, op.path, a)
        /\ \A b : Absent(entries, own, b, leaf(op.path)) => Absent(entries', own, b, leaf(op.path))
    BY <1>3, <2>1, <2>3, Carried DEF alloc_directory
  <2>8. NotLost(own)'
    BY <1>2, <2>1, <2>2, <2>3, <2>6 DEF NotLost
  <2>9. Extending => Growing(own)'
    <3> SUFFICES ASSUME Extending PROVE Growing(own)'
      OBVIOUS
    <3>1. Growing(own)
      BY <1>2 DEF Stage
    <3>2. op.prev # c
      BY <2>4, <3>1, ValueFacts DEF Growing
    <3> QED
      BY <1>3, <2>2, <2>6, <2>7, <3>1, <3>2 DEF Growing
  <2>10. Stage(own, pos)'
    <3>1. CASE op.at = "extend"
      BY <1>2, <1>3, <2>1, <2>2, <2>5, <2>9, <3>1 DEF Stage, Extending, Making, Writing
    <3>2. CASE op.at = "make"
      BY <1>2, <1>3, <2>1, <2>2, <2>5, <2>7, <3>2, <1>1 DEF Stage, Extending, Making, Writing, Call
    <3> QED
      BY <2>3, <3>1, <3>2
  <2> QED
    BY <2>5, <2>7, <2>8, <2>10 DEF Sound
<1> QED
  BY <1>4, <1>5 DEF alloc_directory

LEMMA ZeroDirectorySound ==
  ASSUME TInv, MaxErrors = 0, NEW own, NEW pos, Sound(own, pos), zero_directory
  PROVE  \E own2, pos2 : Sound(own2, pos2)'
<1>0. SUFFICES ASSUME ~(cluster_fails(op.c) /\ fail /\ UNCHANGED <<fat, data>>)
               PROVE  \E own2, pos2 : Sound(own2, pos2)'
  BY FailSound DEF zero_directory
<1>1. entries \in Directory /\ fat \in Fats /\ op \in Call /\ ~fails
  BY EntriesTyped, NoFailure DEF TInv
<1>2. Chained(fat, entries, Hand, own, pos) /\ Foldered(entries, own) /\ NotLost(own) /\ Stage(own, pos)
  BY DEF Sound
<1>3. /\ data' = [data EXCEPT ![op.c] = Zeroed] /\ fat' = [fat EXCEPT ![op.c] = EOC]
      /\ op' = [op EXCEPT !.at = IF @ = "extend_zero" THEN "attach" ELSE "entry", !.first = op.c]
      /\ UNCHANGED <<lossy, stored, root>> /\ op.at \in {"extend_zero", "make_zero"}
  BY <1>0, <1>1 DEF zero_directory, fat_write_next_cluster
<1>4. Fresh(fat, own, op.c) /\ op.c \in Cluster /\ own[op.c] = Nobody /\ fat' = fat
  <2>1. Fresh(fat, own, op.c)
    BY <1>2, <1>3 DEF Stage
  <2> QED
    BY <1>1, <1>3, <2>1 DEF Fresh, Fats
<1>5. /\ op'.at = IF op.at = "extend_zero" THEN "attach" ELSE "entry"
      /\ op'.path = op.path /\ op'.dir = op.dir /\ op'.slot = op.slot /\ op'.prev = op.prev
      /\ op'.i = op.i /\ op'.cur = op.cur /\ op'.first = op.c /\ op'.c = op.c
  BY <1>1, <1>3 DEF Call
<1>6. entries' = entries
  <2>1. Zeroed = [Zeroed EXCEPT !.block = Zero]
    <3>1. Zeroed \in [block : {Zero}, slots : {Zeroed.slots}]
      BY DEF Zeroed
    <3> QED
      BY <3>1
  <2>2. data' = [data EXCEPT ![op.c] = [Zeroed EXCEPT !.block = Zero]] /\ ~Folder(entries, own[op.c])
    BY <1>3, <1>4, <2>1, NobodyFacts DEF Folder
  <2> QED
    BY <1>2, <1>3, <1>4, <2>2, EntriesSame
<1>7. Hand = {} /\ Hand' = {}
  BY <1>3, <1>5 DEF Hand, Writing
<1>8. Chained(fat', entries', Hand', own, pos)
  BY <1>2, <1>4, <1>6, <1>7
<1>9. /\ Foldered(entries', own) /\ Names(entries', own) /\ Kept(entries', own, pos, data', stored')
      /\ \A a \in Slot : Placed(entries, own, op.path, a) => Placed(entries', own, op.path, a)
      /\ \A b : Absent(entries, own, b, leaf(op.path)) => Absent(entries', own, b, leaf(op.path))
  <2>1. \A c \in Cluster : own[c] # Nobody => data'[c].block = data[c].block
    BY <1>3, <1>4 DEF TInv, DataTyped
  <2> QED
    BY <1>3, <1>6, <2>1, Carried
<1>10. NotLost(own)'
  BY <1>2, <1>3, <1>4, <1>5 DEF NotLost
<1>11. Stage(own, pos)'
  <2>1. CASE op.at = "extend_zero"
    <3>1. Growing(own)'
      BY <1>2, <1>4, <1>5, <1>6, <1>9, <2>1 DEF Stage, Growing, Extending
    <3> QED
      BY <1>2, <1>3, <1>4, <1>5, <1>6, <2>1, <3>1 DEF Stage, Extending, Making, Writing
  <2>2. CASE op.at = "make_zero"
    BY <1>1, <1>2, <1>3, <1>4, <1>5, <1>6, <1>9, <2>2 DEF Stage, Extending, Making, Writing, Call
  <2> QED
    BY <1>3, <2>1, <2>2
<1> QED
  BY <1>8, <1>9, <1>10, <1>11 DEF Sound

LEMMA AttachSound ==
  ASSUME TInv, MaxErrors = 0, NEW own, NEW pos, Sound(own, pos), attach_directory
  PROVE  \E own2, pos2 : Sound(own2, pos2)'
<1>1. entries \in Directory /\ fat \in Fats /\ op \in Call /\ ~fails /\ op.path \in Files \cup Dirs
  BY EntriesTyped, NoFailure DEF TInv, StageTyped, Call, attach_directory
<1>2. Chained(fat, entries, Hand, own, pos) /\ Foldered(entries, own) /\ NotLost(own) /\ Stage(own, pos)
  BY DEF Sound
<1>3. /\ fat' = [fat EXCEPT ![op.prev] = op.c] /\ op.at = "attach"
      /\ op' = [op EXCEPT !.at = IF op.dir THEN "make" ELSE "take", !.slot = <<op.c, 1>>, !.prev = 0, !.first = 0]
      /\ UNCHANGED <<data, root, stored, lossy>>
  BY <1>1 DEF attach_directory, fat_write_next_cluster
<1>4. /\ op'.at = IF op.dir THEN "make" ELSE "take"
      /\ op'.path = op.path /\ op'.dir = op.dir /\ op'.slot = <<op.c, 1>> /\ op'.prev = 0
      /\ op'.i = op.i /\ op'.cur = op.cur /\ op'.first = 0 /\ op'.c = op.c
      /\ op'.v = op.v /\ op'.size = op.size
  BY <1>1, <1>3 DEF Call
<1>5. Growing(own) /\ Fresh(fat, own, op.c)
  BY <1>2, <1>3 DEF Stage, Extending
<1>6. PICK own2 : own2 = [own EXCEPT ![op.c] = own[op.prev]]
  OBVIOUS
<1>7. PICK pos2 : pos2 = [pos EXCEPT ![op.c] = pos[op.prev] + 1]
  OBVIOUS
<1>8. entries' = entries /\ entries = entries
  BY <1>2, <1>3, EntriesSame
<1>9. op.prev \in Cluster /\ own[op.prev] \in Slot /\ pos[op.prev] \in Nat /\ fat[op.prev] = EOC
  BY <1>2, <1>5 DEF Growing, Folder, Chained, OwnersTyped
<1>10. Hand = {} /\ Hand' \cap Cluster = {}
  BY <1>3, <1>4, ValueFacts DEF Hand, Writing, Free
<1>11. op.c \in Cluster /\ own[op.c] = Nobody /\ op.prev # op.c
  BY <1>5, <1>9, NobodyFacts DEF Fresh
<1>12. Chained(fat', entries', Hand', own2, pos2)
  <2>1. \A d \in Cluster : ~(own[d] = own[op.prev] /\ pos[d] = pos[op.prev] + 1)
    BY <1>1, <1>2, <1>9, <1>10, NoNext, ValueFacts
  <2>2. pos[op.prev] + 1 \in Nat /\ pos[op.prev] + 1 # 0
    BY <1>9
  <2>3. Chained(fat', entries, {}, own2, pos2)
    <3>1. PICK f, E, c, a, k, g, h : /\ f = fat /\ E = entries /\ c = op.c /\ a = own[op.prev]
                                     /\ k = pos[op.prev] + 1 /\ g = fat' /\ h = {}
      OBVIOUS
    <3>2. Chained(f, E, h, own, pos) /\ Fresh(f, own, c) /\ f \in Fats /\ E \in Directory /\ h \subseteq h
      BY <1>1, <1>2, <1>5, <1>10, <3>1
    <3>3. \E p \in Cluster : g = [f EXCEPT ![p] = c] /\ f[p] = EOC /\ own[p] = a /\ k = pos[p] + 1
      BY <1>3, <1>9, <3>1
    <3>4. a \in Slot /\ k \in Nat /\ k # 0 /\ own2 = [own EXCEPT ![c] = a] /\ pos2 = [pos EXCEPT ![c] = k]
      BY <1>6, <1>7, <1>9, <2>2, <3>1
    <3>5. \A d \in Cluster : ~(own[d] = a /\ pos[d] = k)
      BY <2>1, <3>1
    <3>6. Chained(g, E, h, own2, pos2)
      BY <3>2, <3>3, <3>4, <3>5, AdoptKeeps
    <3> QED
      BY <3>1, <3>6
  <2> QED
    BY <1>8, <2>3, HandKeeps
<1>13. own2[op.c] = own[op.prev] /\ \A c \in Cluster : c # op.c => own2[c] = own[c] /\ pos2[c] = pos[c]
  BY <1>2, <1>6, <1>7, <1>11 DEF Chained, OwnersTyped
<1>14. /\ Foldered(entries', own2) /\ Names(entries', own2) /\ Kept(entries', own2, pos2, data', stored')
       /\ \A b : Absent(entries, own, b, leaf(op.path)) => Absent(entries', own2, b, leaf(op.path))
  BY <1>3, <1>8, <1>11, <1>13, Carried
<1>15. NotLost(own2)'
  <2>1. \A c \in Cluster : fat'[c] # Free => fat[c] # Free
    BY <1>1, <1>3, <1>9, ValueFacts DEF Fats
  <2> QED
    BY <1>2, <1>3, <1>9, <1>13, <2>1, NobodyFacts DEF NotLost
<1>16. <<op.c, 1>> \in Slot /\ op.c # Root /\ entries[<<op.c, 1>>] = Nil
  <2>1. <<op.c, 1>> \in Slot /\ op.c # Root
    BY <1>11, SlotCounts, ValueFacts DEF Slot
  <2> QED
    BY <1>2, <1>11, <2>1, NobodyFacts, NoSlots DEF Folder
<1>17. Placed(entries', own2, op.path, <<op.c, 1>>)
  <2>1. IsAt(entries, own2, op.path, <<op.c, 1>>)
    BY <1>5, <1>13, <1>16 DEF IsAt, Growing
  <2>2. Alone(entries, own2, <<op.c, 1>>, leaf(op.path))
    <3>1. Absent(entries, own2, own[op.prev], leaf(op.path))
      BY <1>5, <1>8, <1>14 DEF Growing
    <3>2. Parent(own2, <<op.c, 1>>) = own[op.prev]
      BY <1>13, <1>16 DEF Parent
    <3> QED
      BY <1>9, <3>1, <3>2, NobodyFacts DEF Alone, Absent, Parent
  <2> QED
    BY <1>8, <1>16, <2>1, <2>2 DEF Placed
<1>18. Stage(own2, pos2)'
  <2>1. op.i = 0 /\ op.cur = 0 /\ Nil.first = 0 /\ 0 \notin Cluster
    BY <1>5, ValueFacts DEF Growing, Nil, Free
  <2>2. Filled(own2, pos2)' /\ Taking(own2, pos2)'
    BY <1>4, <1>8, <1>16, <2>1 DEF Filled, Taking, Holds
  <2> QED
    BY <1>1, <1>2, <1>3, <1>4, <1>8, <1>16, <1>17, <2>2 DEF Stage, Extending, Making, Writing, Call
<1> QED
  BY <1>12, <1>14, <1>15, <1>18 DEF Sound

LEMMA TakeSound ==
  ASSUME TInv, MaxErrors = 0, NEW own, NEW pos, Sound(own, pos), take_cluster
  PROVE  \E own2, pos2 : Sound(own2, pos2)'
<1>1. /\ entries \in Directory /\ fat \in Fats /\ op \in Call /\ ~fails /\ op.slot \in Slot /\ op.i \in Nat
      /\ ~op.dir /\ op.at = "take"
  BY EntriesTyped, NoFailure DEF TInv, Call, take_cluster, StageTyped, Writing
<1>2. Chained(fat, entries, Hand, own, pos) /\ Foldered(entries, own) /\ NotLost(own) /\ Stage(own, pos)
  BY DEF Sound
<1>3. /\ Hand = {op.first} /\ Filled(own, pos) /\ Taking(own, pos)
      /\ Placed(entries, own, op.path, op.slot) /\ stored[op.path] = Unknown
  BY <1>1, <1>2 DEF Hand, Writing, Stage, Extending
<1>4. UNCHANGED <<data, root>> /\ entries' = entries
  BY <1>2, EntriesSame DEF take_cluster
<1>5. op.i = 0 => op.prev = 0 /\ op.first = 0 /\ op.cur = entries[op.slot].first /\ 0 \notin Cluster
  BY <1>1, <1>3, ValueFacts DEF Taking, Free
<1>6. op.i # 0 => /\ Mine(own, pos, op.prev, op.i) /\ Follows(op.prev) /\ op.prev \in Cluster /\ op.prev # 0
                  /\ op.first \in Cluster /\ op.first # 0
  BY <1>1, <1>3, ValueFacts DEF Taking, Free, Mine, TInv, StageTyped
<1>7. ASSUME NEW c \in Cluster, NEW nx, op' = claimed(c, nx)
      PROVE  /\ op'.at = (IF op.i = 0 THEN "data" ELSE "link") /\ op'.c = c /\ op'.cur = nx
             /\ op'.first = (IF op.i = 0 THEN c ELSE op.first)
             /\ op'.path = op.path /\ op'.dir = op.dir /\ op'.slot = op.slot /\ op'.prev = op.prev
             /\ op'.i = op.i /\ op'.v = op.v /\ op'.size = op.size
  BY <1>1, <1>5, <1>6, <1>7 DEF claimed, Call
<1>8. CASE op.cur \in Cluster /\ op' = claimed(op.cur, fat[op.cur]) /\ UNCHANGED <<fat, lossy, stored>>
  <2>1. /\ op'.at = (IF op.i = 0 THEN "data" ELSE "link") /\ op'.c = op.cur /\ op'.cur = fat[op.cur]
        /\ op'.first = (IF op.i = 0 THEN op.cur ELSE op.first)
        /\ op'.path = op.path /\ op'.dir = op.dir /\ op'.slot = op.slot /\ op'.prev = op.prev
        /\ op'.i = op.i /\ op'.v = op.v /\ op'.size = op.size
    BY <1>7, <1>8
  <2>2. /\ Foldered(entries', own) /\ Names(entries', own) /\ Kept(entries', own, pos, data', stored')
        /\ Placed(entries', own, op.path, op.slot)
    BY <1>1, <1>3, <1>4, <1>8, Carried
  <2>3. NotLost(own)'
    BY <1>1, <1>2, <1>8, <2>1 DEF NotLost
  <2>4. Chained(fat', entries', Hand', own, pos)
    <3>1. Hand' = {op'.first}
      BY <2>1 DEF Hand, Writing
    <3>2. \A c \in Cluster : c \in Hand => c \in Hand'
      BY <1>3, <1>5, <2>1, <3>1
    <3> QED
      BY <1>2, <1>4, <1>8, <3>2, HandKeeps
  <2>5. op.i = 0 => Mine(own, pos, op.cur, 1)
    BY <1>1, <1>2, <1>5, <1>8 DEF Chained, Heads, Mine
  <2>6. op.i # 0 => fat[op.prev] = op.cur
    BY <1>6, <1>8 DEF Follows
  <2>7. Filled(own, pos)'
    BY <1>3, <1>4, <2>1, <2>5 DEF Filled, Mine
  <2>8. Stage(own, pos)'
    <3>1. CASE op.i = 0
      BY <1>1, <1>3, <1>8, <2>1, <2>2, <2>5, <2>7, <3>1 DEF Stage, Extending, Making, Writing, Mine, Follows
    <3>2. CASE op.i # 0
      <4>1. Linking(own, pos)'
        BY <1>1, <1>6, <1>8, <2>1, <2>6, <3>2 DEF Linking, Mine, Follows
      <4> QED
        BY <1>1, <1>3, <1>8, <2>1, <2>2, <2>7, <3>2, <4>1 DEF Stage, Extending, Making, Writing
    <3> QED
      BY <3>1, <3>2
  <2> QED
    BY <2>2, <2>3, <2>4, <2>8 DEF Sound
<1>9. CASE alloc_fails /\ fail /\ UNCHANGED fat
  BY <1>1, <1>4, <1>9, FailSound
<1>10. CASE op.cur \notin Cluster /\ \E c \in Cluster : /\ fat_alloc_cluster(c)
                                                       /\ op' = claimed(c, op.cur)
                                                       /\ UNCHANGED <<lossy, stored>>
  <2>1. PICK c \in Cluster : fat_alloc_cluster(c) /\ op' = claimed(c, op.cur) /\ UNCHANGED <<lossy, stored>>
    BY <1>10
  <2>2. /\ op'.at = (IF op.i = 0 THEN "data" ELSE "link") /\ op'.c = c /\ op'.cur = op.cur
        /\ op'.first = (IF op.i = 0 THEN c ELSE op.first)
        /\ op'.path = op.path /\ op'.dir = op.dir /\ op'.slot = op.slot /\ op'.prev = op.prev
        /\ op'.i = op.i /\ op'.v = op.v /\ op'.size = op.size
    BY <1>7, <2>1
  <2>3. fat[c] = Free /\ fat' = [fat EXCEPT ![c] = EOC]
    BY <1>1, <2>1 DEF fat_alloc_cluster, free_cluster, fat_write_next_cluster
  <2>4. fat'[c] = EOC /\ \A d \in Cluster : d # c => fat'[d] = fat[d]
    BY <1>1, <2>3 DEF Fats
  <2>5. Hand' = {op'.first}
    BY <2>2 DEF Hand, Writing
  <2>6. CASE op.i = 0
    <3>1. Chained(fat, entries, {}, own, pos)
      BY <1>2, <1>3, <1>5, <2>6, HandKeeps
    <3>2. Chained(fat', entries, {}, own, pos) /\ Fresh(fat', own, c)
      BY <1>1, <2>3, <3>1, MarkKeeps
    <3>3. PICK own2 : own2 = [own EXCEPT ![c] = op.slot]
      OBVIOUS
    <3>4. PICK pos2 : pos2 = [pos EXCEPT ![c] = 1]
      OBVIOUS
    <3>5. \A d \in Cluster : ~(own[d] = op.slot /\ pos[d] = 1)
      BY <1>1, <1>5, <1>10, <2>6, <3>1, NoFirst
    <3>6. Chained(fat', entries, {c}, own2, pos2)
      <4>1. PICK f, E, a, h, h2 : f = fat' /\ E = entries /\ a = op.slot /\ h = {} /\ h2 = {c}
        OBVIOUS
      <4>2. Chained(f, E, h, own, pos) /\ Fresh(f, own, c) /\ f \in Fats /\ E \in Directory /\ h \subseteq h2
            /\ c \in h2
        BY <1>1, <2>3, <3>2, <4>1 DEF Fats, Value
      <4>3. a \in Slot /\ 1 \in Nat /\ 1 # 0 /\ own2 = [own EXCEPT ![c] = a] /\ pos2 = [pos EXCEPT ![c] = 1]
        BY <1>1, <3>3, <3>4, <4>1
      <4>4. \A d \in Cluster : ~(own[d] = a /\ pos[d] = 1)
        BY <3>5, <4>1
      <4>5. Chained(f, E, h2, own2, pos2)
        BY <4>2, <4>3, <4>4, AdoptKeeps
      <4> QED
        BY <4>1, <4>5
    <3>7. /\ own[c] = Nobody /\ own2[c] = op.slot /\ pos2[c] = 1
          /\ \A d \in Cluster : d # c => own2[d] = own[d] /\ pos2[d] = pos[d]
      BY <1>2, <3>2, <3>3, <3>4 DEF Chained, OwnersTyped, Fresh
    <3>8. /\ Foldered(entries', own2) /\ Names(entries', own2) /\ Kept(entries', own2, pos2, data', stored')
          /\ Placed(entries', own2, op.path, op.slot)
      BY <1>1, <1>3, <1>4, <2>1, <3>7, Carried
    <3>9. NotLost(own2)'
      BY <1>1, <1>2, <2>1, <2>4, <3>7, NobodyFacts DEF NotLost
    <3>10. Mine(own2, pos2, op.c, op.i + 1)' /\ Follows(op.c)'
      BY <1>10, <2>2, <2>4, <2>6, <3>7 DEF Mine, Follows
    <3>11. Filled(own2, pos2)'
      BY <2>2, <2>6, <3>7 DEF Filled, Mine, Holds
    <3>12. Stage(own2, pos2)'
      BY <1>1, <1>3, <2>1, <2>2, <2>6, <3>8, <3>10, <3>11 DEF Stage, Extending, Making, Writing
    <3> QED
      BY <1>4, <2>2, <2>5, <2>6, <3>6, <3>8, <3>9, <3>12 DEF Sound
  <2>7. CASE op.i # 0
    <3>1. Chained(fat', entries, Hand, own, pos) /\ Fresh(fat', own, c)
      BY <1>1, <1>2, <2>3, MarkKeeps
    <3>2. Hand' = Hand
      BY <1>3, <2>2, <2>5, <2>7
    <3>3. /\ Foldered(entries', own) /\ Names(entries', own) /\ Kept(entries', own, pos, data', stored')
          /\ Placed(entries', own, op.path, op.slot)
      BY <1>1, <1>3, <1>4, <2>1, Carried
    <3>4. NotLost(own)'
      BY <1>1, <1>2, <2>1, <2>2, <2>4, <2>7 DEF NotLost
    <3>5. own[op.prev] # Nobody /\ op.prev # c /\ fat[op.prev] = EOC
      <4>1. own[op.prev] = op.slot /\ op.slot # Nobody
        BY <1>1, <1>6, <2>7, NobodyFacts DEF Mine
      <4>2. fat[op.prev] # Free /\ fat[op.prev] \in Value /\ fat[op.prev] \notin Cluster
        BY <1>1, <1>2, <1>6, <1>10, <2>7, <4>1, ValueFacts DEF Chained, Rooted, Follows, Fats
      <4> QED
        BY <2>3, <4>1, <4>2 DEF Value
    <3>6. Linking(own, pos)'
      BY <1>1, <1>6, <1>10, <2>2, <2>4, <2>7, <3>1, <3>5 DEF Linking, Mine, Follows
    <3>7. Filled(own, pos)'
      BY <1>3, <1>4, <2>2, <2>7 DEF Filled, Mine
    <3>8. Stage(own, pos)'
      BY <1>1, <1>3, <2>1, <2>2, <2>7, <3>3, <3>6, <3>7 DEF Stage, Extending, Making, Writing
    <3> QED
      BY <1>4, <3>1, <3>2, <3>3, <3>4, <3>8 DEF Sound
  <2> QED
    BY <2>6, <2>7
<1> QED
  BY <1>1, <1>8, <1>9, <1>10 DEF take_cluster

LEMMA LinkSound ==
  ASSUME TInv, MaxErrors = 0, NEW own, NEW pos, Sound(own, pos), link_cluster
  PROVE  \E own2, pos2 : Sound(own2, pos2)'
<1>1. /\ entries \in Directory /\ fat \in Fats /\ op \in Call /\ ~fails /\ op.slot \in Slot /\ op.i \in Nat
      /\ ~op.dir /\ op.at = "link" /\ op.c \in Cluster /\ op.first \in Cluster
  BY EntriesTyped, NoFailure DEF TInv, Call, link_cluster, StageTyped, Writing
<1>2. Chained(fat, entries, Hand, own, pos) /\ Foldered(entries, own) /\ NotLost(own) /\ Stage(own, pos)
  BY DEF Sound
<1>3. /\ Hand = {op.first} /\ Filled(own, pos) /\ Linking(own, pos)
      /\ Placed(entries, own, op.path, op.slot) /\ stored[op.path] = Unknown
  BY <1>1, <1>2 DEF Hand, Writing, Stage, Extending
<1>4. UNCHANGED <<data, root, stored, lossy>> /\ entries' = entries /\ fat' = [fat EXCEPT ![op.prev] = op.c]
  BY <1>1, <1>2, EntriesSame DEF link_cluster, fat_write_next_cluster
<1>5. /\ op'.at = "data" /\ op'.c = op.c /\ op'.cur = op.cur /\ op'.first = op.first
      /\ op'.path = op.path /\ op'.dir = op.dir /\ op'.slot = op.slot /\ op'.prev = op.prev
      /\ op'.i = op.i /\ op'.v = op.v /\ op'.size = op.size
  BY <1>1 DEF link_cluster, Call
<1>6. Hand' = Hand
  BY <1>3, <1>5 DEF Hand, Writing
<1>7. op.prev \in Cluster /\ own[op.prev] = op.slot /\ pos[op.prev] = op.i /\ op.i > 0 /\ op.slot # Nobody
  BY <1>1, <1>3, NobodyFacts DEF Linking, Mine
<1>8. CASE fat[op.prev] = op.c
  <2>1. fat' = fat
    BY <1>1, <1>4, <1>8 DEF Fats
  <2>2. Mine(own, pos, op.c, op.i + 1)
    BY <1>1, <1>2, <1>7, <1>8 DEF Chained, Links, Mine
  <2>3. Chained(fat', entries', Hand', own, pos)
    BY <1>2, <1>4, <1>6, <2>1
  <2>4. /\ Foldered(entries', own) /\ Names(entries', own) /\ Kept(entries', own, pos, data', stored')
        /\ Placed(entries', own, op.path, op.slot)
    BY <1>1, <1>3, <1>4, Carried
  <2>5. NotLost(own)'
    BY <1>1, <1>2, <1>4, <1>5, <1>7, <2>1, <2>2 DEF NotLost, Mine
  <2>6. Filled(own, pos)' /\ Follows(op.c)'
    BY <1>3, <1>4, <1>5, <2>1 DEF Filled, Mine, Linking, Follows
  <2>7. Stage(own, pos)'
    BY <1>1, <1>3, <1>4, <1>5, <2>2, <2>4, <2>6 DEF Stage, Extending, Making, Writing, Mine
  <2> QED
    BY <2>3, <2>4, <2>5, <2>7 DEF Sound
<1>9. CASE fat[op.prev] = EOC /\ Fresh(fat, own, op.c) /\ op.cur \notin Cluster
  <2>1. PICK own2 : own2 = [own EXCEPT ![op.c] = op.slot]
    OBVIOUS
  <2>2. PICK pos2 : pos2 = [pos EXCEPT ![op.c] = op.i + 1]
    OBVIOUS
  <2>3. ASSUME NEW d \in Cluster, own[d] = op.slot, pos[d] = op.i + 1 PROVE FALSE
    <3>1. pos[op.first] = 1
      BY <1>1, <1>3 DEF Filled, Mine
    <3>2. d # op.first
      BY <1>1, <1>7, <2>3, <3>1
    <3>3. PICK f, E, h, p : f = fat /\ E = entries /\ h = Hand /\ p = op.prev
      OBVIOUS
    <3>4. /\ f \in Fats /\ E \in Directory /\ Chained(f, E, h, own, pos) /\ p \in Cluster /\ own[p] \in Slot
          /\ f[p] \notin Cluster /\ own[d] = own[p] /\ pos[d] = pos[p] + 1 /\ d \notin h
      BY <1>1, <1>2, <1>3, <1>7, <1>9, <2>3, <3>2, <3>3, ValueFacts
    <3> QED
      BY <3>4, NoNext
  <2>4. Chained(fat', entries, Hand, own2, pos2)
    <3>1. PICK f, E, a, h, c, k, g : /\ f = fat /\ E = entries /\ a = op.slot /\ h = Hand /\ c = op.c
                                     /\ k = op.i + 1 /\ g = fat'
      OBVIOUS
    <3>2. Chained(f, E, h, own, pos) /\ Fresh(f, own, c) /\ f \in Fats /\ E \in Directory /\ h \subseteq h
      BY <1>1, <1>2, <1>9, <3>1
    <3>3. a \in Slot /\ k \in Nat /\ k # 0 /\ own2 = [own EXCEPT ![c] = a] /\ pos2 = [pos EXCEPT ![c] = k]
      BY <1>1, <2>1, <2>2, <3>1
    <3>4. \A d \in Cluster : ~(own[d] = a /\ pos[d] = k)
      BY <2>3, <3>1
    <3>5. \E p \in Cluster : g = [f EXCEPT ![p] = c] /\ f[p] = EOC /\ own[p] = a /\ k = pos[p] + 1
      BY <1>4, <1>7, <1>9, <3>1
    <3>6. Chained(g, E, h, own2, pos2)
      BY <3>2, <3>3, <3>4, <3>5, AdoptKeeps
    <3> QED
      BY <3>1, <3>6
  <2>5. /\ own[op.c] = Nobody /\ own2[op.c] = op.slot /\ pos2[op.c] = op.i + 1 /\ op.prev # op.c
        /\ \A d \in Cluster : d # op.c => own2[d] = own[d] /\ pos2[d] = pos[d]
    BY <1>1, <1>2, <1>7, <1>9, <2>1, <2>2 DEF Chained, OwnersTyped, Fresh
  <2>6. fat'[op.c] = EOC /\ \A d \in Cluster : fat'[d] # Free => fat[d] # Free
    BY <1>1, <1>4, <1>9, <2>5, ValueFacts DEF Fats, Fresh
  <2>7. /\ Foldered(entries', own2) /\ Names(entries', own2) /\ Kept(entries', own2, pos2, data', stored')
        /\ Placed(entries', own2, op.path, op.slot)
    BY <1>1, <1>3, <1>4, <2>5, Carried
  <2>8. NotLost(own2)'
    BY <1>2, <1>4, <1>7, <2>5, <2>6 DEF NotLost
  <2>9. Mine(own2, pos2, op.c, op.i + 1)' /\ Follows(op.c)'
    BY <1>1, <1>5, <1>9, <2>5, <2>6 DEF Mine, Follows
  <2>10. Filled(own2, pos2)'
    <3>1. Holds(own2, pos2, data, op.slot, op.i, op.v, op.size)
      BY <1>3, <1>7, <2>5 DEF Filled, Holds
    <3> QED
      BY <1>3, <1>4, <1>5, <1>7, <2>5, <3>1 DEF Filled, Mine
  <2>11. Stage(own2, pos2)'
    BY <1>1, <1>3, <1>4, <1>5, <2>7, <2>9, <2>10 DEF Stage, Extending, Making, Writing
  <2> QED
    BY <1>4, <1>6, <2>4, <2>7, <2>8, <2>11 DEF Sound
<1> QED
  BY <1>3, <1>8, <1>9 DEF Linking

LEMMA WriteDataSound ==
  ASSUME TInv, MaxErrors = 0, NEW own, NEW pos, Sound(own, pos), write_data
  PROVE  \E own2, pos2 : Sound(own2, pos2)'
<1>0. SUFFICES ASSUME ~(cluster_fails(op.c) /\ fail /\ UNCHANGED data)
               PROVE  \E own2, pos2 : Sound(own2, pos2)'
  BY FailSound DEF write_data
<1>1. /\ entries \in Directory /\ fat \in Fats /\ op \in Call /\ ~fails /\ op.slot \in Slot /\ op.i \in Nat
      /\ ~op.dir /\ op.at = "data" /\ op.c \in Cluster /\ op.first \in Cluster /\ op.size \in Nat
  BY EntriesTyped, NoFailure, SizesNat DEF TInv, Call, write_data, StageTyped, Writing, Length
<1>2. Chained(fat, entries, Hand, own, pos) /\ Foldered(entries, own) /\ NotLost(own) /\ Stage(own, pos)
  BY DEF Sound
<1>3. /\ Hand = {op.first} /\ Filled(own, pos) /\ Mine(own, pos, op.c, op.i + 1) /\ Follows(op.c)
      /\ Placed(entries, own, op.path, op.slot) /\ stored[op.path] = Unknown
  BY <1>1, <1>2 DEF Hand, Writing, Stage, Extending
<1> DEFINE block == IF op.i < op.size THEN [v |-> op.v, i |-> op.i + 1] ELSE Zero
<1>4. /\ UNCHANGED <<fat, root, stored, lossy>> /\ data' = [data EXCEPT ![op.c] = [Zeroed EXCEPT !.block = block]]
      /\ op' = [op EXCEPT !.at = "take", !.i = @ + 1, !.prev = op.c]
  BY <1>0, <1>1 DEF write_data
<1>5. /\ op'.at = "take" /\ op'.c = op.c /\ op'.cur = op.cur /\ op'.first = op.first
      /\ op'.path = op.path /\ op'.dir = op.dir /\ op'.slot = op.slot /\ op'.prev = op.c
      /\ op'.i = op.i + 1 /\ op'.v = op.v /\ op'.size = op.size
  BY <1>1, <1>4 DEF Call
<1>6. Hand' = Hand
  BY <1>3, <1>5 DEF Hand, Writing
<1>7. own[op.c] = op.slot /\ pos[op.c] = op.i + 1 /\ op.slot # Nobody
  BY <1>1, <1>3, NobodyFacts DEF Mine
<1>8. data'[op.c].block = block /\ \A d \in Cluster : d # op.c => data'[d] = data[d]
  BY <1>1, <1>4 DEF TInv, DataTyped, Zeroed
<1> HIDE DEF block
<1>9. entries' = entries
  <2>1. ~Folder(entries, own[op.c])
    BY <1>3, <1>7, NilTyped DEF Placed, Folder
  <2> QED
    BY <1>1, <1>2, <1>4, <2>1, EntriesSame
<1>10. /\ Foldered(entries', own) /\ Names(entries', own) /\ Kept(entries', own, pos, data', stored')
       /\ Placed(entries', own, op.path, op.slot)
  <2>1. Current = op.slot
    BY <1>1 DEF Current, Writing
  <2> QED
    BY <1>1, <1>3, <1>4, <1>7, <1>8, <1>9, <2>1, Carried
<1>11. NotLost(own)'
  BY <1>1, <1>2, <1>4, <1>5 DEF NotLost
<1>12. Filled(own, pos)'
  <2>1. Holds(own, pos, data', op.slot, op.i + 1, op.v, op.size)
    <3> SUFFICES ASSUME NEW k \in 1 .. op.i + 1
                 PROVE  \E c \in Cluster : /\ own[c] = op.slot /\ pos[c] = k
                             /\ data'[c].block = (IF k <= op.size THEN [v |-> op.v, i |-> k] ELSE Zero)
      BY DEF Holds
    <3>1. CASE k = op.i + 1
      <4>1. block = IF k <= op.size THEN [v |-> op.v, i |-> k] ELSE Zero
        BY <1>1, <3>1 DEF block
      <4> QED
        BY <1>1, <1>7, <1>8, <3>1, <4>1
    <3>2. CASE k # op.i + 1
      <4>1. PICK c \in Cluster : /\ own[c] = op.slot /\ pos[c] = k
                             /\ data[c].block = (IF k <= op.size THEN [v |-> op.v, i |-> k] ELSE Zero)
        BY <1>1, <1>3, <3>2 DEF Filled, Holds
      <4> QED
        BY <1>7, <1>8, <3>2, <4>1
    <3> QED
      BY <3>1, <3>2
  <2> QED
    BY <1>3, <1>5, <2>1 DEF Filled, Mine
<1>13. Taking(own, pos)'
  BY <1>1, <1>3, <1>4, <1>5 DEF Taking, Mine, Follows
<1>14. Stage(own, pos)'
  BY <1>1, <1>3, <1>4, <1>5, <1>10, <1>12, <1>13 DEF Stage, Extending, Making, Writing
<1> QED
  BY <1>2, <1>4, <1>6, <1>9, <1>10, <1>11, <1>14 DEF Sound

LEMMA EndChainSound ==
  ASSUME TInv, MaxErrors = 0, NEW own, NEW pos, Sound(own, pos), end_chain
  PROVE  \E own2, pos2 : Sound(own2, pos2)'
<1>1. /\ entries \in Directory /\ fat \in Fats /\ op \in Call /\ ~fails /\ op.slot \in Slot /\ op.i \in Nat
      /\ ~op.dir /\ op.at = "take" /\ op.i > 0
  <2>1. needed \in Nat \ {0}
    BY NeededTyped DEF TInv, Call
  <2> QED
    BY <2>1, EntriesTyped, NoFailure DEF TInv, Call, end_chain, StageTyped, Writing
<1>2. Chained(fat, entries, Hand, own, pos) /\ Foldered(entries, own) /\ NotLost(own) /\ Stage(own, pos)
  BY DEF Sound
<1>3. /\ Hand = {op.first} /\ Filled(own, pos) /\ Taking(own, pos)
      /\ Placed(entries, own, op.path, op.slot) /\ stored[op.path] = Unknown
  BY <1>1, <1>2 DEF Hand, Writing, Stage, Extending
<1>4. UNCHANGED <<data, root, stored, lossy>> /\ entries' = entries /\ fat' = [fat EXCEPT ![op.prev] = EOC]
  BY <1>1, <1>2, EntriesSame DEF end_chain, fat_write_next_cluster
<1>5. /\ op'.at = "free" /\ op'.c = op.c /\ op'.cur = op.cur /\ op'.first = op.first
      /\ op'.path = op.path /\ op'.dir = op.dir /\ op'.slot = op.slot /\ op'.prev = op.prev
      /\ op'.i = op.i /\ op'.v = op.v /\ op'.size = op.size
  BY <1>1 DEF end_chain, Call
<1>6. Hand' = {op.first, op.cur}
  BY <1>5 DEF Hand, Writing
<1>7. /\ op.prev \in Cluster /\ own[op.prev] = op.slot /\ pos[op.prev] = op.i /\ op.slot # Nobody
      /\ Follows(op.prev)
  BY <1>1, <1>3, NobodyFacts DEF Taking, Mine
<1>8. fat[op.prev] \in Cluster \/ op.cur \in Cluster => fat[op.prev] = op.cur
  BY <1>7, ValueFacts DEF Follows
<1>9. /\ Chained(fat', entries', Hand', own, pos)
      /\ op.cur \in Cluster => /\ own[op.cur] = op.slot /\ pos[op.cur] = op.i + 1
                               /\ \A d \in Cluster : fat'[d] # op.cur
  <2>1. PICK f, E, h, p, h2 : f = fat /\ E = entries /\ h = Hand /\ p = op.prev /\ h2 = Hand'
    OBVIOUS
  <2>2. /\ f \in Fats /\ E \in Directory /\ Chained(f, E, h, own, pos) /\ p \in Cluster
        /\ h \subseteq h2 /\ (f[p] \in Cluster => f[p] \in h2) /\ own[p] # Nobody
    BY <1>1, <1>2, <1>3, <1>6, <1>7, <1>8, <2>1
  <2>3. /\ Chained([f EXCEPT ![p] = EOC], E, h2, own, pos)
        /\ f[p] \in Cluster => /\ own[f[p]] = own[p] /\ pos[f[p]] = pos[p] + 1
                               /\ \A d \in Cluster : [f EXCEPT ![p] = EOC][d] # f[p]
    BY <2>2, CutKeeps
  <2> QED
    BY <1>4, <1>7, <1>8, <2>1, <2>3
<1>10. /\ Foldered(entries', own) /\ Names(entries', own) /\ Kept(entries', own, pos, data', stored')
       /\ Placed(entries', own, op.path, op.slot)
  BY <1>1, <1>3, <1>4, Carried
<1>11. fat'[op.prev] = EOC /\ \A d \in Cluster : d # op.prev => fat'[d] = fat[d]
  BY <1>1, <1>4, <1>7 DEF Fats
<1>12. NotLost(own)'
  BY <1>1, <1>2, <1>4, <1>5, <1>7, <1>11 DEF NotLost
<1>13. Filled(own, pos)' /\ Freeing(own, pos)'
  BY <1>1, <1>3, <1>4, <1>5, <1>7, <1>9, <1>11 DEF Filled, Freeing, Mine
<1>14. Stage(own, pos)'
  BY <1>1, <1>3, <1>4, <1>5, <1>10, <1>13 DEF Stage, Extending, Making, Writing
<1> QED
  BY <1>9, <1>10, <1>12, <1>14 DEF Sound

LEMMA FreeLeftSound ==
  ASSUME TInv, MaxErrors = 0, NEW own, NEW pos, Sound(own, pos), free_left
  PROVE  \E own2, pos2 : Sound(own2, pos2)'
<1>1. /\ entries \in Directory /\ fat \in Fats /\ op \in Call /\ ~fails /\ op.slot \in Slot /\ op.i \in Nat
      /\ ~op.dir /\ op.at = "free" /\ op.i # 0 /\ op.first \in Cluster /\ op.cur \in Cluster
  <2>1. needed \in Nat \ {0}
    BY NeededTyped DEF TInv, Call
  <2> QED
    BY <2>1, EntriesTyped, NoFailure DEF TInv, Call, free_left, StageTyped, Writing
<1>2. Chained(fat, entries, Hand, own, pos) /\ Foldered(entries, own) /\ NotLost(own) /\ Stage(own, pos)
  BY DEF Sound
<1>3. /\ Hand = {op.first, op.cur} /\ Filled(own, pos) /\ Freeing(own, pos)
      /\ Placed(entries, own, op.path, op.slot) /\ stored[op.path] = Unknown
  BY <1>1, <1>2 DEF Hand, Writing, Stage, Extending
<1>4. UNCHANGED <<data, root, stored, lossy>> /\ entries' = entries /\ fat' = [fat EXCEPT ![op.cur] = Free]
  BY <1>1, <1>2, EntriesSame DEF free_left, fat_write_next_cluster
<1>5. /\ op'.at = "free" /\ op'.c = op.c /\ op'.cur = fat[op.cur] /\ op'.first = op.first
      /\ op'.path = op.path /\ op'.dir = op.dir /\ op'.slot = op.slot /\ op'.prev = op.prev
      /\ op'.i = op.i /\ op'.v = op.v /\ op'.size = op.size
  BY <1>1 DEF free_left, next_left, Call
<1>6. Hand' = {op.first, fat[op.cur]}
  BY <1>5 DEF Hand, Writing
<1>7. /\ own[op.cur] = op.slot /\ pos[op.cur] > op.i /\ pos[op.cur] \in Nat /\ op.slot # Nobody
      /\ \A d \in Cluster : fat[d] # op.cur
  BY <1>1, <1>2, <1>3, NobodyFacts DEF Freeing, Chained, OwnersTyped
<1>8. PICK own2 : own2 = [own EXCEPT ![op.cur] = Nobody]
  OBVIOUS
<1>9. own2[op.cur] = Nobody /\ \A d \in Cluster : d # op.cur => own2[d] = own[d]
  BY <1>1, <1>2, <1>8 DEF Chained, OwnersTyped
<1>10. fat'[op.cur] = Free /\ \A d \in Cluster : d # op.cur => fat'[d] = fat[d]
  BY <1>1, <1>4 DEF Fats
<1>11. /\ Chained(fat', entries', Hand', own2, pos)
       /\ fat[op.cur] \in Cluster => /\ own2[fat[op.cur]] = op.slot /\ pos[fat[op.cur]] = pos[op.cur] + 1
                                     /\ \A d \in Cluster : fat'[d] # fat[op.cur]
  <2>1. PICK f, E, h, c, h2, g : f = fat /\ E = entries /\ h = Hand /\ c = op.cur /\ h2 = Hand' /\ g = fat'
    OBVIOUS
  <2>2. /\ f \in Fats /\ E \in Directory /\ Chained(f, E, h, own, pos) /\ c \in Cluster
        /\ own[c] # Nobody /\ pos[c] # 1 /\ (\A d \in Cluster : f[d] # c)
        /\ (\A d \in h : d = c \/ d \in h2) /\ (f[c] \in Cluster => f[c] \in h2)
        /\ own2 = [own EXCEPT ![c] = Nobody] /\ g = [f EXCEPT ![c] = Free]
    BY <1>1, <1>2, <1>3, <1>4, <1>6, <1>7, <1>8, <2>1
  <2>3. Chained(g, E, h2, own2, pos)
    BY <2>2, FreeKeeps
  <2>4. f[c] \in Cluster => /\ f[c] # c /\ own[f[c]] = own[c] /\ pos[f[c]] = pos[c] + 1
                           /\ \A d \in Cluster : d # c => f[d] # f[c]
    BY <2>2, NextOf
  <2> QED
    BY <1>4, <1>7, <1>9, <1>10, <2>1, <2>3, <2>4, ValueFacts
<1>12. /\ Foldered(entries', own2) /\ Names(entries', own2) /\ Kept(entries', own2, pos, data', stored')
       /\ Placed(entries', own2, op.path, op.slot)
  <2>1. Current = op.slot
    BY <1>1 DEF Current, Writing
  <2> QED
    BY <1>1, <1>3, <1>4, <1>7, <1>9, <2>1, Carried
<1>13. NotLost(own2)'
  BY <1>1, <1>2, <1>4, <1>5, <1>9, <1>10 DEF NotLost
<1>14. \A d \in Cluster : pos[d] \in 1 .. op.i => own2[d] = own[d] /\ fat'[d] = fat[d]
  BY <1>1, <1>7, <1>9, <1>10
<1>15. Freeing(own2, pos)'
  <2>1. op.prev \in Cluster /\ own[op.prev] = op.slot /\ pos[op.prev] = op.i /\ fat[op.prev] = EOC
    BY <1>3 DEF Freeing, Mine
  <2>2. op.i \in 1 .. op.i
    BY <1>1
  <2>3. Mine(own2, pos, op.prev, op.i)' /\ fat'[op.prev] = EOC
    BY <1>5, <1>14, <2>1, <2>2 DEF Mine
  <2> QED
    BY <1>1, <1>5, <1>7, <1>11, <2>3 DEF Freeing
<1>16. Filled(own2, pos)'
  <2>1. Holds(own2, pos, data, op.slot, op.i, op.v, op.size)
    BY <1>3, <1>14 DEF Filled, Holds
  <2>2. Mine(own, pos, op.first, 1) /\ 1 \in 1 .. op.i
    BY <1>1, <1>3 DEF Filled
  <2> QED
    BY <1>4, <1>5, <1>14, <2>1, <2>2 DEF Filled, Mine
<1>17. Stage(own2, pos)'
  BY <1>1, <1>3, <1>4, <1>5, <1>12, <1>15, <1>16 DEF Stage, Extending, Making, Writing
<1> QED
  BY <1>11, <1>12, <1>13, <1>17 DEF Sound

\* Another path keeps what was stored when the entry of the path q is written.
LEMMA StoreOther ==
  ASSUME NEW E \in Directory, NEW own, NEW pos, NEW D, NEW st, Kept(E, own, pos, D, st),
         Foldered(E, own), Names(E, own),
         NEW q \in Files \cup Dirs, NEW a \in Slot, Placed(E, own, q, a),
         NEW e, e.name = leaf(q), NEW F, Put(E, a, e, F),
         NEW p \in Files, st[p] # Unknown, p # q \/ E[a] = Nil
  PROVE  \E b \in Slot : /\ IsAt(F, own, p, b) /\ F[b].name = leaf(p) /\ ~F[b].dir /\ F[b].size = st[p].size
                         /\ Holds(own, pos, D, b, st[p].size, st[p].v, st[p].size)
<1>1. F[a] = e /\ \A b \in Slot : b # a => F[b] = E[b]
  BY DEF Put
<1>2. \A x, b : b \in Slot /\ IsAt(E, own, x, b) => IsAt(F, own, x, b)
  BY EntryPlaced
<1>3. IsAt(E, own, q, a) /\ (E[a] = Nil \/ E[a].name = leaf(q))
  BY DEF Placed
<1>4. PICK b \in Slot : /\ IsAt(E, own, p, b) /\ E[b].name = leaf(p) /\ ~E[b].dir /\ E[b].size = st[p].size
                        /\ Holds(own, pos, D, b, st[p].size, st[p].v, st[p].size)
  BY DEF Kept
<1>5. b # a
  <2> SUFFICES ASSUME b = a PROVE FALSE
    OBVIOUS
  <2>1. p \in Files \cup Dirs /\ Nil.name = ""
    BY DEF Nil
  <2>2. E[b] # Nil
    BY <1>4, <2>1, LeafFacts
  <2>3. leaf(q) = leaf(p) /\ p # q
    BY <1>3, <1>4, <2>2
  <2> QED
    BY <1>3, <1>4, <2>1, <2>3, PathOfSlot
<1> QED
  BY <1>1, <1>2, <1>4, <1>5

\* A directory's entry in an empty slot.
LEMMA StoreDirectory ==
  ASSUME NEW E \in Directory, NEW own, NEW pos, NEW D, NEW st, Kept(E, own, pos, D, st),
         Foldered(E, own), Names(E, own),
         NEW q \in Files \cup Dirs, NEW a \in Slot, Placed(E, own, q, a),
         NEW e, e.name = leaf(q), NEW F, Put(E, a, e, F), E[a] = Nil
  PROVE  Kept(F, own, pos, D, st)
<1> SUFFICES ASSUME NEW p \in Files, st[p] # Unknown
             PROVE  \E b \in Slot : /\ IsAt(F, own, p, b) /\ F[b].name = leaf(p) /\ ~F[b].dir
                                    /\ F[b].size = st[p].size
                                    /\ Holds(own, pos, D, b, st[p].size, st[p].v, st[p].size)
  BY DEF Kept
<1> QED
  BY StoreOther

\* A file's entry, whose blocks are in place.
LEMMA StoreFile ==
  ASSUME NEW E \in Directory, NEW own, NEW pos, NEW D, NEW st, Kept(E, own, pos, D, st),
         Foldered(E, own), Names(E, own),
         NEW q \in Files \cup Dirs, NEW a \in Slot, Placed(E, own, q, a),
         NEW e, e.name = leaf(q), NEW F, Put(E, a, e, F),
         NEW st2, \A p \in Files : p # q => st2[p] = st[p],
         NEW n, NEW v, ~e.dir, e.size = n, st2[q].size = n, st2[q].v = v, Holds(own, pos, D, a, n, v, n)
  PROVE  Kept(F, own, pos, D, st2)
<1> SUFFICES ASSUME NEW p \in Files, st2[p] # Unknown
             PROVE  \E b \in Slot : /\ IsAt(F, own, p, b) /\ F[b].name = leaf(p) /\ ~F[b].dir
                                    /\ F[b].size = st2[p].size
                                    /\ Holds(own, pos, D, b, st2[p].size, st2[p].v, st2[p].size)
  BY DEF Kept
<1>1. F[a] = e
  BY DEF Put
<1>2. \A x, b : b \in Slot /\ IsAt(E, own, x, b) => IsAt(F, own, x, b)
  BY EntryPlaced
<1>3. IsAt(E, own, q, a)
  BY DEF Placed
<1>4. CASE p = q
  BY <1>1, <1>2, <1>3, <1>4
<1>5. CASE p # q
  <2>1. st2[p] = st[p] /\ st[p] # Unknown
    BY <1>5
  <2>2. \E b \in Slot : /\ IsAt(F, own, p, b) /\ F[b].name = leaf(p) /\ ~F[b].dir /\ F[b].size = st[p].size
                        /\ Holds(own, pos, D, b, st[p].size, st[p].v, st[p].size)
    BY <1>5, <2>1, StoreOther
  <2> QED
    BY <2>1, <2>2
<1> QED
  BY <1>4, <1>5

LEMMA SetEntry ==
  ASSUME TInv, NEW a \in Slot, NEW e \in Entry, set_entry(a, e)
  PROVE  /\ entries' = [entries EXCEPT ![a] = e]
         /\ \A c \in Cluster : data'[c].block = data[c].block
<1>1. CASE a[1] = Root
  <2>1. root' = [root EXCEPT ![a[2]] = e] /\ UNCHANGED data
    BY <1>1 DEF set_entry
  <2>2. \A b \in Slot : entry(b)' = [entries EXCEPT ![a] = e][b]
    <3> SUFFICES ASSUME NEW b \in Slot PROVE entry(b)' = IF b = a THEN e ELSE entry(b)
      BY DEF entries
    <3>1. a = <<a[1], a[2]>> /\ b = <<b[1], b[2]>> /\ a[2] \in 1 .. RootSlots
      BY <1>1, SlotFacts
    <3> QED
      BY <1>1, <2>1, <3>1 DEF entry, TInv, RootTyped
  <2> QED
    BY <2>1, <2>2 DEF entries
<1>2. CASE a[1] # Root
  <2>1. data' = [data EXCEPT ![a[1]].slots[a[2]] = e] /\ UNCHANGED root /\ a[1] \in Cluster /\ a[2] \in 1 .. DirSlots
    BY <1>2, SlotFacts DEF set_entry
  <2>2. /\ data'[a[1]].slots = [data[a[1]].slots EXCEPT ![a[2]] = e]
        /\ data[a[1]].slots \in [1 .. DirSlots -> Entry]
        /\ data'[a[1]].block = data[a[1]].block
        /\ \A c \in Cluster : c # a[1] => data'[c] = data[c]
    BY <2>1 DEF TInv, DataTyped
  <2>3. \A b \in Slot : entry(b)' = [entries EXCEPT ![a] = e][b]
    <3> SUFFICES ASSUME NEW b \in Slot PROVE entry(b)' = IF b = a THEN e ELSE entry(b)
      BY DEF entries
    <3>1. a = <<a[1], a[2]>> /\ b = <<b[1], b[2]>>
      BY SlotFacts
    <3>2. CASE b[1] = Root
      BY <1>2, <2>1, <3>2 DEF entry
    <3>3. CASE b[1] # Root
      <4>1. b[1] \in Cluster /\ b[2] \in 1 .. DirSlots
        BY <3>3, SlotFacts
      <4>2. CASE b[1] = a[1]
        <5>1. entry(b)' = [data[a[1]].slots EXCEPT ![a[2]] = e][b[2]] /\ entry(b) = data[a[1]].slots[b[2]]
          BY <2>2, <3>3, <4>2 DEF entry
        <5>2. entry(b)' = IF b[2] = a[2] THEN e ELSE entry(b)
          BY <2>2, <4>1, <5>1
        <5> QED
          BY <3>1, <4>2, <5>2
      <4>3. CASE b[1] # a[1]
        BY <2>2, <3>3, <4>1, <4>3 DEF entry
      <4> QED
        BY <4>2, <4>3
    <3> QED
      BY <3>2, <3>3
  <2> QED
    BY <2>2, <2>3 DEF entries
<1> QED
  BY <1>1, <1>2

\* The call's entry is written: the chain in hand becomes that of the slot.
LEMMA WriteEntrySound ==
  ASSUME TInv, MaxErrors = 0, NEW own, NEW pos, Sound(own, pos), write_entry
  PROVE  \E own2, pos2 : Sound(own2, pos2)'
<1> DEFINE made == [name |-> leaf(op.path), dir |-> op.dir, first |-> op.first, size |-> op.size]
<1>1. /\ entries \in Directory /\ fat \in Fats /\ op \in Call /\ ~fails /\ op.slot \in Slot /\ op.i \in Nat
      /\ op.at \in {"free", "entry"} /\ op.first \in Cluster /\ op.size \in Nat
      /\ op.path \in Files \cup Dirs
  BY EntriesTyped, NoFailure, SizesNat DEF TInv, Call, write_entry, all_freed, StageTyped, Length
<1>2. Chained(fat, entries, Hand, own, pos) /\ Foldered(entries, own) /\ NotLost(own) /\ Stage(own, pos)
  BY DEF Sound
<1>3. /\ Foldered(entries, own) /\ Names(entries, own) /\ Kept(entries, own, pos, data, stored)
      /\ Placed(entries, own, op.path, op.slot)
  BY <1>1, <1>2 DEF Sound, Stage, Extending
<1>4. PICK e : e = made
  OBVIOUS
<1>5. e \in Entry /\ e.first = op.first /\ e.name = leaf(op.path) /\ e.size = op.size /\ e.dir = op.dir
  <2>1. leaf(op.path) \in STRING
    BY <1>1, LeafFacts
  <2>2. op.dir \in BOOLEAN /\ op.size \in Sizes \cup {0}
    BY <1>1 DEF Call, Length
  <2> QED
    BY <1>1, <1>4, <2>1, <2>2 DEF Entry
<1>6. /\ set_entry(op.slot, e) /\ op' = NoCall /\ UNCHANGED <<fat, errors, lossy>>
      /\ stored' = IF op.dir THEN stored ELSE [stored EXCEPT ![op.path] = [v |-> op.v, size |-> op.size]]
  BY <1>1, <1>4 DEF write_entry
<1> HIDE DEF made
<1>7. /\ entries' = [entries EXCEPT ![op.slot] = e]
      /\ \A c \in Cluster : data'[c].block = data[c].block
  BY <1>1, <1>5, <1>6, SetEntry
<1>8. op'.at = "idle" /\ Hand' = {} /\ Stage(own, pos)'
  BY <1>6 DEF NoCall, Hand, Stage, Extending, Making, Writing
<1>9. ASSUME NEW own2, NEW pos2, NEW h, Chained(fat, entries, h, own2, pos2), \A c \in Cluster \cap h : c = op.first,
             own2[op.first] = op.slot, pos2[op.first] = 1,
             \A c \in Cluster : c # op.first => own2[c] = own[c] /\ pos2[c] = pos[c],
             own[op.first] = Nobody \/ (own[op.first] = op.slot /\ pos[op.first] = 1),
             op.at = "entry" => own[op.first] = Nobody
      PROVE  Sound(own2, pos2)'
  <2>1. PICK f, E, a, D, D2, st, q, F : /\ f = fat /\ E = entries /\ a = op.slot /\ D = data /\ D2 = data'
                                        /\ st = stored /\ q = op.path /\ F = entries'
    OBVIOUS
  <2>2. /\ f \in Fats /\ E \in Directory /\ a \in Slot /\ F = [E EXCEPT ![a] = e] /\ q \in Files \cup Dirs
        /\ Placed(E, own, q, a) /\ e \in Entry /\ e.name = leaf(q)
    BY <1>1, <1>3, <1>5, <1>7, <2>1
  <2>0. Put(E, a, e, F)
    BY <2>2 DEF Put, Directory
  <2>3. Chained(f, [E EXCEPT ![a] = e], {}, own2, pos2)
    <3>1. Chained(f, E, h, own2, pos2) /\ e.first \in Cluster /\ own2[e.first] = a /\ pos2[e.first] = 1
      BY <1>1, <1>5, <1>9, <2>1
    <3>2. \A c \in Cluster \cap h : c = e.first \/ c \in {}
      BY <1>5, <1>9
    <3> QED
      BY <2>2, <3>1, <3>2, EntryKeeps
  <2>4. \A c \in Cluster : own2[c] = own[c] \/ ~Folder(E, own[c])
    BY <1>9, NobodyFacts DEF Folder
  <2>5. Foldered(E, own2) /\ Names(E, own2) /\ Placed(E, own2, q, a)
    <3>1. Foldered(E, own) /\ Names(E, own)
      BY <1>3, <2>1
    <3> QED
      BY <2>2, <2>4, <3>1, NamesKept
  <2>6. Foldered(F, own2) /\ Names(F, own2)
    BY <2>0, <2>2, <2>5, EntryPlaced
  <2>7. Kept(E, own2, pos2, D2, st)
    <3>1. \A c \in Cluster : own[c] # Nobody /\ own[c] # Nobody =>
            own2[c] = own[c] /\ pos2[c] = pos[c] /\ D2[c].block = D[c].block
      BY <1>7, <1>9, <2>1
    <3>2. Kept(E, own, pos, D, st) /\ Foldered(E, own) /\ Names(E, own)
      BY <1>3, <2>1
    <3>3. PICK b : b = Nobody /\ b \notin Slot
      BY NobodyFacts
    <3>4. \A c \in Cluster : own[c] # Nobody /\ own[c] # b =>
            own2[c] = own[c] /\ pos2[c] = pos[c] /\ D2[c].block = D[c].block
      BY <3>1, <3>3
    <3>5. E \in Directory /\ q \in Files \cup Dirs /\ (b \in Slot => Placed(E, own, q, b) /\ st[q] = Unknown)
      BY <2>2, <3>3
    <3> QED
      BY <2>4, <3>2, <3>4, <3>5, KeptKeeps
  <2>8. Kept(F, own2, pos2, D2, stored')
    <3>1. PICK st2 : st2 = stored'
      OBVIOUS
    <3>2. CASE op.at = "entry"
      <4>1. E[a] = Nil /\ op.dir /\ st2 = st
        BY <1>2, <1>6, <2>1, <3>1, <3>2 DEF Stage, Making, TInv, StageTyped
      <4>2. Kept(F, own2, pos2, D2, st)
        BY <2>0, <2>2, <2>5, <2>7, <4>1, StoreDirectory
      <4> QED
        BY <3>1, <4>1, <4>2
    <3>3. CASE op.at = "free"
      <4>1. ~op.dir /\ op.path \in Files
        BY <3>3 DEF TInv, StageTyped, Writing
      <4>2. st2[q] = [v |-> op.v, size |-> op.size] /\ \A p \in Files : p # q => st2[p] = st[p]
        BY <1>6, <2>1, <3>1, <4>1 DEF TInv, OthersTyped, StoredTyped
      <4>3. Holds(own, pos, data, op.slot, op.i, op.v, op.size) /\ op.i = needed
        BY <1>2, <3>3 DEF Stage, Writing, Filled, TInv, StageTyped
      <4>4. \A k \in 1 .. op.size : k \in 1 .. op.i
        BY <1>1, <4>3 DEF needed
      <4>5. Holds(own2, pos2, D2, a, st2[q].size, st2[q].v, st2[q].size)
        <5> SUFFICES ASSUME NEW k \in 1 .. op.size
                     PROVE  \E c \in Cluster : /\ own2[c] = op.slot /\ pos2[c] = k
                                /\ D2[c].block = (IF k <= op.size THEN [v |-> op.v, i |-> k] ELSE Zero)
          BY <2>1, <4>2 DEF Holds
        <5>1. PICK c \in Cluster : /\ own[c] = op.slot /\ pos[c] = k
                                   /\ data[c].block = (IF k <= op.size THEN [v |-> op.v, i |-> k] ELSE Zero)
          BY <4>3, <4>4 DEF Holds
        <5>2. own2[c] = op.slot /\ pos2[c] = k
          BY <1>1, <1>9, <5>1, NobodyFacts
        <5>3. D2[c].block = data[c].block
          BY <1>7, <2>1
        <5> QED
          BY <5>1, <5>2, <5>3
      <4>6. ~e.dir /\ st2[q].size = e.size
        BY <1>5, <4>1, <4>2
      <4>7. Kept(F, own2, pos2, D2, st2)
        <5>1. \A p \in Files : p # q => st2[p] = st[p]
          BY <4>2
        <5>2. PICK n, v : n = op.size /\ v = op.v
          OBVIOUS
        <5>3. /\ ~e.dir /\ e.size = n /\ st2[q].size = n /\ st2[q].v = v
              /\ Holds(own2, pos2, D2, a, n, v, n)
          BY <1>5, <4>2, <4>5, <4>6, <5>2
        <5> QED
          BY <2>0, <2>2, <2>5, <2>7, <5>1, <5>3, StoreFile
      <4> QED
        BY <3>1, <4>7
    <3> QED
      BY <1>1, <3>2, <3>3
  <2>9. NotLost(own2)'
    <3>1. own2[op.first] # Nobody /\ (op.at = "entry" => op.c = op.first)
      BY <1>1, <1>2, <1>9, NobodyFacts DEF Stage
    <3> QED
      BY <1>1, <1>2, <1>6, <1>8, <1>9, <3>1 DEF NotLost
  <2>10. Stage(own2, pos2)'
    BY <1>8 DEF Stage, Extending, Making, Writing
  <2>11. Chained(fat', entries', Hand', own2, pos2)
    BY <1>6, <1>7, <1>8, <2>1, <2>3
  <2> QED
    BY <2>1, <2>6, <2>8, <2>9, <2>10, <2>11 DEF Sound
<1>10. CASE op.at = "free"
  <2>1. op.cur \notin Cluster /\ Hand = {op.first, op.cur}
    BY <1>10 DEF write_entry, all_freed, Hand, Writing
  <2>2. own[op.first] = op.slot /\ pos[op.first] = 1
    BY <1>1, <1>2, <1>10 DEF Stage, Writing, Filled, Mine
  <2> QED
    BY <1>2, <1>9, <1>10, <2>1, <2>2
<1>11. CASE op.at = "entry"
  <2>1. Fresh(fat, own, op.first) /\ entries[op.slot] = Nil /\ Hand = {}
    BY <1>2, <1>11 DEF Stage, Making, Hand, Writing
  <2>2. PICK f, E, a, h, h2, c : /\ f = fat /\ E = entries /\ a = op.slot /\ h = {} /\ h2 = {op.first}
                                 /\ c = op.first
    OBVIOUS
  <2>3. PICK own2 : own2 = [own EXCEPT ![c] = a]
    OBVIOUS
  <2>4. PICK pos2 : pos2 = [pos EXCEPT ![c] = 1]
    OBVIOUS
  <2>5. /\ Chained(f, E, h, own, pos) /\ Fresh(f, own, c) /\ f \in Fats /\ E \in Directory /\ h \subseteq h2
        /\ c \in h2 /\ a \in Slot /\ 1 \in Nat /\ 1 # 0
    BY <1>1, <1>2, <2>1, <2>2
  <2>6. \A d \in Cluster : ~(own[d] = a /\ pos[d] = 1)
    <3>1. E[a].first \notin Cluster
      BY <2>1, <2>2, NilTyped
    <3> QED
      BY <2>2, <2>5, <3>1, NoFirst
  <2>7. Chained(f, E, h2, own2, pos2)
    BY <2>3, <2>4, <2>5, <2>6, AdoptKeeps
  <2>8. /\ own[op.first] = Nobody /\ own2[op.first] = op.slot /\ pos2[op.first] = 1
        /\ \A d \in Cluster : d # op.first => own2[d] = own[d] /\ pos2[d] = pos[d]
    BY <1>1, <1>2, <2>1, <2>2, <2>3, <2>4 DEF Chained, OwnersTyped, Fresh
  <2> QED
    BY <1>9, <2>2, <2>7, <2>8
<1> QED
  BY <1>1, <1>10, <1>11

-----------------------------------------------------------------------------
\* Chains and owners: a chain holds the clusters of its owner, in order.

LEMMA ChainOwned ==
  ASSUME FatTyped, NEW E, NEW hand, NEW own, NEW pos, Chained(fat, E, hand, own, pos),
         NEW a \in Slot, E[a].first \in Cluster, NEW i \in 1 .. Len(chain(E[a].first))
  PROVE  chain(E[a].first)[i] \in Cluster /\ own[chain(E[a].first)[i]] = a /\ pos[chain(E[a].first)[i]] = i
<1>1. PICK s, n : s = chain(E[a].first) /\ n = Len(s)
  OBVIOUS
<1>2. /\ s \in Seq(Cluster) /\ n \in Nat /\ s[1] = E[a].first
      /\ \A k \in 1 .. n - 1 : s[k + 1] = fat[s[k]]
      /\ \A k \in 1 .. n : s[k] \in Cluster
  BY <1>1, ChainFacts, ValueFacts
<1> DEFINE Bad == {k \in 1 .. n : ~(own[s[k]] = a /\ pos[s[k]] = k)}
<1>3. SUFFICES ASSUME Bad # {} PROVE FALSE
  BY <1>1, <1>2
<1>4. PICK k \in Bad : \A j \in Bad : k <= j
  <2>1. Bad \in SUBSET Nat
    OBVIOUS
  <2> HIDE DEF Bad
  <2> QED
    BY <1>3, <2>1, LeastOf
<1>5. k # 1
  BY <1>2 DEF Chained, Heads
<1>6. k - 1 \in 1 .. n - 1 /\ ~(k - 1 \in Bad) /\ k - 1 \in 1 .. n
  BY <1>2, <1>4, <1>5
<1>7. own[s[k - 1]] = a /\ pos[s[k - 1]] = k - 1 /\ s[k] = fat[s[k - 1]] /\ s[k - 1] \in Cluster
  <2>1. (k - 1) + 1 = k
    BY <1>6
  <2> QED
    BY <1>2, <1>6, <2>1
<1>8. own[s[k]] = a /\ pos[s[k]] = (k - 1) + 1
  BY <1>2, <1>4, <1>7, NobodyFacts DEF Chained, Links
<1> QED
  BY <1>4, <1>8

\* The chain of an entry ends: were it as long as the volume, one more cluster
\* would need a position of its own.
LEMMA ChainEnded ==
  ASSUME FatTyped, NEW E, NEW hand, NEW own, NEW pos, Chained(fat, E, hand, own, pos),
         NEW a \in Slot, E[a].first \in Cluster
  PROVE  fat[chain(E[a].first)[Len(chain(E[a].first))]] = EOC
<1>1. PICK s, n : s = chain(E[a].first) /\ n = Len(s)
  OBVIOUS
<1>2. n \in 1 .. Clusters /\ (n = Clusters \/ fat[s[n]] \notin Cluster) /\ n \in Nat /\ n \in 1 .. n
  BY <1>1, ChainFacts, ValueFacts
<1>3. \A i \in 1 .. n : s[i] \in Cluster /\ own[s[i]] = a /\ pos[s[i]] = i
  BY <1>1, ChainOwned
<1>4. fat[s[n]] \notin Cluster
  <2> SUFFICES ASSUME fat[s[n]] \in Cluster PROVE FALSE
    OBVIOUS
  <2>1. n = Clusters /\ pos[fat[s[n]]] = n + 1
    BY <1>2, <1>3, NobodyFacts DEF Chained, Links
  <2>2. PICK g : g = [i \in 1 .. Clusters + 1 |-> IF i <= n THEN s[i] ELSE fat[s[n]]]
    OBVIOUS
  <2>3. g \in [1 .. Clusters + 1 -> Cluster] /\ \A i \in 1 .. Clusters + 1 : pos[g[i]] = i
    BY <1>2, <1>3, <2>1, <2>2, ValueFacts
  <2>4. /\ IsFiniteSet(Cluster) /\ Cardinality(Cluster) = Clusters
        /\ IsFiniteSet(1 .. Clusters + 1) /\ Cardinality(1 .. Clusters + 1) = Clusters + 1
    <3>1. /\ IsFiniteSet(2 .. Clusters + 1)
          /\ Cardinality(2 .. Clusters + 1) = IF 2 > Clusters + 1 THEN 0 ELSE Clusters + 1 - 2 + 1
      BY FS_Interval, ValueFacts
    <3>2. /\ IsFiniteSet(1 .. Clusters + 1)
          /\ Cardinality(1 .. Clusters + 1) = IF 1 > Clusters + 1 THEN 0 ELSE Clusters + 1 - 1 + 1
      BY FS_Interval, ValueFacts
    <3> QED
      BY <3>1, <3>2, ValueFacts DEF Cluster
  <2>5. \E x, y \in 1 .. Clusters + 1 : x # y /\ g[x] = g[y]
    <3>1. Cardinality(Cluster) < Cardinality(1 .. Clusters + 1)
      BY <2>4, ValueFacts
    <3> QED
      BY <2>3, <2>4, <3>1, FS_PigeonHole
  <2> QED
    BY <2>3, <2>5
<1>5. fat[s[n]] # Free /\ fat[s[n]] \in Value
  BY <1>2, <1>3, NobodyFacts DEF Chained, Rooted, FatTyped
<1> QED
  BY <1>1, <1>4, <1>5 DEF Value

\* A cluster whose owner has none in hand is in the owner's chain, at its position.
LEMMA ChainWhole ==
  ASSUME FatTyped, NEW E, NEW hand, NEW own, NEW pos, Chained(fat, E, hand, own, pos),
         NEW a \in Slot, \A c \in Cluster \cap hand : own[c] # a,
         NEW x \in Cluster, own[x] = a
  PROVE  /\ E[a].first \in Cluster
         /\ pos[x] \in 1 .. Len(chain(E[a].first)) /\ chain(E[a].first)[pos[x]] = x
<1>1. PICK s, n : s = chain(E[a].first) /\ n = Len(s)
  OBVIOUS
<1> DEFINE In(c) == E[a].first \in Cluster /\ pos[c] \in 1 .. n /\ s[pos[c]] = c
           Bad == {c \in Cluster : own[c] = a /\ ~In(c)}
           BadPos == {pos[c] : c \in Bad}
<1>2. pos \in [Cluster -> Nat] /\ a # Nobody
  BY NobodyFacts DEF Chained, OwnersTyped
<1>3. SUFFICES ASSUME Bad # {} PROVE FALSE
  BY <1>1
<1>4. PICK m \in BadPos : \A k \in BadPos : m <= k
  <2>1. BadPos \in SUBSET Nat /\ BadPos # {}
    BY <1>2, <1>3
  <2> HIDE DEF BadPos
  <2> QED
    BY <2>1, LeastOf
<1>5. PICK c \in Bad : pos[c] = m
  OBVIOUS
<1>6. c \in Cluster /\ own[c] = a /\ ~In(c) /\ \A d \in Cluster : own[d] = a /\ pos[d] < pos[c] => In(d)
  BY <1>2, <1>4, <1>5
<1> HIDE DEF Bad, BadPos
<1>7. c = E[a].first \/ \E d \in Cluster : fat[d] = c
  BY <1>2, <1>6 DEF Chained, Rooted
<1>8. CASE c = E[a].first
  <2>1. pos[c] = 1 /\ s[1] = c /\ n \in 1 .. Clusters
    BY <1>1, <1>6, <1>8, ChainFacts DEF Chained, Heads
  <2> QED
    BY <1>6, <1>8, <2>1, ValueFacts
<1>9. CASE \E d \in Cluster : fat[d] = c
  <2>1. PICK d \in Cluster : fat[d] = c
    BY <1>9
  <2>2. own[d] = a /\ pos[c] = pos[d] + 1 /\ pos[d] \in Nat
    BY <1>2, <1>6, <2>1 DEF Chained, Links
  <2>3. In(d)
    BY <1>6, <2>2
  <2>4. fat[s[n]] = EOC /\ n \in 1 .. Clusters /\ \A k \in 1 .. n - 1 : s[k + 1] = fat[s[k]]
    BY <1>1, <2>3, ChainEnded, ChainFacts
  <2>5. pos[d] # n
    BY <1>6, <2>1, <2>3, <2>4, ValueFacts
  <2>6. pos[d] \in 1 .. n - 1 /\ pos[c] \in 1 .. n
    BY <2>2, <2>3, <2>4, <2>5, ValueFacts
  <2>7. s[pos[c]] = c
    BY <2>1, <2>2, <2>3, <2>4, <2>6
  <2> QED
    BY <1>6, <2>3, <2>6, <2>7
<1> QED
  BY <1>7, <1>8, <1>9

\* No cluster in hand belongs to a directory, nor to a file other than the call's.
LEMMA HandIsCurrent ==
  ASSUME TInv, NEW own, NEW pos, Sound(own, pos)
  PROVE  /\ \A c \in Cluster \cap Hand : Writing /\ own[c] = op.slot
         /\ \A b : Folder(entries, b) => \A c \in Cluster \cap Hand : own[c] # b
<1>1. \A c \in Cluster \cap Hand : Writing /\ own[c] = op.slot
  BY DEF Sound, Stage, Hand, Writing, Filled, Mine, Freeing
<1>2. Writing => ~entries[op.slot].dir
  BY NilTyped DEF Sound, Stage, Writing, Extending, Placed
<1> QED
  BY <1>1, <1>2 DEF Folder

\* The slots of a directory are those in the clusters it owns.
LEMMA SlotsOf ==
  ASSUME TInv, NEW own, NEW pos, Sound(own, pos), NEW a
  PROVE  /\ a \in {slot_of(t) : t \in slots(Root)} <=> a \in Slot /\ a[1] = Root
         /\ \A b : Folder(entries, b) =>
              (a \in {slot_of(t) : t \in slots(entries[b].first)} <=> a \in Slot /\ a[1] # Root /\ own[a[1]] = b)
<1>1. FatTyped /\ Chained(fat, entries, Hand, own, pos) /\ entries \in Directory
  BY EntriesTyped DEF TInv, Sound
<1>2. a \in {slot_of(t) : t \in slots(Root)} <=> a \in Slot /\ a[1] = Root
  <2>1. extent(Root) = <<Root>>
    BY DEF extent
  <2>2. ASSUME NEW t \in slots(Root), a = slot_of(t) PROVE a \in Slot /\ a[1] = Root
    <3>1. PICK k \in DOMAIN extent(Root), s \in 1 .. RootSlots : t = <<k, extent(Root)[k], s>>
      BY DEF slots
    <3>2. k = 1 /\ extent(Root)[k] = Root
      BY <2>1, <3>1
    <3> QED
      BY <2>2, <3>1, <3>2 DEF slot_of, Slot
  <2>3. ASSUME a \in Slot, a[1] = Root PROVE \E t \in slots(Root) : a = slot_of(t)
    <3>1. a = <<Root, a[2]>> /\ a[2] \in 1 .. RootSlots
      BY <2>3, SlotFacts
    <3>2. 1 \in DOMAIN extent(Root) /\ extent(Root)[1] = Root
      BY <2>1
    <3>3. <<1, extent(Root)[1], a[2]>> \in slots(Root)
      BY <3>1, <3>2 DEF slots
    <3> QED
      BY <3>1, <3>2, <3>3 DEF slot_of
  <2> QED
    BY <2>2, <2>3
<1>3. ASSUME NEW b, Folder(entries, b)
      PROVE  a \in {slot_of(t) : t \in slots(entries[b].first)} <=> a \in Slot /\ a[1] # Root /\ own[a[1]] = b
  <2>1. PICK d : d = entries[b].first
    OBVIOUS
  <2>2. b \in Slot /\ d \in Cluster /\ d # Root
    <3>1. b \in Slot /\ entries[b].dir /\ entries[b] \in Entry
      BY <1>1, <1>3 DEF Folder, Directory
    <3> QED
      BY <2>1, <3>1, EntryFacts, ValueFacts
  <2>3. /\ extent(d) = chain(d) /\ DOMAIN chain(d) = 1 .. Len(chain(d))
        /\ \A k \in 1 .. Len(chain(d)) : chain(d)[k] \in Cluster /\ own[chain(d)[k]] = b
    BY <1>1, <2>1, <2>2, ChainOwned, ChainFacts DEF extent
  <2>4. ASSUME NEW t \in slots(d), a = slot_of(t) PROVE a \in Slot /\ a[1] # Root /\ own[a[1]] = b
    <3>1. PICK k \in 1 .. Len(chain(d)), s \in 1 .. DirSlots : t = <<k, chain(d)[k], s>>
      BY <2>2, <2>3 DEF slots
    <3>2. chain(d)[k] \in Cluster /\ own[chain(d)[k]] = b /\ a = <<chain(d)[k], s>>
      BY <2>3, <2>4, <3>1 DEF slot_of
    <3> QED
      BY <3>1, <3>2, ValueFacts DEF Slot
  <2>5. ASSUME a \in Slot, a[1] # Root, own[a[1]] = b PROVE \E t \in slots(d) : a = slot_of(t)
    <3>1. a = <<a[1], a[2]>> /\ a[1] \in Cluster /\ a[2] \in 1 .. DirSlots
      BY <2>5, SlotFacts
    <3>2. \A c \in Cluster \cap Hand : own[c] # b
      BY <1>3, HandIsCurrent
    <3>3. pos[a[1]] \in 1 .. Len(chain(d)) /\ chain(d)[pos[a[1]]] = a[1]
      BY <1>1, <2>1, <2>2, <2>5, <3>1, <3>2, ChainWhole
    <3>4. <<pos[a[1]], extent(d)[pos[a[1]]], a[2]>> \in slots(d)
      BY <2>2, <2>3, <3>1, <3>3 DEF slots
    <3> QED
      BY <2>3, <3>1, <3>3, <3>4 DEF slot_of
  <2> QED
    BY <2>1, <2>4, <2>5
<1> QED
  BY <1>2, <1>3

\* The directory a path leads to, and the slots in it.
LEMMA ParentSlots ==
  ASSUME TInv, NEW own, NEW pos, Sound(own, pos), NEW p \in Files \cup Dirs
  PROVE  /\ \A d \in resolve_parent(p) : \A a :
              a \in {slot_of(t) : t \in slots(d)} <=> a \in Slot /\ IsAt(entries, own, p, a)
         /\ \A a \in Slot : IsAt(entries, own, p, a) => resolve_parent(p) # {}
         /\ \A d \in resolve_parent(p) : d # Root =>
              \E b : Folder(entries, b) /\ d = entries[b].first /\ entries[b].name = p[1] /\ Len(p) # 1
<1>1. /\ FatTyped /\ Chained(fat, entries, Hand, own, pos) /\ entries \in Directory
      /\ Names(entries, own) /\ \A a \in Slot : entries[a] = entry(a)
  BY EntriesTyped DEF TInv, Sound
<1>2. CASE Len(p) = 1
  <2>1. resolve_parent(p) = {Root}
    BY <1>2 DEF resolve_parent
  <2> QED
    BY <1>2, <2>1, SlotsOf DEF IsAt
<1>3. CASE Len(p) # 1
  <2>1. \A d : d \in resolve_parent(p) <=>
          \E b : Folder(entries, b) /\ entries[b].name = p[1] /\ d = entries[b].first
    <3>1. resolve_parent(p) = {entry(b).first : b \in {b \in find_in_dir(Root, p[1]) : entry(b).dir}}
      BY <1>3 DEF resolve_parent
    <3>2. \A b : b \in find_in_dir(Root, p[1]) <=> b \in Slot /\ b[1] = Root /\ entries[b].name = p[1]
      BY <1>1, SlotsOf DEF find_in_dir
    <3> QED
      BY <1>1, <3>1, <3>2 DEF Folder
  <2>2. ASSUME NEW b, Folder(entries, b), entries[b].name = p[1], NEW x, Folder(entries, x), entries[x].name = p[1]
        PROVE  x = b
    <3>1. b \in Slot /\ x \in Slot /\ entries[b].dir /\ entries[b] \in Entry /\ b[1] = Root /\ x[1] = Root
      BY <1>1, <2>2 DEF Folder, Directory
    <3>2. entries[b] # Nil
      BY <3>1, EntryFacts
    <3> QED
      BY <1>1, <2>2, <3>1, <3>2 DEF Names, Alone, Parent
  <2>3. ASSUME NEW d \in resolve_parent(p), NEW a
        PROVE  a \in {slot_of(t) : t \in slots(d)} <=> a \in Slot /\ IsAt(entries, own, p, a)
    <3>1. PICK b : Folder(entries, b) /\ entries[b].name = p[1] /\ d = entries[b].first
      BY <2>1
    <3>2. a \in {slot_of(t) : t \in slots(d)} <=> a \in Slot /\ a[1] # Root /\ own[a[1]] = b
      BY <3>1, SlotsOf
    <3> QED
      BY <1>3, <2>2, <3>1, <3>2 DEF IsAt
  <2>4. ASSUME NEW a \in Slot, IsAt(entries, own, p, a) PROVE resolve_parent(p) # {}
    BY <1>3, <2>1, <2>4 DEF IsAt
  <2> QED
    BY <1>3, <2>1, <2>3, <2>4
<1> QED
  BY <1>2, <1>3

\* The slots of the same directory are at the same place.
LEMMA SamePlace ==
  ASSUME NEW E \in Directory, NEW own, Foldered(E, own), NEW p, NEW a \in Slot, IsAt(E, own, p, a),
         NEW b \in Slot, Parent(own, b) = Parent(own, a), E[b] # Nil
  PROVE  IsAt(E, own, p, b)
BY NobodyFacts DEF Foldered, Folder, Parent, IsAt

-----------------------------------------------------------------------------
\* The start of a call, and the induction.

\* The free slot, the entry to be rewritten, or the directory to be extended.
LEMMA StartSound ==
  ASSUME TInv, NEW own, NEW pos, Sound(own, pos), op.at = "idle",
         NEW p \in Files \cup Dirs, NEW start \in Call, start.path = p,
         start.at \in {"take", "make"}, start.dir <=> start.at = "make",
         start.i = 0, start.prev = 0, start.cur = 0, start.first = 0,
         NEW d \in resolve_parent(p), NEW existing, existing => start.at = "take",
         find_or_create_dirent(d, start, existing),
         UNCHANGED <<fat, data, root, lossy>>,
         \A q \in Files : stored'[q] \in {stored[q], Unknown},
         start.at = "take" => stored'[p] = Unknown
  PROVE  Sound(own, pos)'
<1>1. /\ FatTyped /\ entries \in Directory /\ Chained(fat, entries, Hand, own, pos)
      /\ Foldered(entries, own) /\ Names(entries, own) /\ Kept(entries, own, pos, data, stored)
      /\ NotLost(own) /\ \A a \in Slot : entries[a] = entry(a)
  BY EntriesTyped DEF TInv, Sound
<1>2. entries' = entries
  BY <1>1, EntriesSame
<1>3. Hand = {} /\ 0 \notin Cluster /\ leaf(p) # "" /\ Nil.name = "" /\ Nil.first = 0
  BY LeafFacts, ValueFacts DEF Hand, Writing, Free, Nil
<1>4. \A a : a \in find_in_dir(d, leaf(p)) <=> a \in Slot /\ IsAt(entries, own, p, a) /\ entries[a].name = leaf(p)
  BY <1>1, ParentSlots DEF find_in_dir
<1>5. Kept(entries', own, pos, data', stored')
  BY <1>1, <1>2 DEF Kept
<1>6. ASSUME op'.at \in {"take", "make", "extend"}, op'.first = 0, Stage(own, pos)' PROVE Sound(own, pos)'
  <2>1. Hand' \cap Cluster = {}
    BY <1>3, <1>6 DEF Hand, Writing
  <2>2. Chained(fat', entries', Hand', own, pos)
    <3>1. PICK h : h = Hand'
      OBVIOUS
    <3>2. Chained(fat, entries, {}, own, pos)
      BY <1>1, <1>3
    <3>3. Chained(fat, entries, h, own, pos)
      BY <3>2, HandKeeps
    <3> QED
      BY <1>2, <3>1, <3>3
  <2>3. NotLost(own)'
    BY <1>1 DEF NotLost
  <2> QED
    BY <1>1, <1>2, <1>5, <1>6, <2>2, <2>3 DEF Sound
<1>7. ASSUME NEW a \in Slot, op' = [start EXCEPT !.slot = a, !.cur = entry(a).first],
             Placed(entries, own, p, a), start.at = "make" => entries[a] = Nil
      PROVE  Sound(own, pos)'
  <2>1. /\ op'.at = start.at /\ op'.path = p /\ op'.dir = start.dir /\ op'.slot = a /\ op'.prev = 0
        /\ op'.i = 0 /\ op'.cur = entries[a].first /\ op'.first = 0
    BY <1>1, <1>7 DEF Call
  <2>2. Filled(own, pos)' /\ Taking(own, pos)'
    <3>1. Filled(own, pos)'
      <4>1. \A k \in 1 .. op'.i : FALSE
        BY <2>1
      <4>2. op'.first \notin Cluster
        BY <1>3, <2>1
      <4> QED
        BY <4>1, <4>2 DEF Filled, Holds
    <3>2. Taking(own, pos)'
      BY <1>2, <2>1 DEF Taking
    <3> QED
      BY <3>1, <3>2
  <2>3. Stage(own, pos)'
    BY <1>2, <1>7, <2>1, <2>2 DEF Stage, Extending, Making, Writing
  <2> QED
    BY <1>6, <2>1, <2>3
<1>8. CASE \E a \in find_in_dir(d, leaf(p)) :
             existing /\ ~entry(a).dir /\ op' = [start EXCEPT !.slot = a, !.cur = entry(a).first]
  <2>1. PICK a \in Slot : /\ IsAt(entries, own, p, a) /\ entries[a].name = leaf(p) /\ existing /\ ~entries[a].dir
                          /\ op' = [start EXCEPT !.slot = a, !.cur = entry(a).first]
    BY <1>1, <1>4, <1>8
  <2>2. Placed(entries, own, p, a)
    BY <1>1, <1>3, <2>1 DEF Placed, Names
  <2> QED
    BY <1>7, <2>1, <2>2
<1>9. ASSUME find_in_dir(d, leaf(p)) = {}, NEW a \in Slot, IsAt(entries, own, p, a),
             NEW b \in Slot, Parent(own, b) = Parent(own, a)
      PROVE  entries[b].name # leaf(p)
  BY <1>1, <1>3, <1>4, <1>9, SamePlace
<1>10. CASE find_in_dir(d, leaf(p)) = {} /\ \E a \in free_slot(d) : op' = [start EXCEPT !.slot = a]
  <2>1. PICK a \in free_slot(d) : op' = [start EXCEPT !.slot = a]
    BY <1>10
  <2>2. a \in {slot_of(t) : t \in slots(d)} /\ entry(a) = Nil
    BY DEF free_slot
  <2>3. a \in Slot /\ IsAt(entries, own, p, a) /\ entries[a] = Nil
    BY <1>1, <2>2, ParentSlots
  <2>4. Placed(entries, own, p, a)
    BY <1>9, <1>10, <2>3 DEF Placed, Alone
  <2>5. op' = [start EXCEPT !.slot = a, !.cur = entry(a).first]
    BY <1>3, <2>1, <2>2 DEF Call
  <2> QED
    BY <1>7, <2>3, <2>4, <2>5
<1>11. CASE /\ find_in_dir(d, leaf(p)) = {} /\ d # Root
            /\ op' = [start EXCEPT !.at = "extend", !.prev = extent(d)[Len(extent(d))]]
  <2>1. PICK b : Folder(entries, b) /\ d = entries[b].first /\ entries[b].name = p[1] /\ Len(p) # 1
    BY <1>11, ParentSlots
  <2>2. b \in Slot /\ d \in Cluster
    <3>1. b \in Slot /\ entries[b].dir /\ entries[b] \in Entry
      BY <1>1, <2>1 DEF Folder, Directory
    <3> QED
      BY <2>1, <3>1, EntryFacts
  <2>3. PICK s, n : s = chain(d) /\ n = Len(s)
    OBVIOUS
  <2>4. n \in 1 .. n /\ extent(d)[Len(extent(d))] = s[n]
    BY <1>1, <1>11, <2>2, <2>3, ChainFacts DEF extent
  <2>5. s[n] \in Cluster /\ own[s[n]] = b /\ fat[s[n]] = EOC
    BY <1>1, <2>1, <2>2, <2>3, <2>4, ChainOwned, ChainEnded
  <2>6. /\ op'.at = "extend" /\ op'.path = p /\ op'.dir = start.dir /\ op'.prev = s[n]
        /\ op'.i = 0 /\ op'.cur = 0 /\ op'.first = 0
    BY <1>11, <2>4 DEF Call
  <2>7. Absent(entries, own, b, leaf(p))
    <3>1. \A a \in Slot : a[1] # Root /\ own[a[1]] = b => IsAt(entries, own, p, a)
      BY <2>1 DEF IsAt
    <3> QED
      BY <1>4, <1>11, <3>1 DEF Absent
  <2>8. Growing(own)'
    BY <1>2, <2>1, <2>5, <2>6, <2>7 DEF Growing
  <2>9. Stage(own, pos)'
    BY <2>6, <2>8 DEF Stage, Extending, Making, Writing
  <2> QED
    BY <1>6, <2>6, <2>9
<1> QED
  BY <1>8, <1>10, <1>11 DEF find_or_create_dirent

LEMMA WriteFileSound ==
  ASSUME TInv, NEW own, NEW pos, Sound(own, pos),
         NEW p \in Files, NEW v \in Values[p], NEW n \in Sizes, fat16_write_file(p, v, n)
  PROVE  Sound(own, pos)'
<1>1. PICK start : start = [NoCall EXCEPT !.at = "take", !.path = p, !.v = v, !.size = n]
  OBVIOUS
<1>2. /\ start \in Call /\ start.path = p /\ start.at = "take" /\ start.dir = FALSE
      /\ start.i = 0 /\ start.prev = 0 /\ start.cur = 0 /\ start.first = 0
  <2>1. p \in Path /\ v \in Text /\ n \in Length /\ "take" \in Stages
    BY DEF Path, Text, Written, Length, Stages
  <2>2. NoCall.i = 0 /\ NoCall.first = 0 /\ NoCall.dir = FALSE /\ NoCall.prev = 0 /\ NoCall.cur = 0
    BY DEF NoCall
  <2> QED
    BY <1>1, <2>1, <2>2, NoCallTyped DEF Call
<1>3. PICK d \in resolve_parent(p) : find_or_create_dirent(d, start, TRUE)
  BY <1>1 DEF fat16_write_file
<1>4. UNCHANGED <<fat, data, root, lossy>> /\ op.at = "idle" /\ p \in Files \cup Dirs
  BY DEF fat16_write_file
<1>5. stored'[p] = Unknown /\ \A q \in Files : stored'[q] \in {stored[q], Unknown}
  BY DEF fat16_write_file, TInv, OthersTyped, StoredTyped
<1> QED
  BY <1>2, <1>3, <1>4, <1>5, StartSound

LEMMA MkdirSound ==
  ASSUME TInv, NEW own, NEW pos, Sound(own, pos), NEW p \in Dirs, fat16_mkdir(p)
  PROVE  Sound(own, pos)'
<1>1. PICK start : start = [NoCall EXCEPT !.at = "make", !.path = p, !.dir = TRUE]
  OBVIOUS
<1>2. /\ start \in Call /\ start.path = p /\ start.at = "make" /\ start.dir = TRUE
      /\ start.i = 0 /\ start.prev = 0 /\ start.cur = 0 /\ start.first = 0
  <2>1. p \in Path /\ "make" \in Stages
    BY DEF Path, Stages
  <2>2. NoCall.i = 0 /\ NoCall.first = 0 /\ NoCall.prev = 0 /\ NoCall.cur = 0
    BY DEF NoCall
  <2> QED
    BY <1>1, <2>1, <2>2, NoCallTyped DEF Call
<1>3. PICK d \in resolve_parent(p) : find_or_create_dirent(d, start, FALSE)
  BY <1>1 DEF fat16_mkdir
<1>4. UNCHANGED <<fat, data, root, lossy, stored>> /\ op.at = "idle" /\ p \in Files \cup Dirs
  BY DEF fat16_mkdir
<1> QED
  BY <1>2, <1>3, <1>4, StartSound

LEMMA NextNotBeyond == TInv /\ NotBeyond /\ [NextVolume]_volumeVars => NotBeyond'
<1> SUFFICES ASSUME TInv, NotBeyond, [NextVolume]_volumeVars, NEW c \in Cluster, c \notin OnDisk
             PROVE  data'[c].block = Zero
  BY DEF NotBeyond
<1>1. data[c].block = Zero /\ DataTyped /\ op.slot \in Slot
  BY DEF NotBeyond, TInv, Call
<1>2. CASE data' = data
  BY <1>1, <1>2
<1>3. CASE zero_directory
  BY <1>1, <1>3 DEF zero_directory, DataTyped
<1>4. CASE write_data
  BY <1>1, <1>4 DEF write_data, DataTyped
<1>5. ASSUME NEW e, set_entry(op.slot, e) PROVE data'[c].block = Zero
  <2>1. CASE op.slot[1] = Root
    BY <1>1, <1>5, <2>1 DEF set_entry
  <2>2. CASE op.slot[1] # Root
    <3>1. op.slot[1] \in Cluster
      BY <1>1, <2>2 DEF Slot
    <3>2. data' = [data EXCEPT ![op.slot[1]].slots[op.slot[2]] = e]
      BY <1>5, <2>2 DEF set_entry
    <3>3. data'[c].block = data[c].block
      BY <1>1, <3>1, <3>2 DEF DataTyped
    <3> QED
      BY <1>1, <3>3
  <2> QED
    BY <2>1, <2>2
<1>6. CASE write_entry
  BY <1>2, <1>5, <1>6 DEF write_entry
<1> QED
  BY <1>2, <1>3, <1>4, <1>6 DEF NextVolume, volumeVars, fat16_write_file, fat16_mkdir, alloc_directory,
     attach_directory, take_cluster, link_cluster, end_chain, free_left, crash

LEMMA NextSound == VInv /\ MaxErrors = 0 /\ [NextVolume]_volumeVars => VInv'
<1> SUFFICES ASSUME VInv, MaxErrors = 0, [NextVolume]_volumeVars PROVE VInv'
  OBVIOUS
<1>1. TInv /\ TInv' /\ NotBeyond'
  BY NextTInv, NextNotBeyond DEF VInv
<1>2. PICK own, pos : Sound(own, pos)
  BY DEF VInv
<1>3. CASE \E p \in Files : \E v \in Values[p], n \in Sizes : fat16_write_file(p, v, n)
  BY <1>1, <1>2, <1>3, WriteFileSound DEF VInv
<1>4. CASE \E p \in Dirs : fat16_mkdir(p)
  BY <1>1, <1>2, <1>4, MkdirSound DEF VInv
<1>5. CASE crash
  BY <1>1, <1>2, <1>5, FailSound DEF crash, VInv
<1>6. CASE UNCHANGED volumeVars
  <2>1. entries' = entries
    BY <1>6 DEF volumeVars, entries, entry
  <2>2. Sound(own, pos)'
    BY <1>2, <1>6, <2>1 DEF volumeVars, Sound, Hand, Writing, NotLost, Stage, Extending, Making, Growing,
       Filled, Mine, Taking, Follows, Linking, Freeing
  <2> QED
    BY <1>1, <2>2 DEF VInv
<1>7. CASE alloc_directory \/ zero_directory \/ attach_directory
  BY <1>1, <1>2, <1>7, AllocDirectorySound, ZeroDirectorySound, AttachSound DEF VInv
<1>8. CASE take_cluster \/ link_cluster \/ write_data
  BY <1>1, <1>2, <1>8, TakeSound, LinkSound, WriteDataSound DEF VInv
<1>9. CASE end_chain \/ free_left \/ write_entry
  BY <1>1, <1>2, <1>9, EndChainSound, FreeLeftSound, WriteEntrySound DEF VInv
<1> QED
  BY <1>3, <1>4, <1>5, <1>6, <1>7, <1>8, <1>9 DEF NextVolume

-----------------------------------------------------------------------------
\* What the invariant says of the files.

\* A walk from the root finds every entry.
LEMMA ListedAll ==
  ASSUME TInv, NEW own, NEW pos, Sound(own, pos), NEW a
  PROVE  a \in Listed <=> a \in Slot /\ entries[a] # Nil
<1>1. /\ Foldered(entries, own) /\ entries \in Directory /\ \A x \in Slot : entries[x] = entry(x)
  BY EntriesTyped DEF Sound
<1> DEFINE used(d) == {x \in {slot_of(t) : t \in slots(d)} : entry(x) # Nil}
<1>2. Listed = used(Root) \cup UNION {used(entry(x).first) : x \in {b \in used(Root) : entry(b).dir}}
  BY DEF Listed
<1>3. \A x : x \in used(Root) <=> x \in Slot /\ x[1] = Root /\ entries[x] # Nil
  BY <1>1, SlotsOf
<1>4. \A b, x : Folder(entries, b) => (x \in used(entries[b].first) <=>
                                         x \in Slot /\ x[1] # Root /\ own[x[1]] = b /\ entries[x] # Nil)
  BY <1>1, SlotsOf
<1> HIDE DEF used
<1>5. \A b : Folder(entries, b) <=> b \in used(Root) /\ entry(b).dir
  <2>1. \A b \in Slot : entries[b].dir => entries[b] # Nil
    BY <1>1, EntryFacts DEF Directory
  <2> QED
    BY <1>1, <1>3, <2>1 DEF Folder
<1>6. ASSUME a \in Listed PROVE a \in Slot /\ entries[a] # Nil
  <2>1. CASE a \in used(Root)
    BY <1>3, <2>1
  <2>2. CASE \E b : b \in used(Root) /\ entry(b).dir /\ a \in used(entry(b).first)
    <3>1. PICK b : Folder(entries, b) /\ a \in used(entries[b].first)
      BY <1>1, <1>3, <1>5, <2>2
    <3> QED
      BY <1>4, <3>1
  <2> QED
    BY <1>2, <1>6, <2>1, <2>2
<1>7. ASSUME a \in Slot, entries[a] # Nil PROVE a \in Listed
  <2>1. CASE a[1] = Root
    BY <1>2, <1>3, <1>7, <2>1
  <2>2. CASE a[1] # Root
    <3>1. PICK b : b = own[a[1]] /\ Folder(entries, b)
      BY <1>1, <1>7, <2>2 DEF Foldered
    <3>2. a \in used(entry(b).first) /\ b \in used(Root) /\ entry(b).dir
      BY <1>1, <1>4, <1>5, <1>7, <2>2, <3>1 DEF Folder
    <3> QED
      BY <1>2, <3>2
  <2> QED
    BY <2>1, <2>2
<1> QED
  BY <1>6, <1>7

LEMMA ListedChain ==
  ASSUME TInv, NEW own, NEW pos, Sound(own, pos), NEW a \in Listed
  PROVE  /\ a \in Slot /\ entries[a] = entry(a) /\ entries[a].first \in Cluster
         /\ FatTyped /\ Chained(fat, entries, Hand, own, pos)
         /\ DOMAIN chain(entries[a].first) = 1 .. Len(chain(entries[a].first))
         /\ Len(chain(entries[a].first)) \in Nat \ {0}
<1>1. FatTyped /\ Chained(fat, entries, Hand, own, pos) /\ entries \in Directory
  BY EntriesTyped DEF TInv, Sound
<1>2. a \in Slot /\ entries[a] # Nil
  BY ListedAll
<1>3. entries[a] = entry(a) /\ entries[a].first \in Cluster
  BY <1>1, <1>2, EntriesTyped, EntryFacts DEF Directory
<1>4. PICK f : f = entries[a].first
  OBVIOUS
<1>5. DOMAIN chain(f) = 1 .. Len(chain(f)) /\ Len(chain(f)) \in 1 .. Clusters
  BY <1>1, <1>3, <1>4, ChainFacts
<1>6. Len(chain(f)) \in Nat \ {0}
  BY <1>5, ValueFacts
<1> QED
  BY <1>1, <1>2, <1>3, <1>4, <1>5, <1>6

LEMMA SoundEnds == VInv => ChainsEnd
<1> SUFFICES ASSUME VInv, NEW a \in Listed
             PROVE  LET s == chain(entry(a).first) IN s # <<>> /\ fat[s[Len(s)]] = EOC
  BY DEF ChainsEnd
<1>1. PICK own, pos : TInv /\ Sound(own, pos)
  BY DEF VInv
<1>2. /\ a \in Slot /\ entries[a] = entry(a) /\ entries[a].first \in Cluster
      /\ FatTyped /\ Chained(fat, entries, Hand, own, pos)
      /\ Len(chain(entries[a].first)) \in Nat \ {0}
  BY <1>1, ListedChain
<1>3. fat[chain(entries[a].first)[Len(chain(entries[a].first))]] = EOC
  BY <1>2, ChainEnded
<1>4. chain(entries[a].first) # <<>>
  BY <1>2
<1> QED
  BY <1>2, <1>3, <1>4

LEMMA SoundShares == VInv => NoSharedCluster
<1>1. SUFFICES ASSUME VInv,
                      NEW a \in Listed, NEW b \in Listed,
                      NEW i \in DOMAIN chain(entry(a).first), NEW j \in DOMAIN chain(entry(b).first),
                      chain(entry(a).first)[i] = chain(entry(b).first)[j]
               PROVE  a = b /\ i = j
  <2> SUFFICES ASSUME VInv PROVE NoSharedCluster
    OBVIOUS
  <2>1. PICK ch : ch = [a \in Listed |-> chain(entry(a).first)]
    OBVIOUS
  <2>2. {<<a, chain(entry(a).first)>> : a \in Listed} = {<<a, ch[a]>> : a \in Listed}
    BY <2>1
  <2>3. \A a, b \in Listed : \A i \in DOMAIN ch[a], j \in DOMAIN ch[b] :
          ch[a][i] = ch[b][j] => a = b /\ i = j
    BY <1>1, <2>1
  <2> QED
    BY <2>2, <2>3 DEF NoSharedCluster
<1>2. PICK own, pos : TInv /\ Sound(own, pos)
  BY <1>1 DEF VInv
<1>3. \A x \in Listed :
        /\ x \in Slot /\ entries[x] = entry(x) /\ entries[x].first \in Cluster
        /\ FatTyped /\ Chained(fat, entries, Hand, own, pos)
        /\ DOMAIN chain(entries[x].first) = 1 .. Len(chain(entries[x].first))
  BY <1>2, ListedChain
<1>4. own[chain(entries[a].first)[i]] = a /\ pos[chain(entries[a].first)[i]] = i
  BY <1>3, ChainOwned
<1>5. own[chain(entries[b].first)[j]] = b /\ pos[chain(entries[b].first)[j]] = j
  BY <1>3, ChainOwned
<1> QED
  BY <1>1, <1>3, <1>4, <1>5

LEMMA SoundLeaks == VInv => NoLeak
<1> SUFFICES ASSUME VInv, op.at = "idle", ~lossy
             PROVE  {c \in Cluster : fat[c] # Free}
                      = UNION {{chain(entry(a).first)[i] : i \in DOMAIN chain(entry(a).first)} : a \in Listed}
  BY DEF NoLeak
<1>1. PICK own, pos : TInv /\ Sound(own, pos)
  BY DEF VInv
<1>2. FatTyped /\ Chained(fat, entries, Hand, own, pos) /\ NotLost(own) /\ entries \in Directory
  BY <1>1, EntriesTyped DEF TInv, Sound
<1>3. Hand = {}
  BY DEF Hand, Writing
<1>4. ASSUME NEW c \in Cluster, fat[c] # Free
      PROVE  \E a \in Listed : \E i \in DOMAIN chain(entry(a).first) : c = chain(entry(a).first)[i]
  <2>1. own[c] \in Slot
    BY <1>2, <1>4 DEF NotLost, Chained, OwnersTyped
  <2>2. PICK a : a = own[c]
    OBVIOUS
  <2>3. entries[a].first \in Cluster /\ pos[c] \in 1 .. Len(chain(entries[a].first))
        /\ chain(entries[a].first)[pos[c]] = c
    BY <1>2, <1>3, <2>1, <2>2, ChainWhole
  <2>4. a \in Listed
    BY <1>1, <2>1, <2>2, <2>3, ListedAll, NilTyped
  <2> QED
    BY <1>1, <2>3, <2>4, ListedChain
<1>5. ASSUME NEW a \in Listed, NEW i \in DOMAIN chain(entry(a).first)
      PROVE  chain(entry(a).first)[i] \in Cluster /\ fat[chain(entry(a).first)[i]] # Free
  <2>1. /\ a \in Slot /\ entries[a] = entry(a) /\ entries[a].first \in Cluster
        /\ DOMAIN chain(entries[a].first) = 1 .. Len(chain(entries[a].first))
    BY <1>1, ListedChain
  <2>2. chain(entries[a].first)[i] \in Cluster /\ own[chain(entries[a].first)[i]] = a
    BY <1>2, <2>1, ChainOwned
  <2> QED
    BY <1>2, <2>1, <2>2, NobodyFacts DEF Chained, Rooted
<1> DEFINE held(a) == {chain(entry(a).first)[i] : i \in DOMAIN chain(entry(a).first)}
<1>6. \A a, c : c \in held(a) <=> \E i \in DOMAIN chain(entry(a).first) : c = chain(entry(a).first)[i]
  OBVIOUS
<1>7. \A c \in Cluster : fat[c] # Free => \E a \in Listed : c \in held(a)
  BY <1>4, <1>6
<1>8. \A a \in Listed : \A c \in held(a) : c \in Cluster /\ fat[c] # Free
  BY <1>5, <1>6
<1> HIDE DEF held
<1>9. {c \in Cluster : fat[c] # Free} = UNION {held(a) : a \in Listed}
  BY <1>7, <1>8
<1> QED
  BY <1>9 DEF held

\* The paths of files find the entry that what was stored is under, and no other.
LEMMA Resolved ==
  ASSUME TInv, NEW own, NEW pos, Sound(own, pos), NEW p \in Files, NEW a \in Slot,
         IsAt(entries, own, p, a), entries[a].name = leaf(p)
  PROVE  resolve_path(p) = {a}
<1>1. /\ entries \in Directory /\ Foldered(entries, own) /\ Names(entries, own)
      /\ \A x \in Slot : entries[x] = entry(x)
  BY EntriesTyped DEF Sound
<1>2. p \in Files \cup Dirs /\ leaf(p) # "" /\ Nil.name = ""
  BY LeafFacts DEF Nil
<1>3. \A b \in Slot : IsAt(entries, own, p, b) /\ entries[b].name = leaf(p) => b = a
  <2> SUFFICES ASSUME NEW b \in Slot, IsAt(entries, own, p, b), entries[b].name = leaf(p) PROVE b = a
    OBVIOUS
  <2>1. Parent(own, b) = Parent(own, a)
    <3>1. CASE Len(p) = 1
      BY <3>1 DEF IsAt, Parent
    <3>2. CASE Len(p) # 1
      <4>1. PICK x, y : x = own[a[1]] /\ y = own[b[1]]
        OBVIOUS
      <4>2. /\ Folder(entries, x) /\ Folder(entries, y) /\ entries[x].name = entries[y].name
            /\ a[1] # Root /\ b[1] # Root
        BY <3>2, <4>1 DEF IsAt
      <4>3. entries[x] # Nil /\ x \in Slot /\ y \in Slot /\ Parent(own, x) = Parent(own, y)
        BY <1>1, <4>2, NilTyped DEF Folder, Parent
      <4>4. x = y
        BY <1>1, <4>2, <4>3 DEF Names, Alone
      <4> QED
        BY <4>1, <4>2, <4>4 DEF Parent
    <3> QED
      BY <3>1, <3>2
  <2> QED
    BY <1>1, <1>2, <2>1 DEF Names, Alone
<1>4. \A d \in resolve_parent(p) : \A b : b \in find_in_dir(d, leaf(p)) <=> b = a
  <2>1. \A d \in resolve_parent(p) : \A b :
          b \in {slot_of(t) : t \in slots(d)} <=> b \in Slot /\ IsAt(entries, own, p, b)
    BY <1>2, ParentSlots
  <2> QED
    BY <1>1, <1>3, <2>1 DEF find_in_dir
<1>5. resolve_parent(p) # {}
  BY <1>2, ParentSlots
<1>6. \A d \in resolve_parent(p) : find_in_dir(d, leaf(p)) = {a}
  BY <1>4
<1> QED
  BY <1>5, <1>6 DEF resolve_path

LEMMA SoundReads == VInv => ReadBack
<1> SUFFICES ASSUME VInv, NEW p \in Files, stored[p] # Unknown
             PROVE  fat16_read_file(p) = {[i \in 1 .. stored[p].size |-> [v |-> stored[p].v, i |-> i]]}
  BY DEF ReadBack
<1>1. PICK own, pos : TInv /\ Sound(own, pos)
  BY DEF VInv
<1>2. /\ FatTyped /\ Chained(fat, entries, Hand, own, pos) /\ entries \in Directory
      /\ Kept(entries, own, pos, data, stored) /\ \A x \in Slot : entries[x] = entry(x)
  BY <1>1, EntriesTyped DEF TInv, Sound
<1>3. PICK a \in Slot : /\ IsAt(entries, own, p, a) /\ entries[a].name = leaf(p) /\ ~entries[a].dir
                        /\ entries[a].size = stored[p].size
                        /\ Holds(own, pos, data, a, stored[p].size, stored[p].v, stored[p].size)
  BY <1>2 DEF Kept
<1>4. PICK n, v, s : n = stored[p].size /\ v = stored[p].v /\ s = chain(entries[a].first)
  OBVIOUS
<1>5. p \in Files \cup Dirs /\ leaf(p) # "" /\ Nil.name = "" /\ n \in Nat
  <2>1. stored[p].size \in Sizes
    BY DEF VInv, TInv, OthersTyped, StoredTyped, Unknown
  <2> QED
    BY <1>4, <2>1, SizesNat, LeafFacts DEF Nil
<1>6. \A c \in Cluster \cap Hand : own[c] # a
  <2> SUFFICES ASSUME NEW c \in Cluster, c \in Hand, own[c] = a PROVE FALSE
    OBVIOUS
  <2>1. Writing /\ a = op.slot
    BY <1>1, HandIsCurrent
  <2>2. /\ Placed(entries, own, op.path, a) /\ stored[op.path] = Unknown /\ op.path \in Files \cup Dirs
    BY <1>1, <2>1 DEF Sound, Stage, Writing, Extending, TInv, StageTyped
  <2>3. IsAt(entries, own, op.path, a) /\ leaf(op.path) = leaf(p)
    BY <1>3, <1>5, <2>2 DEF Placed
  <2>4. op.path = p
    <3>1. PICK q : q = op.path
      OBVIOUS
    <3> QED
      BY <1>2, <1>3, <1>5, <2>2, <2>3, <3>1, PathOfSlot
  <2> QED
    BY <2>2, <2>4
<1>7. ASSUME NEW k \in 1 .. n
      PROVE  k \in DOMAIN s /\ data[s[k]].block = [v |-> v, i |-> k]
  <2>1. PICK c \in Cluster : own[c] = a /\ pos[c] = k /\ data[c].block = [v |-> v, i |-> k]
    <3>1. Holds(own, pos, data, a, n, v, n)
      BY <1>3, <1>4
    <3>2. k <= n
      <4>1. n \in Nat /\ k \in 1 .. n
        BY <1>5, <1>7
      <4> QED
        BY <4>1
    <3>3. PICK c \in Cluster : /\ own[c] = a /\ pos[c] = k
                               /\ data[c].block = (IF k <= n THEN [v |-> v, i |-> k] ELSE Zero)
      BY <1>7, <3>1 DEF Holds
    <3> QED
      BY <3>2, <3>3
  <2>2. entries[a].first \in Cluster /\ pos[c] \in 1 .. Len(s) /\ s[pos[c]] = c
    BY <1>2, <1>4, <1>6, <2>1, ChainWhole
  <2>3. DOMAIN s = 1 .. Len(s)
    BY <1>2, <1>4, <2>2, ChainFacts
  <2> QED
    BY <2>1, <2>2, <2>3
<1>8. [i \in 1 .. n |-> IF i \in DOMAIN s THEN data[s[i]].block ELSE [v |-> "unset", i |-> i]]
        = [i \in 1 .. n |-> [v |-> v, i |-> i]]
  BY <1>7
<1>9. {b \in resolve_path(p) : ~entry(b).dir /\ readable(entry(b))} = {a}
  <2>1. entry(a).size = n /\ chain(entry(a).first) = s /\ ~entry(a).dir
    BY <1>2, <1>3, <1>4
  <2>2. \A k \in 1 .. n : k \in DOMAIN s => s[k] \in OnDisk
    <3> SUFFICES ASSUME NEW k \in 1 .. n, s[k] \notin OnDisk, k \in DOMAIN s PROVE FALSE
      OBVIOUS
    <3>1. s[k] \in Cluster
      BY <1>4 DEF chain
    <3>2. Zero = [v |-> v, i |-> k]
      BY <1>7, <3>1 DEF VInv, NotBeyond
    <3>3. k # 0
      <4>1. n \in Nat /\ k \in 1 .. n
        BY <1>5
      <4> QED
        BY ONLY <4>1
    <3> QED
      BY <3>2, <3>3 DEF Zero
  <2>3. readable(entry(a))
    BY <2>1, <2>2 DEF readable
  <2> QED
    BY <1>1, <1>2, <1>3, <2>1, <2>3, Resolved
<1>10. fat16_read_file(p) =
         {[i \in 1 .. entry(a).size |-> IF i \in DOMAIN chain(entry(a).first)
                                        THEN data[chain(entry(a).first)[i]].block
                                        ELSE [v |-> "unset", i |-> i]]}
  BY <1>9 DEF fat16_read_file
<1> QED
  BY <1>2, <1>3, <1>4, <1>8, <1>10

-----------------------------------------------------------------------------
\* The theorems.

\* After each sector every cluster in use has one owner and one place in its
\* chain, every name one slot, and every call what its next step relies on
\* (fat16.c:192-257, 535-640, 689-790).
THEOREM VolumeInvariance == ASSUME MaxErrors = 0 PROVE SpecVolume => []VInv
<1>1. InitVolume => VInv
  BY InitSound
<1>2. VInv /\ [NextVolume]_volumeVars => VInv'
  BY NextSound
<1> QED
  BY <1>1, <1>2, PTL DEF SpecVolume

\* Whatever walks a chain comes to its end: fat_alloc_cluster() ends a cluster
\* before it is linked and write_cluster_chain() ends what it keeps before it
\* frees what is left (fat16.c:155-181, 241-249), so no power loss between two
\* sectors leaves a chain that runs into a free cluster or in a circle.
THEOREM ChainsStayEnded == ASSUME MaxErrors = 0 PROVE SpecVolume => []ChainsEnd
BY VolumeInvariance, SoundEnds, PTL

\* No cluster is in two chains or twice in one, for any volume, any calls and
\* any power loss (fat16.c:149-181, 207-249).
THEOREM NothingIsShared == ASSUME MaxErrors = 0 PROVE SpecVolume => []NoSharedCluster
BY VolumeInvariance, SoundShares, PTL

\* Until a call fails or is cut off, what no file or directory holds is free
\* (fat16.c:244-249, 762-790: the rest of a chain, and a new directory's cluster).
THEOREM NothingLeaks == ASSUME MaxErrors = 0 PROVE SpecVolume => []NoLeak
BY VolumeInvariance, SoundLeaks, PTL

\* What fat16_write_file() returned 0 for is what fat16_read_file() returns,
\* until the file is written again, whatever else is written, refused or cut
\* off (fat16.c:689-737, 838-887).
THEOREM WritesReadBack == ASSUME MaxErrors = 0 PROVE SpecVolume => []ReadBack
BY VolumeInvariance, SoundReads, PTL
=============================================================================
