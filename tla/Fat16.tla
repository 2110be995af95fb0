-------------------------------- MODULE Fat16 --------------------------------
(***************************************************************************)
(* The file system (kernel/fs/fat16.c): SYS_FILE_WRITE and SYS_MKDIR taken *)
(* apart at the sectors they write, on a volume that may fill up, lose its *)
(* power between two writes, or fail a request.                            *)
(*                                                                         *)
(* The calls run with IRQs masked, one at a time; what they read before    *)
(* their first write is one step that does not fail, and from there on at  *)
(* most one request of a step does.  A write of a sector, and of a         *)
(* cluster, is atomic.  The second copy of the FAT is never read and is    *)
(* left out.  Sizes count clusters.                                        *)
(*                                                                         *)
(* The driver never reads how many clusters the volume has: a cluster is   *)
(* free when its FAT entry says so, and a FAT of whole sectors has entries *)
(* behind the last one.  Those are handed out like any other; their        *)
(* sectors cannot be read or written where the disk ends before them.      *)
(***************************************************************************)
EXTENDS Naturals, Sequences, FiniteSets

CONSTANTS
  Clusters,    \* clusters the FAT has an entry for: the driver knows no other number
  Held,        \* how many of those the disk has the sectors of
  RootSlots,   \* entries of the root directory
  DirSlots,    \* entries in a cluster of any other directory
  Files,       \* paths written: a name, or a directory's name and a name
  Dirs,        \* paths given to mkdir
  Values,      \* what may be written to each of them
  Sizes,       \* and how many clusters of it
  Crashes,     \* whether the power may fail
  MaxErrors    \* bound: requests that fail

ASSUME Fat16Assumption ==
  /\ Clusters \in Nat \ {0} /\ Held \in 0 .. Clusters /\ RootSlots \in Nat \ {0} /\ DirSlots \in Nat \ {0}
  /\ \A p \in Files \cup Dirs : p \in Seq(STRING \ {""}) /\ Len(p) \in {1, 2}
  /\ DOMAIN Values = Files /\ Sizes \subseteq Nat /\ Crashes \in BOOLEAN /\ MaxErrors \in Nat

Cluster == 2 .. Clusters + 1
OnDisk == 2 .. Held + 1
Free == 0
EOC == Clusters + 2      \* any value from FAT16_EOC_MIN on
Root == 0                \* dir_cluster of the root directory

VARIABLES
  fat,      \* the FAT: Free, EOC or the next cluster
  data,     \* what each cluster holds: a block of a file, entries of a directory
  root,     \* the root directory
  op,       \* the call in progress and its local variables
  errors,   \* requests that may still fail
  stored,   \* what the last write of a file was of, if it returned 0
  lossy     \* a call has failed or was cut off

volumeVars == <<fat, data, root, op, errors, stored, lossy>>

Nil == [name |-> "", dir |-> FALSE, first |-> 0, size |-> 0]

Zero == [v |-> "zero", i |-> 0]

Zeroed == [block |-> Zero, slots |-> [s \in 1 .. DirSlots |-> Nil]]

NoCall == [at |-> "idle", path |-> <<>>, slot |-> <<Root, 1>>, dir |-> FALSE, v |-> "zero",
         size |-> 0, i |-> 0, prev |-> 0, cur |-> 0, c |-> 0, first |-> 0]

Unknown == [v |-> "zero", size |-> 0]

-----------------------------------------------------------------------------
\* Reading: chains, directories, files.

\* What following the FAT n times from `first` leads to.
walk(first) ==
  LET w[n \in 0 .. Clusters] ==
        IF n = 0 THEN first ELSE LET c == w[n - 1] IN IF c \in Cluster THEN fat[c] ELSE c
  IN  w

\* The cluster chain from `first`; it is cut where a loop would begin again.
chain(first) ==
  LET w == walk(first)
  IN  [n \in {n \in 1 .. Clusters : w[n - 1] \in Cluster} |-> w[n - 1]]

extent(d) == IF d = Root THEN <<Root>> ELSE chain(d)

entry(a) == IF a[1] = Root THEN root[a[2]] ELSE data[a[1]].slots[a[2]]

\* The slots of a directory, each as its position in the chain, cluster, index.
slots(d) ==
  UNION {{<<k, extent(d)[k], s>> : s \in 1 .. IF d = Root THEN RootSlots ELSE DirSlots}
         : k \in DOMAIN extent(d)}

slot_of(t) == <<t[2], t[3]>>

\* Slots are used in order: the scan's stop at one never used hides nothing.
find_in_dir(d, name) == {a \in {slot_of(t) : t \in slots(d)} : entry(a).name = name}

\* The first slot, used or not.
first_slot(d) == {slot_of(t) : t \in {t \in slots(d) : t[1] = 1 /\ t[3] = 1}}

\* The first slot that was never used.
free_slot(d) ==
  LET free == {t \in slots(d) : entry(slot_of(t)) = Nil}
  IN  {slot_of(t) : t \in {t \in free : \A u \in free :
                             t[1] < u[1] \/ (t[1] = u[1] /\ t[3] <= u[3])}}

leaf(p) == p[Len(p)]

\* The directory a path's last name is in; none if there is no such directory.
resolve_parent(p) ==
  IF Len(p) = 1 THEN {Root}
  ELSE {entry(a).first : a \in {b \in find_in_dir(Root, p[1]) : entry(b).dir}}

resolve_path(p) == UNION {find_in_dir(d, leaf(p)) : d \in resolve_parent(p)}

readable(e) ==
  \A i \in 1 .. e.size : i \in DOMAIN chain(e.first) => chain(e.first)[i] \in OnDisk

\* What fat16_read_file() returns: nothing if it needs a cluster that is not on
\* the disk; a block the chain does not reach is left as kmalloc() gave it.
fat16_read_file(p) ==
  {[i \in 1 .. entry(a).size |->
      IF i \in DOMAIN chain(entry(a).first) THEN data[chain(entry(a).first)[i]].block
      ELSE [v |-> "unset", i |-> i]] : a \in {b \in resolve_path(p) : ~entry(b).dir /\ readable(entry(b))}}

-----------------------------------------------------------------------------
\* Requests to the disk.

fails == errors > 0 /\ errors' = errors - 1

\* A request for a cluster's own sectors, which may lie past the end of the disk.
cluster_fails(c) ==
  \/ c \notin OnDisk /\ UNCHANGED errors
  \/ fails

\* fat_write_next_cluster() does not say whether it could.
fat_write_next_cluster(c, value) ==
  \/ fat' = [fat EXCEPT ![c] = value] /\ UNCHANGED errors
  \/ fails /\ UNCHANGED fat

\* c is the first free entry of the whole FAT.
free_cluster(c) == fat[c] = Free /\ \A b \in Cluster : fat[b] = Free => c <= b

\* A cluster handed out before it is marked.
alloc_unmarked(c) == free_cluster(c) /\ UNCHANGED <<fat, errors>>

fat_alloc_cluster(c) == free_cluster(c) /\ fat_write_next_cluster(c, EOC)

\* What fat_alloc_cluster() returning 0 comes from: a full FAT, or a request that failed.
alloc_fails ==
  \/ (\A c \in Cluster : fat[c] # Free) /\ UNCHANGED errors
  \/ fails

\* The call returns -1.
fail ==
  /\ op' = NoCall
  /\ lossy' = TRUE
  /\ UNCHANGED stored

-----------------------------------------------------------------------------
\* The calls, up to their first write.

\* find_or_create_dirent(): the slot of the entry, or a free one to create it
\* in, or a directory with no room that must be extended first.
find_or_create_dirent(d, next, existing) ==
  \/ \E a \in find_in_dir(d, leaf(next.path)) :
       /\ existing /\ ~entry(a).dir
       /\ op' = [next EXCEPT !.slot = a, !.cur = entry(a).first]
  \/ /\ find_in_dir(d, leaf(next.path)) = {}
     /\ \/ \E a \in free_slot(d) : op' = [next EXCEPT !.slot = a]
        \/ /\ free_slot(d) = {}
           /\ d # Root
           /\ op' = [next EXCEPT !.at = "extend", !.prev = extent(d)[Len(extent(d))]]

fat16_write_file(p, v, n) ==
  /\ op.at = "idle"
  /\ \E d \in resolve_parent(p) :
       find_or_create_dirent(d, [NoCall EXCEPT !.at = "take", !.path = p, !.v = v, !.size = n], TRUE)
  /\ stored' = [stored EXCEPT ![p] = Unknown]
  /\ UNCHANGED <<fat, data, root, errors, lossy>>

\* mkdir of what is there already returns at once, whatever it is.
fat16_mkdir(p) ==
  /\ op.at = "idle"
  /\ \E d \in resolve_parent(p) :
       find_or_create_dirent(d, [NoCall EXCEPT !.at = "make", !.path = p, !.dir = TRUE], FALSE)
  /\ UNCHANGED <<fat, data, root, errors, stored, lossy>>

-----------------------------------------------------------------------------
\* A fresh zeroed cluster, for a directory that is full or a new one.

alloc_directory ==
  /\ op.at \in {"extend", "make"}
  /\ \/ \E c \in Cluster :
          /\ fat_alloc_cluster(c)
          /\ op' = [op EXCEPT !.at = IF @ = "extend" THEN "extend_zero" ELSE "make_zero", !.c = c]
          /\ UNCHANGED <<lossy, stored>>
     \/ alloc_fails /\ fail /\ UNCHANGED fat
  /\ UNCHANGED <<data, root>>

\* The zeros, and the end-of-chain mark once more.
zero_directory ==
  /\ op.at \in {"extend_zero", "make_zero"}
  /\ \/ /\ op.c \in OnDisk
        /\ data' = [data EXCEPT ![op.c] = Zeroed]
        /\ fat_write_next_cluster(op.c, EOC)
        /\ op' = [op EXCEPT !.at = IF @ = "extend_zero" THEN "attach" ELSE "entry", !.first = op.c]
        /\ UNCHANGED <<lossy, stored>>
     \/ cluster_fails(op.c) /\ fail /\ UNCHANGED <<fat, data>>
  /\ UNCHANGED root

\* The directory's last cluster is linked to the fresh one, whose first slot
\* is the call's.
attach_directory ==
  /\ op.at = "attach"
  /\ fat_write_next_cluster(op.prev, op.c)
  /\ op' = [op EXCEPT !.at = IF op.dir THEN "make" ELSE "take", !.slot = <<op.c, 1>>,
                      !.prev = 0, !.first = 0]
  /\ UNCHANGED <<data, root, stored, lossy>>

-----------------------------------------------------------------------------
\* write_cluster_chain().

needed == IF op.size = 0 THEN 1 ELSE op.size

\* Only the first cluster of an old chain is noted.
claimed_unnoted(c, next) ==
  [op EXCEPT !.at = IF op.prev = 0 THEN "data" ELSE "link", !.c = c, !.cur = next,
             !.first = IF @ = 0 /\ op.cur \in Cluster THEN c ELSE @]

claimed(c, next) ==
  [op EXCEPT !.at = IF op.prev = 0 THEN "data" ELSE "link", !.c = c, !.cur = next,
             !.first = IF @ = 0 THEN c ELSE @]

\* A cluster of the old chain, while there is one, or a fresh one.
take_cluster ==
  /\ op.at = "take"
  /\ op.i < needed
  /\ \/ /\ op.cur \in Cluster
        /\ \/ op' = claimed(op.cur, fat[op.cur]) /\ UNCHANGED errors
           \/ op' = claimed(op.cur, EOC) /\ fails
        /\ UNCHANGED <<fat, lossy, stored>>
     \/ /\ op.cur \notin Cluster
        /\ \/ \E c \in Cluster : /\ fat_alloc_cluster(c)
                                 /\ op' = claimed(c, op.cur)
                                 /\ UNCHANGED <<lossy, stored>>
           \/ alloc_fails /\ fail /\ UNCHANGED fat
  /\ UNCHANGED <<data, root>>

link_cluster ==
  /\ op.at = "link"
  /\ fat_write_next_cluster(op.prev, op.c)
  /\ op' = [op EXCEPT !.at = "data"]
  /\ UNCHANGED <<data, root, stored, lossy>>

write_data ==
  /\ op.at = "data"
  /\ \/ /\ op.c \in OnDisk
        /\ data' = [data EXCEPT ![op.c] =
                      [Zeroed EXCEPT !.block = IF op.i < op.size THEN [v |-> op.v, i |-> op.i + 1]
                                               ELSE Zero]]
        /\ op' = [op EXCEPT !.at = "take", !.i = @ + 1, !.prev = op.c]
        /\ UNCHANGED <<errors, lossy, stored>>
     \/ cluster_fails(op.c) /\ fail /\ UNCHANGED data
  /\ UNCHANGED <<fat, root>>

\* The chain left as long as it was.
chain_not_ended ==
  /\ op.at = "take"
  /\ op.i = needed
  /\ op' = [op EXCEPT !.at = "free"]
  /\ UNCHANGED <<fat, data, root, errors, stored, lossy>>

\* The new end of the chain, before anything behind it is freed.
end_chain ==
  /\ op.at = "take"
  /\ op.i = needed
  /\ fat_write_next_cluster(op.prev, EOC)
  /\ op' = [op EXCEPT !.at = "free"]
  /\ UNCHANGED <<data, root, stored, lossy>>

\* The next one read after the entry has been cleared.
next_cleared(c) == Free

\* The next leftover, read before the entry is cleared.
next_left(c) == fat[c]

free_left ==
  /\ op.at = "free"
  /\ op.cur \in Cluster
  /\ \/ op' = [op EXCEPT !.cur = next_left(op.cur)] /\ fat_write_next_cluster(op.cur, Free)
     \/ fails /\ op' = [op EXCEPT !.cur = EOC] /\ fat' = [fat EXCEPT ![op.cur] = Free]
  /\ UNCHANGED <<data, root, stored, lossy>>

-----------------------------------------------------------------------------
\* The directory entry, last of all.

all_freed == op.at = "free" /\ op.cur \notin Cluster

set_entry(a, e) ==
  IF a[1] = Root THEN root' = [root EXCEPT ![a[2]] = e] /\ UNCHANGED data
                 ELSE data' = [data EXCEPT ![a[1]].slots[a[2]] = e] /\ UNCHANGED root

write_entry ==
  /\ all_freed \/ op.at = "entry"
  /\ \/ /\ set_entry(op.slot, [name |-> leaf(op.path), dir |-> op.dir, first |-> op.first,
                               size |-> op.size])
        /\ stored' = IF op.dir THEN stored
                     ELSE [stored EXCEPT ![op.path] = [v |-> op.v, size |-> op.size]]
        /\ op' = NoCall
        /\ UNCHANGED <<errors, lossy>>
     \/ fails /\ fail /\ UNCHANGED <<data, root>>
  /\ UNCHANGED fat

\* The power fails and the machine starts again: only the volume is left.
crash ==
  /\ Crashes
  /\ op.at # "idle"
  /\ fail
  /\ UNCHANGED <<fat, data, root, errors>>

-----------------------------------------------------------------------------

InitVolume ==
  /\ fat = [c \in Cluster |-> Free]
  /\ data = [c \in Cluster |-> Zeroed]
  /\ root = [s \in 1 .. RootSlots |-> Nil]
  /\ op = NoCall
  /\ errors = MaxErrors
  /\ stored = [p \in Files |-> Unknown]
  /\ lossy = FALSE

NextVolume ==
  \/ \E p \in Files : \E v \in Values[p], n \in Sizes : fat16_write_file(p, v, n)
  \/ \E p \in Dirs : fat16_mkdir(p)
  \/ alloc_directory
  \/ zero_directory
  \/ attach_directory
  \/ take_cluster
  \/ link_cluster
  \/ write_data
  \/ end_chain
  \/ free_left
  \/ write_entry
  \/ crash

SpecVolume == InitVolume /\ [][NextVolume]_volumeVars

-----------------------------------------------------------------------------
\* Properties.

Block == [v : UNION {Values[p] : p \in Files}, i : Nat \ {0}] \cup {Zero}

Entry == [name : STRING, dir : BOOLEAN, first : Cluster, size : Sizes \cup {0}] \cup {Nil}

Stages == {"idle", "extend", "make", "extend_zero", "make_zero", "attach", "take", "link",
           "data", "free", "entry"}

\* Every variable holds a value of its type: no value of the FAT and no entry of
\* a directory leads past the FAT's own entries (past the volume they may: the
\* FAT is all that fat16.c:162-175 looks at).
VolumeTyped ==
  /\ fat \in [Cluster -> Cluster \cup {Free, EOC}]
  /\ data \in [Cluster -> [block : Block, slots : [1 .. DirSlots -> Entry]]]
  /\ root \in [1 .. RootSlots -> Entry]
  /\ op.at \in Stages /\ op.path \in Files \cup Dirs \cup {<<>>}
  /\ {op.prev, op.cur, op.c, op.first} \subseteq Cluster \cup {Free, EOC}
  /\ op.i \in 0 .. needed
  /\ errors \in 0 .. MaxErrors
  /\ \A p \in Files : stored[p] \in [v : Values[p], size : Sizes] \cup {Unknown}
  /\ lossy \in BOOLEAN

\* The entries a walk from the root can find.
Listed ==
  LET used(d) == {a \in {slot_of(t) : t \in slots(d)} : entry(a) # Nil}
  IN  used(Root) \cup UNION {used(entry(a).first) : a \in {b \in used(Root) : entry(b).dir}}

\* The chain of every file and directory ends, in clusters that are allocated,
\* after each single sector written: a power loss never leaves a chain that
\* runs into free clusters, which the next write would hand out, or in circles
\* (fat16.c:245-252 ends a chain before it frees the rest).
ChainsEnd ==
  \A a \in Listed :
    LET s == chain(entry(a).first) IN s # <<>> /\ fat[s[Len(s)]] = EOC

\* No cluster belongs to two files, or twice to one, after any power loss and
\* any write that ran out of space half way, or was given clusters the disk does
\* not have (fat16.c:149-181: "so a second call
\* before the caller links it anywhere else doesn't hand out the same cluster twice").
NoSharedCluster ==
  LET chains == {<<a, chain(entry(a).first)>> : a \in Listed}
  IN  \A x, y \in chains : \A i \in DOMAIN x[2], j \in DOMAIN y[2] :
        x[2][i] = y[2][j] => x[1] = y[1] /\ i = j

\* As long as every call has succeeded, each allocated cluster is in the chain
\* of a file or directory: "any leftover clusters (the new data is shorter) are
\* freed" (fat16.h).
NoLeak ==
  op.at = "idle" /\ ~lossy =>
    {c \in Cluster : fat[c] # Free}
      = UNION {{chain(entry(a).first)[i] : i \in DOMAIN chain(entry(a).first)} : a \in Listed}

\* A file whose last write returned 0 reads back as it was written, whatever was
\* written, created, cut off or refused elsewhere since (fat16.h: "Returns 0 on
\* success, -1 if the parent doesn't exist/isn't a directory [...], the volume
\* is full, or an I/O error").
ReadBack ==
  \A p \in Files :
    stored[p] # Unknown =>
      fat16_read_file(p) = {[i \in 1 .. stored[p].size |-> [v |-> stored[p].v, i |-> i]]}
=============================================================================
