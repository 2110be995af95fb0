---------------------------- MODULE SpawnProofs -----------------------------
(***************************************************************************)
(* The ring of PCBs stays closed while the shell links one in with IRQs    *)
(* open, for any number of tasks.                                          *)
(***************************************************************************)
EXTENDS Spawn, SharedFacts

\* What the walks and the pids are plays no part: the PCB under construction is
\* unlinked up to the link, and a context is given only to what is linked.
SInv ==
  /\ state \in [Task -> {"absent", "new", "ready", "zombie"}]
  /\ run = [at |-> run.at, new |-> run.new, seen |-> run.seen]
  /\ run.at \in {"alloc", "count", "chain", "link"} => run.new \in Users /\ state[run.new] = "new"
  /\ run.at = "fill" => run.new \in Users /\ run.new \in Linked
  /\ filled \subseteq Linked

LEMMA InitSInv == Init => SInv
<1> SUFFICES ASSUME Init PROVE SInv
  OBVIOUS
<1>1. /\ state = [t \in Task |-> IF t \in Users \ Booted THEN "absent" ELSE "ready"]
      /\ filled = {Kmain, Shell} \cup Booted /\ run = [at |-> "idle", new |-> None, seen |-> 0]
  BY DEF Init
<1>2. filled \subseteq Task /\ filled \cap (Users \ Booted) = {} /\ Task \ filled = Users \ Booted
  BY <1>1, SpawnAssumption DEF Task
<1>3. Linked = filled
  BY <1>1, <1>2 DEF Linked
<1> QED
  BY <1>1, <1>3 DEF SInv

LEMMA NextSInv == SInv /\ [Next]_vars => SInv'
<1> SUFFICES ASSUME SInv, [Next]_vars PROVE SInv'
  OBVIOUS
<1> USE DEF SInv, Linked
<1>1. ASSUME NEW t \in Users, run_run(t) PROVE SInv'
  <2>1. run' = [at |-> "alloc", new |-> t, seen |-> run.seen]
    BY <1>1 DEF run_run
  <2>2. state' = [state EXCEPT ![t] = "new"] /\ filled' = filled /\ run.at = "idle" /\ t \in Task
    BY <1>1 DEF run_run, Task
  <2>3. t \notin filled
    BY <1>1 DEF run_run
  <2>4. state' \in [Task -> {"absent", "new", "ready", "zombie"}] /\ state'[t] = "new"
    BY <2>2
  <2>5. filled' \subseteq Linked'
    BY <2>2, <2>3
  <2>6. run'.at = "alloc" /\ run'.new = t
    BY ONLY <2>1
  <2>7. run' = [at |-> run'.at, new |-> run'.new, seen |-> run'.seen]
    BY ONLY <2>1
  <2> QED
    BY <2>4, <2>5, <2>6, <2>7
<1>2. CASE alloc_read_pid
  BY <1>2 DEF alloc_read_pid
<1>3. CASE alloc_count_pid
  BY <1>3 DEF alloc_count_pid
<1>4. CASE alloc_chain
  BY <1>4 DEF alloc_chain
<1>5. CASE alloc_link
  <2>1. run' = [at |-> "fill", new |-> run.new, seen |-> run.seen] /\ filled' = filled
        /\ state' = [state EXCEPT ![run.new] = "ready"] /\ run.new \in Task
    BY <1>5 DEF alloc_link, Task
  <2> QED
    BY <1>5, <2>1 DEF alloc_link
<1>6. CASE task_create_user
  <2>1. run' = [at |-> "idle", new |-> None, seen |-> run.seen] /\ filled' = filled \cup {run.new}
    BY <1>6 DEF task_create_user
  <2>2. state' = state /\ run.at = "fill" /\ run.new \in Task
    BY <1>6 DEF task_create_user, Task
  <2> QED
    BY <2>1, <2>2
<1>7. ASSUME NEW t \in Users, sys_spawn(t) PROVE SInv'
  <2>1. run.at \in {"alloc", "count", "chain", "link"} => run.new # t
    BY <1>7 DEF sys_spawn
  <2>2. /\ state' = [state EXCEPT ![t] = "ready"] /\ run' = run
        /\ filled' = filled \cup {t} /\ t \in Task /\ state[t] = "absent"
    BY <1>7 DEF sys_spawn, Task
  <2> QED
    BY <2>1, <2>2
<1>8. CASE sched_tick
  BY <1>8 DEF sched_tick
<1>9. CASE sched_exit_current
  <2>1. state' = [state EXCEPT ![current] = "zombie"] /\ UNCHANGED <<run, filled>> /\ current \in filled
    BY <1>9 DEF sched_exit_current, Runs
  <2> QED
    BY <2>1
<1>10. CASE lost \/ UNCHANGED vars
  BY <1>10 DEF lost, vars
<1> QED
  BY <1>1, <1>2, <1>3, <1>4, <1>5, <1>6, <1>7, <1>8, <1>9, <1>10 DEF Next

-----------------------------------------------------------------------------
\* The ring.

\* What the shell has read of its own link is still so when it links.
RInv ==
  /\ {Kmain, current} \subseteq Linked
  /\ next \in [Task -> Task \cup {None}]
  /\ \E size, ring : IsRing(Linked, next, size, ring)
  /\ run.at = "link" => next[run.new] = next[Shell]

\* The pids of the tasks there are at first number them without a gap.
LEMMA NumbersUsed ==
  ASSUME NEW number \in [{Kmain, Shell} \cup Booted -> 0 .. Cardinality(Booted) + 1],
         \A t, u \in DOMAIN number : number[t] = number[u] => t = u,
         NEW n \in 0 .. Cardinality(Booted) + 1
  PROVE  \E t \in {Kmain, Shell} \cup Booted : number[t] = n
<1> DEFINE D == {Kmain, Shell} \cup Booted
           C == Cardinality(Booted)
<1>1. IsFiniteSet(Booted) /\ C \in Nat
  BY SpawnAssumption, FS_Subset, FS_CardinalityType
<1>2. IsFiniteSet(Booted \cup {Shell}) /\ Cardinality(Booted \cup {Shell}) = C + 1
  <2>1. Shell \notin Booted
    BY SpawnAssumption
  <2> QED
    BY <1>1, <2>1, FS_AddElement
<1>3. IsFiniteSet(D) /\ Cardinality(D) = C + 2
  <2>1. PICK S : S = Booted \cup {Shell}
    OBVIOUS
  <2>2. Kmain \notin S /\ D = S \cup {Kmain}
    BY <2>1, SpawnAssumption
  <2>3. IsFiniteSet(S) /\ Cardinality(S) = C + 1
    BY ONLY <1>2, <2>1
  <2> HIDE DEF D, C
  <2>4. IsFiniteSet(S \cup {Kmain}) /\ Cardinality(S \cup {Kmain}) = Cardinality(S) + 1
    BY <2>2, <2>3, FS_AddElement
  <2> QED
    BY <1>1, <2>2, <2>3, <2>4
<1>4. IsFiniteSet(0 .. C + 1) /\ Cardinality(0 .. C + 1) = C + 2
  BY <1>1, FS_Interval
<1> HIDE DEF D, C
<1>5. number \in Injection(D, 0 .. C + 1)
  BY DEF D, C, Injection, IsInjective
<1>6. number \in Surjection(D, 0 .. C + 1)
  BY <1>3, <1>4, <1>5, FS_Injection
<1> QED
  BY <1>6 DEF D, C, Surjection

LEMMA InitRing == Init => RInv
<1> SUFFICES ASSUME Init PROVE RInv
  OBVIOUS
<1> DEFINE last == Cardinality(Booted) + 1
<1>1. last \in Nat /\ last - 1 = Cardinality(Booted)
  BY SpawnAssumption, FS_Subset, FS_CardinalityType
<1>2. PICK number \in [{Kmain, Shell} \cup Booted -> 0 .. last] :
        /\ number[Kmain] = 0
        /\ \A t, u \in DOMAIN number : number[t] = number[u] => t = u
        /\ next = [t \in Task |-> IF t \notin DOMAIN number THEN None
                                  ELSE IF t = Kmain THEN CHOOSE x \in DOMAIN number : number[x] = last
                                  ELSE CHOOSE x \in DOMAIN number : number[x] = number[t] - 1]
  BY Zenon DEF Init
<1>3. \A n \in 0 .. last : \E u \in {Kmain, Shell} \cup Booted : number[u] = n
  BY <1>2, NumbersUsed
<1> HIDE DEF last
<1>4. PICK D : D = {Kmain, Shell} \cup Booted
  OBVIOUS
<1>5. DOMAIN number = D /\ D \subseteq Task
  BY <1>2, <1>4, SpawnAssumption DEF Task
<1>6. Linked = D /\ current \in Linked /\ run.at = "idle"
  <2>1. /\ state = [t \in Task |-> IF t \in Users \ Booted THEN "absent" ELSE "ready"]
        /\ current = Kmain /\ run.at = "idle"
    BY DEF Init
  <2>2. Linked = Task \ (Users \ Booted)
    BY <2>1 DEF Linked
  <2> QED
    BY <1>4, <2>1, <2>2, SpawnAssumption DEF Task
<1>7. PICK t : t = [n \in 0 .. last |-> CHOOSE u \in D : number[u] = n]
  OBVIOUS
<1>8. ASSUME NEW n \in 0 .. last PROVE t[n] \in D /\ number[t[n]] = n
  <2>1. \E u \in D : number[u] = n
    BY <1>3, <1>4
  <2> QED
    BY <1>7, <2>1
<1>9. \A u \in D : number[u] \in 0 .. last /\ t[number[u]] = u
  BY <1>2, <1>4, <1>5, <1>8
<1>10. t[0] = Kmain /\ Kmain \in D
  BY <1>2, <1>4, <1>9
<1>11. \A u \in Task : next[u] = IF u \notin D THEN None ELSE IF u = Kmain THEN t[last] ELSE t[number[u] - 1]
  <2>1. last \in 0 .. last
    BY <1>1
  <2>2. \A u \in D : u # Kmain => number[u] - 1 \in 0 .. last
    BY <1>1, <1>2, <1>4, <1>5, <1>9, <1>10
  <2>3. \A n \in 0 .. last : t[n] = CHOOSE x \in D : number[x] = n
    BY <1>7
  <2>4. \A u \in Task : next[u] = IF u \notin D THEN None
                                  ELSE IF u = Kmain THEN CHOOSE x \in D : number[x] = last
                                  ELSE CHOOSE x \in D : number[x] = number[u] - 1
    BY <1>2, <1>5
  <2> QED
    BY <2>1, <2>2, <2>3, <2>4
<1>12. next \in [Task -> Task \cup {None}]
  <2>1. last \in 0 .. last
    BY <1>1
  <2>2. \A u \in D : u # Kmain => number[u] - 1 \in 0 .. last
    BY <1>1, <1>9, <1>10
  <2>3. next = [u \in Task |-> next[u]]
    BY <1>2
  <2>4. ASSUME NEW u \in Task PROVE next[u] \in Task \cup {None}
    BY <1>5, <1>8, <1>11, <2>1, <2>2
  <2> QED
    BY <2>3, <2>4
<1>13. PICK ring : ring = [i \in 1 .. last + 1 |-> IF i = 1 THEN Kmain ELSE t[last + 2 - i]]
  OBVIOUS
<1>14. ASSUME NEW i \in 1 .. last + 1
       PROVE  /\ i # 1 => last + 2 - i \in 1 .. last /\ last + 2 - i \in 0 .. last
              /\ ring[i] \in D /\ number[ring[i]] = (IF i = 1 THEN 0 ELSE last + 2 - i)
  BY <1>1, <1>2, <1>8, <1>10, <1>13
<1>15. IsRing(D, next, last + 1, ring)
  <2>1. \A x \in D : \E i \in 1 .. last + 1 : ring[i] = x
    <3> SUFFICES ASSUME NEW x \in D PROVE \E i \in 1 .. last + 1 : ring[i] = x
      OBVIOUS
    <3>1. CASE number[x] = 0
      BY <1>1, <1>9, <1>10, <1>13, <3>1
    <3>2. CASE number[x] # 0
      <4>1. PICK i : i = last + 2 - number[x]
        OBVIOUS
      <4>2. i \in 1 .. last + 1 /\ i # 1 /\ last + 2 - i = number[x]
        BY <1>1, <1>9, <3>2, <4>1
      <4> QED
        BY <1>9, <1>13, <4>2
    <3> QED
      BY <3>1, <3>2
  <2>2. \A i, j \in 1 .. last + 1 : ring[i] = ring[j] => i = j
    BY <1>1, <1>14
  <2>3. ASSUME NEW i \in 1 .. last + 1 PROVE next[ring[i]] = ring[after(last + 1, i, 1)]
    <3>1. CASE i = 1
      <4>1. next[ring[i]] = t[last]
        BY <1>5, <1>10, <1>11, <1>13, <3>1
      <4>2. CASE last = 0
        BY <1>1, <1>10, <1>13, <3>1, <4>1, <4>2 DEF after
      <4>3. CASE last # 0
        <5>1. after(last + 1, i, 1) = 2 /\ 2 \in 1 .. last + 1 /\ last + 2 - 2 = last
          BY <1>1, <3>1, <4>3 DEF after
        <5> QED
          BY <1>13, <4>1, <5>1
      <4> QED
        BY <4>2, <4>3
    <3>2. CASE i # 1
      <4>1. PICK x, n : x = ring[i] /\ n = last + 2 - i
        OBVIOUS
      <4>2. x \in D /\ x # Kmain /\ number[x] = n /\ n \in 1 .. last
        BY <1>2, <1>14, <3>2, <4>1
      <4>3. next[x] = t[n - 1]
        BY <1>5, <1>11, <4>2
      <4>4. CASE i = last + 1
        <5>1. n - 1 = 0 /\ after(last + 1, i, 1) = 1 /\ 1 \in 1 .. last + 1
          BY <1>1, <4>1, <4>4 DEF after
        <5> QED
          BY <1>10, <1>13, <4>1, <4>3, <5>1
      <4>5. CASE i # last + 1
        <5>1. /\ after(last + 1, i, 1) = i + 1 /\ i + 1 \in 1 .. last + 1 /\ i + 1 # 1
              /\ last + 2 - (i + 1) = n - 1
          BY <1>1, <4>1, <4>5 DEF after
        <5> QED
          BY <1>13, <4>1, <4>3, <5>1
      <4> QED
        BY <4>4, <4>5
    <3> QED
      BY <3>1, <3>2
  <2>4. ring \in [1 .. last + 1 -> D] /\ last + 1 \in Nat \ {0}
    BY <1>1, <1>13, <1>14
  <2> QED
    BY <2>1, <2>2, <2>3, <2>4 DEF IsRing
<1> QED
  BY <1>6, <1>10, <1>12, <1>15 DEF RInv

LEMMA NextRing == SInv /\ RInv /\ [Next]_vars => RInv'
<1> SUFFICES ASSUME SInv, RInv, [Next]_vars PROVE RInv'
  OBVIOUS
<1>1. PICK size, ring : IsRing(Linked, next, size, ring)
  BY DEF RInv
<1>2. Kmain \in Linked /\ current \in Linked /\ current \in Task /\ next \in [Task -> Task \cup {None}]
  BY DEF RInv, Linked
<1>3. run.at = "link" => next[run.new] = next[Shell]
  BY DEF RInv
<1>4. ASSUME Linked' = Linked, current' \in Linked, next' = next,
             run'.at = "link" => run' = run
      PROVE  RInv'
  BY <1>1, <1>2, <1>3, <1>4 DEF RInv
<1>5. ASSUME NEW t \in Users, run_run(t) PROVE RInv'
  <2>1. /\ run' = [at |-> "alloc", new |-> t, seen |-> run.seen] /\ state' = [state EXCEPT ![t] = "new"]
        /\ state[t] = "absent" /\ next' = next /\ current' = current
    BY <1>5 DEF run_run, SInv
  <2>2. run'.at = "alloc"
    BY ONLY <2>1
  <2>3. Linked' = Linked
    BY <2>1 DEF Linked, SInv
  <2> QED
    BY <1>2, <1>4, <2>1, <2>2, <2>3
<1>6. CASE alloc_read_pid
  <2>1. run'.at = "count" /\ UNCHANGED <<next, state, current>>
    BY <1>6 DEF alloc_read_pid, SInv
  <2> QED
    BY <1>2, <1>4, <2>1 DEF Linked
<1>7. CASE alloc_count_pid
  <2>1. run'.at = "chain" /\ UNCHANGED <<next, state, current>>
    BY <1>7 DEF alloc_count_pid, SInv
  <2> QED
    BY <1>2, <1>4, <2>1 DEF Linked
<1>8. CASE alloc_chain
  <2>1. /\ next' = [next EXCEPT ![run.new] = next[current]] /\ current = Shell
        /\ run.at = "chain" /\ run' = [run EXCEPT !.at = "link"]
        /\ UNCHANGED <<state, current>>
    BY <1>8 DEF alloc_chain, anchor, Runs
  <2>2. run.new \in Task /\ run.new \notin Linked /\ run'.new = run.new
    BY <2>1 DEF SInv, Linked, Task
  <2>3. next[Shell] \in Task \cup {None} /\ next'[Shell] = next[Shell] /\ next'[run.new] = next[Shell]
    BY <1>2, <2>1, <2>2
  <2>4. next' \in [Task -> Task \cup {None}] /\ \A x \in Linked : next'[x] = next[x]
    BY <1>2, <2>1, <2>2, <2>3 DEF Linked
  <2>5. IsRing(Linked, next', size, ring)
    BY <1>1, <2>4 DEF IsRing
  <2>6. Linked' = Linked /\ current' \in Linked
    BY <1>2, <2>1 DEF Linked
  <2> QED
    BY <2>2, <2>3, <2>4, <2>5, <2>6 DEF RInv
<1>9. CASE alloc_link
  <2>1. /\ next' = [next EXCEPT ![current] = run.new] /\ current = Shell
        /\ run.at = "link" /\ run'.at = "fill"
        /\ state' = [state EXCEPT ![run.new] = "ready"] /\ current' = current
    BY <1>9 DEF alloc_link, anchor, Runs, SInv
  <2>2. PICK t : t = run.new
    OBVIOUS
  <2>3. t \in Task /\ t \notin Linked /\ Linked' = Linked \cup {t} /\ t # current
    BY <1>2, <2>1, <2>2 DEF SInv, Linked, Task
  <2>4. next' \in [Task -> Task \cup {None}]
    BY <1>2, <2>1, <2>2, <2>3
  <2>5. /\ next'[t] = next[current] /\ next'[current] = t
        /\ \A x \in Linked : x # current => next'[x] = next[x]
    BY <1>2, <1>3, <2>1, <2>2, <2>3 DEF Linked
  <2>6. \E q : IsRing(Linked \cup {t}, next', size + 1, q)
    BY <1>1, <1>2, <2>3, <2>5, RingInserted
  <2> QED
    BY <1>2, <2>1, <2>3, <2>4, <2>6 DEF RInv
<1>10. CASE task_create_user
  <2>1. run'.at = "idle" /\ UNCHANGED <<next, state, current>>
    BY <1>10 DEF task_create_user, SInv
  <2> QED
    BY <1>2, <1>4, <2>1 DEF Linked
<1>11. ASSUME NEW t \in Users, sys_spawn(t) PROVE RInv'
  <2>1. /\ next' = [next EXCEPT ![t] = next[current], ![current] = t] /\ current \in Users
        /\ state[t] = "absent" /\ state' = [state EXCEPT ![t] = "ready"]
        /\ UNCHANGED <<current, run>>
    BY <1>11 DEF sys_spawn, anchor, Runs
  <2>2. /\ t \in Task /\ t \notin Linked /\ Linked' = Linked \cup {t} /\ t # current
        /\ Shell \in Task /\ Shell # current /\ Shell # t
    BY <1>2, <2>1, SpawnAssumption DEF SInv, Linked, Task
  <2>3. next' \in [Task -> Task \cup {None}]
    BY <1>2, <2>1, <2>2
  <2>4. /\ next'[t] = next[current] /\ next'[current] = t
        /\ \A x \in Task : x # current /\ x # t => next'[x] = next[x]
    BY <1>2, <2>1, <2>2
  <2>5. \E q : IsRing(Linked \cup {t}, next', size + 1, q)
    <3>1. \A x \in Linked : x # current => next'[x] = next[x]
      BY <2>2, <2>4 DEF Linked
    <3> QED
      BY <1>1, <1>2, <2>2, <2>4, <3>1, RingInserted
  <2>6. run.at = "link" => run.new \in Task /\ run.new # t /\ run.new # current
    BY <1>2, <2>1 DEF SInv, Linked, Task
  <2> QED
    BY <1>2, <1>3, <2>1, <2>2, <2>3, <2>4, <2>5, <2>6 DEF RInv
<1>12. CASE sched_tick
  <2>1. current' \in Linked /\ UNCHANGED <<next, state, run>>
    BY <1>12 DEF sched_tick, pick_next, Linked
  <2> QED
    BY <1>4, <2>1 DEF Linked
<1>13. CASE sched_exit_current
  <2>1. PICK st : st = [state EXCEPT ![current] = "zombie"]
    OBVIOUS
  <2>2. state' = st /\ current' \in Task /\ st[current'] = "ready" /\ UNCHANGED <<next, run>>
    BY <1>13, <2>1 DEF sched_exit_current, pick_next
  <2>3. Linked' = Linked /\ current' \in Linked
    BY <1>2, <2>1, <2>2 DEF Linked, SInv
  <2> QED
    BY <1>4, <2>2, <2>3
<1>14. CASE lost \/ UNCHANGED vars
  BY <1>2, <1>4, <1>14 DEF lost, vars, Linked
<1> QED
  BY <1>5, <1>6, <1>7, <1>8, <1>9, <1>10, <1>11, <1>12, <1>13, <1>14 DEF Next

LEMMA RingCloses == RInv => RingClosed
<1> SUFFICES ASSUME RInv PROVE RingClosed
  OBVIOUS
<1>1. PICK size, ring : IsRing(Linked, next, size, ring)
  BY DEF RInv
<1>2. Cardinality(Linked) = size /\ size \in Nat \ {0}
  <2>1. Cardinality(Linked) = size
    BY <1>1, RingSize
  <2> QED
    BY <1>1, <2>1 DEF IsRing
<1>3. PICK k \in 1 .. size : ring[k] = Kmain
  BY <1>1 DEF RInv, IsRing
<1>4. PICK w : w = From(Kmain)
  OBVIOUS
<1>5. w = [n \in Nat |-> IF n = 0 THEN Kmain ELSE next[w[n - 1]]]
  <2>1. \E v : IsWalk(v, next, Kmain)
    BY WalkThere
  <2>2. w = CHOOSE v : IsWalk(v, next, Kmain)
    BY <1>4 DEF From, IsWalk
  <2> QED
    BY <2>1, <2>2 DEF IsWalk
<1>6. w[0] = ring[k] /\ \A n \in 1 .. size : w[n] = next[w[n - 1]]
  BY <1>2, <1>3, <1>5
<1>7. {w[n] : n \in 0 .. size - 1} = Linked /\ w[size] = Kmain
  BY <1>1, <1>3, <1>6, RingWalked
<1> QED
  BY <1>2, <1>4, <1>7 DEF RingClosed

\* Whatever a process links in between the shell's two stores, and whenever one
\* exits, the PCBs linked are one ring through task0 (sched.c:132-133).
THEOREM RingStaysClosed == Spec => []RingClosed
<1>1. Init => SInv /\ RInv
  BY InitSInv, InitRing
<1>2. SInv /\ RInv /\ [Next]_vars => SInv' /\ RInv'
  BY NextSInv, NextRing
<1>3. RInv => RingClosed
  BY RingCloses
<1> QED
  BY <1>1, <1>2, <1>3, PTL DEF Spec
=============================================================================
