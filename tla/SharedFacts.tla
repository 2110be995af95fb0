----------------------------- MODULE SharedFacts ----------------------------
(***************************************************************************)
(* Facts the proofs share: least elements, division, walks, rings.         *)
(***************************************************************************)
EXTENDS Integers, FiniteSets, TLAPS, FiniteSetTheorems, WellFoundedInduction

LEMMA LeastOf == ASSUME NEW S \in SUBSET Nat, S # {}
                 PROVE  \E n \in S : \A m \in S : n <= m
<1> DEFINE R == OpToRel(<, Nat)
<1>1. PICK n \in S : \A m \in S : ~(<<m, n>> \in R)
  <2> HIDE DEF R
  <2>1. IsWellFoundedOn(R, Nat)
    BY NatLessThanWellFounded DEF R
  <2> QED
    BY <2>1, WFMin
<1>2. \A m \in S : ~(m < n)
  BY <1>1 DEF OpToRel
<1> QED
  BY <1>2

-----------------------------------------------------------------------------
\* Division.

LEMMA DivMod == ASSUME NEW t \in Nat, NEW d \in Nat \ {0}
                PROVE  /\ t \div d \in Nat /\ t % d \in 0 .. d - 1
                       /\ t = (t \div d) * d + (t % d)
<1>1. t \div d \in Nat /\ t % d \in 0 .. d - 1
  OBVIOUS
<1>2. t = (t \div d) * d + (t % d)
  BY SMTT(30)
<1> QED
  BY <1>1, <1>2

\* Quotient and remainder are unique.
LEMMA Remainder == ASSUME NEW d \in Nat \ {0}, NEW q \in Nat, NEW r \in 0 .. d - 1, NEW t \in Nat, t = q * d + r
                   PROVE  t % d = r
<1>1. t \div d \in Nat /\ t % d \in 0 .. d - 1 /\ t = (t \div d) * d + (t % d)
  BY DivMod
<1>2. PICK p, s : p = t \div d /\ s = t % d
  OBVIOUS
<1>3. p \in Nat /\ s \in 0 .. d - 1 /\ p * d + s = q * d + r
  BY <1>1, <1>2
<1>4. ASSUME NEW a \in Nat, NEW b \in Nat, NEW x \in 0 .. d - 1, NEW y \in 0 .. d - 1,
             a * d + x = b * d + y
      PROVE  ~(a < b)
  <2> SUFFICES ASSUME a < b PROVE FALSE
    OBVIOUS
  <2>1. PICK k \in Nat : b = a + 1 + k
    <3>1. b - a - 1 \in Nat /\ b = a + 1 + (b - a - 1)
      OBVIOUS
    <3> QED
      BY <3>1
  <2>2. b * d = a * d + d + k * d /\ k * d \in Nat /\ a * d \in Nat
    BY <2>1
  <2> QED
    BY <1>4, <2>2
<1>5. p = q
  BY <1>3, <1>4
<1>6. p * d \in Nat
  BY <1>3
<1> QED
  BY <1>2, <1>3, <1>5, <1>6

-----------------------------------------------------------------------------
\* Walks.

\* w is the first n steps from x along f.
WalkOf(w, f, x, n) ==
  /\ w = [k \in 0 .. n |-> w[k]]
  /\ w[0] = x
  /\ \A k \in 1 .. n : w[k] = f[w[k - 1]]

LEMMA WalkOfExists == ASSUME NEW f, NEW x, NEW n \in Nat PROVE \E w : WalkOf(w, f, x, n)
<1> DEFINE Bad == {m \in Nat : ~ \E w : WalkOf(w, f, x, m)}
<1>1. SUFFICES ASSUME Bad # {} PROVE FALSE
  OBVIOUS
<1>2. PICK m \in Bad : \A k \in Bad : m <= k
  <2>1. Bad \in SUBSET Nat
    OBVIOUS
  <2> HIDE DEF Bad
  <2> QED
    BY <1>1, <2>1, LeastOf
<1>3. m # 0
  <2>1. PICK w : w = [k \in 0 .. 0 |-> x]
    OBVIOUS
  <2>2. WalkOf(w, f, x, 0)
    BY <2>1 DEF WalkOf
  <2> QED
    BY <2>2
<1>4. m - 1 \in Nat /\ m - 1 \notin Bad
  BY <1>2, <1>3
<1>5. PICK w : WalkOf(w, f, x, m - 1)
  BY <1>4
<1>6. PICK v : v = [k \in 0 .. m |-> IF k < m THEN w[k] ELSE f[w[m - 1]]]
  OBVIOUS
<1>7. WalkOf(v, f, x, m)
  <2>1. v = [k \in 0 .. m |-> v[k]]
    BY <1>6
  <2>2. v[0] = x
    BY <1>3, <1>4, <1>5, <1>6 DEF WalkOf
  <2>3. ASSUME NEW k \in 1 .. m PROVE v[k] = f[v[k - 1]]
    <3>1. k - 1 \in 0 .. m /\ k \in 0 .. m /\ k - 1 < m
      BY <1>4, <2>3
    <3>2. v[k - 1] = w[k - 1] /\ v[k] = (IF k < m THEN w[k] ELSE f[w[m - 1]])
      BY <1>6, <3>1
    <3>3. CASE k < m
      <4>1. k \in 1 .. m - 1
        BY <1>4, <2>3, <3>3
      <4> QED
        BY <1>5, <3>2, <3>3, <4>1 DEF WalkOf
    <3>4. CASE k = m
      BY <3>2, <3>4
    <3> QED
      BY <1>4, <2>3, <3>3, <3>4
  <2> QED
    BY <2>1, <2>2, <2>3 DEF WalkOf
<1> QED
  BY <1>2, <1>7

LEMMA WalkOfUnique == ASSUME NEW f, NEW x, NEW n \in Nat, NEW m \in Nat, NEW v, NEW w,
                            WalkOf(v, f, x, n), WalkOf(w, f, x, m), NEW k \in Nat, k <= n, k <= m
                     PROVE  v[k] = w[k]
<1> DEFINE Bad == {i \in Nat : i <= n /\ i <= m /\ v[i] # w[i]}
<1>1. SUFFICES ASSUME Bad # {} PROVE FALSE
  OBVIOUS
<1>2. PICK i \in Bad : \A j \in Bad : i <= j
  <2>1. Bad \in SUBSET Nat
    OBVIOUS
  <2> HIDE DEF Bad
  <2> QED
    BY <1>1, <2>1, LeastOf
<1>3. i # 0
  BY DEF WalkOf
<1>4. i - 1 \in Nat /\ i - 1 \notin Bad /\ i \in 1 .. n /\ i \in 1 .. m
  BY <1>2, <1>3
<1>5. v[i - 1] = w[i - 1]
  BY <1>4
<1> QED
  BY <1>4, <1>5 DEF WalkOf

IsWalk(w, f, x) == w = [n \in Nat |-> IF n = 0 THEN x ELSE f[w[n - 1]]]

\* The function a recursive walk defines is there.
LEMMA WalkThere == ASSUME NEW f, NEW x PROVE \E w : IsWalk(w, f, x)
<1> DEFINE First(n) == CHOOSE w : WalkOf(w, f, x, n)
<1>1. \A n \in Nat : WalkOf(First(n), f, x, n)
  BY WalkOfExists
<1> HIDE DEF First
<1>2. PICK w : w = [n \in Nat |-> First(n)[n]]
  OBVIOUS
<1>3. ASSUME NEW n \in Nat PROVE w[n] = IF n = 0 THEN x ELSE f[w[n - 1]]
  <2>1. CASE n = 0
    BY <1>1, <1>2, <2>1 DEF WalkOf
  <2>2. CASE n # 0
    <3>1. n - 1 \in Nat /\ n \in 1 .. n
      BY <2>2
    <3>2. First(n)[n - 1] = First(n - 1)[n - 1]
      BY <1>1, <3>1, WalkOfUnique
    <3>3. First(n)[n] = f[First(n)[n - 1]]
      BY <1>1, <3>1 DEF WalkOf
    <3> QED
      BY <1>2, <2>2, <3>1, <3>2, <3>3
  <2> QED
    BY <2>1, <2>2
<1>4. w = [n \in Nat |-> IF n = 0 THEN x ELSE f[w[n - 1]]]
  <2>1. PICK u : u = [n \in Nat |-> IF n = 0 THEN x ELSE f[w[n - 1]]]
    OBVIOUS
  <2>2. \A n \in Nat : u[n] = w[n]
    BY <1>3, <2>1
  <2>3. u = w
    BY <1>2, <2>1, <2>2
  <2> QED
    BY <2>1, <2>3
<1> QED
  BY <1>4 DEF IsWalk

-----------------------------------------------------------------------------
\* Rings.

\* The place n places on from i in a ring of size.
after(size, i, n) == IF i + n <= size THEN i + n ELSE i + n - size

\* r lists S in the order of the links, which come back to the first.
IsRing(S, f, size, r) ==
  /\ size \in Nat \ {0}
  /\ r \in [1 .. size -> S]
  /\ \A x \in S : \E i \in 1 .. size : r[i] = x
  /\ \A i, j \in 1 .. size : r[i] = r[j] => i = j
  /\ \A i \in 1 .. size : f[r[i]] = r[after(size, i, 1)]

LEMMA RingSize == ASSUME NEW S, NEW f, NEW size, NEW r, IsRing(S, f, size, r)
                  PROVE  Cardinality(S) = size
<1>1. r \in Bijection(1 .. size, S)
  BY DEF IsRing, Bijection, Injection, Surjection, IsInjective
<1>2. ExistsBijection(1 .. size, S)
  BY <1>1 DEF ExistsBijection
<1> QED
  BY <1>2, FS_CountingElements DEF IsRing

\* A walk along the links meets all of the ring and comes back.
LEMMA RingWalked ==
  ASSUME NEW S, NEW f, NEW size, NEW r, IsRing(S, f, size, r), NEW k \in 1 .. size,
         NEW w, w[0] = r[k], \A n \in 1 .. size : w[n] = f[w[n - 1]]
  PROVE  /\ \A n \in 0 .. size : w[n] = r[after(size, k, n)]
         /\ {w[n] : n \in 1 .. size} = S /\ {w[n] : n \in 0 .. size - 1} = S
         /\ w[size] = r[k]
<1>1. size \in Nat \ {0}
  BY DEF IsRing
<1> DEFINE Bad == {n \in 0 .. size : w[n] # r[after(size, k, n)]}
<1>2. \A n \in 0 .. size : w[n] = r[after(size, k, n)]
  <2>1. SUFFICES ASSUME Bad # {} PROVE FALSE
    OBVIOUS
  <2>2. PICK n \in Bad : \A j \in Bad : n <= j
    <3>1. Bad \in SUBSET Nat
      BY <1>1
    <3> HIDE DEF Bad
    <3> QED
      BY <2>1, <3>1, LeastOf
  <2>3. n # 0
    BY <1>1 DEF after
  <2>4. n - 1 \in 0 .. size /\ n - 1 \notin Bad /\ n \in 1 .. size
    BY <1>1, <2>2, <2>3
  <2>5. PICK i : i = after(size, k, n - 1)
    OBVIOUS
  <2>6. i \in 1 .. size /\ after(size, i, 1) = after(size, k, n)
    BY <1>1, <2>4, <2>5 DEF after
  <2>7. w[n] = f[r[i]]
    BY <2>4, <2>5
  <2> QED
    BY <2>6, <2>7, <2>2 DEF IsRing
<1> HIDE DEF Bad
<1>3. \A n \in 0 .. size : after(size, k, n) \in 1 .. size
  BY <1>1 DEF after
<1>4. ASSUME NEW n \in 0 .. size PROVE w[n] \in S
  <2>1. PICK i : i = after(size, k, n)
    OBVIOUS
  <2>2. w[n] = r[i] /\ i \in 1 .. size
    BY <1>2, <1>3, <2>1
  <2> QED
    BY <2>2 DEF IsRing
<1>5. ASSUME NEW x \in S PROVE (\E n \in 1 .. size : w[n] = x) /\ (\E n \in 0 .. size - 1 : w[n] = x)
  <2>1. PICK i \in 1 .. size : r[i] = x
    BY DEF IsRing
  <2>2. CASE i > k
    <3>1. i - k \in 1 .. size /\ i - k \in 0 .. size - 1 /\ after(size, k, i - k) = i
      BY <1>1, <2>2 DEF after
    <3> QED
      BY <1>1, <1>2, <2>1, <3>1
  <2>3. CASE i = k
    <3>1. after(size, k, 0) = k /\ after(size, k, size) = k /\ 0 \in 0 .. size - 1 /\ size \in 1 .. size
          /\ 0 \in 0 .. size /\ size \in 0 .. size
      BY <1>1 DEF after
    <3>2. w[0] = x /\ w[size] = x
      BY <1>2, <2>1, <2>3, <3>1
    <3> QED
      BY <3>1, <3>2
  <2>4. CASE i < k
    <3>1. i - k + size \in 1 .. size /\ i - k + size \in 0 .. size - 1 /\ after(size, k, i - k + size) = i
      BY <1>1, <2>4 DEF after
    <3> QED
      BY <1>1, <1>2, <2>1, <3>1
  <2> QED
    BY <1>1, <2>2, <2>3, <2>4
<1>6. {w[n] : n \in 1 .. size} = S /\ {w[n] : n \in 0 .. size - 1} = S
  <2>1. \A n \in 1 .. size : n \in 0 .. size
    BY <1>1
  <2>2. \A n \in 0 .. size - 1 : n \in 0 .. size
    BY <1>1
  <2> QED
    BY <1>4, <1>5, <2>1, <2>2
<1>7. w[size] = r[k]
  <2>1. size \in 0 .. size /\ after(size, k, size) = k
    BY <1>1 DEF after
  <2> QED
    BY <1>2, <2>1
<1> QED
  BY <1>2, <1>6, <1>7

\* What is linked in after a member of the ring is in the ring.
LEMMA RingInserted ==
  ASSUME NEW S, NEW f, NEW size, NEW r, IsRing(S, f, size, r), NEW c \in S, NEW t, t \notin S,
         NEW g, g[t] = f[c], g[c] = t, \A x \in S : x # c => g[x] = f[x]
  PROVE  \E q : IsRing(S \cup {t}, g, size + 1, q)
<1>1. size \in Nat \ {0}
  BY DEF IsRing
<1>2. PICK k \in 1 .. size : r[k] = c
  BY DEF IsRing
<1>3. PICK q : q = [i \in 1 .. size + 1 |-> IF i <= k THEN r[i] ELSE IF i = k + 1 THEN t ELSE r[i - 1]]
  OBVIOUS
<1>4. /\ \A i \in 1 .. k : q[i] = r[i]
      /\ q[k + 1] = t
      /\ \A i \in k + 2 .. size + 1 : q[i] = r[i - 1]
  BY <1>1, <1>3
<1>5. q \in [1 .. size + 1 -> S \cup {t}]
  <2>1. ASSUME NEW i \in 1 .. size + 1
        PROVE  (IF i <= k THEN r[i] ELSE IF i = k + 1 THEN t ELSE r[i - 1]) \in S \cup {t}
    <3>1. i <= k => i \in 1 .. size
      BY <1>1
    <3>2. i > k + 1 => i - 1 \in 1 .. size
      BY <1>1
    <3> QED
      BY <1>1, <3>1, <3>2 DEF IsRing
  <2> QED
    BY <1>3, <2>1
<1>6. ASSUME NEW x \in S \cup {t} PROVE \E i \in 1 .. size + 1 : q[i] = x
  <2>1. CASE x = t
    BY <1>1, <1>4, <2>1
  <2>2. CASE x \in S
    <3>1. PICK i \in 1 .. size : r[i] = x
      BY <2>2 DEF IsRing
    <3>2. CASE i <= k
      BY <1>1, <1>4, <3>1, <3>2
    <3>3. CASE i > k
      <4>1. i + 1 \in k + 2 .. size + 1 /\ i + 1 \in 1 .. size + 1 /\ (i + 1) - 1 = i
        BY <1>1, <3>3
      <4> QED
        BY <1>4, <3>1, <4>1
    <3> QED
      BY <1>1, <3>2, <3>3
  <2> QED
    BY <2>1, <2>2
<1>7. ASSUME NEW i \in 1 .. size + 1, NEW j \in 1 .. size + 1, q[i] = q[j] PROVE i = j
  <2> DEFINE from(n) == IF n <= k THEN n ELSE n - 1
  <2>1. ASSUME NEW n \in 1 .. size + 1, n # k + 1 PROVE from(n) \in 1 .. size /\ q[n] = r[from(n)] /\ q[n] # t
    <3>1. from(n) \in 1 .. size /\ q[n] = r[from(n)]
      BY <1>1, <1>4, <2>1
    <3> HIDE DEF from
    <3> QED
      BY <3>1 DEF IsRing
  <2>2. CASE i = k + 1 \/ j = k + 1
    BY <1>1, <1>4, <1>7, <2>1, <2>2
  <2>3. CASE i # k + 1 /\ j # k + 1
    <3>1. from(i) = from(j)
      <4>1. r[from(i)] = r[from(j)] /\ from(i) \in 1 .. size /\ from(j) \in 1 .. size
        BY <1>7, <2>1, <2>3
      <4> HIDE DEF from
      <4> QED
        BY <4>1 DEF IsRing
    <3> QED
      BY <1>1, <2>3, <3>1
  <2> QED
    BY <2>2, <2>3
<1>8. ASSUME NEW i \in 1 .. size + 1 PROVE g[q[i]] = q[after(size + 1, i, 1)]
  <2>1. CASE i = k + 1
    <3>1. g[q[i]] = r[after(size, k, 1)]
      BY <1>2, <1>4, <2>1 DEF IsRing
    <3>2. CASE k = size
      <4>1. after(size, k, 1) = 1 /\ after(size + 1, i, 1) = 1 /\ q[1] = r[1]
        BY <1>1, <1>4, <2>1, <3>2 DEF after
      <4> QED
        BY <3>1, <4>1
    <3>3. CASE k < size
      <4>1. /\ after(size, k, 1) = k + 1 /\ after(size + 1, i, 1) = k + 2 /\ k + 2 \in k + 2 .. size + 1
            /\ (k + 2) - 1 = k + 1
        BY <1>1, <2>1, <3>3 DEF after
      <4> QED
        BY <1>4, <3>1, <4>1
    <3> QED
      BY <1>1, <3>2, <3>3
  <2>2. CASE i = k
    <3>1. q[i] = c /\ after(size + 1, i, 1) = k + 1
      BY <1>1, <1>2, <1>4, <2>2 DEF after
    <3> QED
      BY <1>4, <3>1
  <2>3. CASE i < k
    <3>1. i \in 1 .. k /\ i + 1 \in 1 .. k /\ i \in 1 .. size /\ after(size, i, 1) = i + 1 /\ after(size + 1, i, 1) = i + 1
      BY <1>1, <2>3 DEF after
    <3>2. q[i] = r[i] /\ q[i + 1] = r[i + 1]
      BY <1>4, <3>1
    <3>3. r[i] # c /\ r[i] \in S /\ f[r[i]] = r[i + 1]
      BY <1>2, <2>3, <3>1 DEF IsRing
    <3> QED
      BY <3>1, <3>2, <3>3
  <2>4. CASE i > k + 1
    <3>1. PICK j : j = i - 1
      OBVIOUS
    <3>2. j \in 1 .. size /\ j # k /\ i \in k + 2 .. size + 1
      BY <1>1, <2>4, <3>1
    <3>3. q[i] = r[j] /\ r[j] # c /\ r[j] \in S /\ f[r[j]] = r[after(size, j, 1)]
      BY <1>2, <1>4, <3>1, <3>2 DEF IsRing
    <3>4. q[after(size + 1, i, 1)] = r[after(size, j, 1)]
      <4>1. CASE i = size + 1
        <5>1. after(size + 1, i, 1) = 1 /\ after(size, j, 1) = 1
          BY <1>1, <3>1, <4>1 DEF after
        <5> QED
          BY <1>1, <1>4, <5>1
      <4>2. CASE i < size + 1
        <5>1. /\ after(size + 1, i, 1) = i + 1 /\ after(size, j, 1) = i /\ i + 1 \in k + 2 .. size + 1
              /\ (i + 1) - 1 = i
          BY <1>1, <2>4, <3>1, <4>2 DEF after
        <5> QED
          BY <1>4, <5>1
      <4> QED
        BY <1>1, <4>1, <4>2
    <3> QED
      BY <3>3, <3>4
  <2> QED
    BY <1>1, <2>1, <2>2, <2>3, <2>4
<1>9. size + 1 \in Nat \ {0}
  BY <1>1
<1> QED
  BY <1>5, <1>6, <1>7, <1>8, <1>9 DEF IsRing
=============================================================================
