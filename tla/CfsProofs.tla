----------------------------- MODULE CfsProofs -----------------------------
(***************************************************************************)
(* The completely fair scheduler: for every number of processes, every     *)
(* tick and granularity and however long it runs.                          *)
(***************************************************************************)
EXTENDS Cfs, TLAPS, WellFoundedInduction

\* A set of natural numbers has a least element.
LEMMA LeastNat ==
    ASSUME NEW T, T \subseteq Nat, T # {}
    PROVE  \E x \in T : \A y \in T : x <= y
  <1>1. \E x \in T : \A y \in T : ~(<<y, x>> \in OpToRel(<, Nat))
    BY NatLessThanWellFounded, WFMin, Zenon
  <1>2. PICK x \in T : \A y \in T : ~(<<y, x>> \in OpToRel(<, Nat))
    BY <1>1, Zenon
  <1>3. \A y, z \in Nat : y < z => <<y, z>> \in OpToRel(<, Nat)
    <2> TAKE y, z \in Nat
    <2> HAVE y < z
    <2> DEFINE ss == <<y, z>>
    <2>1. ss \in Nat \X Nat /\ ss[1] < ss[2]
      OBVIOUS
    <2>2. ss \in {r \in Nat \X Nat : r[1] < r[2]}
      BY <2>1
    <2> QED
      BY <2>2, Zenon DEF OpToRel
  <1>4. ASSUME NEW y \in T PROVE x <= y
    <2>1. x \in Nat /\ y \in Nat
      BY <1>4
    <2>2. ~(y < x)
      BY <1>2, <1>3, <2>1, Zenon
    <2> QED
      BY <2>1, <2>2
  <1> QED
    BY <1>4

\* Induction up to n: a set that has 0 and with each number the next.
LEMMA UpTo ==
    ASSUME NEW n \in Nat, NEW G, 0 \in G, \A k \in 1 .. n : k - 1 \in G => k \in G
    PROVE  \A k \in 0 .. n : k \in G
  <1> DEFINE Bad == {k \in 0 .. n : k \notin G}
  <1> SUFFICES ASSUME Bad # {} PROVE FALSE
    OBVIOUS
  <1>1. Bad \subseteq Nat
    OBVIOUS
  <1> HIDE DEF Bad
  <1>2. PICK m \in Bad : \A j \in Bad : m <= j
    BY <1>1, LeastNat, Zenon
  <1>3. m \in 0 .. n /\ m \notin G
    BY DEF Bad
  <1>4. m \in 1 .. n
    BY <1>3
  <1>5. m - 1 \in 0 .. n /\ ~(m <= m - 1)
    BY <1>4
  <1>6. m - 1 \in G
    BY <1>2, <1>5 DEF Bad
  <1> QED
    BY <1>3, <1>4, <1>6

-----------------------------------------------------------------------------
(***************************************************************************)
(* Sums.                                                                   *)
(***************************************************************************)

IsSums(S, f, n) ==
    /\ S \in [0 .. n -> Int] /\ S[0] = 0
    /\ \A k \in 1 .. n : S[k] = S[k - 1] + f[k]

LEMMA SumsExist ==
    ASSUME NEW n \in Nat, NEW f \in [1 .. n -> Int]
    PROVE  \E S : IsSums(S, f, n)
  <1> DEFINE G == {k \in 0 .. n : \E S : IsSums(S, f, k)}
  <1>1. 0 \in G
    <2>1. IsSums([k \in 0 .. 0 |-> 0], f, 0)
      BY DEF IsSums
    <2> QED
      BY <2>1
  <1>2. ASSUME NEW m \in 1 .. n, m - 1 \in G PROVE m \in G
    <2>1. PICK S : IsSums(S, f, m - 1)
      BY <1>2
    <2> DEFINE T == [k \in 0 .. m |-> IF k = m THEN S[m - 1] + f[m] ELSE S[k]]
    <2>2. \A k \in 0 .. m : k # m => k \in 0 .. (m - 1)
      OBVIOUS
    <2>3. T \in [0 .. m -> Int]
      BY <2>1, <2>2 DEF IsSums
    <2>4. T[0] = 0
      BY <2>1 DEF IsSums
    <2>5. ASSUME NEW k \in 1 .. m PROVE T[k] = T[k - 1] + f[k]
      <3>1. T[k - 1] = S[k - 1]
        OBVIOUS
      <3>2. CASE k = m
        BY <3>1, <3>2
      <3>3. CASE k # m
        <4>1. k \in 1 .. (m - 1) /\ T[k] = S[k]
          BY <3>3
        <4> QED
          BY <2>1, <3>1, <4>1 DEF IsSums
      <3> QED
        BY <3>2, <3>3
    <2>6. IsSums(T, f, m)
      BY <2>3, <2>4, <2>5, Zenon DEF IsSums
    <2> QED
      BY <2>6
  <1> HIDE DEF G
  <1>3. n \in G
    <2>1. \A k \in 0 .. n : k \in G
      BY <1>1, <1>2, UpTo, Zenon
    <2> QED
      BY <2>1
  <1> QED
    BY <1>3 DEF G

LEMMA SumsAre ==
    ASSUME NEW n \in Nat, NEW f \in [1 .. n -> Int]
    PROVE  IsSums(PartialSums(f, n), f, n)
  <1> DEFINE P(T) == T = [k \in 0 .. n |-> IF k = 0 THEN 0 ELSE T[k - 1] + f[k]]
             s == PartialSums(f, n)
  <1>1. s = CHOOSE T : P(T)
    BY DEF PartialSums
  <1>2. \E S : P(S)
    <2>1. PICK S : IsSums(S, f, n)
      BY SumsExist
    <2>2. P(S)
      BY <2>1 DEF IsSums
    <2> QED
      BY <2>2
  <1> HIDE DEF P, s
  <1>3. P(s)
    BY <1>1, <1>2
  <1>4. s = [k \in 0 .. n |-> IF k = 0 THEN 0 ELSE s[k - 1] + f[k]]
    BY <1>3 DEF P
  <1>5. s[0] = 0 /\ \A k \in 1 .. n : s[k] = s[k - 1] + f[k]
    BY <1>4
  <1> DEFINE G == {k \in 0 .. n : s[k] \in Int}
  <1>6. 0 \in G /\ \A k \in 1 .. n : k - 1 \in G => k \in G
    BY <1>5
  <1> HIDE DEF G
  <1>7. \A k \in 0 .. n : k \in G
    BY <1>6, UpTo, Zenon
  <1>8. \A k \in 0 .. n : s[k] \in Int
    BY <1>7 DEF G
  <1>9. s \in [0 .. n -> Int]
    BY <1>4, <1>8
  <1> QED
    BY <1>5, <1>9 DEF IsSums, s

\* A sum of natural numbers is a natural number.
LEMMA SumNat ==
    ASSUME NEW n \in Nat, NEW f \in [1 .. n -> Nat]
    PROVE  SumTo(f, n) \in Nat
  <1> DEFINE s == PartialSums(f, n)
  <1>1. f \in [1 .. n -> Int]
    OBVIOUS
  <1>2. IsSums(s, f, n)
    BY <1>1, SumsAre
  <1> HIDE DEF s
  <1> DEFINE G == {k \in 0 .. n : s[k] \in Nat}
  <1>3. 0 \in G
    BY <1>2 DEF IsSums
  <1>4. \A k \in 1 .. n : k - 1 \in G => k \in G
    BY <1>2 DEF IsSums
  <1> HIDE DEF G
  <1>5. n \in G
    <2>1. \A k \in 0 .. n : k \in G
      BY <1>3, <1>4, UpTo, Zenon
    <2> QED
      BY <2>1
  <1> QED
    BY <1>5 DEF G, s, SumTo

\* A sum of which one term changes.
LEMMA SumUpdate ==
    ASSUME NEW n \in Nat, NEW f \in [1 .. n -> Int], NEW g \in [1 .. n -> Int], NEW p \in 1 .. n,
           \A k \in 1 .. n : k # p => g[k] = f[k]
    PROVE  SumTo(g, n) = SumTo(f, n) + (g[p] - f[p]) /\ SumTo(f, n) \in Int
  <1> DEFINE s == PartialSums(f, n)
             t == PartialSums(g, n)
             d == g[p] - f[p]
  <1>1. IsSums(s, f, n) /\ IsSums(t, g, n)
    BY SumsAre
  <1>2. d \in Int /\ g[p] = f[p] + d /\ f[p] \in Int
    OBVIOUS
  <1> HIDE DEF s, t, d
  <1> DEFINE G == {k \in 0 .. n : /\ k < p => t[k] = s[k]
                                  /\ p <= k => t[k] = s[k] + d}
  <1>3. 0 \in G
    BY <1>1 DEF IsSums
  <1>4. ASSUME NEW k \in 1 .. n, k - 1 \in G PROVE k \in G
    <2>1. /\ s[k - 1] \in Int /\ s[k] = s[k - 1] + f[k] /\ t[k] = t[k - 1] + g[k]
          /\ f[k] \in Int
      BY <1>1, SMTT(30) DEF IsSums
    <2>2. (k - 1 < p => t[k - 1] = s[k - 1]) /\ (p <= k - 1 => t[k - 1] = s[k - 1] + d)
      BY <1>4
    <2>3. CASE k < p
      <3>1. k - 1 < p /\ g[k] = f[k] /\ ~(p <= k)
        BY <2>3
      <3> QED
        BY <2>1, <2>2, <2>3, <3>1
    <2>4. CASE k = p
      <3>1. k - 1 < p /\ g[k] = f[k] + d /\ ~(k < p)
        BY <1>2, <2>4
      <3> QED
        BY <1>2, <2>1, <2>2, <3>1, SMTT(30)
    <2>5. CASE p < k
      <3>1. p <= k - 1 /\ g[k] = f[k] /\ ~(k < p)
        BY <2>5
      <3> QED
        BY <1>2, <2>1, <2>2, <3>1, SMTT(30)
    <2> QED
      BY <2>3, <2>4, <2>5
  <1> HIDE DEF G
  <1>5. n \in G
    <2>1. \A k \in 0 .. n : k \in G
      BY <1>3, <1>4, UpTo, Zenon
    <2> QED
      BY <2>1
  <1>6. t[n] = s[n] + d /\ s[n] \in Int
    BY <1>1, <1>5 DEF G, IsSums
  <1> QED
    BY <1>6 DEF SumTo, s, t, d

LEMMA SumZero ==
    ASSUME NEW n \in Nat, NEW f \in [1 .. n -> Int], \A k \in 1 .. n : f[k] = 0
    PROVE  SumTo(f, n) = 0
  <1> DEFINE s == PartialSums(f, n)
  <1>1. IsSums(s, f, n)
    BY SumsAre
  <1> HIDE DEF s
  <1> DEFINE G == {k \in 0 .. n : s[k] = 0}
  <1>2. 0 \in G
    BY <1>1 DEF IsSums
  <1>3. \A k \in 1 .. n : k - 1 \in G => k \in G
    BY <1>1 DEF IsSums
  <1> HIDE DEF G
  <1>4. n \in G
    <2>1. \A k \in 0 .. n : k \in G
      BY <1>2, <1>3, UpTo, Zenon
    <2> QED
      BY <2>1
  <1> QED
    BY <1>4 DEF G, s, SumTo

-----------------------------------------------------------------------------
(***************************************************************************)
(* The queue.                                                              *)
(***************************************************************************)

Distinct(q) == \A i, j \in 1 .. Len(q) : q[i] = q[j] => i = j

\* What rb_leftmost has to be.
FirstOf(q) == IF q = <<>> THEN NULL ELSE q[1]

\* A sorted queue has a place for every key.
LEMMA PlaceFound ==
    ASSUME NEW q, Len(q) \in Nat, NEW k, NEW v \in Int,
           \A i \in 1 .. Len(q) : k[q[i]] \in Int, IsSorted(q, k)
    PROVE  /\ Place(q, k, v) \in 0 .. Len(q)
           /\ \A j \in 1 .. Place(q, k, v) : k[q[j]] <= v
           /\ \A j \in (Place(q, k, v) + 1) .. Len(q) : v < k[q[j]]
  <1> DEFINE n == Len(q)
             key(j) == k[q[j]]
             S == {i \in 0 .. n : \A j \in (i + 1) .. n : v < key(j)}
  <1>1. n \in S /\ S \subseteq Nat
    OBVIOUS
  <1> HIDE DEF S
  <1>2. PICK m \in S : \A i \in S : m <= i
    BY <1>1, LeastNat, Zenon
  <1>3. m \in 0 .. n /\ \A j \in (m + 1) .. n : v < key(j)
    BY DEF S
  <1>4. n \in Nat /\ (\A j \in 1 .. n : key(j) \in Int)
        /\ \A i, j \in 1 .. n : i < j => key(i) <= key(j)
    BY DEF IsSorted
  <1> HIDE DEF n, key
  <1>5. ASSUME NEW j \in 1 .. m PROVE key(j) <= v
    <2>1. m \in 1 .. n /\ m - 1 \in 0 .. n /\ ~(m <= m - 1)
      BY <1>3, <1>4, <1>5
    <2>2. m - 1 \notin S
      BY <1>2, <2>1
    <2>3. PICK i \in m .. n : ~(v < key(i))
      <3>1. (m - 1) + 1 = m
        BY <2>1
      <3> QED
        BY <2>1, <2>2, <3>1 DEF S
    <2>4. i \in 1 .. n /\ j \in 1 .. n /\ j <= i
      BY <1>3, <1>4, <1>5, <2>1, <2>3
    <2>5. key(i) <= v
      BY <1>4, <2>3, <2>4
    <2>6. key(j) <= key(i)
      <3>1. CASE j = i
        BY <1>4, <2>4, <3>1
      <3>2. CASE j < i
        BY <1>4, <2>4, <3>2
      <3> QED
        BY <2>4, <3>1, <3>2
    <2> QED
      BY <1>4, <2>4, <2>5, <2>6
  <1> DEFINE P(i) == /\ \A j \in 1 .. i : k[q[j]] <= v
                     /\ \A j \in (i + 1) .. Len(q) : v < k[q[j]]
  <1>6. m \in 0 .. Len(q) /\ P(m)
    BY <1>3, <1>5 DEF n, key
  <1>7. Place(q, k, v) = CHOOSE i \in 0 .. Len(q) : P(i)
    BY DEF Place
  <1> HIDE DEF P
  <1>8. Place(q, k, v) \in 0 .. Len(q) /\ P(Place(q, k, v))
    BY <1>6, <1>7
  <1> QED
    BY <1>8 DEF P

\* r is q with n at place i + 1; r is q without the element at place i.
IsInserted(r, q, i, n) ==
    /\ Len(r) = Len(q) + 1 /\ r[i + 1] = n
    /\ \A j \in 1 .. i : r[j] = q[j]
    /\ \A j \in (i + 2) .. (Len(q) + 1) : r[j] = q[j - 1]

IsDropped(r, q, i) ==
    /\ Len(r) = Len(q) - 1
    /\ \A j \in 1 .. (i - 1) : r[j] = q[j]
    /\ \A j \in i .. (Len(q) - 1) : r[j] = q[j + 1]

LEMMA InsertFacts ==
    ASSUME NEW X, NEW q \in Seq(X), NEW n \in X, NEW i \in 0 .. Len(q),
           NEW r, r = InsertBehind(q, i, n)
    PROVE  r \in Seq(X) /\ IsInserted(r, q, i, n)
  <1> DEFINE z == Len(q)
  <1>1. z \in Nat /\ i \in 0 .. z /\ \A j \in 1 .. z : q[j] \in X
    OBVIOUS
  <1>2. r = [j \in 1 .. (z + 1) |-> IF j <= i THEN q[j] ELSE IF j = i + 1 THEN n ELSE q[j - 1]]
    BY DEF InsertBehind
  <1> HIDE DEF z
  <1>3. i + 1 \in 1 .. (z + 1) /\ ~(i + 1 <= i)
    BY <1>1
  <1>4. \A j \in 1 .. i : j \in 1 .. (z + 1) /\ j <= i /\ j \in 1 .. z
    BY <1>1
  <1>5. \A j \in (i + 2) .. (z + 1) : j \in 1 .. (z + 1) /\ ~(j <= i) /\ j # i + 1 /\ j - 1 \in 1 .. z
    BY <1>1
  <1>6. \A j \in 1 .. (z + 1) : j \in 1 .. i \/ j = i + 1 \/ j \in (i + 2) .. (z + 1)
    BY <1>1
  <1>7. /\ r[i + 1] = n
        /\ \A j \in 1 .. i : r[j] = q[j]
        /\ \A j \in (i + 2) .. (z + 1) : r[j] = q[j - 1]
    BY <1>2, <1>3, <1>4, <1>5
  <1>8. \A j \in 1 .. (z + 1) : r[j] \in X
    BY <1>1, <1>4, <1>5, <1>6, <1>7
  <1>9. r \in Seq(X) /\ Len(r) = z + 1
    BY <1>1, <1>2, <1>8
  <1> QED
    BY <1>7, <1>9 DEF z, IsInserted

\* Insertion into the queue.
LEMMA EnqueueFacts ==
    ASSUME NEW X, NEW q \in Seq(X), NEW k \in [X -> Nat], NEW n \in X,
           IsSorted(q, k), Distinct(q), n \notin Members(q), NEW r, r = Enqueued(q, k, n)
    PROVE  /\ r \in Seq(X) /\ Len(r) = Len(q) + 1 /\ Members(r) = Members(q) \cup {n}
           /\ IsSorted(r, k) /\ Distinct(r)
           /\ LeftAfterEnqueue(q, FirstOf(q), k, n) = FirstOf(r)
  <1> DEFINE i == Place(q, k, k[n])
             z == Len(q)
  <1>1. z \in Nat /\ \A j \in 1 .. z : q[j] \in X /\ k[q[j]] \in Int
    OBVIOUS
  <1>2. /\ i \in 0 .. z /\ k[n] \in Int
        /\ \A j \in 1 .. i : k[q[j]] <= k[n]
        /\ \A j \in (i + 1) .. z : k[n] < k[q[j]]
    <2>1. k[n] \in Int
      OBVIOUS
    <2> QED
      BY <1>1, <2>1, PlaceFound, Zenon
  <1>3. LeftAfterEnqueue(q, FirstOf(q), k, n) = IF i = 0 THEN n ELSE FirstOf(q)
    BY DEF LeftAfterEnqueue
  <1>4. r = InsertBehind(q, i, n)
    BY DEF Enqueued
  <1> HIDE DEF i
  <1>5. /\ r \in Seq(X) /\ Len(r) = z + 1 /\ r[i + 1] = n
        /\ \A j \in 1 .. i : r[j] = q[j]
        /\ \A j \in (i + 2) .. (z + 1) : r[j] = q[j - 1]
    <2>1. i \in 0 .. Len(q)
      BY <1>2
    <2>2. r \in Seq(X) /\ IsInserted(r, q, i, n)
      BY <1>4, <2>1, InsertFacts
    <2> QED
      BY <2>2 DEF IsInserted
  <1>6. /\ \A a, b \in 1 .. z : a < b => k[q[a]] <= k[q[b]]
        /\ \A a, b \in 1 .. z : q[a] = q[b] => a = b
        /\ \A a \in 1 .. z : q[a] # n
    BY DEF IsSorted, Distinct, Members
  <1> HIDE DEF z
  \* Where the elements of r come from.
  <1> DEFINE at(j) == IF j <= i THEN j ELSE j - 1
  <1>7. \A j \in 1 .. (z + 1) : j # i + 1 => at(j) \in 1 .. z /\ r[j] = q[at(j)]
    <2>1. ASSUME NEW j \in 1 .. (z + 1), j <= i PROVE at(j) \in 1 .. z /\ r[j] = q[at(j)]
      BY <1>1, <1>2, <1>5, <2>1
    <2>2. ASSUME NEW j \in 1 .. (z + 1), ~(j <= i), j # i + 1
          PROVE  at(j) \in 1 .. z /\ r[j] = q[at(j)]
      <3>1. j \in (i + 2) .. (z + 1) /\ at(j) = j - 1 /\ j - 1 \in 1 .. z
        BY <1>1, <1>2, <2>2
      <3> QED
        BY <1>5, <3>1
    <2> QED
      BY <2>1, <2>2
  <1>8. \A j, m \in 1 .. (z + 1) : j # i + 1 /\ m # i + 1 /\ j < m => at(j) < at(m)
    BY <1>1, <1>2
  <1>9. \A j \in 1 .. z : \E m \in 1 .. (z + 1) : m # i + 1 /\ at(m) = j
    <2> SUFFICES ASSUME NEW j \in 1 .. z PROVE \E m \in 1 .. (z + 1) : m # i + 1 /\ at(m) = j
      OBVIOUS
    <2>1. CASE j <= i
      <3>1. j \in 1 .. (z + 1) /\ j # i + 1 /\ at(j) = j
        BY <1>1, <1>2, <2>1
      <3> QED
        BY <3>1
    <2>2. CASE ~(j <= i)
      <3>1. j + 1 \in 1 .. (z + 1) /\ j + 1 # i + 1 /\ at(j + 1) = j
        BY <1>1, <1>2, <2>2
      <3> QED
        BY <3>1
    <2> QED
      BY <2>1, <2>2
  <1>10. Members(r) = Members(q) \cup {n}
    <2>0. Members(q) = {q[j] : j \in 1 .. z} /\ Members(r) = {r[j] : j \in 1 .. (z + 1)}
      BY <1>5 DEF Members, z
    <2> HIDE DEF at
    <2>1. ASSUME NEW x \in Members(r) PROVE x \in Members(q) \cup {n}
      <3>1. PICK j \in 1 .. (z + 1) : x = r[j]
        BY <2>0
      <3>2. CASE j = i + 1
        BY <1>5, <3>1, <3>2
      <3>3. CASE j # i + 1
        <4>1. at(j) \in 1 .. z /\ x = q[at(j)]
          BY <1>7, <3>1, <3>3
        <4> QED
          BY <2>0, <4>1
      <3> QED
        BY <3>2, <3>3
    <2>2. n \in Members(r)
      BY <1>1, <1>2, <1>5, <2>0
    <2>3. \A x \in Members(q) : x \in Members(r)
      BY <1>7, <1>9, <2>0
    <2> QED
      BY <2>1, <2>2, <2>3
  <1>11. ASSUME NEW j \in 1 .. (z + 1), NEW m \in 1 .. (z + 1), j < m
         PROVE  k[r[j]] <= k[r[m]]
    <2>1. CASE j # i + 1 /\ m # i + 1
      <3>1. at(j) < at(m)
        BY <1>8, <1>11, <2>1
      <3>2. /\ at(j) \in 1 .. z /\ r[j] = q[at(j)]
            /\ at(m) \in 1 .. z /\ r[m] = q[at(m)]
        BY <1>7, <1>11, <2>1
      <3> HIDE DEF at
      <3> QED
        BY <1>6, <3>1, <3>2
    <2>2. CASE j = i + 1
      <3>1. m - 1 \in (i + 1) .. z /\ m \in (i + 2) .. (z + 1)
        BY <1>1, <1>2, <1>11, <2>2
      <3>2. r[m] = q[m - 1] /\ r[j] = n /\ k[n] < k[q[m - 1]]
        <4>1. r[m] = q[m - 1]
          BY <1>5, <3>1
        <4>2. r[j] = n
          BY <1>5, <2>2
        <4>3. k[n] < k[q[m - 1]]
          BY <1>2, <3>1 DEF z
        <4> QED
          BY <4>1, <4>2, <4>3
      <3>3. m - 1 \in 1 .. z
        BY <1>1, <1>2, <3>1
      <3> QED
        BY <1>1, <1>2, <3>2, <3>3
    <2>3. CASE m = i + 1
      <3>1. j \in 1 .. i
        BY <1>1, <1>2, <1>11, <2>3
      <3> QED
        BY <1>2, <1>5, <2>3, <3>1
    <2> QED
      BY <2>1, <2>2, <2>3
  <1>12. IsSorted(r, k)
    BY <1>5, <1>11 DEF IsSorted
  <1>13. ASSUME NEW j \in 1 .. (z + 1), NEW m \in 1 .. (z + 1), r[j] = r[m], j # m
         PROVE  FALSE
    <2>1. CASE j = i + 1
      <3>1. r[m] = n /\ m # i + 1
        BY <1>5, <1>13, <2>1
      <3> QED
        BY <1>6, <1>7, <3>1
    <2>3. CASE m = i + 1
      <3>1. r[j] = n /\ j # i + 1
        BY <1>5, <1>13, <2>3
      <3> QED
        BY <1>6, <1>7, <3>1
    <2>2. CASE j # i + 1 /\ m # i + 1
      <3>1. at(j) = at(m) /\ at(j) \in 1 .. z /\ at(m) \in 1 .. z
        <4>1. /\ at(j) \in 1 .. z /\ r[j] = q[at(j)]
              /\ at(m) \in 1 .. z /\ r[m] = q[at(m)]
          BY <1>7, <2>2
        <4>2. q[at(j)] = q[at(m)]
          <5> HIDE DEF at
          <5> QED
            BY <1>13, <4>1, Zenon
        <4> HIDE DEF at
        <4> QED
          BY <1>6, <4>1, <4>2
      <3>2. at(j) < at(m) \/ at(m) < at(j)
        BY <1>8, <1>13, <2>2
      <3> HIDE DEF at
      <3> QED
        BY <3>1, <3>2
    <2> QED
      BY <2>1, <2>2, <2>3
  <1>14. Distinct(r)
    BY <1>5, <1>13 DEF Distinct
  <1>15. FirstOf(r) = IF i = 0 THEN n ELSE FirstOf(q)
    <2>1. r # <<>>
      BY <1>1, <1>5
    <2>2. CASE i = 0
      BY <1>5, <2>1, <2>2 DEF FirstOf
    <2>3. CASE i # 0
      <3>1. 1 \in 1 .. i /\ z # 0
        BY <1>1, <1>2, <2>3
      <3>2. q # <<>>
        BY <3>1 DEF z
      <3> QED
        BY <1>5, <2>1, <2>3, <3>1, <3>2 DEF FirstOf
    <2> QED
      BY <2>2, <2>3
  <1> QED
    BY <1>3, <1>5, <1>10, <1>12, <1>14, <1>15 DEF z

LEMMA DropFacts ==
    ASSUME NEW X, NEW q \in Seq(X), NEW i \in 1 .. Len(q), NEW r, r = DropAt(q, i)
    PROVE  r \in Seq(X) /\ IsDropped(r, q, i)
  <1> DEFINE z == Len(q)
  <1>1. z \in Nat /\ i \in 1 .. z /\ \A j \in 1 .. z : q[j] \in X
    OBVIOUS
  <1>2. r = [j \in 1 .. (z - 1) |-> IF j < i THEN q[j] ELSE q[j + 1]]
    BY DEF DropAt
  <1> HIDE DEF z
  <1>3. \A j \in 1 .. (i - 1) : j \in 1 .. (z - 1) /\ j < i /\ j \in 1 .. z
    BY <1>1
  <1>4. \A j \in i .. (z - 1) : j \in 1 .. (z - 1) /\ ~(j < i) /\ j + 1 \in 1 .. z
    BY <1>1
  <1>5. \A j \in 1 .. (z - 1) : j \in 1 .. (i - 1) \/ j \in i .. (z - 1)
    BY <1>1
  <1>6. /\ \A j \in 1 .. (i - 1) : r[j] = q[j]
        /\ \A j \in i .. (z - 1) : r[j] = q[j + 1]
    BY <1>2, <1>3, <1>4
  <1>7. \A j \in 1 .. (z - 1) : r[j] \in X
    BY <1>1, <1>3, <1>4, <1>5, <1>6
  <1>8. r \in Seq(X) /\ Len(r) = z - 1
    <2>1. z - 1 \in Nat
      BY <1>1
    <2> QED
      BY <1>2, <1>7, <2>1
  <1> QED
    BY <1>6, <1>8 DEF z, IsDropped

\* Removal from the queue, of an element anywhere.
LEMMA DequeueFacts ==
    ASSUME NEW X, NEW q \in Seq(X), NEW k \in [X -> Nat], NEW n \in Members(q),
           IsSorted(q, k), Distinct(q), NEW r, r = Dequeued(q, n)
    PROVE  /\ r \in Seq(X) /\ Len(r) = Len(q) - 1 /\ Members(r) = Members(q) \ {n}
           /\ IsSorted(r, k) /\ Distinct(r)
           /\ LeftAfterDequeue(q, FirstOf(q), n) = FirstOf(r)
  <1> DEFINE i == CHOOSE j \in 1 .. Len(q) : q[j] = n
             z == Len(q)
  <1>1. z \in Nat /\ \A j \in 1 .. z : q[j] \in X /\ k[q[j]] \in Int
    OBVIOUS
  <1>2. i \in 1 .. z /\ q[i] = n
    BY DEF Members
  <1>3. r = DropAt(q, i)
    BY DEF Dequeued
  <1>4. LeftAfterDequeue(q, FirstOf(q), n) =
          IF FirstOf(q) # n THEN FirstOf(q) ELSE IF i < z THEN q[i + 1] ELSE NULL
    BY DEF LeftAfterDequeue
  <1> HIDE DEF i
  <1>5. /\ r \in Seq(X) /\ Len(r) = z - 1
        /\ \A j \in 1 .. (i - 1) : r[j] = q[j]
        /\ \A j \in i .. (z - 1) : r[j] = q[j + 1]
    <2>1. i \in 1 .. Len(q)
      BY <1>2
    <2>2. r \in Seq(X) /\ IsDropped(r, q, i)
      BY <1>3, <2>1, DropFacts
    <2> QED
      BY <2>2 DEF IsDropped
  <1>6. /\ \A a, b \in 1 .. z : a < b => k[q[a]] <= k[q[b]]
        /\ \A a, b \in 1 .. z : q[a] = q[b] => a = b
    BY DEF IsSorted, Distinct
  <1>7. q # <<>> /\ (z # 1 => r # <<>>) /\ (z = 1 => r = <<>>)
    BY <1>1, <1>2, <1>5, SMTT(30)
  <1>8. FirstOf(q) = q[1] /\ (z # 1 => FirstOf(r) = r[1]) /\ (z = 1 => FirstOf(r) = NULL)
    BY <1>7 DEF FirstOf
  <1>9. Members(q) = {q[j] : j \in 1 .. z} /\ Members(r) = {r[j] : j \in 1 .. (z - 1)}
    BY <1>5 DEF Members
  <1> HIDE DEF z
  \* Where the elements of r come from.
  <1> DEFINE at(j) == IF j < i THEN j ELSE j + 1
  <1>10. ASSUME NEW j \in 1 .. (z - 1) PROVE at(j) \in 1 .. z /\ at(j) # i /\ r[j] = q[at(j)]
    <2>1. CASE j < i
      BY <1>1, <1>2, <1>5, <2>1
    <2>2. CASE ~(j < i)
      <3>1. j \in i .. (z - 1) /\ at(j) = j + 1 /\ j + 1 \in 1 .. z /\ j + 1 # i
        BY <1>1, <1>2, <2>2
      <3> QED
        BY <1>5, <3>1
    <2> QED
      BY <2>1, <2>2
  <1>11. \A j, m \in 1 .. (z - 1) : j < m => at(j) < at(m)
    BY <1>1, <1>2
  <1>12. \A j \in 1 .. z : j # i => \E m \in 1 .. (z - 1) : at(m) = j
    <2> SUFFICES ASSUME NEW j \in 1 .. z, j # i PROVE \E m \in 1 .. (z - 1) : at(m) = j
      OBVIOUS
    <2>1. CASE j < i
      <3>1. j \in 1 .. (z - 1) /\ at(j) = j
        BY <1>1, <1>2, <2>1
      <3> QED
        BY <3>1
    <2>2. CASE ~(j < i)
      <3>1. j - 1 \in 1 .. (z - 1) /\ at(j - 1) = j
        BY <1>1, <1>2, <2>2
      <3> QED
        BY <3>1
    <2> QED
      BY <2>1, <2>2
  <1>13. Members(r) = Members(q) \ {n}
    <2>1. ASSUME NEW x \in Members(r) PROVE x \in Members(q) \ {n}
      <3>1. PICK j \in 1 .. (z - 1) : x = r[j]
        BY <1>9
      <3>2. at(j) \in 1 .. z /\ at(j) # i /\ x = q[at(j)]
        BY <1>10, <3>1
      <3> HIDE DEF at
      <3> QED
        BY <1>2, <1>6, <1>9, <3>2
    <2>2. ASSUME NEW x \in Members(q), x # n PROVE x \in Members(r)
      <3>1. PICK j \in 1 .. z : x = q[j]
        BY <1>9
      <3>2. PICK m \in 1 .. (z - 1) : at(m) = j
        BY <1>2, <1>12, <2>2, <3>1
      <3> QED
        BY <1>9, <1>10, <3>1, <3>2, Zenon
    <2> QED
      BY <2>1, <2>2, Zenon
  <1>14. ASSUME NEW j \in 1 .. (z - 1), NEW m \in 1 .. (z - 1), j < m
         PROVE  k[r[j]] <= k[r[m]]
    <2>1. at(j) < at(m)
      BY <1>11, <1>14
    <2>2. at(j) \in 1 .. z /\ r[j] = q[at(j)] /\ at(m) \in 1 .. z /\ r[m] = q[at(m)]
      BY <1>10
    <2> HIDE DEF at
    <2> QED
      BY <1>6, <2>1, <2>2
  <1>15. IsSorted(r, k)
    BY <1>5, <1>14, Zenon DEF IsSorted
  <1>16. ASSUME NEW j \in 1 .. (z - 1), NEW m \in 1 .. (z - 1), r[j] = r[m], j # m
         PROVE  FALSE
    <2>1. at(j) \in 1 .. z /\ r[j] = q[at(j)] /\ at(m) \in 1 .. z /\ r[m] = q[at(m)]
      BY <1>10
    <2>2. at(j) < at(m) \/ at(m) < at(j)
      BY <1>1, <1>2, <1>11, <1>16
    <2> HIDE DEF at
    <2>3. at(j) = at(m)
      BY <1>6, <1>16, <2>1, Zenon
    <2> QED
      BY <2>1, <2>2, <2>3
  <1>17. Distinct(r)
    BY <1>5, <1>16 DEF Distinct
  <1>18. LeftAfterDequeue(q, FirstOf(q), n) = FirstOf(r)
    <2>0. 1 \in 1 .. z
      BY <1>1, <1>2
    <2>1. CASE i = 1 /\ z # 1
      <3>1. 1 \in i .. (z - 1) /\ i < z
        BY <1>1, <1>2, <2>1
      <3>2. r[1] = q[i + 1] /\ FirstOf(q) = n /\ FirstOf(r) = r[1]
        BY <1>2, <1>5, <1>8, <2>1, <3>1
      <3> QED
        BY <1>4, <3>1, <3>2
    <2>2. CASE i = 1 /\ z = 1
      <3>1. ~(i < z)
        BY <2>2
      <3> QED
        BY <1>2, <1>4, <1>8, <2>2, <3>1
    <2>3. CASE i # 1
      <3>1. 1 \in 1 .. (i - 1) /\ z # 1
        BY <1>1, <1>2, <2>3
      <3>2. q[1] # n
        BY <1>2, <1>6, <2>0, <2>3
      <3> QED
        BY <1>4, <1>5, <1>8, <3>1, <3>2
    <2> QED
      BY <2>1, <2>2, <2>3
  <1> QED
    BY <1>5, <1>13, <1>15, <1>17, <1>18 DEF z

-----------------------------------------------------------------------------
(***************************************************************************)
(* The arithmetic of the scheduler.                                        *)
(***************************************************************************)

LEMMA WeightFacts ==
    ASSUME NEW nice \in Int
    PROVE  nice_to_weight(nice) \in Nat \ {0}
  <1> DEFINE n == IF nice < -20 THEN -20 ELSE IF nice > 19 THEN 19 ELSE nice
  <1>1. n \in -20 .. 19
    OBVIOUS
  <1>2. nice_to_weight(nice) = prio_to_weight[n + 21]
    BY DEF nice_to_weight
  <1> HIDE DEF n
  <1>3. n + 21 \in 1 .. 40
    BY <1>1
  <1>4. \A i \in 1 .. 40 : prio_to_weight[i] \in Nat \ {0}
    BY DEF prio_to_weight
  <1> QED
    BY <1>2, <1>3, <1>4

\* One tick is scaled without overflow.
LEMMA DeltaFacts ==
    ASSUME NEW w \in Nat \ {0}
    PROVE  calc_delta_fair(TICK, w) \in Nat /\ calc_delta_fair(TICK, w) <= TICK * 1024
  <1>1. TICK \in Nat \ {0} /\ U32 \in Nat /\ TICK * 1024 < U32
    BY CfsAssumption, WidthAssumption DEF NICE_0_LOAD
  <1> DEFINE x == TICK * 1024
  <1>2. x \in Nat /\ x < U32 /\ TICK <= x
    BY <1>1
  <1>3. CASE w # NICE_0_LOAD /\ TICK < U32 - 1
    <2>1. calc_delta_fair(TICK, w) = (x % U32) \div w
      BY <1>3 DEF calc_delta_fair, NICE_0_LOAD
    <2> HIDE DEF x
    <2>2. x % U32 = x
      BY <1>1, <1>2
    <2>3. x \div w \in Nat /\ x \div w <= x
      BY <1>2
    <2> QED
      BY <2>1, <2>2, <2>3 DEF x
  <1>4. CASE ~(w # NICE_0_LOAD /\ TICK < U32 - 1)
    <2>1. calc_delta_fair(TICK, w) = TICK
      BY <1>4, Zenon DEF calc_delta_fair
    <2> QED
      BY <1>1, <1>2, <2>1
  <1> QED
    BY <1>3, <1>4

\* min_vruntime never goes back, and becomes the key of one of the two tasks.
LEMMA UpdatedMinFacts ==
    ASSUME NEW min \in Nat, NEW curr \in Procs \cup {NULL}, NEW left \in Procs \cup {NULL},
           NEW vr \in [Procs -> Nat], NEW m, m = UpdatedMin(min, curr, left, vr)
    PROVE  /\ m \in Nat /\ min <= m
           /\ \/ m = min
              \/ curr # NULL /\ m = vr[curr]
              \/ left # NULL /\ m = vr[left]
  <1> DEFINE keys == {vr[p] : p \in {curr, left} \ {NULL}}
             low == CHOOSE k \in keys : \A j \in keys : k <= j
  <1>1. m = IF keys = {} \/ low <= min THEN min ELSE low
    BY DEF UpdatedMin
  <1>2. keys \subseteq Nat
    OBVIOUS
  <1> HIDE DEF keys
  <1>3. keys # {} => low \in keys
    BY <1>2, LeastNat, Zenon
  <1> HIDE DEF low
  <1>4. CASE keys = {} \/ low <= min
    BY <1>1, <1>4
  <1>5. CASE ~(keys = {} \/ low <= min)
    <2>1. m = low /\ low \in keys /\ ~(low <= min)
      BY <1>1, <1>3, <1>5
    <2>2. m \in Nat /\ min <= m
      BY <1>2, <2>1
    <2>3. \E p \in {curr, left} \ {NULL} : m = vr[p]
      BY <2>1 DEF keys
    <2> QED
      BY <2>2, <2>3
  <1> QED
    BY <1>4, <1>5

-----------------------------------------------------------------------------
(***************************************************************************)
(* The inductive invariant.                                                *)
(***************************************************************************)

Queued == {p \in Procs : on_rq[p]}

\* q holds the processes of the set S, sorted.
Queue(q, k, S) == q \in Seq(Procs) /\ IsSorted(q, k) /\ Distinct(q) /\ Members(q) = S

QueueOK ==
    /\ Queue(tasks_timeline, vruntime, Queued)
    /\ \A p \in Procs : /\ on_rq[p] <=> state[p] = "READY"
                        /\ state[p] = "RUNNING" <=> p = cfs_current
    /\ rb_leftmost = FirstOf(tasks_timeline)
    /\ nr_running = Len(tasks_timeline)

WeightsOK ==
    /\ total_weight = SumTo(QueuedWeight, MAX_PROCESSES)
    /\ \A p \in Active : weight[p] # 0

\* vruntime runs at most NICE_0_LOAD times as fast as the clock.
ClockOK ==
    /\ clock <= CLOCK_MAX
    /\ \A p \in Procs : vruntime[p] <= clock * 1024
    /\ min_vruntime <= clock * 1024

CfsInv == TypeOK /\ QueueOK /\ WeightsOK /\ NoDoubleCharge /\ ClockOK /\ MinVruntimeReached

LEMMA EnqueueKeeps ==
    ASSUME NEW q, NEW k \in [Procs -> Nat], NEW S, Queue(q, k, S), NEW n \in Procs, n \notin S
    PROVE  /\ Queue(Enqueued(q, k, n), k, S \cup {n})
           /\ Len(Enqueued(q, k, n)) = Len(q) + 1
           /\ LeftAfterEnqueue(q, FirstOf(q), k, n) = FirstOf(Enqueued(q, k, n))
  <1> DEFINE r == Enqueued(q, k, n)
  <1>1. q \in Seq(Procs) /\ IsSorted(q, k) /\ Distinct(q) /\ n \notin Members(q) /\ Members(q) = S
    BY DEF Queue
  <1>2. r = Enqueued(q, k, n)
    OBVIOUS
  <1> HIDE DEF r
  <1>3. /\ r \in Seq(Procs) /\ Len(r) = Len(q) + 1 /\ Members(r) = Members(q) \cup {n}
        /\ IsSorted(r, k) /\ Distinct(r)
        /\ LeftAfterEnqueue(q, FirstOf(q), k, n) = FirstOf(r)
    BY <1>1, <1>2, EnqueueFacts
  <1> QED
    BY <1>1, <1>3 DEF Queue, r

LEMMA DequeueKeeps ==
    ASSUME NEW q, NEW k \in [Procs -> Nat], NEW S, Queue(q, k, S), NEW n \in S
    PROVE  /\ Queue(Dequeued(q, n), k, S \ {n})
           /\ Len(Dequeued(q, n)) = Len(q) - 1 /\ Len(q) - 1 \in Nat
           /\ LeftAfterDequeue(q, FirstOf(q), n) = FirstOf(Dequeued(q, n))
  <1> DEFINE r == Dequeued(q, n)
  <1>1. q \in Seq(Procs) /\ IsSorted(q, k) /\ Distinct(q) /\ n \in Members(q) /\ Members(q) = S
    BY DEF Queue
  <1>2. r = Dequeued(q, n)
    OBVIOUS
  <1> HIDE DEF r
  <1>3. /\ r \in Seq(Procs) /\ Len(r) = Len(q) - 1 /\ Members(r) = Members(q) \ {n}
        /\ IsSorted(r, k) /\ Distinct(r)
        /\ LeftAfterDequeue(q, FirstOf(q), n) = FirstOf(r)
    BY <1>1, <1>2, DequeueFacts
  <1>4. Len(q) - 1 \in Nat
    <2>1. Len(r) \in Nat
      BY <1>3
    <2> QED
      BY <1>3, <2>1
  <1> QED
    BY <1>1, <1>3, <1>4 DEF Queue, r

\* The order depends on the keys of the members only.
LEMMA SameKeys ==
    ASSUME NEW q, NEW k, NEW l, NEW S, Queue(q, k, S), \A p \in S : l[p] = k[p]
    PROVE  Queue(q, l, S)
  BY DEF Queue, IsSorted, Members

\* The first of the queue is a queued process with the least key.
LEMMA FirstLeast ==
    ASSUME CfsInv
    PROVE  /\ rb_leftmost # NULL <=> tasks_timeline # <<>>
           /\ rb_leftmost # NULL => /\ rb_leftmost \in Queued
                                    /\ \A p \in Queued : vruntime[rb_leftmost] <= vruntime[p]
  <1>1. /\ tasks_timeline \in Seq(Procs) /\ Members(tasks_timeline) = Queued
        /\ IsSorted(tasks_timeline, vruntime)
        /\ rb_leftmost = FirstOf(tasks_timeline)
    BY DEF CfsInv, QueueOK, Queue
  <1>2. vruntime \in [Procs -> Nat]
    BY DEF CfsInv, TypeOK
  <1>3. CASE tasks_timeline = <<>>
    BY <1>1, <1>3 DEF FirstOf
  <1>4. CASE tasks_timeline # <<>>
    <2>1. rb_leftmost = tasks_timeline[1] /\ 1 \in 1 .. Len(tasks_timeline)
      BY <1>1, <1>4 DEF FirstOf
    <2>2. rb_leftmost \in Queued
      BY <1>1, <2>1 DEF Members
    <2>3. rb_leftmost # NULL
      BY <2>2 DEF Queued, Procs, NULL
    <2>4. ASSUME NEW p \in Queued PROVE vruntime[rb_leftmost] <= vruntime[p]
      <3>1. PICK i \in 1 .. Len(tasks_timeline) : p = tasks_timeline[i]
        BY <1>1 DEF Members
      <3>2. CASE i = 1
        BY <1>2, <2>1, <2>2, <3>1, <3>2 DEF Queued
      <3>3. CASE i # 1
        BY <1>1, <2>1, <3>1, <3>3 DEF IsSorted
      <3> QED
        BY <3>2, <3>3
    <2> QED
      BY <1>4, <2>2, <2>3, <2>4
  <1> QED
    BY <1>3, <1>4

LEMMA InitCfs == Init => CfsInv
  <1> SUFFICES ASSUME Init PROVE CfsInv
    OBVIOUS
  <1>1. MAX_PROCESSES \in Nat \ {0} /\ CLOCK_MAX \in Nat /\ Procs = 1 .. MAX_PROCESSES
    BY CfsAssumption DEF Procs
  <1>2. TypeOK
    BY <1>1 DEF Init, TypeOK, NULL
  <1>3. QueueOK
    <2>1. Queued = {} /\ tasks_timeline = <<>> /\ NULL \notin Procs
      BY <1>1 DEF Init, Queued, NULL
    <2>2. Queue(tasks_timeline, vruntime, Queued)
      BY <2>1 DEF Queue, IsSorted, Distinct, Members
    <2> QED
      BY <2>1, <2>2 DEF QueueOK, Init, FirstOf
  <1>4. Active = {}
    BY DEF Active, Init
  <1>5. WeightsOK
    <2>1. QueuedWeight = [p \in Procs |-> 0]
      BY DEF QueuedWeight, Init
    <2>2. QueuedWeight \in [1 .. MAX_PROCESSES -> Int] /\ \A p \in 1 .. MAX_PROCESSES : QueuedWeight[p] = 0
      BY <1>1, <2>1
    <2>3. SumTo(QueuedWeight, MAX_PROCESSES) = 0
      BY <1>1, <2>2, SumZero
    <2> QED
      BY <1>4, <2>3 DEF WeightsOK, Init
  <1>6. NoDoubleCharge
    <2>1. sum_exec \in [1 .. MAX_PROCESSES -> Int] /\ \A p \in 1 .. MAX_PROCESSES : sum_exec[p] = 0
      BY <1>1 DEF Init
    <2>2. SumTo(sum_exec, MAX_PROCESSES) = 0
      BY <1>1, <2>1, SumZero
    <2> QED
      BY <2>2 DEF NoDoubleCharge, Init
  <1>7. ClockOK /\ MinVruntimeReached
    BY <1>1, <1>4 DEF ClockOK, MinVruntimeReached, Init
  <1> QED
    BY <1>2, <1>3, <1>5, <1>6, <1>7 DEF CfsInv

\* cfs_create_process finds the first unused slot.
LEMMA UnusedFound ==
    ASSUME NEW p, ~\A i \in Procs : state[i] # "UNUSED",
           p = CHOOSE i \in Procs : /\ state[i] = "UNUSED"
                                    /\ \A j \in 1 .. (i - 1) : state[j] # "UNUSED"
    PROVE  p \in Procs /\ state[p] = "UNUSED"
  <1> DEFINE S == {i \in Procs : state[i] = "UNUSED"}
             P(i) == state[i] = "UNUSED" /\ \A j \in 1 .. (i - 1) : state[j] # "UNUSED"
  <1>1. S # {} /\ S \subseteq Nat
    BY CfsAssumption DEF Procs
  <1> HIDE DEF S
  <1>2. PICK m \in S : \A i \in S : m <= i
    BY <1>1, LeastNat, Zenon
  <1>3. m \in Procs /\ P(m)
    <2>1. m \in Procs /\ state[m] = "UNUSED"
      BY DEF S
    <2>2. ASSUME NEW j \in 1 .. (m - 1) PROVE state[j] # "UNUSED"
      <3>1. j \in Procs /\ ~(m <= j)
        BY <2>1, CfsAssumption DEF Procs
      <3> QED
        BY <1>2, <3>1 DEF S
    <2> QED
      BY <2>1, <2>2
  <1>4. p = CHOOSE i \in Procs : P(i)
    OBVIOUS
  <1> HIDE DEF P
  <1>5. p \in Procs /\ P(p)
    BY <1>3, <1>4, Zenon
  <1> QED
    BY <1>5 DEF P

\* One entry of a sum over the processes changes by d.
LEMMA SumChange ==
    ASSUME NEW f \in [Procs -> Int], NEW g \in [Procs -> Int], NEW p \in Procs, NEW d \in Int,
           \A i \in Procs : i # p => g[i] = f[i], g[p] = f[p] + d
    PROVE  SumTo(g, MAX_PROCESSES) = SumTo(f, MAX_PROCESSES) + d /\ SumTo(f, MAX_PROCESSES) \in Int
  <1>1. MAX_PROCESSES \in Nat /\ Procs = 1 .. MAX_PROCESSES
    BY CfsAssumption DEF Procs
  <1>2. /\ SumTo(g, MAX_PROCESSES) = SumTo(f, MAX_PROCESSES) + (g[p] - f[p])
        /\ SumTo(f, MAX_PROCESSES) \in Int
    BY <1>1, SumUpdate, Zenon
  <1>3. g[p] - f[p] = d
    OBVIOUS
  <1> QED
    BY <1>2, <1>3

LEMMA CreateKeeps ==
    ASSUME CfsInv, NEW nice \in Nices, cfs_create_process(nice), ~\A p \in Procs : state[p] # "UNUSED"
    PROVE  CfsInv'
  <1> DEFINE new == CHOOSE i \in Procs : /\ state[i] = "UNUSED"
                                         /\ \A j \in 1 .. (i - 1) : state[j] # "UNUSED"
             w == nice_to_weight(nice)
  <1>1. PICK p : p = new
    OBVIOUS
  <1>2. p \in Procs /\ state[p] = "UNUSED"
    BY <1>1, UnusedFound
  <1>3. w \in Nat \ {0}
    BY WeightFacts, CfsAssumption
  <1> DEFINE vr == [vruntime EXCEPT ![p] = min_vruntime]
  <1>4. /\ state' = [state EXCEPT ![p] = "READY"]
        /\ vruntime' = vr
        /\ weight' = [weight EXCEPT ![p] = w]
        /\ exec_start' = [exec_start EXCEPT ![p] = 0]
        /\ sum_exec' = [sum_exec EXCEPT ![p] = 0]
        /\ on_rq' = [on_rq EXCEPT ![p] = TRUE]
        /\ rb_leftmost' = LeftAfterEnqueue(tasks_timeline, rb_leftmost, vr, p)
        /\ tasks_timeline' = Enqueued(tasks_timeline, vr, p)
        /\ nr_running' = nr_running + 1
        /\ total_weight' = total_weight + w
        /\ min_vruntime' = min_vruntime /\ cfs_current' = cfs_current /\ clock' = clock
    BY <1>1, Zenon DEF cfs_create_process
  <1> HIDE DEF new, w, vr
  <1>5. TypeOK
    BY DEF CfsInv
  <1>6. /\ vr \in [Procs -> Nat] /\ vr[p] = min_vruntime
        /\ \A i \in Procs : i # p => vr[i] = vruntime[i]
    BY <1>2, <1>5 DEF TypeOK, vr
  <1>7. p \notin Queued /\ p # cfs_current /\ ~on_rq[p]
    BY <1>2 DEF CfsInv, QueueOK, Queued
  <1>8. /\ Queue(tasks_timeline', vr, Queued \cup {p})
        /\ Len(tasks_timeline') = nr_running + 1
        /\ rb_leftmost' = FirstOf(tasks_timeline')
    <2>1. /\ Queue(tasks_timeline, vruntime, Queued) /\ rb_leftmost = FirstOf(tasks_timeline)
          /\ nr_running = Len(tasks_timeline)
      BY DEF CfsInv, QueueOK
    <2>2. Queue(tasks_timeline, vr, Queued)
      <3>1. \A i \in Queued : vr[i] = vruntime[i]
        BY <1>6, <1>7 DEF Queued
      <3> QED
        BY <2>1, <3>1, SameKeys
    <2> QED
      BY <1>2, <1>4, <1>6, <1>7, <2>1, <2>2, EnqueueKeeps, Zenon
  <1>9. /\ state'[p] = "READY" /\ on_rq'[p] = TRUE
        /\ \A i \in Procs : i # p => state'[i] = state[i] /\ on_rq'[i] = on_rq[i]
    BY <1>2, <1>4, <1>5 DEF TypeOK
  <1>10. Queued' = Queued \cup {p}
    BY <1>2, <1>9 DEF Queued
  <1>11. QueueOK'
    <2>1. ASSUME NEW i \in Procs
          PROVE  /\ on_rq'[i] <=> state'[i] = "READY"
                 /\ state'[i] = "RUNNING" <=> i = cfs_current'
      <3>1. CASE i = p
        BY <1>4, <1>7, <1>9, <3>1
      <3>2. CASE i # p
        BY <1>4, <1>9, <3>2 DEF CfsInv, QueueOK
      <3> QED
        BY <3>1, <3>2
    <2> QED
      BY <1>4, <1>8, <1>10, <2>1 DEF QueueOK
  <1>12. /\ weight'[p] = w /\ \A i \in Procs : i # p => weight'[i] = weight[i]
    BY <1>2, <1>4, <1>5 DEF TypeOK
  <1>13. WeightsOK' /\ total_weight' \in Nat
    <2> DEFINE f == QueuedWeight
               g == QueuedWeight'
    <2>1. f = [i \in Procs |-> IF on_rq[i] THEN weight[i] ELSE 0]
      BY DEF QueuedWeight
    <2>2. g = [i \in Procs |-> IF on_rq'[i] THEN weight'[i] ELSE 0]
      BY DEF QueuedWeight
    <2>3. weight \in [Procs -> Nat] /\ weight' \in [Procs -> Nat]
      <3>1. weight \in [Procs -> Nat] /\ weight' = [weight EXCEPT ![p] = w]
        BY <1>4, <1>5, Zenon DEF TypeOK
      <3> QED
        BY <1>2, <1>3, <3>1
    <2> HIDE DEF f, g
    <2>4. f \in [Procs -> Int] /\ g \in [Procs -> Int]
      BY <2>1, <2>2, <2>3
    <2>5. f[p] = 0 /\ g[p] = w /\ \A i \in Procs : i # p => g[i] = f[i]
      BY <1>2, <1>7, <1>9, <1>12, <2>1, <2>2
    <2>6. SumTo(g, MAX_PROCESSES) = SumTo(f, MAX_PROCESSES) + w
      BY <1>2, <1>3, <2>4, <2>5, SumChange
    <2>7. total_weight = SumTo(f, MAX_PROCESSES)
      BY DEF CfsInv, WeightsOK, f
    <2>8. total_weight' = SumTo(g, MAX_PROCESSES)
      BY <1>4, <2>6, <2>7
    <2>9. \A i \in Active' : weight'[i] # 0
      BY <1>3, <1>9, <1>12 DEF CfsInv, WeightsOK, Active
    <2>10. total_weight' \in Nat
      BY <1>3, <1>4, <1>5 DEF TypeOK
    <2> QED
      BY <2>8, <2>9, <2>10 DEF WeightsOK, g
  <1>14. TypeOK'
    <2>1. tasks_timeline' \in Seq(Procs) /\ rb_leftmost' \in Procs \cup {NULL}
      BY <1>8 DEF Queue, FirstOf
    <2>2. /\ state' \in [Procs -> {"UNUSED", "READY", "RUNNING"}]
          /\ on_rq' \in [Procs -> BOOLEAN]
      BY <1>4, <1>5, Zenon DEF TypeOK
    <2>3. /\ vruntime' \in [Procs -> Nat] /\ weight' \in [Procs -> Nat]
          /\ exec_start' \in [Procs -> Nat] /\ sum_exec' \in [Procs -> Nat]
      BY <1>3, <1>4, <1>5, <1>6, Zenon DEF TypeOK
    <2>4. /\ min_vruntime' \in Nat /\ nr_running' \in Nat
          /\ cfs_current' \in Procs \cup {NULL} /\ clock' \in Nat
      <3>1. /\ min_vruntime \in Nat /\ nr_running \in Nat
            /\ cfs_current \in Procs \cup {NULL} /\ clock \in Nat
        BY <1>5, Zenon DEF TypeOK
      <3>2. /\ min_vruntime' = min_vruntime /\ nr_running' = nr_running + 1
            /\ cfs_current' = cfs_current /\ clock' = clock
        BY <1>4, Zenon
      <3> QED
        BY <3>1, <3>2
    <2> QED
      BY <1>13, <2>1, <2>2, <2>3, <2>4, Zenon DEF TypeOK
  <1>15. NoDoubleCharge'
    <2>1. sum_exec \in [Procs -> Int] /\ sum_exec' \in [Procs -> Int] /\ sum_exec[p] \in Nat
      <3>1. sum_exec \in [Procs -> Nat]
        BY <1>5, Zenon DEF TypeOK
      <3>2. sum_exec' = [sum_exec EXCEPT ![p] = 0]
        BY <1>4, Zenon
      <3> QED
        BY <1>2, <3>1, <3>2
    <2>2. sum_exec'[p] = 0 /\ \A i \in Procs : i # p => sum_exec'[i] = sum_exec[i]
      BY <1>2, <1>4, <2>1
    <2>3. /\ SumTo(sum_exec', MAX_PROCESSES) = SumTo(sum_exec, MAX_PROCESSES) + (0 - sum_exec[p])
          /\ SumTo(sum_exec, MAX_PROCESSES) \in Int
      <3> DEFINE d == 0 - sum_exec[p]
      <3>1. d \in Int /\ sum_exec'[p] = sum_exec[p] + d
        BY <2>1, <2>2
      <3> HIDE DEF d
      <3>2. /\ SumTo(sum_exec', MAX_PROCESSES) = SumTo(sum_exec, MAX_PROCESSES) + d
            /\ SumTo(sum_exec, MAX_PROCESSES) \in Int
        BY <1>2, <2>1, <2>2, <3>1, SumChange, Zenon
      <3> QED
        BY <3>2 DEF d
    <2>4. SumTo(sum_exec, MAX_PROCESSES) <= clock /\ clock \in Nat
      BY <1>5 DEF CfsInv, NoDoubleCharge, TypeOK
    <2>5. SumTo(sum_exec', MAX_PROCESSES) <= clock'
      <3> DEFINE a == SumTo(sum_exec', MAX_PROCESSES)
                 b == SumTo(sum_exec, MAX_PROCESSES)
                 c == sum_exec[p]
      <3>1. a = b + (0 - c) /\ b <= clock /\ clock \in Nat /\ b \in Int /\ c \in Nat /\ clock' = clock
        BY <1>4, <2>1, <2>2, <2>3, <2>4
      <3> HIDE DEF a, b, c
      <3>2. a <= clock'
        BY <3>1
      <3> QED
        BY <3>2 DEF a
    <2>6. cfs_current' # NULL => exec_start'[cfs_current'] = clock'
      BY <1>4, <1>5, <1>7 DEF CfsInv, NoDoubleCharge, TypeOK
    <2> QED
      BY <2>5, <2>6 DEF NoDoubleCharge
  <1>16. ClockOK'
    <2>1. \A i \in Procs : vr[i] <= clock * 1024
      BY <1>6 DEF CfsInv, ClockOK
    <2> QED
      BY <1>4, <2>1 DEF CfsInv, ClockOK
  <1>17. MinVruntimeReached'
    <2>1. p \in Active'
      BY <1>2, <1>9 DEF Active
    <2>2. min_vruntime' <= vruntime'[p]
      BY <1>4, <1>5, <1>6 DEF TypeOK
    <2> QED
      BY <2>1, <2>2 DEF MinVruntimeReached
  <1> QED
    BY <1>11, <1>13, <1>14, <1>15, <1>16, <1>17 DEF CfsInv

LEMMA FirstIn ==
    ASSUME NEW q, NEW k, NEW S, Queue(q, k, S)
    PROVE  /\ FirstOf(q) \in Procs \cup {NULL}
           /\ FirstOf(q) # NULL => FirstOf(q) \in S
  BY DEF Queue, FirstOf, Members

LEMMA IdleKeeps ==
    ASSUME CfsInv, TickIdle
    PROVE  CfsInv'
  <1> DEFINE left == LeftAfterDequeue(tasks_timeline, rb_leftmost, rb_leftmost)
  <1>1. PICK n : n = rb_leftmost
    OBVIOUS
  <1>2. TypeOK
    BY DEF CfsInv
  <1>3. n \in Queued /\ n \in Procs /\ on_rq[n] /\ state[n] = "READY"
    <2>1. n \in Queued
      BY <1>1, FirstLeast DEF TickIdle, cfs_pick_next_task
    <2> QED
      BY <2>1 DEF Queued, CfsInv, QueueOK
  <1>4. /\ tasks_timeline' = Dequeued(tasks_timeline, n)
        /\ rb_leftmost' = left
        /\ on_rq' = [on_rq EXCEPT ![n] = FALSE]
        /\ nr_running' = nr_running - 1
        /\ total_weight' = total_weight - weight[n]
        /\ min_vruntime' = UpdatedMin(min_vruntime, NULL, left, vruntime)
        /\ state' = [state EXCEPT ![n] = "RUNNING"]
        /\ exec_start' = [exec_start EXCEPT ![n] = clock + TICK]
        /\ cfs_current' = n /\ cfs_current = NULL
        /\ clock' = clock + TICK /\ clock + TICK <= CLOCK_MAX
        /\ vruntime' = vruntime /\ sum_exec' = sum_exec /\ weight' = weight
    BY <1>1, Zenon DEF TickIdle, cfs_pick_next_task
  <1>5. /\ Queue(tasks_timeline', vruntime, Queued \ {n})
        /\ Len(tasks_timeline') = nr_running - 1 /\ nr_running - 1 \in Nat
        /\ left = FirstOf(tasks_timeline')
    <2>1. /\ Queue(tasks_timeline, vruntime, Queued) /\ rb_leftmost = FirstOf(tasks_timeline)
          /\ nr_running = Len(tasks_timeline)
      BY DEF CfsInv, QueueOK
    <2>2. vruntime \in [Procs -> Nat]
      BY <1>2 DEF TypeOK
    <2>3. left = LeftAfterDequeue(tasks_timeline, FirstOf(tasks_timeline), n)
      BY <1>1, <2>1
    <2> HIDE DEF left
    <2> QED
      BY <1>3, <1>4, <2>1, <2>2, <2>3, DequeueKeeps, Zenon
  <1> HIDE DEF left
  <1>6. /\ state'[n] = "RUNNING" /\ on_rq'[n] = FALSE
        /\ \A i \in Procs : i # n => state'[i] = state[i] /\ on_rq'[i] = on_rq[i]
    BY <1>2, <1>3, <1>4 DEF TypeOK
  <1>7. Queued' = Queued \ {n} /\ Active' = Active
    BY <1>3, <1>6 DEF Queued, Active
  <1>8. /\ left \in Procs \cup {NULL}
        /\ left # NULL => left \in Queued \ {n}
    BY <1>5, FirstIn
  <1>9. QueueOK'
    <2>1. ASSUME NEW i \in Procs
          PROVE  /\ on_rq'[i] <=> state'[i] = "READY"
                 /\ state'[i] = "RUNNING" <=> i = cfs_current'
      <3>1. CASE i = n
        BY <1>4, <1>6, <3>1
      <3>2. CASE i # n
        <4>1. i # cfs_current
          BY <1>4 DEF Procs, NULL
        <4> QED
          BY <1>4, <1>6, <3>2, <4>1 DEF CfsInv, QueueOK
      <3> QED
        BY <3>1, <3>2
    <2> QED
      BY <1>4, <1>5, <1>7, <2>1 DEF QueueOK
  <1>10. WeightsOK' /\ total_weight' \in Nat
    <2> DEFINE f == QueuedWeight
               g == QueuedWeight'
    <2>1. f = [i \in Procs |-> IF on_rq[i] THEN weight[i] ELSE 0]
      BY DEF QueuedWeight
    <2>2. g = [i \in Procs |-> IF on_rq'[i] THEN weight[i] ELSE 0]
      BY <1>4 DEF QueuedWeight
    <2>3. weight \in [Procs -> Nat]
      BY <1>2 DEF TypeOK
    <2>4. total_weight = SumTo(f, MAX_PROCESSES)
      BY DEF CfsInv, WeightsOK
    <2> HIDE DEF f, g
    <2>5. f \in [Procs -> Nat] /\ g \in [Procs -> Nat] /\ f \in [Procs -> Int] /\ g \in [Procs -> Int]
      BY <2>1, <2>2, <2>3
    <2>6. f[n] = weight[n] /\ g[n] = 0 /\ \A i \in Procs : i # n => g[i] = f[i]
      BY <1>3, <1>6, <2>1, <2>2
    <2>7. total_weight' = SumTo(g, MAX_PROCESSES)
      <3> DEFINE d == 0 - weight[n]
      <3>1. d \in Int /\ g[n] = f[n] + d /\ total_weight' = total_weight + d
        BY <1>2, <1>3, <1>4, <2>3, <2>6 DEF TypeOK
      <3> HIDE DEF d
      <3>2. SumTo(g, MAX_PROCESSES) = SumTo(f, MAX_PROCESSES) + d
        BY <1>3, <2>5, <2>6, <3>1, SumChange
      <3> QED
        BY <2>4, <3>1, <3>2
    <2>8. SumTo(g, MAX_PROCESSES) \in Nat
      BY <2>5, SumNat, CfsAssumption DEF Procs
    <2> QED
      BY <1>4, <1>7, <2>7, <2>8 DEF WeightsOK, CfsInv, g
  <1>11. /\ min_vruntime' \in Nat
         /\ min_vruntime' = min_vruntime \/ (left # NULL /\ min_vruntime' = vruntime[left])
    <2>1. NULL \in Procs \cup {NULL} /\ vruntime \in [Procs -> Nat] /\ min_vruntime \in Nat
      BY <1>2 DEF TypeOK
    <2>2. min_vruntime' = UpdatedMin(min_vruntime, NULL, left, vruntime)
      BY <1>4
    <2> QED
      BY <1>8, <2>1, <2>2, UpdatedMinFacts
  <1>12. TICK \in Nat /\ clock \in Nat /\ clock + TICK \in Nat
    BY <1>2, CfsAssumption DEF TypeOK
  <1>13. TypeOK'
    <2>1. tasks_timeline' \in Seq(Procs)
      BY <1>5 DEF Queue
    <2>2. /\ state' \in [Procs -> {"UNUSED", "READY", "RUNNING"}]
          /\ on_rq' \in [Procs -> BOOLEAN]
      BY <1>4, <1>2, Zenon DEF TypeOK
    <2>3. /\ vruntime' \in [Procs -> Nat] /\ weight' \in [Procs -> Nat]
          /\ exec_start' \in [Procs -> Nat] /\ sum_exec' \in [Procs -> Nat]
      BY <1>2, <1>4, <1>12, Zenon DEF TypeOK
    <2> QED
      BY <1>3, <1>4, <1>5, <1>8, <1>10, <1>11, <1>12, <2>1, <2>2, <2>3 DEF TypeOK
  <1>14. NoDoubleCharge'
    <2>1. SumTo(sum_exec, MAX_PROCESSES) \in Int
      <3>1. sum_exec \in [Procs -> Nat]
        BY <1>2 DEF TypeOK
      <3> QED
        BY <3>1, SumNat, CfsAssumption DEF Procs
    <2>2. SumTo(sum_exec', MAX_PROCESSES) <= clock'
      BY <1>4, <1>12, <2>1 DEF CfsInv, NoDoubleCharge
    <2>3. exec_start'[n] = clock + TICK
      BY <1>2, <1>3, <1>4 DEF TypeOK
    <2> QED
      BY <1>4, <2>2, <2>3 DEF NoDoubleCharge
  <1>15. ClockOK'
    <2>1. \A p \in Procs : vruntime[p] \in Nat /\ vruntime[p] <= clock * 1024
      BY <1>2 DEF TypeOK, CfsInv, ClockOK
    <2>2. \A x \in Nat : x <= clock * 1024 => x <= (clock + TICK) * 1024
      BY <1>12
    <2>3. min_vruntime' <= clock * 1024
      BY <1>8, <1>11, <2>1 DEF CfsInv, ClockOK
    <2> QED
      BY <1>4, <1>11, <2>1, <2>2, <2>3 DEF ClockOK
  <1>16. MinVruntimeReached'
    <2>1. CASE min_vruntime' = min_vruntime
      BY <1>4, <1>7, <2>1 DEF CfsInv, MinVruntimeReached
    <2>2. CASE left # NULL /\ min_vruntime' = vruntime[left]
      <3>1. left \in Procs /\ on_rq[left]
        BY <1>8, <2>2 DEF Queued
      <3>2. left \in Active
        BY <3>1 DEF CfsInv, QueueOK, Active
      <3>3. min_vruntime' <= vruntime[left]
        BY <1>11, <2>2
      <3> QED
        BY <1>4, <1>7, <3>2, <3>3 DEF MinVruntimeReached
    <2> QED
      BY <1>11, <2>1, <2>2
  <1> QED
    BY <1>9, <1>10, <1>13, <1>14, <1>15, <1>16 DEF CfsInv

\* cfs_update_curr charges the current task for one tick, or not at all, and
\* leaves the queue sorted: the current task is not in it.
LEMMA ChargedFacts ==
    ASSUME CfsInv, cfs_current # NULL
    PROVE  /\ cfs_current \in Procs /\ cfs_current \notin Queued /\ state[cfs_current] = "RUNNING"
           /\ Charged \in [Procs -> Nat]
           /\ \A p \in Procs : p # cfs_current => Charged[p] = vruntime[p]
           /\ vruntime[cfs_current] <= Charged[cfs_current]
           /\ \A p \in Procs : Charged[p] <= (clock + TICK) * 1024
           /\ DeltaExec \in 0 .. TICK
           /\ Queue(tasks_timeline, Charged, Queued)
  <1>1. PICK c : c = cfs_current
    OBVIOUS
  <1>2. TypeOK
    BY DEF CfsInv
  <1>3. c \in Procs /\ state[c] = "RUNNING" /\ c \notin Queued /\ c \in Active
    BY <1>1, <1>2 DEF CfsInv, QueueOK, TypeOK, Queued, Active
  <1>4. exec_start[c] = clock /\ clock \in Nat /\ TICK \in Nat
    BY <1>1, <1>2, CfsAssumption DEF CfsInv, NoDoubleCharge, TypeOK
  <1>5. weight[c] \in Nat \ {0}
    BY <1>2, <1>3 DEF CfsInv, WeightsOK, TypeOK
  <1>6. exec_start[c] # 0 => DeltaExec = TICK
    BY <1>1, <1>4 DEF DeltaExec
  <1>7. DeltaExec \in 0 .. TICK
    BY <1>1, <1>4, <1>6 DEF DeltaExec
  <1> DEFINE add == IF exec_start[c] = 0 THEN 0 ELSE calc_delta_fair(TICK, weight[c])
  <1>8. add \in Nat /\ add <= TICK * 1024
    <2>1. CASE exec_start[c] = 0
      BY <1>4, <2>1
    <2>2. CASE exec_start[c] # 0
      BY <1>5, <2>2, DeltaFacts
    <2> QED
      BY <2>1, <2>2
  <1>9. /\ vruntime \in [Procs -> Nat]
        /\ \A p \in Procs : vruntime[p] <= clock * 1024
    BY <1>2 DEF TypeOK, CfsInv, ClockOK
  <1>10. Charged = [vruntime EXCEPT ![c] = vruntime[c] + add]
    <2>1. CASE exec_start[c] = 0
      <3>1. add = 0 /\ vruntime[c] + 0 = vruntime[c]
        BY <1>3, <1>9, <2>1
      <3> QED
        BY <1>1, <2>1, <3>1, Zenon DEF Charged
    <2>2. CASE exec_start[c] # 0
      BY <1>1, <1>6, <2>2, Zenon DEF Charged
    <2> QED
      BY <2>1, <2>2
  <1> HIDE DEF add
  <1>11. /\ Charged \in [Procs -> Nat] /\ Charged[c] = vruntime[c] + add
         /\ \A p \in Procs : p # c => Charged[p] = vruntime[p]
    BY <1>3, <1>8, <1>9, <1>10
  <1>12. vruntime[c] <= Charged[c]
    BY <1>3, <1>8, <1>9, <1>11
  <1>13. ASSUME NEW p \in Procs PROVE Charged[p] <= (clock + TICK) * 1024
    <2>1. vruntime[p] \in Nat /\ vruntime[p] <= clock * 1024
      BY <1>9
    <2>2. CASE p = c
      <3>1. Charged[p] = vruntime[p] + add
        BY <1>11, <2>2
      <3> QED
        BY <1>4, <1>8, <2>1, <3>1
    <2>3. CASE p # c
      <3>1. Charged[p] = vruntime[p]
        BY <1>11, <2>3
      <3> QED
        BY <1>4, <2>1, <3>1
    <2> QED
      BY <2>2, <2>3
  <1>14. Queue(tasks_timeline, Charged, Queued)
    <2>1. Queue(tasks_timeline, vruntime, Queued)
      BY DEF CfsInv, QueueOK
    <2>2. \A p \in Queued : Charged[p] = vruntime[p]
      BY <1>3, <1>11 DEF Queued
    <2> QED
      BY <2>1, <2>2, SameKeys
  <1> QED
    BY <1>1, <1>3, <1>7, <1>11, <1>12, <1>13, <1>14

\* The minimum of cfs_update_curr stays within the clock and is reached.
LEMMA MinChargedFacts ==
    ASSUME CfsInv, cfs_current # NULL
    PROVE  /\ MinCharged \in Nat /\ MinCharged <= (clock + TICK) * 1024
           /\ \E p \in Active : MinCharged <= Charged[p]
  <1>1. /\ cfs_current \in Procs /\ Charged \in [Procs -> Nat]
        /\ \A p \in Procs : Charged[p] <= (clock + TICK) * 1024
        /\ vruntime[cfs_current] <= Charged[cfs_current]
        /\ \A p \in Procs : p # cfs_current => Charged[p] = vruntime[p]
        /\ cfs_current \in Active
    BY ChargedFacts DEF Active
  <1>2. /\ min_vruntime \in Nat /\ rb_leftmost \in Procs \cup {NULL} /\ vruntime \in [Procs -> Nat]
        /\ clock \in Nat /\ TICK \in Nat
    BY CfsAssumption DEF CfsInv, TypeOK
  <1>3. \/ MinCharged = min_vruntime
        \/ MinCharged = Charged[cfs_current]
        \/ rb_leftmost # NULL /\ MinCharged = Charged[rb_leftmost]
    <2>1. CASE exec_start[cfs_current] = 0
      BY <2>1 DEF MinCharged
    <2>2. CASE exec_start[cfs_current] # 0
      <3>1. MinCharged = UpdatedMin(min_vruntime, cfs_current, rb_leftmost, Charged)
        BY <2>2 DEF MinCharged
      <3> QED
        BY <1>1, <1>2, <3>1, UpdatedMinFacts
    <2> QED
      BY <2>1, <2>2
  <1>4. CASE MinCharged = min_vruntime
    <2>1. min_vruntime <= clock * 1024
      BY DEF CfsInv, ClockOK
    <2>2. min_vruntime <= (clock + TICK) * 1024
      BY <1>2, <2>1
    <2>3. PICK p \in Active : min_vruntime <= vruntime[p]
      BY <1>1 DEF CfsInv, MinVruntimeReached
    <2>4. min_vruntime <= Charged[p]
      <3>1. p \in Procs
        BY DEF Active
      <3>2. vruntime[p] \in Nat /\ Charged[p] \in Nat /\ vruntime[p] <= Charged[p]
        BY <1>1, <1>2, <3>1
      <3> QED
        BY <1>2, <2>3, <3>2
    <2> QED
      BY <1>2, <1>4, <2>2, <2>4
  <1>5. ASSUME NEW p \in Active, MinCharged = Charged[p]
        PROVE  /\ MinCharged \in Nat /\ MinCharged <= (clock + TICK) * 1024
               /\ \E i \in Active : MinCharged <= Charged[i]
    <2>1. p \in Procs
      BY DEF Active
    <2>2. Charged[p] \in Nat /\ Charged[p] <= Charged[p]
      BY <1>1, <2>1
    <2> QED
      BY <1>1, <1>5, <2>1, <2>2
  <1>6. rb_leftmost # NULL => rb_leftmost \in Active
    BY FirstLeast DEF Queued, Active, CfsInv, QueueOK
  <1> QED
    BY <1>1, <1>3, <1>4, <1>5, <1>6

\* What the current task is charged keeps the sum of all charges within the
\* clock.
LEMMA ChargeKeeps ==
    ASSUME CfsInv, cfs_current # NULL,
           NEW s, s = [sum_exec EXCEPT ![cfs_current] = @ + DeltaExec]
    PROVE  /\ s \in [Procs -> Nat]
           /\ SumTo(s, MAX_PROCESSES) \in Nat /\ SumTo(s, MAX_PROCESSES) <= clock + TICK
  <1>1. cfs_current \in Procs /\ DeltaExec \in 0 .. TICK
    BY ChargedFacts
  <1>2. sum_exec \in [Procs -> Nat] /\ clock \in Nat /\ TICK \in Nat
    BY CfsAssumption DEF CfsInv, TypeOK
  <1>3. DeltaExec \in Nat /\ DeltaExec \in Int /\ DeltaExec <= TICK
    BY <1>1, <1>2
  <1>4. /\ s \in [Procs -> Nat]
        /\ \A i \in Procs : i # cfs_current => s[i] = sum_exec[i]
        /\ s[cfs_current] = sum_exec[cfs_current] + DeltaExec
    BY <1>1, <1>2, <1>3
  <1>5. s \in [Procs -> Int] /\ sum_exec \in [Procs -> Int]
    BY <1>2, <1>4
  <1>6. /\ SumTo(s, MAX_PROCESSES) = SumTo(sum_exec, MAX_PROCESSES) + DeltaExec
        /\ SumTo(sum_exec, MAX_PROCESSES) \in Int
    <2>1. PICK t, u, c, d : t = s /\ u = sum_exec /\ c = cfs_current /\ d = DeltaExec
      OBVIOUS
    <2>2. /\ t \in [Procs -> Int] /\ u \in [Procs -> Int] /\ c \in Procs /\ d \in Int
          /\ \A i \in Procs : i # c => t[i] = u[i]
          /\ t[c] = u[c] + d
      BY <1>1, <1>3, <1>4, <1>5, <2>1
    <2>3. SumTo(t, MAX_PROCESSES) = SumTo(u, MAX_PROCESSES) + d /\ SumTo(u, MAX_PROCESSES) \in Int
      BY <2>2, SumChange
    <2> QED
      BY <2>1, <2>3
  <1>7. SumTo(s, MAX_PROCESSES) \in Nat
    BY <1>4, SumNat, CfsAssumption, Zenon DEF Procs
  <1>8. SumTo(sum_exec, MAX_PROCESSES) <= clock
    BY DEF CfsInv, NoDoubleCharge
  <1>9. SumTo(s, MAX_PROCESSES) <= clock + TICK
    BY <1>2, <1>3, <1>6, <1>8
  <1> QED
    BY <1>4, <1>7, <1>9

LEMMA KeepKeeps ==
    ASSUME CfsInv, TickKeep
    PROVE  CfsInv'
  <1>1. TypeOK /\ cfs_current # NULL
    BY DEF CfsInv, TickKeep
  <1>2. /\ vruntime' = Charged
        /\ sum_exec' = [sum_exec EXCEPT ![cfs_current] = @ + DeltaExec]
        /\ exec_start' = [exec_start EXCEPT ![cfs_current] = clock + TICK]
        /\ min_vruntime' = MinCharged
        /\ clock' = clock + TICK /\ clock + TICK <= CLOCK_MAX
        /\ state' = state /\ weight' = weight /\ on_rq' = on_rq
        /\ tasks_timeline' = tasks_timeline /\ rb_leftmost' = rb_leftmost
        /\ nr_running' = nr_running /\ total_weight' = total_weight /\ cfs_current' = cfs_current
    BY DEF TickKeep
  <1>3. /\ cfs_current \in Procs /\ Charged \in [Procs -> Nat]
        /\ \A p \in Procs : Charged[p] <= (clock + TICK) * 1024
        /\ Queue(tasks_timeline, Charged, Queued)
    BY <1>1, ChargedFacts
  <1>4. /\ MinCharged \in Nat /\ MinCharged <= (clock + TICK) * 1024
        /\ \E p \in Active : MinCharged <= Charged[p]
    BY <1>1, MinChargedFacts
  <1>5. /\ sum_exec' \in [Procs -> Nat]
        /\ SumTo(sum_exec', MAX_PROCESSES) <= clock + TICK
    BY <1>1, <1>2, ChargeKeeps, Zenon
  <1>6. clock + TICK \in Nat
    BY <1>1, CfsAssumption DEF TypeOK
  <1>7. /\ exec_start' \in [Procs -> Nat] /\ exec_start'[cfs_current] = clock + TICK
    BY <1>1, <1>2, <1>3, <1>6 DEF TypeOK
  <1>8. Queued' = Queued /\ Active' = Active /\ QueuedWeight' = QueuedWeight
    BY <1>2 DEF Queued, Active, QueuedWeight
  <1>9. TypeOK'
    <2>1. /\ state' \in [Procs -> {"UNUSED", "READY", "RUNNING"}] /\ weight' \in [Procs -> Nat]
          /\ on_rq' \in [Procs -> BOOLEAN] /\ tasks_timeline' \in Seq(Procs)
          /\ rb_leftmost' \in Procs \cup {NULL} /\ nr_running' \in Nat /\ total_weight' \in Nat
          /\ cfs_current' \in Procs \cup {NULL}
      BY <1>1, <1>2 DEF TypeOK
    <2>2. vruntime' \in [Procs -> Nat] /\ min_vruntime' \in Nat /\ clock' \in Nat
      BY <1>2, <1>3, <1>4, <1>6
    <2> QED
      BY <1>5, <1>7, <2>1, <2>2, Zenon DEF TypeOK
  <1>10. QueueOK'
    <2>1. /\ \A p \in Procs : /\ on_rq[p] <=> state[p] = "READY"
                              /\ state[p] = "RUNNING" <=> p = cfs_current
          /\ rb_leftmost = FirstOf(tasks_timeline) /\ nr_running = Len(tasks_timeline)
      BY Zenon DEF CfsInv, QueueOK
    <2>2. Queue(tasks_timeline', vruntime', Queued')
      BY <1>2, <1>3, <1>8
    <2>3. \A p \in Procs : /\ on_rq'[p] <=> state'[p] = "READY"
                           /\ state'[p] = "RUNNING" <=> p = cfs_current'
      BY <1>2, <2>1
    <2>4. rb_leftmost' = FirstOf(tasks_timeline') /\ nr_running' = Len(tasks_timeline')
      BY <1>2, <2>1
    <2> QED
      BY <2>2, <2>3, <2>4, Zenon DEF QueueOK
  <1>11. WeightsOK'
    BY <1>2, <1>8 DEF CfsInv, WeightsOK
  <1>12. NoDoubleCharge'
    BY <1>2, <1>5, <1>7 DEF NoDoubleCharge
  <1>13. ClockOK'
    BY <1>2, <1>3, <1>4 DEF ClockOK
  <1>14. MinVruntimeReached'
    BY <1>2, <1>4, <1>8 DEF MinVruntimeReached
  <1> QED
    BY <1>9, <1>10, <1>11, <1>12, <1>13, <1>14 DEF CfsInv

\* total_weight when the weight of c is added and that of n taken away.
LEMMA SwitchWeights ==
    ASSUME NEW f \in [Procs -> Nat], NEW g \in [Procs -> Nat], NEW c \in Procs, NEW n \in Procs,
           c # n, f[c] = 0, g[n] = 0, \A i \in Procs : i # c /\ i # n => g[i] = f[i]
    PROVE  /\ SumTo(g, MAX_PROCESSES) = (SumTo(f, MAX_PROCESSES) + g[c]) - f[n]
           /\ SumTo(g, MAX_PROCESSES) \in Nat
  <1>1. PICK x, y : x = g[c] /\ y = f[n]
    OBVIOUS
  <1>2. x \in Int /\ y \in Int /\ 0 - y \in Int
    BY <1>1
  <1>3. PICK h : h = [f EXCEPT ![c] = x]
    BY Zenon
  <1>4. /\ h \in [Procs -> Int] /\ f \in [Procs -> Int] /\ g \in [Procs -> Int]
        /\ h[c] = x /\ h[n] = y /\ \A i \in Procs : i # c => h[i] = f[i]
    BY <1>1, <1>2, <1>3
  <1>5. h[c] = f[c] + x
    BY <1>2, <1>4
  <1>6. /\ SumTo(h, MAX_PROCESSES) = SumTo(f, MAX_PROCESSES) + x
        /\ SumTo(f, MAX_PROCESSES) \in Int
    BY <1>2, <1>4, <1>5, SumChange
  <1>7. PICK d : d = 0 - y
    OBVIOUS
  <1>8. d \in Int /\ g[n] = h[n] + d /\ \A i \in Procs : i # n => g[i] = h[i]
    BY <1>1, <1>2, <1>4, <1>7
  <1>9. SumTo(g, MAX_PROCESSES) = SumTo(h, MAX_PROCESSES) + d
    BY <1>4, <1>8, SumChange
  <1>10. SumTo(g, MAX_PROCESSES) \in Nat
    BY SumNat, CfsAssumption DEF Procs
  <1>11. SumTo(g, MAX_PROCESSES) = (SumTo(f, MAX_PROCESSES) + x) - y
    BY <1>2, <1>6, <1>7, <1>9
  <1> QED
    BY <1>1, <1>10, <1>11

LEMMA PreemptKeeps ==
    ASSUME CfsInv, TickPreempt
    PROVE  CfsInv'
  <1>1. TypeOK /\ cfs_current # NULL
    BY DEF CfsInv, TickPreempt
  <1>2. PICK c, n : c = cfs_current /\ n = rb_leftmost
    OBVIOUS
  <1> DEFINE queue == Enqueued(tasks_timeline, Charged, c)
             left1 == LeftAfterEnqueue(tasks_timeline, rb_leftmost, Charged, c)
             left2 == LeftAfterDequeue(queue, left1, n)
  <1>3. /\ vruntime' = Charged
        /\ sum_exec' = [sum_exec EXCEPT ![cfs_current] = @ + DeltaExec]
        /\ exec_start' = [exec_start EXCEPT ![c] = 0, ![n] = clock + 2 * TICK]
        /\ state' = [state EXCEPT ![c] = "READY", ![n] = "RUNNING"]
        /\ on_rq' = [on_rq EXCEPT ![c] = TRUE, ![n] = FALSE]
        /\ tasks_timeline' = Dequeued(queue, n)
        /\ rb_leftmost' = left2
        /\ nr_running' = (nr_running + 1) - 1
        /\ total_weight' = (total_weight + weight[c]) - weight[n]
        /\ min_vruntime' = UpdatedMin(MinCharged, c, left2, Charged)
        /\ cfs_current' = n
        /\ clock' = clock + 2 * TICK /\ clock + 2 * TICK <= CLOCK_MAX
        /\ weight' = weight
    BY <1>2, Zenon DEF TickPreempt, cfs_pick_next_task
  <1>4. /\ c \in Procs /\ c \notin Queued /\ state[c] = "RUNNING"
        /\ Charged \in [Procs -> Nat]
        /\ \A p \in Procs : Charged[p] <= (clock + TICK) * 1024
        /\ Queue(tasks_timeline, Charged, Queued)
    BY <1>1, <1>2, ChargedFacts
  <1>5. n \in Queued /\ n \in Procs /\ on_rq[n] /\ state[n] = "READY" /\ c # n /\ n # NULL
    <2>1. n \in Queued /\ n # NULL
      BY <1>2, FirstLeast, Zenon DEF TickPreempt, Preempts, cfs_pick_next_task
    <2> QED
      BY <1>4, <2>1 DEF Queued, CfsInv, QueueOK
  <1>6. /\ Queue(tasks_timeline', Charged, (Queued \cup {c}) \ {n})
        /\ Len(tasks_timeline') = nr_running'
        /\ left2 = FirstOf(tasks_timeline')
    <2>1. rb_leftmost = FirstOf(tasks_timeline) /\ nr_running = Len(tasks_timeline)
      BY DEF CfsInv, QueueOK
    <2>2. left2 = LeftAfterDequeue(queue, LeftAfterEnqueue(tasks_timeline, FirstOf(tasks_timeline), Charged, c), n)
      BY <2>1
    <2>3. queue = Enqueued(tasks_timeline, Charged, c)
      OBVIOUS
    <2> HIDE DEF queue, left1, left2
    <2>4. /\ Queue(Dequeued(queue, n), Charged, (Queued \cup {c}) \ {n})
          /\ Len(Dequeued(queue, n)) = Len(tasks_timeline)
          /\ left2 = FirstOf(Dequeued(queue, n))
      <3>1. PICK q, k, S, r, l : /\ q = tasks_timeline /\ k = Charged /\ S = Queued
                                /\ r = queue /\ l = left2
        OBVIOUS
      <3>2. /\ k \in [Procs -> Nat] /\ Queue(q, k, S) /\ c \in Procs /\ c \notin S /\ n \in S
            /\ r = Enqueued(q, k, c)
            /\ l = LeftAfterDequeue(r, LeftAfterEnqueue(q, FirstOf(q), k, c), n)
        BY <1>4, <1>5, <2>2, <2>3, <3>1
      <3>3. /\ Queue(r, k, S \cup {c}) /\ Len(r) = Len(q) + 1
            /\ LeftAfterEnqueue(q, FirstOf(q), k, c) = FirstOf(r)
        BY <3>2, EnqueueKeeps
      <3>4. n \in S \cup {c} /\ l = LeftAfterDequeue(r, FirstOf(r), n)
        BY <3>2, <3>3
      <3>5. /\ Queue(Dequeued(r, n), k, (S \cup {c}) \ {n})
            /\ Len(Dequeued(r, n)) = Len(r) - 1
            /\ LeftAfterDequeue(r, FirstOf(r), n) = FirstOf(Dequeued(r, n))
        BY <3>2, <3>3, <3>4, DequeueKeeps, Zenon
      <3>6. Len(Dequeued(r, n)) = Len(q)
        <4>1. Len(q) \in Nat
          BY <3>2 DEF Queue
        <4> QED
          BY <3>3, <3>5, <4>1
      <3> QED
        BY <3>1, <3>4, <3>5, <3>6
    <2>5. nr_running' = nr_running
      BY <1>1, <1>3 DEF TypeOK
    <2> QED
      BY <1>3, <2>1, <2>4, <2>5
  <1> HIDE DEF queue, left1, left2
  <1>7. /\ state'[c] = "READY" /\ state'[n] = "RUNNING" /\ on_rq'[c] = TRUE /\ on_rq'[n] = FALSE
        /\ \A i \in Procs : i # c /\ i # n => state'[i] = state[i] /\ on_rq'[i] = on_rq[i]
        /\ exec_start'[n] = clock + 2 * TICK
    BY <1>1, <1>3, <1>4, <1>5 DEF TypeOK
  <1>8. Queued' = (Queued \cup {c}) \ {n}
    BY <1>4, <1>5, <1>7 DEF Queued
  <1>9. Active' = Active
    BY <1>4, <1>5, <1>7 DEF Active
  <1>10. /\ left2 \in Procs \cup {NULL}
         /\ left2 # NULL => left2 \in (Queued \cup {c}) \ {n}
    BY <1>6, FirstIn
  <1>11. QueueOK'
    <2>1. ASSUME NEW i \in Procs
          PROVE  /\ on_rq'[i] <=> state'[i] = "READY"
                 /\ state'[i] = "RUNNING" <=> i = cfs_current'
      <3>1. CASE i = c
        <4>1. on_rq'[i] /\ state'[i] = "READY" /\ i # cfs_current'
          BY <1>3, <1>5, <1>7, <3>1
        <4> QED
          BY <4>1
      <3>2. CASE i = n
        BY <1>3, <1>7, <3>2
      <3>3. CASE i # c /\ i # n
        <4>1. /\ on_rq[i] <=> state[i] = "READY"
              /\ state[i] = "RUNNING" <=> i = cfs_current
          BY DEF CfsInv, QueueOK
        <4>2. on_rq'[i] = on_rq[i] /\ state'[i] = state[i] /\ i # cfs_current /\ i # cfs_current'
          BY <1>2, <1>3, <1>7, <3>3, Zenon
        <4> QED
          BY <4>1, <4>2
      <3> QED
        BY <3>1, <3>2, <3>3
    <2> QED
      BY <1>3, <1>6, <1>8, <2>1, Zenon DEF QueueOK
  <1>12. WeightsOK' /\ total_weight' \in Nat
    <2>1. PICK f, g : f = QueuedWeight /\ g = QueuedWeight'
      OBVIOUS
    <2>2. /\ f = [i \in Procs |-> IF on_rq[i] THEN weight[i] ELSE 0]
          /\ g = [i \in Procs |-> IF on_rq'[i] THEN weight[i] ELSE 0]
      BY <1>3, <2>1 DEF QueuedWeight
    <2>3. weight \in [Procs -> Nat]
      BY <1>1 DEF TypeOK
    <2>4. f \in [Procs -> Nat] /\ g \in [Procs -> Nat]
      BY <2>2, <2>3
    <2>5. /\ f[c] = 0 /\ g[n] = 0 /\ g[c] = weight[c] /\ f[n] = weight[n]
          /\ \A i \in Procs : i # c /\ i # n => g[i] = f[i]
      BY <1>4, <1>5, <1>7, <2>2 DEF Queued
    <2>6. /\ SumTo(g, MAX_PROCESSES) = (SumTo(f, MAX_PROCESSES) + g[c]) - f[n]
          /\ SumTo(g, MAX_PROCESSES) \in Nat
      BY <1>4, <1>5, <2>4, <2>5, SwitchWeights
    <2>7. total_weight = SumTo(f, MAX_PROCESSES)
      BY <2>1 DEF CfsInv, WeightsOK
    <2>8. total_weight' = SumTo(g, MAX_PROCESSES)
      BY <1>3, <2>5, <2>6, <2>7
    <2> QED
      BY <1>3, <1>9, <2>1, <2>6, <2>8 DEF WeightsOK, CfsInv
  <1>13. /\ MinCharged \in Nat /\ MinCharged <= (clock + TICK) * 1024
         /\ \E p \in Active : MinCharged <= Charged[p]
    BY <1>1, MinChargedFacts
  <1>14. /\ min_vruntime' \in Nat
         /\ \/ min_vruntime' = MinCharged
            \/ min_vruntime' = Charged[c]
            \/ left2 # NULL /\ min_vruntime' = Charged[left2]
    <2>1. PICK m, x, k, l : m = min_vruntime' /\ x = MinCharged /\ k = Charged /\ l = left2
      OBVIOUS
    <2>2. /\ x \in Nat /\ c \in Procs \cup {NULL} /\ l \in Procs \cup {NULL}
          /\ k \in [Procs -> Nat] /\ m = UpdatedMin(x, c, l, k)
      BY <1>3, <1>4, <1>10, <1>13, <2>1
    <2>3. m \in Nat /\ (m = x \/ m = k[c] \/ (l # NULL /\ m = k[l]))
      BY <2>2, UpdatedMinFacts
    <2> QED
      BY <2>1, <2>3
  <1>15. clock \in Nat /\ TICK \in Nat /\ clock + 2 * TICK \in Nat /\ clock + TICK <= clock + 2 * TICK
    BY <1>1, CfsAssumption DEF TypeOK
  <1>16. /\ sum_exec' \in [Procs -> Nat] /\ SumTo(sum_exec', MAX_PROCESSES) \in Nat
         /\ SumTo(sum_exec', MAX_PROCESSES) <= clock + TICK
    BY <1>1, <1>3, ChargeKeeps, Zenon
  <1>17. TypeOK'
    <2>1. tasks_timeline' \in Seq(Procs) /\ nr_running' \in Nat
      BY <1>6 DEF Queue
    <2>2. /\ state' \in [Procs -> {"UNUSED", "READY", "RUNNING"}]
          /\ on_rq' \in [Procs -> BOOLEAN]
      BY <1>1, <1>3, Zenon DEF TypeOK
    <2>3. exec_start' \in [Procs -> Nat]
      BY <1>1, <1>3, <1>15, Zenon DEF TypeOK
    <2>4. weight' \in [Procs -> Nat]
      BY <1>1, <1>3 DEF TypeOK
    <2>5. clock' \in Nat /\ vruntime' \in [Procs -> Nat] /\ rb_leftmost' \in Procs \cup {NULL}
      BY <1>3, <1>4, <1>10, <1>15
    <2> QED
      BY <1>3, <1>5, <1>12, <1>14, <1>16, <2>1, <2>2, <2>3, <2>4, <2>5, Zenon DEF TypeOK
  <1>18. NoDoubleCharge'
    <2>1. SumTo(sum_exec', MAX_PROCESSES) <= clock'
      BY <1>3, <1>15, <1>16
    <2> QED
      BY <1>3, <1>7, <2>1 DEF NoDoubleCharge
  <1>19. min_vruntime' <= (clock + TICK) * 1024 /\ \E p \in Active : min_vruntime' <= Charged[p]
    <2>1. CASE min_vruntime' = MinCharged
      BY <1>13, <2>1
    <2>2. ASSUME NEW p \in Procs, state[p] # "UNUSED", min_vruntime' = Charged[p]
          PROVE  min_vruntime' <= (clock + TICK) * 1024 /\ \E i \in Active : min_vruntime' <= Charged[i]
      <3>1. p \in Active /\ Charged[p] <= Charged[p]
        BY <1>4, <2>2 DEF Active
      <3> QED
        BY <1>4, <2>2, <3>1
    <2>3. left2 # NULL => left2 \in Procs /\ state[left2] # "UNUSED"
      <3>1. \A p \in Procs : on_rq[p] => state[p] = "READY"
        BY Zenon DEF CfsInv, QueueOK
      <3> QED
        BY <1>4, <1>10, <3>1, Zenon DEF Queued
    <2> QED
      BY <1>4, <1>14, <2>1, <2>2, <2>3
  <1>20. ClockOK'
    <2>1. \A x \in Nat : x <= (clock + TICK) * 1024 => x <= (clock + 2 * TICK) * 1024
      BY <1>15
    <2> QED
      BY <1>3, <1>4, <1>14, <1>19, <2>1 DEF ClockOK
  <1>21. MinVruntimeReached'
    BY <1>3, <1>9, <1>19 DEF MinVruntimeReached
  <1> QED
    BY <1>11, <1>12, <1>17, <1>18, <1>20, <1>21 DEF CfsInv

LEMMA CfsInvKept == CfsInv /\ [Next]_vars => CfsInv'
  <1> SUFFICES ASSUME CfsInv, [Next]_vars PROVE CfsInv'
    OBVIOUS
  <1>1. ASSUME UNCHANGED vars PROVE CfsInv'
    BY <1>1 DEF vars, CfsInv, TypeOK, QueueOK, Queue, Queued, WeightsOK, QueuedWeight, Active,
                NoDoubleCharge, ClockOK, MinVruntimeReached
  <1>2. ASSUME NEW nice \in Nices, cfs_create_process(nice) PROVE CfsInv'
    <2>1. CASE \A p \in Procs : state[p] # "UNUSED"
      BY <1>1, <1>2, <2>1, Zenon DEF cfs_create_process
    <2>2. CASE ~\A p \in Procs : state[p] # "UNUSED"
      BY <1>2, <2>2, CreateKeeps
    <2> QED
      BY <2>1, <2>2
  <1> QED
    BY <1>1, <1>2, IdleKeeps, KeepKeeps, PreemptKeeps DEF Next, Tick

LEMMA CfsInvAlways == Spec => []CfsInv
  BY InitCfs, CfsInvKept, PTL DEF Spec

LEMMA QueueInvHolds == CfsInv => QueueInv
  <1> SUFFICES ASSUME CfsInv PROVE QueueInv
    OBVIOUS
  <1>1. /\ IsSorted(tasks_timeline, vruntime) /\ Distinct(tasks_timeline)
        /\ Members(tasks_timeline) = Queued
    BY DEF CfsInv, QueueOK, Queue
  <1>2. \A p \in Procs : on_rq[p] <=> p \in Members(tasks_timeline)
    BY <1>1 DEF Queued
  <1>3. \A p \in Procs : /\ on_rq[p] <=> state[p] = "READY"
                         /\ state[p] = "RUNNING" <=> p = cfs_current
    BY DEF CfsInv, QueueOK
  <1>4. /\ rb_leftmost = IF tasks_timeline = <<>> THEN NULL ELSE tasks_timeline[1]
        /\ nr_running = Len(tasks_timeline)
    BY DEF CfsInv, QueueOK, FirstOf
  <1> QED
    BY <1>1, <1>2, <1>3, <1>4 DEF QueueInv, Distinct, CfsInv, WeightsOK

\* cfs_enqueue_task and cfs_dequeue_task keep the tree, the cached leftmost
\* node, the flags and the counters of the run queue in agreement, for every
\* number of processes.
THEOREM CfsQueueSafe == Spec => []QueueInv
  BY CfsInvAlways, QueueInvHolds, PTL

\* cfs_update_curr never charges a stretch of time twice or late, for every
\* tick.
THEOREM CfsChargesOnce == Spec => []NoDoubleCharge
  <1>1. CfsInv => NoDoubleCharge
    BY DEF CfsInv
  <1> QED
    BY <1>1, CfsInvAlways, PTL

\* update_min_vruntime never moves the minimum beyond every active process.
THEOREM CfsMinReached == Spec => []MinVruntimeReached
  <1>1. CfsInv => MinVruntimeReached
    BY DEF CfsInv
  <1> QED
    BY <1>1, CfsInvAlways, PTL

\* The unsigned comparison of cfs_check_preempt_curr: with keys far from 2^64
\* it answers no exactly when the current task is ahead by at most the
\* granularity.
LEMMA PreemptMeans ==
    ASSUME NEW x \in Nat, NEW y \in Nat, x <= CLOCK_MAX * 1024, y <= CLOCK_MAX * 1024
    PROVE  cfs_check_preempt_curr(x, y) <=> x - y \notin 0 .. MIN_GRANULARITY
  <1>1. PICK b, m, u : b = CLOCK_MAX * 1024 /\ m = MIN_GRANULARITY /\ u = U64
    OBVIOUS
  <1>2. b \in Nat /\ m \in Nat /\ u \in Nat /\ b + m < u /\ x <= b /\ y <= b
    BY <1>1, CfsAssumption, WidthAssumption DEF NICE_0_LOAD
  <1>3. cfs_check_preempt_curr(x, y) <=> (x - y) % u > m
    BY <1>1 DEF cfs_check_preempt_curr
  <1>4. CASE x >= y
    <2>1. PICK d : d = x - y
      OBVIOUS
    <2>2. d \in Nat /\ d < u
      BY <1>2, <1>4, <2>1
    <2>3. d % u = d
      BY <1>2, <2>2
    <2> QED
      BY <1>1, <1>2, <1>3, <2>1, <2>2, <2>3
  <1>5. CASE x < y
    <2>1. PICK d : d = x - y
      OBVIOUS
    <2>2. d \in Int /\ d < 0 /\ d + u > m /\ d + u < u
      BY <1>2, <1>5, <2>1
    <2>3. d % u = d + u
      BY <1>2, <2>2
    <2> QED
      BY <1>1, <1>2, <1>3, <2>1, <2>2, <2>3
  <1> QED
    BY <1>4, <1>5

LEMMA PreemptsMeans ==
    ASSUME CfsInv, cfs_current # NULL, rb_leftmost # NULL, clock + TICK <= CLOCK_MAX
    PROVE  Preempts <=> Charged[cfs_current] - vruntime[rb_leftmost] \notin 0 .. MIN_GRANULARITY
  <1>1. PICK c, n : c = cfs_current /\ n = rb_leftmost
    OBVIOUS
  <1>2. /\ c \in Procs /\ c \notin Queued /\ Charged \in [Procs -> Nat]
        /\ \A p \in Procs : p # c => Charged[p] = vruntime[p]
        /\ \A p \in Procs : Charged[p] <= (clock + TICK) * 1024
    BY <1>1, ChargedFacts
  <1>3. n \in Procs /\ n # c
    BY <1>1, <1>2, FirstLeast DEF Queued
  <1>4. PICK x, y : x = Charged[c] /\ y = Charged[n]
    OBVIOUS
  <1>5. clock \in Nat /\ TICK \in Nat /\ CLOCK_MAX \in Nat
    BY CfsAssumption DEF CfsInv, TypeOK
  <1>6. /\ x \in Nat /\ y \in Nat /\ y = vruntime[n]
        /\ x <= (clock + TICK) * 1024 /\ y <= (clock + TICK) * 1024
    BY <1>2, <1>3, <1>4
  <1>7. x <= CLOCK_MAX * 1024 /\ y <= CLOCK_MAX * 1024
    BY <1>5, <1>6
  <1>8. cfs_check_preempt_curr(x, y) <=> x - y \notin 0 .. MIN_GRANULARITY
    BY <1>6, <1>7, PreemptMeans
  <1>9. Preempts <=> cfs_check_preempt_curr(x, y)
    BY <1>1, <1>4 DEF Preempts, cfs_pick_next_task
  <1> QED
    BY <1>1, <1>4, <1>6, <1>8, <1>9

LEMMA PicksLeastNow == CfsInv /\ [Next]_vars => [PicksLeastStep]_vars
  <1> SUFFICES ASSUME CfsInv, Next PROVE PicksLeastStep
    OBVIOUS
  <1>1. ASSUME NEW nice \in Nices, cfs_create_process(nice) PROVE PicksLeastStep
    <2>1. cfs_current' = cfs_current /\ clock' = clock
      BY <1>1 DEF cfs_create_process, vars
    <2> QED
      BY <2>1 DEF PicksLeastStep
  <1>2. CASE TickIdle
    <2>1. cfs_current = NULL /\ cfs_current' = rb_leftmost /\ rb_leftmost # NULL
      BY <1>2 DEF TickIdle, cfs_pick_next_task
    <2>2. \A p \in Procs : on_rq[p] => vruntime[rb_leftmost] <= vruntime[p]
      BY <2>1, FirstLeast DEF Queued
    <2> QED
      BY <2>1, <2>2 DEF PicksLeastStep
  <1>3. clock \in Nat /\ TICK \in Nat
    BY CfsAssumption DEF CfsInv, TypeOK
  <1>4. CASE TickKeep
    <2>1. /\ cfs_current' = cfs_current /\ cfs_current # NULL /\ vruntime' = Charged /\ ~Preempts
          /\ clock + TICK <= CLOCK_MAX
      BY <1>4 DEF TickKeep
    <2>2. rb_leftmost # NULL => vruntime'[cfs_current] - vruntime[rb_leftmost] \in 0 .. MIN_GRANULARITY
      BY <2>1, PreemptsMeans
    <2> QED
      BY <2>1, <2>2 DEF PicksLeastStep
  <1>5. CASE TickPreempt
    <2>1. /\ cfs_current' = rb_leftmost /\ cfs_current # NULL /\ rb_leftmost # NULL
          /\ vruntime' = Charged /\ Preempts /\ clock + 2 * TICK <= CLOCK_MAX
      BY <1>5, Zenon DEF TickPreempt, Preempts, cfs_pick_next_task
    <2>2. clock + TICK <= CLOCK_MAX
      BY <1>3, <2>1, CfsAssumption
    <2>3. vruntime'[cfs_current] - vruntime[rb_leftmost] \notin 0 .. MIN_GRANULARITY
      BY <2>1, <2>2, PreemptsMeans
    <2>4. /\ \A p \in Procs : on_rq[p] => vruntime[rb_leftmost] <= vruntime[p]
          /\ rb_leftmost # cfs_current
      BY <2>1, FirstLeast, ChargedFacts DEF Queued
    <2> QED
      BY <2>1, <2>3, <2>4 DEF PicksLeastStep
  <1> QED
    BY <1>1, <1>2, <1>4, <1>5 DEF Next, Tick

\* cfs_scheduler_tick always switches to a task of least vruntime, and takes
\* the CPU away exactly when the charged task is not within the granularity
\* ahead of it, for every granularity.
THEOREM CfsPicksLeast == Spec => PicksLeast
  BY CfsInvAlways, PicksLeastNow, PTL DEF Spec, PicksLeast

=============================================================================
