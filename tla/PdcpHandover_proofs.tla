------------------------ MODULE PdcpHandover_proofs ------------------------
(***************************************************************************)
(* Theorems about PdcpHandover, for any number space, any number of SDUs   *)
(* and of faults and any sizes of the queue and the buffers: the state     *)
(* keeps its type; and while nothing fails an SDU is dropped only where a  *)
(* limit of the code is met: the length of the queue or of a buffer, half  *)
(* of the numbers, or a wrap of the numbers that are forwarded.            *)
(***************************************************************************)
EXTENDS PdcpHandover, SocketLemmas, FiniteSetTheorems, WellFoundedInduction, TLAPS

-----------------------------------------------------------------------------
(* Natural numbers.  A set of them has a least element, which gives        *)
(* induction for sets.                                                     *)
LEMMA LeastNat ==
  ASSUME NEW T \in SUBSET Nat, T # {}
  PROVE  \E x \in T : \A y \in T : x <= y
<1> DEFINE R == OpToRel(<, Nat)
<1>1. IsWellFoundedOn(R, Nat)
  BY NatLessThanWellFounded, Zenon
<1>2. \A a, b \in Nat : a < b => <<a, b>> \in R
  BY DEF OpToRel
<1> HIDE DEF R
<1>3. PICK x \in T : \A y \in T : ~(<<y, x>> \in R)
  BY <1>1, WFMin
<1>4. ASSUME NEW y \in T
      PROVE  x <= y
  <2>1. x \in Nat /\ y \in Nat
    OBVIOUS
  <2>2. ~(y < x)
    BY <1>2, <1>3, <2>1
  <2> QED
    BY <2>1, <2>2
<1> QED
  BY <1>4

LEMMA SetInduction ==
  ASSUME NEW S, 0 \in S, \A n \in Nat : n \in S => n + 1 \in S
  PROVE  \A n \in Nat : n \in S
<1> SUFFICES ASSUME NEW n \in Nat, n \notin S PROVE FALSE
  OBVIOUS
<1>1. PICK x \in Nat \ S : \A y \in Nat \ S : x <= y
  BY LeastNat
<1>2. x - 1 \in Nat /\ (x - 1) + 1 = x
  OBVIOUS
<1>3. x - 1 \in S
  BY <1>1, <1>2
<1> QED
  BY <1>2, <1>3


-----------------------------------------------------------------------------
(* The writes of a buffer, one after the other: the library's fold.        *)
LEMMA MaxOf ==
  ASSUME NEW n \in Nat, NEW S \in SUBSET (1 .. n + 1), n + 1 \in S
  PROVE  Max(S) = n + 1
<1> DEFINE m == CHOOSE x \in S : \A y \in S : x >= y
<1>1. \A y \in S : n + 1 >= y
  OBVIOUS
<1>2. m \in S /\ \A y \in S : m >= y
  BY <1>1
<1>3. m = Max(S)
  BY DEF Max
<1> HIDE DEF m
<1>4. m >= n + 1 /\ n + 1 >= m /\ m \in Int
  BY <1>1, <1>2
<1> QED
  BY <1>3, <1>4

(* The fold's own recursion, over the sets of indices up to n.             *)
Iter(g, x, ds, n) ==
  g = [s \in SUBSET (1 .. n) |->
         IF s = {} THEN x ELSE Write(g[s \ {Max(s)}], ds[Max(s)])]

LEMMA IterExists ==
  ASSUME NEW x, NEW ds
  PROVE  \A n \in Nat : \E g : Iter(g, x, ds, n)
<1> DEFINE G == {n \in Nat : \E g : Iter(g, x, ds, n)}
<1>1. 0 \in G
  <2> DEFINE g == [s \in SUBSET (1 .. 0) |-> x]
  <2>1. SUBSET (1 .. 0) = {{}}
    OBVIOUS
  <2>2. g = [s \in SUBSET (1 .. 0) |->
               IF s = {} THEN x ELSE Write(g[s \ {Max(s)}], ds[Max(s)])]
    BY <2>1
  <2>3. Iter(g, x, ds, 0)
    BY <2>2, Zenon DEF Iter
  <2> QED
    BY <2>3
<1>2. ASSUME NEW n \in Nat, n \in G
      PROVE  n + 1 \in G
  <2>1. PICK f : Iter(f, x, ds, n)
    BY <1>2
  <2>2. /\ DOMAIN f = SUBSET (1 .. n)
        /\ \A s \in SUBSET (1 .. n) :
             f[s] = IF s = {} THEN x ELSE Write(f[s \ {Max(s)}], ds[Max(s)])
    BY <2>1 DEF Iter
  <2> DEFINE g == [s \in SUBSET (1 .. n + 1) |->
                     IF n + 1 \in s THEN Write(f[s \ {n + 1}], ds[n + 1]) ELSE f[s]]
  <2>3. ASSUME NEW s \in SUBSET (1 .. n + 1)
        PROVE  g[s] = IF s = {} THEN x ELSE Write(g[s \ {Max(s)}], ds[Max(s)])
    <3>1. CASE n + 1 \in s
      <4>1. Max(s) = n + 1 /\ s # {}
        BY <3>1, MaxOf
      <4>2. s \ {n + 1} \in SUBSET (1 .. n + 1) /\ n + 1 \notin s \ {n + 1}
        OBVIOUS
      <4>3. g[s \ {n + 1}] = f[s \ {n + 1}]
        BY <4>2
      <4>4. g[s] = Write(f[s \ {n + 1}], ds[n + 1])
        BY <3>1
      <4> HIDE DEF g
      <4> QED
        BY <4>1, <4>3, <4>4
    <3>2. CASE n + 1 \notin s
      <4>1. s \in SUBSET (1 .. n)
        BY <3>2
      <4>2. g[s] = f[s]
        BY <3>2
      <4>3. \A m : s \ {m} \in SUBSET (1 .. n + 1) /\ n + 1 \notin s \ {m}
        BY <3>2
      <4>4. g[s \ {Max(s)}] = f[s \ {Max(s)}]
        BY <4>3
      <4> HIDE DEF g
      <4> QED
        BY <4>1, <4>2, <4>4, <2>2
    <3> QED
      BY <3>1, <3>2
  <2>4. g = [s \in SUBSET (1 .. n + 1) |-> g[s]]
    OBVIOUS
  <2> HIDE DEF g
  <2>5. g = [s \in SUBSET (1 .. n + 1) |->
               IF s = {} THEN x ELSE Write(g[s \ {Max(s)}], ds[Max(s)])]
    BY <2>3, <2>4
  <2>6. \E h : Iter(h, x, ds, n + 1)
    BY <2>5, Zenon DEF Iter
  <2> QED
    BY <2>6
<1> HIDE DEF G
<1>3. \A n \in Nat : n \in G
  BY <1>1, <1>2, SetInduction
<1> QED
  BY <1>3 DEF G

(* The state after each of the writes.                                     *)
Steps(w, x, ds) ==
  /\ w[0] = x
  /\ \A i \in DOMAIN ds : w[i] = Write(w[i - 1], ds[i])

LEMMA FoldIs ==
  ASSUME NEW S, NEW ds \in Seq(S), NEW x
  PROVE  \E w : Steps(w, x, ds) /\ FoldLeft(Write, x, ds) = w[Len(ds)]
<1> DEFINE n == Len(ds)
           iter == CHOOSE g : Iter(g, x, ds, n)
           w == [i \in 0 .. n |-> iter[1 .. i]]
<1>1. n \in Nat /\ DOMAIN ds = 1 .. n
  OBVIOUS
<1>2. Iter(iter, x, ds, n)
  BY <1>1, IterExists, Zenon
<1>3. FoldLeft(Write, x, ds) = iter[1 .. n]
  BY <1>1, Zenon DEF FoldLeft, MapThenFoldSet, Iter
<1>4. \A s \in SUBSET (1 .. n) :
         iter[s] = IF s = {} THEN x ELSE Write(iter[s \ {Max(s)}], ds[Max(s)])
  <2> HIDE DEF iter
  <2> QED
    BY <1>2 DEF Iter
<1> HIDE DEF iter
<1>5. w[0] = x
  <2>1. 1 .. 0 = {} /\ 1 .. 0 \in SUBSET (1 .. n) /\ 0 \in 0 .. n
    BY <1>1
  <2>2. iter[1 .. 0] = x
    BY <1>4, <2>1
  <2> QED
    BY <2>1, <2>2
<1>6. ASSUME NEW i \in 1 .. n
      PROVE  w[i] = Write(w[i - 1], ds[i])
  <2>0. i \in Nat /\ i - 1 \in Nat /\ i >= 1 /\ i <= n
    BY <1>1
  <2>7. i \in 1 .. i
    BY <2>0
  <2>8. i \in 0 .. n /\ i - 1 \in 0 .. n
    BY <1>1, <2>0
  <2>1. /\ 1 .. i # {} /\ i \in 1 .. i
        /\ i \in 0 .. n /\ i - 1 \in 0 .. n
    BY <2>7, <2>8
  <2>6. 1 .. i \in SUBSET (1 .. n)
    <3>1. \A j \in 1 .. i : j \in 1 .. n
      BY <1>1, <2>0
    <3> QED
      BY <3>1
  <2>5. (1 .. i) \ {i} = 1 .. i - 1
    BY <1>1
  <2>2. Max(1 .. i) = i
    <3>1. i - 1 \in Nat /\ (i - 1) + 1 = i
      BY <1>1
    <3> QED
      BY <2>1, <3>1, MaxOf
  <2>3. iter[1 .. i] = Write(iter[(1 .. i) \ {Max(1 .. i)}], ds[Max(1 .. i)])
    BY <1>4, <2>1, <2>6
  <2>4. iter[1 .. i] = Write(iter[1 .. i - 1], ds[i])
    BY <2>2, <2>3, <2>5
  <2> QED
    BY <2>1, <2>4
<1>7. w[n] = iter[1 .. n]
  BY <1>1
<1> HIDE DEF w
<1>8. Steps(w, x, ds)
  BY <1>1, <1>5, <1>6 DEF Steps
<1> QED
  BY <1>3, <1>7, <1>8, Zenon

-----------------------------------------------------------------------------
(* Sequences in an order R: what is added at the end, and what is left when *)
(* messages are taken out.                                                 *)
In(R, q) == \A i, j \in DOMAIN q : i < j => <<q[i], q[j]>> \in R
Across(R, q, r) == \A i \in DOMAIN q, j \in DOMAIN r : <<q[i], r[j]>> \in R
Part(r, q) ==
  \E m \in [DOMAIN r -> DOMAIN q] :
    /\ \A i, j \in DOMAIN r : i < j => m[i] < m[j]
    /\ \A i \in DOMAIN r : r[i] = q[m[i]]

LEMMA TailIsPart ==
  ASSUME NEW S, NEW q \in Seq(S), q # <<>>
  PROVE  Part(Tail(q), q)
<1> DEFINE m == [i \in DOMAIN Tail(q) |-> i + 1]
<1>1. /\ \A i \in DOMAIN Tail(q) : i \in Int /\ i + 1 \in DOMAIN q /\ Tail(q)[i] = q[i + 1]
  OBVIOUS
<1>2. m \in [DOMAIN Tail(q) -> DOMAIN q]
  BY <1>1
<1>3. \A i, j \in DOMAIN Tail(q) : i < j => m[i] < m[j]
  BY <1>1
<1>4. \A i \in DOMAIN Tail(q) : Tail(q)[i] = q[m[i]]
  BY <1>1
<1> HIDE DEF m
<1> QED
  BY <1>2, <1>3, <1>4 DEF Part

LEMMA JoinIs ==
  ASSUME NEW S, NEW a \in Seq(S), NEW b \in Seq(S)
  PROVE  /\ a \o b \in Seq(S) /\ Len(a \o b) = Len(a) + Len(b)
         /\ \A i \in 1 .. Len(a) + Len(b) :
              (a \o b)[i] = IF i <= Len(a) THEN a[i] ELSE b[i - Len(a)]
OBVIOUS

LEMMA Removed ==
  ASSUME NEW S, NEW q \in Seq(S), NEW k \in DOMAIN q
  PROVE  /\ RemoveAt(q, k) \in Seq(S)
         /\ Part(RemoveAt(q, k), q)
<1> DEFINE r == RemoveAt(q, k)
           m == [i \in DOMAIN r |-> IF i < k THEN i ELSE i + 1]
<1>1. k \in Nat /\ k >= 1 /\ k <= Len(q) /\ Len(q) \in Nat /\ DOMAIN q = 1 .. Len(q)
  OBVIOUS
<1>2. r = SubSeq(q, 1, k - 1) \o SubSeq(q, k + 1, Len(q))
  BY DEF RemoveAt
<1> DEFINE a == SubSeq(q, 1, k - 1)
           b == SubSeq(q, k + 1, Len(q))
<1>3. /\ a \in Seq(S) /\ Len(a) = k - 1
      /\ \A i \in 1 .. k - 1 : a[i] = q[i]
  BY <1>1
<1>4. /\ b \in Seq(S) /\ Len(b) = Len(q) - k
      /\ \A i \in 1 .. Len(q) - k : b[i] = q[i + k]
  BY <1>1
<1> HIDE DEF a, b
<1>5. /\ r \in Seq(S) /\ Len(r) = Len(q) - 1 /\ DOMAIN r = 1 .. Len(q) - 1
      /\ \A i \in DOMAIN r : r[i] = IF i <= k - 1 THEN a[i] ELSE b[i - (k - 1)]
  <2> HIDE DEF r
  <2>1. r = a \o b
    BY <1>2 DEF a, b
  <2>2. r \in Seq(S) /\ Len(r) = Len(a) + Len(b)
    BY <1>3, <1>4, <2>1, JoinIs
  <2>3. Len(r) = Len(q) - 1 /\ DOMAIN r = 1 .. Len(q) - 1
    BY <1>1, <1>3, <1>4, <2>2
  <2>4. \A i \in 1 .. Len(a) + Len(b) : r[i] = IF i <= Len(a) THEN a[i] ELSE b[i - Len(a)]
    BY <1>3, <1>4, <2>1, JoinIs
  <2>5. Len(a) + Len(b) = Len(q) - 1
    BY <1>1, <1>3, <1>4
  <2> QED
    BY <1>3, <2>2, <2>3, <2>4, <2>5
<1> HIDE DEF r
<1>6. \A i \in DOMAIN r : i \in Int /\ m[i] \in DOMAIN q /\ r[i] = q[m[i]]
  <2> TAKE i \in DOMAIN r
  <2>1. CASE i < k
    BY <1>1, <1>3, <1>5, <2>1
  <2>2. CASE ~(i < k)
    <3>1. i - (k - 1) \in 1 .. Len(q) - k /\ i - (k - 1) + k = i + 1
      BY <1>1, <1>5, <2>2
    <3>2. r[i] = q[i + 1]
      BY <1>1, <1>4, <1>5, <2>2, <3>1
    <3> QED
      BY <1>1, <1>5, <2>2, <3>2
  <2> QED
    BY <2>1, <2>2
<1>7. \A i, j \in DOMAIN r : i < j => m[i] < m[j]
  BY <1>1, <1>5
<1>8. m \in [DOMAIN r -> DOMAIN q]
  BY <1>6
<1> HIDE DEF m
<1>9. Part(r, q)
  BY <1>6, <1>7, <1>8 DEF Part
<1> QED
  BY <1>5, <1>9 DEF r

LEMMA PartKeeps ==
  ASSUME NEW q, NEW r, Part(r, q)
  PROVE  /\ \A R : In(R, q) => In(R, r)
         /\ \A R, t : Across(R, q, t) => Across(R, r, t)
         /\ \A R, t : Across(R, t, q) => Across(R, t, r)
         /\ \A i \in DOMAIN r : \E j \in DOMAIN q : r[i] = q[j]
<1>1. PICK m \in [DOMAIN r -> DOMAIN q] :
        /\ \A i, j \in DOMAIN r : i < j => m[i] < m[j]
        /\ \A i \in DOMAIN r : r[i] = q[m[i]]
  BY DEF Part
<1> QED
  BY <1>1 DEF In, Across

LEMMA InAppend ==
  ASSUME NEW S, NEW q \in Seq(S), NEW d \in S, NEW R, In(R, q),
         \A i \in DOMAIN q : <<q[i], d>> \in R
  PROVE  In(R, Append(q, d))
<1> DEFINE a == Append(q, d)
<1>1. /\ DOMAIN a = DOMAIN q \cup {Len(q) + 1}
      /\ \A k \in DOMAIN q : a[k] = q[k]
      /\ a[Len(q) + 1] = d
  BY SocketSend
<1>2. \A i \in DOMAIN q : i \in Int /\ i < Len(q) + 1
  OBVIOUS
<1>3. Len(q) + 1 \in Int
  OBVIOUS
<1> HIDE DEF a
<1>4. ASSUME NEW i \in DOMAIN a, NEW j \in DOMAIN a, i < j
      PROVE  <<a[i], a[j]>> \in R
  <2>1. i \in DOMAIN q
    BY <1>1, <1>2, <1>3, <1>4
  <2>2. CASE j \in DOMAIN q
    BY <1>1, <1>4, <2>1, <2>2 DEF In
  <2>3. CASE j = Len(q) + 1
    BY <1>1, <2>1, <2>3
  <2> QED
    BY <1>1, <2>2, <2>3
<1> QED
  BY <1>4 DEF In, a

LEMMA AcrossAppend ==
  ASSUME NEW S, NEW q \in Seq(S), NEW d \in S, NEW R, NEW t
  PROVE  /\ Across(R, q, t) /\ (\A j \in DOMAIN t : <<d, t[j]>> \in R)
              => Across(R, Append(q, d), t)
         /\ Across(R, t, q) /\ (\A j \in DOMAIN t : <<t[j], d>> \in R)
              => Across(R, t, Append(q, d))
<1> DEFINE a == Append(q, d)
<1>1. /\ DOMAIN a = DOMAIN q \cup {Len(q) + 1}
      /\ \A k \in DOMAIN q : a[k] = q[k]
      /\ a[Len(q) + 1] = d
  BY SocketSend
<1> HIDE DEF a
<1>2. a = Append(q, d)
  BY DEF a
<1> QED
  BY <1>1, <1>2 DEF Across

LEMMA InEmpty ==
  ASSUME NEW R, NEW q
  PROVE  In(R, <<>>) /\ Across(R, <<>>, q) /\ Across(R, q, <<>>)
BY DEF In, Across

(* The head of q, and what is behind it.                                   *)
LEMMA InHead ==
  ASSUME NEW S, NEW q \in Seq(S), q # <<>>, NEW R, In(R, q)
  PROVE  \A i \in DOMAIN Tail(q) : <<Head(q), Tail(q)[i]>> \in R
<1>1. \A i \in DOMAIN Tail(q) : i + 1 \in DOMAIN q /\ Tail(q)[i] = q[i + 1] /\ 1 < i + 1
  OBVIOUS
<1>2. 1 \in DOMAIN q /\ Head(q) = q[1]
  OBVIOUS
<1> QED
  BY <1>1, <1>2 DEF In

-----------------------------------------------------------------------------
(* The tunnel's sort leaves what is in order as it is, and a map's keys can *)
(* be put in order.                                                        *)
Increasing(f) == \A i, j \in DOMAIN f : i < j => f[i] < f[j]

LEMMA IncreasingIsId ==
  ASSUME NEW n \in Nat, NEW f \in [1 .. n -> 1 .. n], Increasing(f)
  PROVE  \A i \in 1 .. n : f[i] = i
<1>1. \A i, j \in 1 .. n : i < j => f[i] < f[j]
  BY DEF Increasing
<1>2. \A i \in 1 .. n : f[i] \in 1 .. n
  OBVIOUS
<1> DEFINE U == {k \in Nat : k + 1 <= n => f[k + 1] >= k + 1}
           D == {k \in Nat : n - k >= 1 => f[n - k] <= n - k}
<1>3. \A k \in Nat : k \in U
  <2>1. 0 \in U
    BY <1>2
  <2>2. ASSUME NEW k \in Nat, k \in U
        PROVE  k + 1 \in U
    <3>1. SUFFICES ASSUME (k + 1) + 1 <= n PROVE f[(k + 1) + 1] >= (k + 1) + 1
      OBVIOUS
    <3>2. k + 1 \in 1 .. n /\ (k + 1) + 1 \in 1 .. n /\ k + 1 < (k + 1) + 1
      BY <3>1
    <3>3. f[k + 1] < f[(k + 1) + 1] /\ f[k + 1] >= k + 1
      BY <1>1, <2>2, <3>2
    <3> QED
      BY <1>2, <3>2, <3>3
  <2> HIDE DEF U
  <2> QED
    BY <2>1, <2>2, SetInduction
<1>4. \A k \in Nat : k \in D
  <2>1. 0 \in D
    BY <1>2
  <2>2. ASSUME NEW k \in Nat, k \in D
        PROVE  k + 1 \in D
    <3>1. SUFFICES ASSUME n - (k + 1) >= 1 PROVE f[n - (k + 1)] <= n - (k + 1)
      OBVIOUS
    <3>2. n - k \in 1 .. n /\ n - (k + 1) \in 1 .. n /\ n - (k + 1) < n - k /\ n - k >= 1
      BY <3>1
    <3>3. f[n - (k + 1)] < f[n - k] /\ f[n - k] <= n - k
      BY <1>1, <2>2, <3>2
    <3> QED
      BY <1>2, <3>2, <3>3
  <2> HIDE DEF D
  <2> QED
    BY <2>1, <2>2, SetInduction
<1>5. ASSUME NEW i \in 1 .. n
      PROVE  f[i] = i
  <2>1. i - 1 \in Nat /\ (i - 1) + 1 = i /\ n - i \in Nat /\ n - (n - i) = i /\ i >= 1 /\ i <= n
    OBVIOUS
  <2>2. f[i] >= i
    BY <1>3, <2>1
  <2>3. f[i] <= i
    BY <1>4, <2>1
  <2> QED
    BY <1>2, <2>2, <2>3
<1> QED
  BY <1>5

KeyOf(d) == IF d.sn = None THEN MOD ELSE d.sn

LEMMA SortedIsSame ==
  ASSUME NEW S, NEW ds \in Seq(S),
         \A i \in DOMAIN ds : KeyOf(ds[i]) \in Int,
         \A i, j \in DOMAIN ds : i < j => KeyOf(ds[i]) <= KeyOf(ds[j])
  PROVE  Sorted(ds) = ds
<1> DEFINE n == Len(ds)
           Key(i) == IF ds[i].sn = None THEN MOD ELSE ds[i].sn
           P(f) == \A i, j \in DOMAIN f : i < j =>
                     Key(f[i]) < Key(f[j]) \/ (Key(f[i]) = Key(f[j]) /\ f[i] < f[j])
           order == CHOOSE f \in [DOMAIN ds -> DOMAIN ds] : P(f)
           id == [i \in DOMAIN ds |-> i]
<1>1. n \in Nat /\ DOMAIN ds = 1 .. n
  OBVIOUS
<1>2. \A i \in DOMAIN ds : Key(i) \in Int
  BY DEF KeyOf
<1>3. \A i, j \in DOMAIN ds : i < j => Key(i) <= Key(j)
  BY DEF KeyOf
<1>4. Sorted(ds) = [i \in DOMAIN ds |-> ds[order[i]]]
  BY DEF Sorted
<1> HIDE DEF Key
<1>5. id \in [DOMAIN ds -> DOMAIN ds] /\ P(id)
  BY <1>2, <1>3
<1> HIDE DEF P, id
<1>6. order \in [DOMAIN ds -> DOMAIN ds] /\ P(order)
  BY <1>5
<1> HIDE DEF order
<1>7. \A i, j \in 1 .. n : i < j => order[i] < order[j]
  <2> SUFFICES ASSUME NEW i \in 1 .. n, NEW j \in 1 .. n, i < j
               PROVE  order[i] < order[j]
    OBVIOUS
  <2>1. order[i] \in 1 .. n /\ order[j] \in 1 .. n
    BY <1>1, <1>6
  <2>2. \/ Key(order[i]) < Key(order[j])
        \/ order[i] < order[j]
    BY <1>1, <1>6 DEF P
  <2>3. order[j] < order[i] => Key(order[j]) <= Key(order[i])
    BY <1>1, <1>3, <2>1
  <2>4. Key(order[i]) \in Int /\ Key(order[j]) \in Int
    BY <1>1, <1>2, <2>1
  <2>5. order[i] = order[j] => Key(order[i]) = Key(order[j])
    OBVIOUS
  <2> QED
    BY <2>1, <2>2, <2>3, <2>4, <2>5
<1>8. \A i \in 1 .. n : order[i] = i
  <2>1. order \in [1 .. n -> 1 .. n] /\ Increasing(order)
    BY <1>1, <1>6, <1>7 DEF Increasing
  <2> HIDE DEF n
  <2> QED
    BY <1>1, <2>1, IncreasingIsId
<1>9. [i \in DOMAIN ds |-> ds[order[i]]] = [i \in DOMAIN ds |-> ds[i]]
  BY <1>1, <1>8
<1> QED
  BY <1>4, <1>9

LEMMA KeysInOrder ==
  ASSUME NEW N \in Nat, NEW T \in SUBSET (0 .. N)
  PROVE  /\ Cardinality(T) \in Nat
         /\ \E f \in [1 .. Cardinality(T) -> T] : \A i, j \in DOMAIN f : i < j => f[i] < f[j]
<1> DEFINE Ok(U) == /\ Cardinality(U) \in Nat
                    /\ \E f \in [1 .. Cardinality(U) -> U] :
                         \A i, j \in DOMAIN f : i < j => f[i] < f[j]
           G == {b \in Nat : \A U \in SUBSET (0 .. b - 1) : Ok(U)}
<1>1. 0 \in G
  <2>1. SUBSET (0 .. 0 - 1) = {{}}
    OBVIOUS
  <2>2. Cardinality({}) = 0
    BY FS_EmptySet
  <2> DEFINE e == [i \in 1 .. Cardinality({}) |-> 0]
  <2>3. e \in [1 .. Cardinality({}) -> {}] /\ DOMAIN e = {}
    BY <2>2
  <2>5. \A i, j \in DOMAIN e : i < j => e[i] < e[j]
    BY <2>3
  <2> HIDE DEF e
  <2>6. Cardinality({}) \in Nat
    BY <2>2
  <2>7. \E f \in [1 .. Cardinality({}) -> {}] : \A i, j \in DOMAIN f : i < j => f[i] < f[j]
    BY <2>3, <2>5, Zenon
  <2>4. Ok({})
    BY <2>6, <2>7, Zenon
  <2> HIDE DEF Ok
  <2> QED
    BY <2>1, <2>4
<1>2. ASSUME NEW b \in Nat, b \in G
      PROVE  b + 1 \in G
  <2>7. b + 1 \in Nat
    OBVIOUS
  <2>1. SUFFICES ASSUME NEW U \in SUBSET (0 .. (b + 1) - 1) PROVE Ok(U)
    BY <2>7, Zenon
  <2> DEFINE V == U \ {b}
  <2>2. V \in SUBSET (0 .. b - 1)
    OBVIOUS
  <2>3. Ok(V)
    BY <1>2, <2>2
  <2>4. PICK g \in [1 .. Cardinality(V) -> V] : \A i, j \in DOMAIN g : i < j => g[i] < g[j]
    BY <2>3
  <2>5. CASE b \notin U
    <3>1. V = U
      BY <2>5
    <3> QED
      BY <2>3, <3>1
  <2>6. CASE b \in U
    <3> DEFINE c == Cardinality(V)
    <3>1. IsFiniteSet(U)
      <4>1. IsFiniteSet(0 .. b) /\ U \in SUBSET (0 .. b)
        BY FS_Interval
      <4> QED
        BY <4>1, FS_Subset
    <3>2. Cardinality(U) \in Nat /\ Cardinality(V) = Cardinality(U) - 1
      BY <2>6, <3>1, FS_RemoveElement, FS_CardinalityType
    <3>3. c \in Nat /\ Cardinality(U) = c + 1
      BY <2>3, <3>2
    <3>4. g \in [1 .. c -> V] /\ \A i, j \in 1 .. c : i < j => g[i] < g[j]
      BY <2>4
    <3> HIDE DEF c
    <3> DEFINE h == [i \in 1 .. c + 1 |-> IF i = c + 1 THEN b ELSE g[i]]
    <3>9. \A i \in 1 .. c : g[i] \in U /\ g[i] \in V
      BY <3>4
    <3>10. \A i \in 1 .. c + 1 : i # c + 1 => i \in 1 .. c
      BY <3>3
    <3>5. h \in [1 .. c + 1 -> U]
      BY <2>6, <3>9, <3>10
    <3>6. \A i \in 1 .. c : g[i] \in Int /\ g[i] < b
      <4>1. \A v \in V : v \in Int /\ v < b
        BY <2>2
      <4> QED
        BY <3>9, <4>1
    <3>7. \A i, j \in DOMAIN h : i < j => h[i] < h[j]
      <4> SUFFICES ASSUME NEW i \in 1 .. c + 1, NEW j \in 1 .. c + 1, i < j
                   PROVE  h[i] < h[j]
        OBVIOUS
      <4>1. i \in 1 .. c /\ h[i] = g[i]
        BY <3>3
      <4>2. CASE j = c + 1
        BY <3>6, <4>1, <4>2
      <4>3. CASE j # c + 1
        <5>1. j \in 1 .. c /\ h[j] = g[j]
          BY <3>3, <4>3
        <5> HIDE DEF h
        <5> QED
          BY <3>4, <4>1, <5>1
      <4> QED
        BY <4>2, <4>3
    <3> HIDE DEF h
    <3>8. \E f \in [1 .. Cardinality(U) -> U] : \A i, j \in DOMAIN f : i < j => f[i] < f[j]
      BY <3>3, <3>5, <3>7
    <3> QED
      BY <3>2, <3>8
  <2> QED
    BY <2>5, <2>6
<1> HIDE DEF G
<1>3. N + 1 \in G
  BY <1>1, <1>2, SetInduction
<1>4. T \in SUBSET (0 .. (N + 1) - 1)
  OBVIOUS
<1> QED
  BY <1>3, <1>4 DEF G

-----------------------------------------------------------------------------
(* The values of the variables.                                            *)
Sdus     == 1 .. NofSdus
Map      == UNION {[S -> Sdus] : S \in SUBSET SNs}
Entities == [active : BOOLEAN, hfn : Nat, sn : SNs, undelivered : Map, fms : SNs]
Pdus     == [sdu : Sdus, sn : SNs, hfn : Nat]
Plain    == [sdu : Sdus, sn : {None}]
Items    == [sdu : Sdus, sn : SNs \cup {None}]
Tunnels  == [state : {"none", "buffering", "pdcp_active"}, buffer : Seq(Items)]
Counters == [hfn : Nat, sn : SNs]
Targets  == [state : {"idle", "s1_target_ho", "wait_recfg_comp", "done", "released"},
             recfg : BOOLEAN, fwd : Tunnels, main : Tunnels]
Receivers == [cell : ENBs \cup {"moving"}, ho_cmd : BOOLEAN, hfn : Nat,
              next : SNs, last : SNs]
Cores    == [sent : 0 .. NofSdus, path : ENBs, status : Seq(Counters),
             ho : {"none", "started", "notified", "done", "cancelled"}]
Passed   == [sdu : Sdus, ciphered : Nat, deciphered : Int]

TypeInv ==
  /\ pdcp \in [ENBs -> Entities]
  /\ radio \in [ENBs -> Seq(Pdus)] /\ acks \in SUBSET SNs
  /\ s1 \in [ENBs -> Seq(Plain \cup {EndMarker})] /\ s1.target \in Seq(Plain)
  /\ x2 \in Seq(Items \cup {EndMarker})
  /\ src \in {"pdcp_active", "forward_to", "none"}
  /\ tgt \in Targets
  /\ tgt.main.buffer \in Seq(Plain)
  /\ ue \in Receivers
  /\ core \in Cores
  /\ delivered \in Seq(Passed)
  /\ givenUp \in SUBSET Sdus /\ faults \in 0 .. MaxFaults

(* Datagrams in order: those with a number first, by number, and the others *)
(* in the gateway's order.                                                 *)
Marked == Items \cup {EndMarker}
Fresh(d) == d.sn = None /\ d # EndMarker
KeyRel == {p \in Marked \X Marked :
             IF p[1].sn = None THEN p[2].sn = None
             ELSE p[2].sn = None \/ p[1].sn < p[2].sn}
FreshRel == {p \in Marked \X Marked :
               Fresh(p[1]) /\ Fresh(p[2]) => p[1].sdu < p[2].sdu}

KeyInv == In(KeyRel, tgt.fwd.buffer) /\ In(KeyRel, x2) /\ Across(KeyRel, tgt.fwd.buffer, x2)

(* The phases of the handover.                                             *)
PhaseInv ==
  /\ core.ho = "none" =>
       /\ src = "pdcp_active" /\ x2 = <<>> /\ tgt.fwd.buffer = <<>>
       /\ pdcp.source.active /\ core.status = <<>>
       /\ ue.cell = "source" /\ ~ue.ho_cmd
       /\ tgt.state \in {"idle", "s1_target_ho"}
  /\ core.ho = "started" =>
       /\ src = "forward_to" /\ ~pdcp.source.active
       /\ tgt.state \in {"s1_target_ho", "wait_recfg_comp"}
       /\ tgt.state = "wait_recfg_comp" => pdcp.target.active
  /\ core.ho \in {"notified", "done"} =>
       /\ src # "pdcp_active" /\ tgt.state = "done" /\ pdcp.target.active
       /\ tgt.fwd.state # "buffering" /\ ue.cell = "target"
  /\ core.ho = "cancelled" => src = "pdcp_active" /\ faults > 0 /\ ue.cell = "source"
  /\ tgt.state = "done" => core.ho \in {"notified", "done"}
  /\ tgt.state = "released" => core.ho = "cancelled"
  /\ tgt.state = "idle" => tgt.fwd = NoTunnel /\ tgt.main = NoTunnel
  /\ tgt.main.state = "none" => tgt.state \in {"idle", "released"}
  /\ tgt.main.state = "pdcp_active" => tgt.fwd = NoTunnel
  /\ tgt.fwd.state # "buffering" => tgt.fwd.buffer = <<>>
  /\ tgt.fwd.state = "pdcp_active" => core.ho \in {"notified", "done"}
  /\ ue.ho_cmd => core.ho = "started" /\ ue.cell = "source"
  /\ ue.cell = "moving" => core.ho = "started" /\ ~tgt.recfg /\ acks = {} /\ ~ue.ho_cmd
  /\ tgt.recfg => core.ho = "started" /\ ue.cell = "target" /\ tgt.state = "s1_target_ho"
  /\ core.path = "source" =>
       /\ s1.target = <<>> /\ tgt.main.buffer = <<>>
       /\ \A i \in DOMAIN s1.source : s1.source[i] # EndMarker
       /\ \A i \in DOMAIN x2 : x2[i] # EndMarker
  /\ core.path = "target" => core.ho \in {"notified", "done"}
  /\ core.ho = "done" => core.path = "target"

-----------------------------------------------------------------------------
(* What write_sdu does to an entity, its queue and the SDUs dropped.       *)
Writers == [p : Entities, queue : Seq(Pdus), dropped : SUBSET Sdus]
NumberFor(x, d) == IF d.sn = None THEN x.p.sn ELSE d.sn
Accepts(x, d) ==
  x.p.active /\ Len(x.queue) < QueueLen /\ CanStore(x.p, NumberFor(x, d))

LEMMA Constants ==
  /\ MOD \in Nat /\ MOD > 0 /\ NofSdus \in Nat /\ MaxFaults \in Nat
  /\ Half \in Nat /\ 2 * Half = MOD /\ None = -1 /\ None \notin SNs
  /\ QueueLen \in Nat /\ Buffer \in Nat /\ SNs \subseteq Nat
BY ConstantsAssumption DEF Half, None, SNs

LEMMA SuccType ==
  ASSUME NEW sn \in SNs
  PROVE  (sn + 1) % MOD = IF sn = MOD - 1 THEN 0 ELSE sn + 1
BY Constants DEF SNs

LEMMA MapType ==
  ASSUME NEW m
  PROVE  m \in Map <=> /\ m = [n \in DOMAIN m |-> m[n]]
                       /\ DOMAIN m \subseteq SNs
                       /\ \A n \in DOMAIN m : m[n] \in Sdus
<1>1. ASSUME m \in Map
      PROVE  m = [n \in DOMAIN m |-> m[n]] /\ DOMAIN m \subseteq SNs /\ \A n \in DOMAIN m : m[n] \in Sdus
  <2>1. PICK S \in SUBSET SNs : m \in [S -> Sdus]
    BY <1>1 DEF Map
  <2> QED
    BY <2>1
<1>2. ASSUME m = [n \in DOMAIN m |-> m[n]], DOMAIN m \subseteq SNs, \A n \in DOMAIN m : m[n] \in Sdus
      PROVE  m \in Map
  <2>1. m \in [DOMAIN m -> Sdus]
    BY <1>2
  <2> QED
    BY <1>2, <2>1 DEF Map
<1> QED
  BY <1>1, <1>2

LEMMA MapEmpty ==
  ASSUME NEW m \in Map
  PROVE  m = <<>> <=> DOMAIN m = {}
BY MapType

LEMMA StoredType ==
  ASSUME NEW p \in Entities, NEW sn \in SNs, NEW sdu \in Sdus
  PROVE  /\ Stored(p, sn, sdu) \in Entities
         /\ Stored(p, sn, sdu).active = p.active
         /\ Stored(p, sn, sdu).hfn = p.hfn /\ Stored(p, sn, sdu).sn = p.sn
         /\ Stored(p, sn, sdu).fms = IF p.undelivered = <<>> THEN sn ELSE p.fms
         /\ DOMAIN Stored(p, sn, sdu).undelivered = DOMAIN p.undelivered \cup {sn}
         /\ \A n \in DOMAIN p.undelivered \cup {sn} :
              Stored(p, sn, sdu).undelivered[n] = IF n = sn THEN sdu ELSE p.undelivered[n]
<1> DEFINE m == [n \in DOMAIN p.undelivered \cup {sn} |-> IF n = sn THEN sdu ELSE p.undelivered[n]]
           fms == IF p.undelivered = <<>> THEN sn ELSE p.fms
<1>1. p.undelivered \in Map /\ p.fms \in SNs
  BY DEF Entities
<1>2. DOMAIN p.undelivered \subseteq SNs /\ \A n \in DOMAIN p.undelivered : p.undelivered[n] \in Sdus
  BY <1>1, MapType
<1>3. m \in Map
  <2>1. DOMAIN m = DOMAIN p.undelivered \cup {sn} /\ m = [n \in DOMAIN m |-> m[n]]
    OBVIOUS
  <2>2. \A n \in DOMAIN m : m[n] \in Sdus
    BY <1>2
  <2> HIDE DEF m
  <2>3. DOMAIN m \subseteq SNs
    BY <1>2, <2>1
  <2> QED
    BY <2>1, <2>2, <2>3, MapType
<1>4. fms \in SNs
  BY <1>1
<1>5. Stored(p, sn, sdu) = [p EXCEPT !.fms = fms, !.undelivered = m]
  BY DEF Stored, Entities
<1>6. DOMAIN m = DOMAIN p.undelivered \cup {sn}
      /\ \A n \in DOMAIN p.undelivered \cup {sn} : m[n] = IF n = sn THEN sdu ELSE p.undelivered[n]
  OBVIOUS
<1>7. fms = IF p.undelivered = <<>> THEN sn ELSE p.fms
  OBVIOUS
<1> HIDE DEF m, fms
<1> DEFINE y == Stored(p, sn, sdu)
<1>8. y = [p EXCEPT !.fms = fms, !.undelivered = m]
  BY <1>5
<1> HIDE DEF y
<1>9. y.undelivered = m /\ y.fms = fms /\ y.active = p.active /\ y.hfn = p.hfn /\ y.sn = p.sn
  BY <1>8 DEF Entities
<1>10. y \in Entities
  BY <1>3, <1>4, <1>8 DEF Entities
<1>11. /\ DOMAIN y.undelivered = DOMAIN p.undelivered \cup {sn}
       /\ \A n \in DOMAIN p.undelivered \cup {sn} :
            y.undelivered[n] = IF n = sn THEN sdu ELSE p.undelivered[n]
  BY <1>6, <1>9
<1> QED
  BY <1>7, <1>9, <1>10, <1>11 DEF y

LEMMA AdvancedType ==
  ASSUME NEW p \in Entities
  PROVE  /\ Advanced(p) \in Entities
         /\ Advanced(p).active = p.active
         /\ Advanced(p).undelivered = p.undelivered /\ Advanced(p).fms = p.fms
         /\ Advanced(p).sn = IF p.sn = MOD - 1 THEN 0 ELSE p.sn + 1
         /\ Advanced(p).hfn = IF p.sn = MOD - 1 THEN p.hfn + 1 ELSE p.hfn
<1> DEFINE sn == (p.sn + 1) % MOD
           hfn == IF p.sn = MOD - 1 THEN p.hfn + 1 ELSE p.hfn
<1>1. p.sn \in SNs /\ p.hfn \in Nat
  BY DEF Entities
<1>2. sn = IF p.sn = MOD - 1 THEN 0 ELSE p.sn + 1
  BY <1>1, SuccType
<1>3. sn \in SNs /\ hfn \in Nat
  BY <1>1, <1>2, Constants DEF SNs
<1>4. Advanced(p) = [p EXCEPT !.sn = sn, !.hfn = hfn]
  BY DEF Advanced, Entities
<1>5. hfn = IF p.sn = MOD - 1 THEN p.hfn + 1 ELSE p.hfn
  OBVIOUS
<1> HIDE DEF sn, hfn
<1> DEFINE y == Advanced(p)
<1>6. y = [p EXCEPT !.sn = sn, !.hfn = hfn]
  BY <1>4
<1> HIDE DEF y
<1>7. y.undelivered = p.undelivered /\ y.fms = p.fms /\ y.active = p.active /\ y.hfn = hfn /\ y.sn = sn
  BY <1>6 DEF Entities
<1>8. y \in Entities
  BY <1>3, <1>6 DEF Entities
<1> QED
  BY <1>2, <1>5, <1>7, <1>8 DEF y

LEMMA WriteIs ==
  ASSUME NEW x \in Writers, NEW d \in Items
  PROVE  LET y  == Write(x, d)
             sn == NumberFor(x, d)
         IN /\ sn \in SNs
            /\ y \in Writers /\ y.p.active = x.p.active
            /\ ~Accepts(x, d) =>
                 y.p = x.p /\ y.queue = x.queue /\ y.dropped = x.dropped \cup {d.sdu}
            /\ Accepts(x, d) =>
                 /\ y.dropped = x.dropped
                 /\ y.queue = Append(x.queue, [sdu |-> d.sdu, sn |-> sn, hfn |-> x.p.hfn])
                 /\ DOMAIN y.p.undelivered = DOMAIN x.p.undelivered \cup {sn}
                 /\ \A n \in DOMAIN x.p.undelivered \cup {sn} :
                      y.p.undelivered[n] = IF n = sn THEN d.sdu ELSE x.p.undelivered[n]
                 /\ y.p.fms = IF x.p.undelivered = <<>> THEN sn ELSE x.p.fms
                 /\ y.p.sn = IF d.sn # None THEN x.p.sn
                             ELSE IF x.p.sn = MOD - 1 THEN 0 ELSE x.p.sn + 1
                 /\ y.p.hfn = IF d.sn = None /\ x.p.sn = MOD - 1 THEN x.p.hfn + 1 ELSE x.p.hfn
<1> DEFINE y  == Write(x, d)
           sn == NumberFor(x, d)
           p  == Stored(x.p, sn, d.sdu)
           p2 == IF d.sn = None THEN Advanced(p) ELSE p
           pdu == [sdu |-> d.sdu, sn |-> sn, hfn |-> x.p.hfn]
           queue == Append(x.queue, pdu)
           dropped == x.dropped \cup {d.sdu}
<1>1. x.p \in Entities /\ x.queue \in Seq(Pdus) /\ x.dropped \in SUBSET Sdus
  BY DEF Writers
<1>2. d.sdu \in Sdus /\ d.sn \in SNs \cup {None}
  BY DEF Items
<1>3. x.p.sn \in SNs /\ x.p.hfn \in Nat
  BY <1>1 DEF Entities
<1>4. sn \in SNs
  BY <1>2, <1>3 DEF NumberFor
<1> HIDE DEF sn
<1>5. p \in Entities
  BY <1>1, <1>2, <1>4, StoredType
<1>6. p.active = x.p.active /\ p.hfn = x.p.hfn /\ p.sn = x.p.sn
  BY <1>1, <1>2, <1>4, StoredType
<1>7. p.fms = IF x.p.undelivered = <<>> THEN sn ELSE x.p.fms
  BY <1>1, <1>2, <1>4, StoredType
<1>8. /\ DOMAIN p.undelivered = DOMAIN x.p.undelivered \cup {sn}
      /\ \A n \in DOMAIN x.p.undelivered \cup {sn} :
           p.undelivered[n] = IF n = sn THEN d.sdu ELSE x.p.undelivered[n]
  BY <1>1, <1>2, <1>4, StoredType
<1> HIDE DEF p
<1>9. p2 \in Entities /\ p2.active = p.active /\ p2.undelivered = p.undelivered /\ p2.fms = p.fms
  BY <1>5, AdvancedType
<1>10. /\ p2.sn = IF d.sn # None THEN p.sn ELSE IF p.sn = MOD - 1 THEN 0 ELSE p.sn + 1
       /\ p2.hfn = IF d.sn = None /\ p.sn = MOD - 1 THEN p.hfn + 1 ELSE p.hfn
  BY <1>5, AdvancedType
<1> HIDE DEF p2
<1>11. pdu \in Pdus
  BY <1>2, <1>3, <1>4 DEF Pdus
<1> HIDE DEF pdu
<1>12. queue \in Seq(Pdus)
  BY <1>1, <1>11
<1> HIDE DEF queue
<1>13. dropped \in SUBSET Sdus
  BY <1>1, <1>2
<1> HIDE DEF dropped
<1>14. y = IF Accepts(x, d) THEN [x EXCEPT !.p = p2, !.queue = queue]
           ELSE [x EXCEPT !.dropped = dropped]
  BY DEF Write, Accepts, NumberFor, sn, p, p2, pdu, queue, dropped, Writers
<1> HIDE DEF y
<1>15. CASE Accepts(x, d)
  <2>1. y = [x EXCEPT !.p = p2, !.queue = queue]
    BY <1>14, <1>15
  <2>2. y \in Writers /\ y.p = p2 /\ y.queue = queue /\ y.dropped = x.dropped
    BY <1>9, <1>12, <2>1 DEF Writers
  <2>3. y.p.active = x.p.active
    BY <1>6, <1>9, <2>2
  <2>4. /\ DOMAIN y.p.undelivered = DOMAIN x.p.undelivered \cup {sn}
        /\ \A n \in DOMAIN x.p.undelivered \cup {sn} :
             y.p.undelivered[n] = IF n = sn THEN d.sdu ELSE x.p.undelivered[n]
    BY <1>8, <1>9, <2>2
  <2>5. y.p.fms = IF x.p.undelivered = <<>> THEN sn ELSE x.p.fms
    BY <1>7, <1>9, <2>2
  <2>6. /\ y.p.sn = IF d.sn # None THEN x.p.sn
                    ELSE IF x.p.sn = MOD - 1 THEN 0 ELSE x.p.sn + 1
        /\ y.p.hfn = IF d.sn = None /\ x.p.sn = MOD - 1 THEN x.p.hfn + 1 ELSE x.p.hfn
    BY <1>6, <1>10, <2>2
  <2>7. y.queue = Append(x.queue, [sdu |-> d.sdu, sn |-> sn, hfn |-> x.p.hfn])
    BY <2>2 DEF queue, pdu
  <2> QED
    BY <1>4, <1>15, <2>2, <2>3, <2>4, <2>5, <2>6, <2>7 DEF y, sn
<1>16. CASE ~Accepts(x, d)
  <2>1. y = [x EXCEPT !.dropped = dropped]
    BY <1>14, <1>16
  <2>2. y \in Writers /\ y.p = x.p /\ y.queue = x.queue /\ y.dropped = dropped
    BY <1>13, <2>1 DEF Writers
  <2> QED
    BY <1>4, <1>16, <2>2 DEF y, sn, dropped
<1> QED
  BY <1>15, <1>16

(* A whole buffer is written.                                              *)
LEMMA FoldType ==
  ASSUME NEW x \in Writers, NEW ds \in Seq(Items)
  PROVE  /\ FoldLeft(Write, x, ds) \in Writers
         /\ FoldLeft(Write, x, ds).p.active = x.p.active
<1>1. PICK w : Steps(w, x, ds) /\ FoldLeft(Write, x, ds) = w[Len(ds)]
  BY FoldIs
<1> DEFINE n == Len(ds)
           G == {i \in Nat : i <= n => w[i] \in Writers /\ w[i].p.active = x.p.active}
<1>2. n \in Nat /\ \A i \in 1 .. n : i \in DOMAIN ds /\ ds[i] \in Items
  OBVIOUS
<1>3. 0 \in G
  BY <1>1 DEF Steps
<1>4. ASSUME NEW i \in Nat, i \in G
      PROVE  i + 1 \in G
  <2>1. SUFFICES ASSUME i + 1 <= n
                 PROVE  w[i + 1] \in Writers /\ w[i + 1].p.active = x.p.active
    OBVIOUS
  <2>2. i + 1 \in 1 .. n /\ i <= n /\ (i + 1) - 1 = i
    BY <1>2, <2>1
  <2>3. w[i] \in Writers /\ w[i].p.active = x.p.active
    BY <1>4, <2>2
  <2>4. w[i + 1] = Write(w[i], ds[i + 1])
    BY <1>1, <1>2, <2>2 DEF Steps
  <2>5. ds[i + 1] \in Items
    BY <1>2, <2>2
  <2> DEFINE y == Write(w[i], ds[i + 1])
  <2>6. y \in Writers /\ y.p.active = w[i].p.active
    BY <2>3, <2>5, WriteIs
  <2> HIDE DEF y
  <2>7. w[i + 1] = y
    BY <2>4 DEF y
  <2> QED
    BY <2>3, <2>6, <2>7
<1> HIDE DEF G
<1>5. n \in G
  BY <1>2, <1>3, <1>4, SetInduction
<1> QED
  BY <1>1, <1>2, <1>5 DEF G

-----------------------------------------------------------------------------
(* What is cleared from the map, and what is forwarded of it.              *)
LEMMA LeastOf ==
  ASSUME NEW S \in SUBSET Nat, S # {}
  PROVE  Min(S) \in S /\ \A y \in S : Min(S) <= y
BY LeastNat DEF Min

LEMMA ClearedType ==
  ASSUME NEW p \in Entities, NEW sn \in SNs
  PROVE  LET y == Cleared(p, sn) IN
         /\ y \in Entities
         /\ y.active = p.active /\ y.hfn = p.hfn /\ y.sn = p.sn
         /\ DOMAIN y.undelivered = DOMAIN p.undelivered \ {sn}
         /\ \A n \in DOMAIN p.undelivered \ {sn} : y.undelivered[n] = p.undelivered[n]
         /\ ~(sn = p.fms /\ sn \in DOMAIN p.undelivered) => y.fms = p.fms
         /\ \A i \in 1 .. Half :
              /\ sn = p.fms /\ sn \in DOMAIN p.undelivered
              /\ (p.fms + i) % MOD \in DOMAIN p.undelivered \ {sn}
              => \E k \in 1 .. i : /\ y.fms = (p.fms + k) % MOD
                                   /\ y.fms \in DOMAIN p.undelivered \ {sn}
                                   /\ \A l \in 1 .. k - 1 :
                                        (p.fms + l) % MOD \notin DOMAIN p.undelivered \ {sn}
<1> DEFINE y == Cleared(p, sn)
           rest == DOMAIN p.undelivered \ {sn}
           held == {i \in 1 .. Half : (p.fms + i) % MOD \in rest}
           next == IF held = {} THEN 1 ELSE Min(held)
           m == [n \in rest |-> p.undelivered[n]]
           first == sn = p.fms /\ sn \in DOMAIN p.undelivered
           fms == IF first THEN (p.fms + next) % MOD ELSE p.fms
<1>1. p.undelivered \in Map /\ p.fms \in SNs
  BY DEF Entities
<1>2. DOMAIN p.undelivered \subseteq SNs /\ \A n \in DOMAIN p.undelivered : p.undelivered[n] \in Sdus
  BY <1>1, MapType
<1>3. m \in Map
  <2>1. DOMAIN m = rest /\ m = [n \in DOMAIN m |-> m[n]]
    OBVIOUS
  <2>2. \A n \in DOMAIN m : m[n] \in Sdus
    BY <1>2
  <2> HIDE DEF m
  <2>3. DOMAIN m \subseteq SNs
    BY <1>2, <2>1
  <2> QED
    BY <2>1, <2>2, <2>3, MapType
<1>4. y = [p EXCEPT !.undelivered = m, !.fms = fms]
  BY DEF Cleared, Entities
<1>5. held \in SUBSET Nat
  BY Constants
<1>6. held # {} => next \in held /\ \A i \in held : next <= i
  BY <1>5, LeastOf
<1>7. next \in Nat
  BY <1>5, <1>6
<1>8. \A i \in held : i \in 1 .. Half /\ (p.fms + i) % MOD \in rest
  OBVIOUS
<1>9. \A i \in 1 .. Half : (p.fms + i) % MOD \in rest => i \in held
  OBVIOUS
<1> HIDE DEF next, held
<1>10. fms \in SNs
  BY <1>1, <1>7, Constants DEF SNs
<1>11. DOMAIN m = rest /\ \A n \in rest : m[n] = p.undelivered[n]
  OBVIOUS
<1>12. ~first => fms = p.fms
  OBVIOUS
<1>13. first => fms = (p.fms + next) % MOD
  OBVIOUS
<1> HIDE DEF fms, m, y
<1>14. y \in Entities /\ y.undelivered = m /\ y.fms = fms
       /\ y.active = p.active /\ y.hfn = p.hfn /\ y.sn = p.sn
  BY <1>3, <1>4, <1>10 DEF Entities
<1>15. ASSUME NEW i \in 1 .. Half, first, (p.fms + i) % MOD \in rest
       PROVE  \E k \in 1 .. i : /\ y.fms = (p.fms + k) % MOD
                                /\ y.fms \in rest
                                /\ \A l \in 1 .. k - 1 : (p.fms + l) % MOD \notin rest
  <2>1. i \in held
    BY <1>9, <1>15
  <2>2. next \in held /\ next <= i /\ \A l \in held : next <= l
    BY <1>6, <2>1
  <2>3. next \in 1 .. Half /\ next \in 1 .. i /\ (p.fms + next) % MOD \in rest
    BY <1>8, <2>2, Constants
  <2>4. \A l \in 1 .. next - 1 : (p.fms + l) % MOD \notin rest
    <3> SUFFICES ASSUME NEW l \in 1 .. next - 1, (p.fms + l) % MOD \in rest
                 PROVE  FALSE
      OBVIOUS
    <3>1. l \in 1 .. Half /\ l < next
      BY <2>3, Constants
    <3>2. l \in held
      BY <1>9, <3>1
    <3> QED
      BY <2>2, <2>3, <3>1, <3>2
  <2>5. y.fms = (p.fms + next) % MOD
    BY <1>13, <1>14, <1>15
  <2> HIDE DEF rest
  <2> QED
    BY <2>3, <2>4, <2>5
<1>16. /\ DOMAIN y.undelivered = rest
       /\ \A n \in rest : y.undelivered[n] = p.undelivered[n]
       /\ ~first => y.fms = p.fms
  BY <1>11, <1>12, <1>14
<1>17. \A i \in 1 .. Half :
         first /\ (p.fms + i) % MOD \in rest
         => \E k \in 1 .. i : /\ y.fms = (p.fms + k) % MOD
                              /\ y.fms \in rest
                              /\ \A l \in 1 .. k - 1 : (p.fms + l) % MOD \notin rest
  BY <1>15
<1> HIDE DEF first, rest
<1>18. /\ y \in Entities
       /\ y.active = p.active /\ y.hfn = p.hfn /\ y.sn = p.sn
  BY <1>14
<1> QED
  BY <1>16, <1>17, <1>18, Zenon DEF first, rest, y

LEMMA ForwardedIs ==
  ASSUME NEW p \in Entities
  PROVE  LET q == Forwarded(p) IN
         /\ q \in Seq(Items) /\ In(KeyRel, q)
         /\ \A i \in DOMAIN q : /\ q[i].sn \in DOMAIN p.undelivered
                                /\ q[i].sn # None
                                /\ q[i].sdu = p.undelivered[q[i].sn]
<1> DEFINE T == DOMAIN p.undelivered
           n == Cardinality(T)
           P(f) == \A i, j \in DOMAIN f : i < j => f[i] < f[j]
           held == CHOOSE f \in [1 .. n -> T] : P(f)
           q == Forwarded(p)
<1>1. T \subseteq SNs /\ \A s \in T : p.undelivered[s] \in Sdus
  <2>1. p.undelivered \in Map
    BY DEF Entities
  <2> QED
    BY <2>1, MapType
<1>2. n \in Nat /\ \E f \in [1 .. n -> T] : P(f)
  <2>1. MOD - 1 \in Nat /\ T \in SUBSET (0 .. MOD - 1)
    BY <1>1, Constants DEF SNs
  <2> HIDE DEF T
  <2> QED
    BY <2>1, KeysInOrder
<1>3. q = [i \in DOMAIN held |-> Datagram(p.undelivered[held[i]], held[i])]
  BY DEF Forwarded
<1> HIDE DEF P
<1>4. held \in [1 .. n -> T] /\ P(held)
  BY <1>2
<1> HIDE DEF held, n, q
<1>5. \A i \in 1 .. n : held[i] \in T /\ held[i] \in SNs /\ held[i] # None
  BY <1>1, <1>4, Constants
<1> HIDE DEF T
<1>6. DOMAIN q = 1 .. n /\ \A i \in 1 .. n : q[i] = Datagram(p.undelivered[held[i]], held[i])
  BY <1>3, <1>4
<1>7. \A i \in 1 .. n : /\ q[i] \in Items /\ q[i].sn = held[i]
                        /\ q[i].sdu = p.undelivered[held[i]]
  BY <1>1, <1>5, <1>6 DEF Datagram, Items
<1>8. q \in Seq(Items)
  <2>1. q = [i \in 1 .. n |-> q[i]]
    BY <1>3, <1>4
  <2> QED
    BY <1>2, <1>7, <2>1
<1>9. In(KeyRel, q)
  <2> SUFFICES ASSUME NEW i \in 1 .. n, NEW j \in 1 .. n, i < j
               PROVE  <<q[i], q[j]>> \in KeyRel
    BY <1>6 DEF In
  <2>1. held[i] < held[j]
    BY <1>4 DEF P
  <2>2. q[i] \in Marked /\ q[j] \in Marked
    BY <1>7 DEF Marked
  <2>3. q[i].sn # None /\ q[i].sn < q[j].sn
    BY <1>5, <1>7, <2>1
  <2> QED
    BY <2>2, <2>3 DEF KeyRel
<1> QED
  BY <1>5, <1>6, <1>7, <1>8, <1>9 DEF T, q

LEMMA KeyOrder ==
  ASSUME NEW q \in Seq(Items), In(KeyRel, q)
  PROVE  Sorted(q) = q
<1>0. \A i \in DOMAIN q : q[i] \in Items
  OBVIOUS
<1>1. \A i \in DOMAIN q : q[i] \in Items /\ q[i].sn \in SNs \cup {None}
  BY <1>0 DEF Items
<1>2. \A i \in DOMAIN q : KeyOf(q[i]) \in Int
  <2> TAKE i \in DOMAIN q
  <2>1. q[i].sn # None => q[i].sn \in SNs
    BY <1>1
  <2>2. MOD \in Int /\ \A n \in SNs : n \in Int
    BY Constants DEF SNs
  <2> QED
    BY <2>1, <2>2 DEF KeyOf
<1>3. ASSUME NEW i \in DOMAIN q, NEW j \in DOMAIN q, i < j
      PROVE  KeyOf(q[i]) <= KeyOf(q[j])
  <2>1. IF q[i].sn = None THEN q[j].sn = None
        ELSE q[j].sn = None \/ q[i].sn < q[j].sn
    BY <1>3 DEF In, KeyRel
  <2> QED
    BY <1>1, <2>1, Constants DEF KeyOf, SNs
<1> QED
  BY <1>2, <1>3, SortedIsSame

LEMMA PlainOrder ==
  ASSUME NEW q \in Seq(Plain)
  PROVE  Sorted(q) = q /\ q \in Seq(Items)
<1>0. \A i \in DOMAIN q : q[i] \in Plain
  OBVIOUS
<1>1. \A i \in DOMAIN q : q[i].sn = None /\ KeyOf(q[i]) = MOD
  BY <1>0 DEF Plain, KeyOf
<1>2. Sorted(q) = q
  BY <1>1, Constants, SortedIsSame
<1>3. Plain \subseteq Items
  BY DEF Plain, Items
<1> QED
  BY <1>2, <1>3

-----------------------------------------------------------------------------
(* The values, the buffers' order and the phases are kept together.        *)
Base == TypeInv /\ KeyInv /\ PhaseInv

LEMMA TypeFacts ==
  ASSUME TypeInv
  PROVE  /\ pdcp.source \in Entities /\ pdcp.target \in Entities
         /\ s1.source \in Seq(Plain \cup {EndMarker}) /\ s1.target \in Seq(Plain)
         /\ tgt.fwd \in Tunnels /\ tgt.main \in Tunnels
         /\ tgt.fwd.buffer \in Seq(Items) /\ tgt.main.buffer \in Seq(Plain)
         /\ radio.source \in Seq(Pdus) /\ radio.target \in Seq(Pdus)
         /\ core.status \in Seq(Counters)
         /\ ue.next \in SNs /\ ue.last \in SNs /\ ue.hfn \in Nat
         /\ core.sent \in 0 .. NofSdus
BY DEF TypeInv, Tunnels, Targets, Receivers, Cores, ENBs

LEMMA DatagramTypes ==
  /\ Plain \subseteq Items /\ Items \subseteq Marked /\ Plain \cup {EndMarker} \subseteq Marked
  /\ EndMarker.sdu = 0 /\ EndMarker.sn = None /\ EndMarker \notin Items
  /\ \A d \in Items : d.sdu \in Sdus /\ d.sn \in SNs \cup {None} /\ d # EndMarker
  /\ \A d \in Plain : d.sn = None
  /\ \A d \in Items : d.sn = None => d \in Plain
<1>1. Plain \subseteq Items
  BY DEF Plain, Items
<1>2. EndMarker.sdu = 0 /\ EndMarker.sn = None
  BY DEF EndMarker, Datagram
<1>3. \A d \in Items : d.sdu \in Sdus /\ d.sn \in SNs \cup {None}
  BY DEF Items
<1>4. 0 \notin Sdus
  BY DEF Sdus
<1>5. \A d \in Plain : d.sn = None
  BY DEF Plain
<1>6. \A d \in Items : d.sn = None => d \in Plain
  BY DEF Plain, Items
<1> QED
  BY <1>1, <1>2, <1>3, <1>4, <1>5, <1>6 DEF Marked

LEMMA DataType ==
  /\ \A ds \in Seq(Items \cup {EndMarker}) : Data(ds) \subseteq Sdus
  /\ \A ds \in Seq(Items) : Data(ds) \subseteq Sdus
<1>1. \A ds \in Seq(Items \cup {EndMarker}) : Data(ds) \subseteq Sdus
  <2> TAKE ds \in Seq(Items \cup {EndMarker})
  <2>1. \A i \in DOMAIN ds : ds[i] \in Items \cup {EndMarker}
    OBVIOUS
  <2>2. \A d \in Range(ds) : d \in Items \cup {EndMarker}
    BY <2>1 DEF Range
  <2>3. \A s \in Data(ds) : s \in Sdus
    <3> TAKE s \in Data(ds)
    <3>1. PICK d \in Range(ds) : s = d.sdu
      BY DEF Data
    <3>2. s # EndMarker.sdu
      BY DEF Data
    <3> QED
      BY <2>2, <3>1, <3>2, DatagramTypes
  <2> QED
    BY <2>3
<1>2. Seq(Items) \subseteq Seq(Items \cup {EndMarker})
  OBVIOUS
<1> QED
  BY <1>1, <1>2

LEMMA EntityType ==
  ASSUME NEW a \in BOOLEAN, NEW hfn \in Nat, NEW sn \in SNs
  PROVE  /\ Entity(a, hfn, sn) \in Entities
         /\ Entity(a, hfn, sn).active = a
         /\ Entity(a, hfn, sn).hfn = hfn /\ Entity(a, hfn, sn).sn = sn
         /\ Entity(a, hfn, sn).undelivered = <<>>
<1>1. <<>> \in Map
  <2>1. DOMAIN <<>> = {} /\ <<>> = [n \in DOMAIN <<>> |-> <<>>[n]]
    OBVIOUS
  <2> QED
    BY <2>1, MapType
<1>2. 0 \in SNs
  BY Constants DEF SNs
<1> QED
  BY <1>1, <1>2 DEF Entity, Entities

LEMMA InitBase == Init => Base
<1> SUFFICES ASSUME Init PROVE Base
  OBVIOUS
<1>1. PICK first \in Starts :
       /\ pdcp = [source |-> Entity(TRUE, 0, first), target |-> Entity(FALSE, 0, 0)]
       /\ ue = [cell |-> "source", ho_cmd |-> FALSE, hfn |-> 0, next |-> first,
                last |-> (first - 1) % MOD]
  BY Zenon DEF Init
<1>2. /\ src = "pdcp_active" /\ acks = {} /\ x2 = <<>>
      /\ tgt = [state |-> "idle", recfg |-> FALSE, fwd |-> NoTunnel, main |-> NoTunnel]
      /\ radio = [e \in ENBs |-> <<>>] /\ s1 = [e \in ENBs |-> <<>>]
      /\ core = [sent |-> 0, path |-> "source", status |-> <<>>, ho |-> "none"]
      /\ delivered = <<>> /\ givenUp = {} /\ faults = 0
  BY DEF Init
<1>3. first \in SNs /\ (first - 1) % MOD \in SNs /\ 0 \in SNs
  BY ConstantsAssumption DEF SNs
<1>4. pdcp \in [ENBs -> Entities] /\ pdcp.source.active
  <2> DEFINE a == Entity(TRUE, 0, first)
             b == Entity(FALSE, 0, 0)
  <2>1. a \in Entities /\ b \in Entities /\ a.active
    BY <1>3, EntityType
  <2> HIDE DEF a, b
  <2>2. pdcp = [source |-> a, target |-> b]
    BY <1>1 DEF a, b
  <2> QED
    BY <2>1, <2>2 DEF ENBs
<1>5. ue \in Receivers
  BY <1>1, <1>3 DEF ENBs, Receivers
<1>6. TypeInv
  <2>1. NoTunnel \in Tunnels /\ NoTunnel.buffer = <<>>
    BY DEF NoTunnel, Tunnels
  <2>2. tgt \in Targets
    BY <1>2, <2>1 DEF Targets
  <2>3. tgt.main.buffer \in Seq(Plain)
    <3>1. tgt.main = NoTunnel
      BY <1>2
    <3>2. tgt.main.buffer = <<>>
      BY <2>1, <3>1
    <3> QED
      BY <3>2, SocketEmpty
  <2>4. radio \in [ENBs -> Seq(Pdus)] /\ acks \in SUBSET SNs
    BY <1>2
  <2>5. s1 \in [ENBs -> Seq(Plain \cup {EndMarker})] /\ s1.target \in Seq(Plain)
    BY <1>2 DEF ENBs
  <2>6. core \in Cores
    BY <1>2, Constants DEF ENBs, Cores
  <2>7. delivered \in Seq(Passed) /\ x2 \in Seq(Items \cup {EndMarker})
    BY <1>2
  <2>8. givenUp \in SUBSET Sdus /\ faults \in 0 .. MaxFaults
    BY <1>2, Constants
  <2> QED
    BY <1>2, <1>4, <1>5, <2>2, <2>3, <2>4, <2>5, <2>6, <2>7, <2>8 DEF TypeInv
<1>7. tgt.fwd.buffer = <<>> /\ x2 = <<>> /\ s1.source = <<>> /\ s1.target = <<>>
  BY <1>2 DEF NoTunnel, ENBs
<1>8. KeyInv
  BY <1>7, InEmpty DEF KeyInv
<1>9. PhaseInv
  <2>1. core.ho = "none" /\ core.path = "source" /\ tgt.state = "idle" /\ ~tgt.recfg
        /\ core.status = <<>>
    BY <1>2
  <2>2. tgt.fwd = NoTunnel /\ tgt.main = NoTunnel
    BY <1>2
  <2>3. tgt.fwd.state = "none" /\ tgt.main.state = "none" /\ tgt.main.buffer = <<>>
    BY <2>2 DEF NoTunnel
  <2>4. ue.cell = "source" /\ ~ue.ho_cmd
    BY <1>1
  <2> QED
    BY <1>2, <1>4, <1>7, <2>1, <2>2, <2>3, <2>4 DEF PhaseInv
<1> QED
  BY <1>6, <1>8, <1>9 DEF Base

(* The entities, the queues and the dropped SDUs after a buffer is written. *)
Wrote(e, ds, lost, x) ==
  /\ x = FoldLeft(Write, [p |-> pdcp[e], queue |-> radio[e], dropped |-> lost], ds)
  /\ x \in Writers /\ x.p.active = pdcp[e].active
  /\ pdcp' = [pdcp EXCEPT ![e] = x.p] /\ radio' = [radio EXCEPT ![e] = x.queue]
  /\ pdcp'[e] = x.p /\ radio'[e] = x.queue
  /\ \A o \in ENBs \ {e} : pdcp'[o] = pdcp[o] /\ radio'[o] = radio[o]
  /\ givenUp' = givenUp \cup x.dropped

LEMMA WriteAllIs ==
  ASSUME TypeInv, NEW e \in ENBs, NEW ds \in Seq(Items), NEW lost \in SUBSET Sdus,
         WriteAll(e, ds, lost)
  PROVE  /\ \E x : Wrote(e, ds, lost, x)
         /\ pdcp' \in [ENBs -> Entities] /\ radio' \in [ENBs -> Seq(Pdus)]
         /\ givenUp' \in SUBSET Sdus
         /\ \A o \in ENBs : pdcp'[o].active = pdcp[o].active
<1> DEFINE x0 == [p |-> pdcp[e], queue |-> radio[e], dropped |-> lost]
           x == FoldLeft(Write, x0, ds)
<1>1. pdcp \in [ENBs -> Entities] /\ radio \in [ENBs -> Seq(Pdus)] /\ givenUp \in SUBSET Sdus
  BY DEF TypeInv
<1>2. x0 \in Writers
  BY <1>1 DEF Writers
<1>3. x0.p = pdcp[e]
  OBVIOUS
<1> HIDE DEF x0
<1>4. x \in Writers /\ x.p.active = pdcp[e].active
  BY <1>2, <1>3, FoldType
<1>5. pdcp' = [pdcp EXCEPT ![e] = x.p] /\ radio' = [radio EXCEPT ![e] = x.queue]
      /\ givenUp' = givenUp \cup x.dropped
  BY DEF WriteAll, x0
<1> HIDE DEF x
<1>6. x.p \in Entities /\ x.queue \in Seq(Pdus) /\ x.dropped \in SUBSET Sdus
  BY <1>4 DEF Writers
<1>7. /\ pdcp'[e] = x.p /\ radio'[e] = x.queue
      /\ \A o \in ENBs \ {e} : pdcp'[o] = pdcp[o] /\ radio'[o] = radio[o]
  BY <1>1, <1>5
<1>8. Wrote(e, ds, lost, x)
  BY <1>4, <1>5, <1>7 DEF Wrote, x, x0
<1>9. pdcp' \in [ENBs -> Entities] /\ radio' \in [ENBs -> Seq(Pdus)] /\ givenUp' \in SUBSET Sdus
  BY <1>1, <1>5, <1>6
<1>10. \A o \in ENBs : pdcp'[o].active = pdcp[o].active
  <2> TAKE o \in ENBs
  <2>1. CASE o = e
    BY <1>4, <1>7, <2>1
  <2>2. CASE o # e
    BY <1>7, <2>2
  <2> QED
    BY <2>1, <2>2
<1> QED
  BY <1>8, <1>9, <1>10

(* Each action in turn.                                                    *)
LEMMA SendSduBase ==
  ASSUME Base, SendSdu
  PROVE  Base'
<1> DEFINE d == Datagram(core.sent + 1, None)
<1>1. TypeInv /\ KeyInv /\ PhaseInv
  BY DEF Base
<1>2. core.sent < NofSdus /\ core' = [core EXCEPT !.sent = @ + 1]
      /\ s1' = [s1 EXCEPT ![core.path] = Append(@, d)]
  BY DEF SendSdu
<1>3. UNCHANGED <<pdcp, src, tgt, ue, radio, acks, x2, delivered, givenUp, faults>>
  BY DEF SendSdu, air, history
<1>4. core \in Cores /\ core.path \in ENBs /\ core.sent \in 0 .. NofSdus
  BY <1>1 DEF TypeInv, Cores
<1>5. d \in Plain
  BY <1>2, <1>4, Constants DEF Datagram, Plain, Sdus
<1> HIDE DEF d
<1>6. core' \in Cores /\ core'.path = core.path /\ core'.ho = core.ho
      /\ core'.status = core.status
  BY <1>2, <1>4, Constants DEF Cores
<1>7. s1 \in [ENBs -> Seq(Plain \cup {EndMarker})] /\ s1.target \in Seq(Plain)
  BY <1>1 DEF TypeInv
<1>8. CASE core.path = "source"
  <2>1. s1'.source = Append(s1.source, d) /\ s1'.target = s1.target
    BY <1>2, <1>7, <1>8 DEF ENBs
  <2>2. s1' \in [ENBs -> Seq(Plain \cup {EndMarker})]
    BY <1>2, <1>4, <1>5, <1>7
  <2>3. TypeInv'
    BY <1>1, <1>3, <1>6, <1>7, <2>1, <2>2 DEF TypeInv
  <2>4. KeyInv'
    BY <1>1, <1>3 DEF KeyInv
  <2>5. \A i \in DOMAIN s1.source : s1.source[i] # EndMarker
    BY <1>1, <1>8 DEF PhaseInv
  <2>6. \A i \in DOMAIN s1'.source : s1'.source[i] # EndMarker
    <3>1. d # EndMarker
      BY <1>5, DatagramTypes
    <3> QED
      BY <1>5, <1>7, <2>1, <2>5, <3>1, TypeFacts, <1>1
  <2>7. PhaseInv'
    BY <1>1, <1>3, <1>6, <2>1, <2>6 DEF PhaseInv
  <2> QED
    BY <2>3, <2>4, <2>7 DEF Base
<1>9. CASE core.path = "target"
  <2>1. s1'.source = s1.source /\ s1'.target = Append(s1.target, d)
    BY <1>2, <1>7, <1>9 DEF ENBs
  <2>2. s1'.target \in Seq(Plain)
    BY <1>5, <1>7, <2>1
  <2>3. s1' \in [ENBs -> Seq(Plain \cup {EndMarker})]
    BY <1>2, <1>4, <1>5, <1>7
  <2>4. TypeInv'
    BY <1>1, <1>3, <1>6, <2>2, <2>3 DEF TypeInv
  <2>5. KeyInv'
    BY <1>1, <1>3 DEF KeyInv
  <2>6. PhaseInv'
    BY <1>1, <1>3, <1>6, <1>9 DEF PhaseInv
  <2> QED
    BY <2>4, <2>5, <2>6 DEF Base
<1> QED
  BY <1>4, <1>8, <1>9 DEF ENBs

LEMMA SwitchPathBase ==
  ASSUME Base, SwitchPath
  PROVE  Base'
<1>1. TypeInv /\ KeyInv /\ PhaseInv
  BY DEF Base
<1>2. core.ho = "notified" /\ core' = [core EXCEPT !.path = "target"]
      /\ s1' = [s1 EXCEPT !.source = Append(@, EndMarker)]
  BY DEF SwitchPath
<1>3. UNCHANGED <<pdcp, src, tgt, ue, radio, acks, x2, delivered, givenUp, faults>>
  BY DEF SwitchPath, air, history
<1>4. core' \in Cores /\ core'.path = "target" /\ core'.ho = core.ho
  BY <1>1, <1>2 DEF Cores, TypeInv, ENBs
<1>5. s1' \in [ENBs -> Seq(Plain \cup {EndMarker})] /\ s1'.target = s1.target
  <2> DEFINE q == Append(s1.source, EndMarker)
  <2>1. q \in Seq(Plain \cup {EndMarker})
    BY <1>1, TypeFacts
  <2> HIDE DEF q
  <2>2. s1' = [s1 EXCEPT !.source = q]
    BY <1>2 DEF q
  <2> QED
    BY <1>1, <2>1, <2>2 DEF TypeInv, ENBs
<1>6. TypeInv'
  BY <1>1, <1>3, <1>4, <1>5 DEF TypeInv
<1>7. KeyInv'
  BY <1>1, <1>3 DEF KeyInv
<1>8. PhaseInv'
  BY <1>1, <1>2, <1>3, <1>4 DEF PhaseInv
<1> QED
  BY <1>6, <1>7, <1>8 DEF Base

(* The head of a tunnel and the rest of it.                                *)
LEMMA S1Recv ==
  ASSUME TypeInv, NEW e \in ENBs, s1[e] # <<>>, s1' = [s1 EXCEPT ![e] = Tail(@)]
  PROVE  /\ s1' \in [ENBs -> Seq(Plain \cup {EndMarker})] /\ s1'.target \in Seq(Plain)
         /\ Part(s1'[e], s1[e]) /\ \A o \in ENBs \ {e} : s1'[o] = s1[o]
         /\ Head(s1[e]) \in Plain \cup {EndMarker} /\ Head(s1[e]) = s1[e][1] /\ 1 \in DOMAIN s1[e]
         /\ e = "target" => Head(s1[e]) \in Plain
         /\ s1[e] = <<>> => s1'[e] = <<>>
<1> DEFINE q == s1[e]
<1>1. s1 \in [ENBs -> Seq(Plain \cup {EndMarker})] /\ s1["target"] \in Seq(Plain)
  BY DEF TypeInv
<1>2. q \in Seq(Plain \cup {EndMarker}) /\ (e = "target" => q \in Seq(Plain))
  BY <1>1
<1>3. s1'[e] = Tail(q) /\ \A o \in ENBs \ {e} : s1'[o] = s1[o]
  BY <1>1
<1> HIDE DEF q
<1>4. Tail(q) \in Seq(Plain \cup {EndMarker}) /\ Part(Tail(q), q)
      /\ Head(q) \in Plain \cup {EndMarker} /\ Head(q) = q[1] /\ 1 \in DOMAIN q
      /\ (e = "target" => Tail(q) \in Seq(Plain) /\ Head(q) \in Plain)
  BY <1>2, TailIsPart DEF q
<1>5. s1' \in [ENBs -> Seq(Plain \cup {EndMarker})]
  <2> DEFINE t == Tail(q)
  <2>1. t \in Seq(Plain \cup {EndMarker})
    BY <1>4
  <2> HIDE DEF t
  <2>2. s1' = [s1 EXCEPT ![e] = t]
    BY DEF q, t
  <2> QED
    BY <1>1, <2>1, <2>2
<1>6. s1'["target"] \in Seq(Plain)
  BY <1>1, <1>3, <1>4 DEF ENBs
<1> QED
  BY <1>3, <1>4, <1>5, <1>6 DEF q

LEMMA X2Append ==
  ASSUME TypeInv, KeyInv, NEW d \in Plain \cup {EndMarker}, x2' = Append(x2, d),
         tgt'.fwd.buffer = tgt.fwd.buffer
  PROVE  /\ x2' \in Seq(Items \cup {EndMarker}) /\ KeyInv'
         /\ \A i \in DOMAIN x2' : x2'[i] = d \/ \E j \in DOMAIN x2 : x2'[i] = x2[j]
<1> DEFINE D == Items \cup {EndMarker}
           b == tgt.fwd.buffer
<1>1. x2 \in Seq(D) /\ d \in D /\ b \in Seq(Items)
  BY TypeFacts, DatagramTypes DEF TypeInv
<1>2. \A c \in D : <<c, d>> \in KeyRel
  <2>1. d.sn = None /\ d \in Marked
    BY DatagramTypes
  <2> QED
    BY <2>1 DEF KeyRel, Marked
<1>3. \A i \in DOMAIN x2 : <<x2[i], d>> \in KeyRel
  BY <1>1, <1>2
<1>4. \A i \in DOMAIN b : <<b[i], d>> \in KeyRel
  BY <1>1, <1>2
<1>5. In(KeyRel, b) /\ In(KeyRel, x2) /\ Across(KeyRel, b, x2)
  BY DEF KeyInv
<1> HIDE DEF D, b
<1>6. In(KeyRel, x2')
  BY <1>1, <1>3, <1>5, InAppend
<1>7. Across(KeyRel, b, x2')
  BY <1>1, <1>4, <1>5, AcrossAppend
<1>8. x2' \in Seq(D)
  BY <1>1
<1>9. \A i \in DOMAIN x2' : x2'[i] = d \/ \E j \in DOMAIN x2 : x2'[i] = x2[j]
  <2>1. /\ DOMAIN x2' = DOMAIN x2 \cup {Len(x2) + 1}
        /\ \A k \in DOMAIN x2 : x2'[k] = x2[k]
        /\ x2'[Len(x2) + 1] = d
    BY <1>1, SocketSend
  <2> QED
    BY <2>1
<1> QED
  BY <1>5, <1>6, <1>7, <1>8, <1>9 DEF KeyInv, b, D

LEMMA RxSourceBase ==
  ASSUME Base, RxSource
  PROVE  Base'
<1> DEFINE d == Head(s1.source)
<1>1. TypeInv /\ KeyInv /\ PhaseInv
  BY DEF Base
<1>2. /\ s1.source # <<>> /\ s1' = [s1 EXCEPT !["source"] = Tail(@)]
      /\ src' = IF d = EndMarker THEN "none" ELSE src
      /\ x2' = IF src = "forward_to" THEN Append(x2, d) ELSE x2
  BY DEF RxSource
<1>3. UNCHANGED <<tgt, ue, acks, core, delivered, faults>>
  BY DEF RxSource
<1>4. /\ s1' \in [ENBs -> Seq(Plain \cup {EndMarker})] /\ s1'.target \in Seq(Plain)
      /\ Part(s1'.source, s1.source) /\ s1'.target = s1.target
      /\ d \in Plain \cup {EndMarker} /\ d = s1.source[1] /\ 1 \in DOMAIN s1.source
  <2>1. "source" \in ENBs /\ "target" \in ENBs \ {"source"} /\ s1["source"] # <<>>
    BY <1>2 DEF ENBs
  <2> QED
    BY <1>1, <1>2, <2>1, S1Recv
<1>5. /\ pdcp' \in [ENBs -> Entities] /\ radio' \in [ENBs -> Seq(Pdus)] /\ givenUp' \in SUBSET Sdus
      /\ \A o \in ENBs : pdcp'[o].active = pdcp[o].active
  <2>1. CASE src = "pdcp_active" /\ d # EndMarker
    <3>1. WriteAll("source", <<d>>, {})
      BY <2>1 DEF RxSource
    <3>2. d \in Items
      BY <1>4, <2>1, DatagramTypes
    <3>3. <<d>> \in Seq(Items) /\ {} \in SUBSET Sdus /\ "source" \in ENBs
      BY <3>2 DEF ENBs
    <3> QED
      BY <1>1, <3>1, <3>3, WriteAllIs
  <2>2. CASE ~(src = "pdcp_active" /\ d # EndMarker)
    <3>1. givenUp' = givenUp \cup (IF src = "none" THEN Data(<<d>>) ELSE {}) /\ UNCHANGED <<pdcp, radio>>
      BY <2>2 DEF RxSource
    <3>2. <<d>> \in Seq(Items \cup {EndMarker})
      BY <1>4, DatagramTypes
    <3>3. Data(<<d>>) \subseteq Sdus
      BY <3>2, DataType
    <3> QED
      BY <1>1, <3>1, <3>3 DEF TypeInv
  <2> QED
    BY <2>1, <2>2
<1>6. x2' \in Seq(Items \cup {EndMarker}) /\ KeyInv'
      /\ \A i \in DOMAIN x2' : x2'[i] = d \/ \E j \in DOMAIN x2 : x2'[i] = x2[j]
  <2>1. CASE src = "forward_to"
    <3>1. x2' = Append(x2, d) /\ tgt'.fwd.buffer = tgt.fwd.buffer
      BY <1>2, <1>3, <2>1
    <3> QED
      BY <1>1, <1>4, <3>1, X2Append
  <2>2. CASE src # "forward_to"
    <3>1. x2' = x2
      BY <1>2, <2>2
    <3> QED
      BY <1>1, <1>3, <3>1 DEF TypeInv, KeyInv
  <2> QED
    BY <2>1, <2>2
<1>7. \A i \in DOMAIN s1'.source : \E j \in DOMAIN s1.source : s1'.source[i] = s1.source[j]
  BY <1>4, PartKeeps
<1>8. core.path = "source" => d # EndMarker
  BY <1>1, <1>4 DEF PhaseInv
<1>9. core.path \in ENBs
  BY <1>1 DEF TypeInv, Cores
<1> HIDE DEF d
<1>10. TypeInv'
  BY <1>1, <1>2, <1>3, <1>4, <1>5, <1>6 DEF TypeInv
<1>11. pdcp'.source.active = pdcp.source.active /\ pdcp'.target.active = pdcp.target.active
  BY <1>5 DEF ENBs
<1>12. core.ho = "none" => src = "pdcp_active" /\ d # EndMarker /\ x2' = x2
  BY <1>1, <1>2, <1>8, <1>9 DEF PhaseInv, ENBs
<1>13. d = EndMarker => core.ho \in {"notified", "done"}
  BY <1>1, <1>8, <1>9 DEF PhaseInv, ENBs
<1>14. core.path = "source" => /\ \A i \in DOMAIN s1'.source : s1'.source[i] # EndMarker
                               /\ \A i \in DOMAIN x2' : x2'[i] # EndMarker
  BY <1>1, <1>6, <1>7, <1>8 DEF PhaseInv
<1>15. PhaseInv'
  BY <1>1, <1>2, <1>3, <1>4, <1>11, <1>12, <1>13, <1>14 DEF PhaseInv
<1> QED
  BY <1>6, <1>10, <1>15 DEF Base

LEMMA EmptyJoin ==
  ASSUME NEW S, NEW q \in Seq(S)
  PROVE  <<>> \o q = q
OBVIOUS

(* At the handover command, nothing was forwarded before.                  *)
LEMMA HoCmdIs ==
  ASSUME Base, handle_ho_cmd
  PROVE  /\ core.ho = "none" /\ tgt.state = "s1_target_ho" /\ ue.cell = "source"
         /\ x2 = <<>> /\ tgt.fwd.buffer = <<>> /\ src = "pdcp_active"
         /\ x2' = Forwarded(pdcp.source) /\ x2' \in Seq(Items)
         /\ src' = "forward_to"
         /\ pdcp' = [pdcp EXCEPT !.source = [pdcp.source EXCEPT !.active = FALSE]]
         /\ [pdcp.source EXCEPT !.active = FALSE] \in Entities
         /\ core' = [core EXCEPT !.ho = "started",
                                 !.status = <<[hfn |-> pdcp.source.hfn, sn |-> pdcp.source.sn]>>]
         /\ core' \in Cores
         /\ UNCHANGED <<tgt, radio, acks, s1, delivered, givenUp, faults>>
<1>1. TypeInv /\ KeyInv /\ PhaseInv
  BY DEF Base
<1>2. core.ho = "none" /\ tgt.state = "s1_target_ho" /\ ue.cell = "source" /\ src' = "forward_to"
  BY DEF handle_ho_cmd
<1>3. x2 = <<>> /\ tgt.fwd.buffer = <<>> /\ src = "pdcp_active"
  BY <1>1, <1>2 DEF PhaseInv
<1>4. pdcp.source \in Entities
  BY <1>1, TypeFacts
<1>5. x2' = x2 \o Forwarded(pdcp.source)
  BY DEF handle_ho_cmd
<1>6. Forwarded(pdcp.source) \in Seq(Items)
  BY <1>4, ForwardedIs
<1>7. x2' = Forwarded(pdcp.source)
  BY <1>3, <1>5, <1>6, EmptyJoin
<1>8. pdcp' = [pdcp EXCEPT !.source = [pdcp.source EXCEPT !.active = FALSE]]
  BY <1>1 DEF handle_ho_cmd, TypeInv, ENBs
<1>9. [pdcp.source EXCEPT !.active = FALSE] \in Entities
  BY <1>4 DEF Entities
<1>10. core' = [core EXCEPT !.ho = "started",
                            !.status = <<[hfn |-> pdcp.source.hfn, sn |-> pdcp.source.sn]>>]
  BY DEF handle_ho_cmd
<1>11. core' \in Cores
  <2> DEFINE c == [hfn |-> pdcp.source.hfn, sn |-> pdcp.source.sn]
  <2>1. c \in Counters
    BY <1>4 DEF Entities, Counters
  <2> HIDE DEF c
  <2>2. <<c>> \in Seq(Counters)
    BY <2>1
  <2> DEFINE q == <<c>>
  <2>3. q \in Seq(Counters)
    BY <2>2
  <2> HIDE DEF q
  <2>4. core' = [core EXCEPT !.ho = "started", !.status = q]
    BY <1>10 DEF q, c
  <2> QED
    BY <1>1, <2>3, <2>4 DEF Cores, TypeInv
<1>12. UNCHANGED <<tgt, radio, acks, s1, delivered, givenUp, faults>>
  BY DEF handle_ho_cmd, air, history
<1> QED
  BY <1>2, <1>3, <1>6, <1>7, <1>8, <1>9, <1>10, <1>11, <1>12

LEMMA HoCmdBase ==
  ASSUME Base, handle_ho_cmd
  PROVE  Base'
<1>1. TypeInv /\ KeyInv /\ PhaseInv
  BY DEF Base
<1> DEFINE p == [pdcp.source EXCEPT !.active = FALSE]
<1>2. /\ core.ho = "none" /\ tgt.state = "s1_target_ho" /\ ue.cell = "source"
      /\ tgt.fwd.buffer = <<>>
      /\ x2' = Forwarded(pdcp.source) /\ x2' \in Seq(Items)
      /\ src' = "forward_to"
      /\ core' \in Cores
      /\ UNCHANGED <<tgt, radio, acks, s1, delivered, givenUp, faults>>
  BY HoCmdIs
<1>3. pdcp' = [pdcp EXCEPT !.source = p] /\ p \in Entities
  BY HoCmdIs
<1>4. pdcp.source \in Entities
  BY <1>1, TypeFacts
<1>5. p.active = FALSE
  BY <1>4 DEF Entities
<1> HIDE DEF p
<1>6. pdcp' \in [ENBs -> Entities] /\ pdcp'.source = p /\ pdcp'.target = pdcp.target
  BY <1>1, <1>3 DEF TypeInv, ENBs
<1>7. core'.ho = "started" /\ core'.path = core.path
  <2>1. core' = [core EXCEPT !.ho = "started",
                             !.status = <<[hfn |-> pdcp.source.hfn, sn |-> pdcp.source.sn]>>]
    BY HoCmdIs
  <2> QED
    BY <1>1, <2>1 DEF TypeInv, Cores
<1>8. ue' = [ue EXCEPT !.ho_cmd = TRUE]
  BY DEF handle_ho_cmd
<1>9. ue' \in Receivers /\ ue'.cell = ue.cell
  BY <1>1, <1>8 DEF TypeInv, Receivers
<1>10. x2' \in Seq(Items \cup {EndMarker}) /\ \A i \in DOMAIN x2' : x2'[i] # EndMarker
  <2>1. Seq(Items) \subseteq Seq(Items \cup {EndMarker})
    OBVIOUS
  <2>2. \A i \in DOMAIN x2' : x2'[i] \in Items
    BY <1>2
  <2> QED
    BY <1>2, <2>1, <2>2, DatagramTypes
<1>11. TypeInv'
  BY <1>1, <1>2, <1>6, <1>9, <1>10 DEF TypeInv
<1>12. KeyInv'
  <2>1. tgt'.fwd.buffer = <<>>
    BY <1>2
  <2>2. In(KeyRel, x2')
    BY <1>2, <1>4, ForwardedIs
  <2> QED
    BY <2>1, <2>2, InEmpty DEF KeyInv
<1>13. core.path = "source" /\ ~tgt.recfg
  <2>1. core.path \in ENBs
    BY <1>1 DEF TypeInv, Cores
  <2> QED
    BY <1>1, <1>2, <2>1 DEF PhaseInv, ENBs
<1>14. PhaseInv'
  BY <1>1, <1>2, <1>5, <1>6, <1>7, <1>9, <1>10, <1>13 DEF PhaseInv
<1> QED
  BY <1>11, <1>12, <1>14 DEF Base

LEMMA ReleaseSourceBase ==
  ASSUME Base, ReleaseSource
  PROVE  Base'
<1>1. TypeInv /\ KeyInv /\ PhaseInv
  BY DEF Base
<1>2. /\ core.ho = "notified" /\ core.path = "target"
      /\ core' = [core EXCEPT !.ho = "done"]
      /\ faults' = (IF Data(s1.source) = {} THEN faults ELSE faults + 1) /\ faults' <= MaxFaults
      /\ x2' = IF src = "forward_to" THEN Append(x2, EndMarker) ELSE x2
      /\ src' = "none"
      /\ pdcp' = [pdcp EXCEPT !.source = Entity(FALSE, 0, 0)]
      /\ UNCHANGED <<tgt, ue, radio, acks, s1, delivered, givenUp>>
  BY DEF ReleaseSource, air
<1>3. core' \in Cores /\ core'.ho = "done" /\ core'.path = core.path
  BY <1>1, <1>2 DEF TypeInv, Cores
<1>4. pdcp' \in [ENBs -> Entities] /\ pdcp'.target = pdcp.target
  <2> DEFINE p == Entity(FALSE, 0, 0)
  <2>1. p \in Entities
    <3>1. 0 \in SNs
      BY Constants DEF SNs
    <3> QED
      BY <3>1, EntityType
  <2> HIDE DEF p
  <2>2. pdcp' = [pdcp EXCEPT !.source = p]
    BY <1>2 DEF p
  <2> QED
    BY <1>1, <2>1, <2>2 DEF TypeInv, ENBs
<1>5. x2' \in Seq(Items \cup {EndMarker}) /\ KeyInv'
  <2>1. CASE src = "forward_to"
    <3>1. x2' = Append(x2, EndMarker) /\ tgt'.fwd.buffer = tgt.fwd.buffer
      BY <1>2, <2>1
    <3>2. EndMarker \in Plain \cup {EndMarker}
      OBVIOUS
    <3> QED
      BY <1>1, <3>1, <3>2, X2Append
  <2>2. CASE src # "forward_to"
    <3>1. x2' = x2
      BY <1>2, <2>2
    <3> QED
      BY <1>1, <1>2, <3>1 DEF TypeInv, KeyInv
  <2> QED
    BY <2>1, <2>2
<1>6. faults' \in 0 .. MaxFaults
  BY <1>1, <1>2, Constants DEF TypeInv
<1>7. TypeInv'
  BY <1>1, <1>2, <1>3, <1>4, <1>5, <1>6 DEF TypeInv
<1>8. PhaseInv'
  BY <1>1, <1>2, <1>3, <1>4 DEF PhaseInv
<1> QED
  BY <1>5, <1>7, <1>8 DEF Base

LEMMA ReestablishBase ==
  ASSUME Base, Reestablish
  PROVE  Base'
<1>1. TypeInv /\ KeyInv /\ PhaseInv
  BY DEF Base
<1> DEFINE p == Entity(FALSE, pdcp.source.hfn, pdcp.source.sn)
<1>2. /\ ue.cell = "moving" /\ faults < MaxFaults /\ faults' = faults + 1
      /\ ue' = [ue EXCEPT !.cell = "source"]
      /\ core' = [core EXCEPT !.ho = "cancelled"]
      /\ src' = "pdcp_active"
      /\ givenUp' = givenUp \cup Range(pdcp.source.undelivered)
      /\ pdcp' = [pdcp EXCEPT !.source = p]
      /\ UNCHANGED <<tgt, radio, acks, s1, x2, delivered>>
  BY DEF Reestablish, air
<1>3. pdcp.source \in Entities
  BY <1>1, TypeFacts
<1>4. p \in Entities
  BY <1>3, EntityType DEF Entities
<1> HIDE DEF p
<1>5. pdcp' \in [ENBs -> Entities] /\ pdcp'.target = pdcp.target
  BY <1>1, <1>2, <1>4 DEF TypeInv, ENBs
<1>6. core' \in Cores /\ core'.ho = "cancelled" /\ core'.path = core.path
  BY <1>1, <1>2 DEF TypeInv, Cores
<1>7. ue' \in Receivers /\ ue'.cell = "source" /\ ue'.ho_cmd = ue.ho_cmd
  BY <1>1, <1>2 DEF TypeInv, Receivers, ENBs
<1>8. faults' \in 0 .. MaxFaults /\ faults' > 0
  BY <1>1, <1>2, Constants DEF TypeInv
<1>9. givenUp' \in SUBSET Sdus
  <2>1. pdcp.source.undelivered \in Map
    BY <1>3 DEF Entities
  <2>2. Range(pdcp.source.undelivered) \subseteq Sdus
    BY <2>1, MapType DEF Range
  <2> QED
    BY <1>1, <1>2, <2>2 DEF TypeInv
<1>10. TypeInv'
  BY <1>1, <1>2, <1>5, <1>6, <1>7, <1>8, <1>9 DEF TypeInv
<1>11. KeyInv'
  BY <1>1, <1>2 DEF KeyInv
<1>12. core.ho = "started" /\ ~tgt.recfg /\ ~ue.ho_cmd /\ core.path = "source"
  <2>1. core.path \in ENBs
    BY <1>1 DEF TypeInv, Cores
  <2>2. core.ho = "started" /\ ~tgt.recfg /\ ~ue.ho_cmd
    BY <1>1, <1>2 DEF PhaseInv
  <2> QED
    BY <1>1, <2>1, <2>2 DEF PhaseInv, ENBs
<1>13. tgt.fwd.state # "pdcp_active" /\ tgt.state # "done"
  BY <1>1, <1>12 DEF PhaseInv
<1>14. PhaseInv'
  BY <1>1, <1>2, <1>6, <1>7, <1>8, <1>12, <1>13 DEF PhaseInv
<1> QED
  BY <1>10, <1>11, <1>14 DEF Base

LEMMA ReconfigureBase ==
  ASSUME Base, Reconfigure
  PROVE  Base'
<1>1. TypeInv /\ KeyInv /\ PhaseInv
  BY DEF Base
<1> DEFINE p == [pdcp.source EXCEPT !.active = TRUE]
<1>2. core.ho = "cancelled" /\ pdcp' = [pdcp EXCEPT !.source = p]
      /\ UNCHANGED <<src, tgt, ue, radio, acks, s1, x2, core, delivered, givenUp, faults>>
  BY <1>1 DEF Reconfigure, air, history, TypeInv, ENBs
<1>3. pdcp.source \in Entities
  BY <1>1, TypeFacts
<1>4. p \in Entities
  BY <1>3 DEF Entities
<1> HIDE DEF p
<1>5. pdcp' \in [ENBs -> Entities] /\ pdcp'.target = pdcp.target
  BY <1>1, <1>2, <1>4 DEF TypeInv, ENBs
<1>6. TypeInv'
  BY <1>1, <1>2, <1>5 DEF TypeInv
<1>7. KeyInv'
  BY <1>1, <1>2 DEF KeyInv
<1>8. PhaseInv'
  BY <1>1, <1>2, <1>5 DEF PhaseInv
<1> QED
  BY <1>6, <1>7, <1>8 DEF Base

LEMMA HoRequestedBase ==
  ASSUME Base, handle_ho_requested
  PROVE  Base'
<1>1. TypeInv /\ KeyInv /\ PhaseInv
  BY DEF Base
<1>2. tgt.state = "idle"
      /\ tgt' = [tgt EXCEPT !.state = "s1_target_ho", !.fwd = Buffering, !.main = Buffering]
      /\ UNCHANGED <<pdcp, src, ue, radio, acks, s1, x2, core, delivered, givenUp, faults>>
  BY DEF handle_ho_requested, air, history
<1>3. Buffering \in Tunnels /\ Buffering.buffer = <<>> /\ Buffering.state = "buffering"
      /\ Buffering # NoTunnel
  BY DEF Buffering, Tunnels, NoTunnel
<1>4. tgt' \in Targets /\ tgt'.state = "s1_target_ho" /\ tgt'.fwd = Buffering
      /\ tgt'.main = Buffering /\ tgt'.recfg = tgt.recfg
  BY <1>1, <1>2, <1>3 DEF TypeInv, Targets
<1>5. tgt'.main.buffer \in Seq(Plain)
  <2>1. tgt'.main.buffer = <<>>
    BY <1>3, <1>4
  <2> QED
    BY <2>1, SocketEmpty
<1>6. TypeInv'
  BY <1>1, <1>2, <1>4, <1>5 DEF TypeInv
<1>7. tgt'.fwd.buffer = <<>> /\ tgt'.main.buffer = <<>>
      /\ tgt'.fwd.state = "buffering" /\ tgt'.main.state = "buffering"
  BY <1>3, <1>4
<1>8. KeyInv'
  BY <1>1, <1>2, <1>7, InEmpty DEF KeyInv
<1>9. core.ho \notin {"started", "notified", "done"} /\ ~tgt.recfg
  BY <1>1, <1>2 DEF PhaseInv
<1>10. PhaseInv'
  BY <1>1, <1>2, <1>4, <1>7, <1>9 DEF PhaseInv
<1> QED
  BY <1>6, <1>8, <1>10 DEF Base

(* The UE has arrived: what was buffered is written, in its order.         *)
LEMMA CompleteIs ==
  ASSUME Base, NEW p \in Entities, Complete(p)
  PROVE  /\ \E x \in Writers :
              /\ x = FoldLeft(Write, [p |-> p, queue |-> radio.target, dropped |-> {}],
                              tgt.fwd.buffer)
              /\ x.p.active = p.active
              /\ pdcp'.target = x.p /\ radio'.target = x.queue
              /\ givenUp' = givenUp \cup x.dropped
         /\ pdcp' \in [ENBs -> Entities] /\ pdcp'.source = pdcp.source
         /\ radio' \in [ENBs -> Seq(Pdus)] /\ radio'.source = radio.source
         /\ givenUp' \in SUBSET Sdus
         /\ core' \in Cores /\ core'.ho = "notified" /\ core'.path = core.path
         /\ core'.sent = core.sent
         /\ tgt' \in Targets /\ tgt'.state = "done" /\ tgt'.recfg = FALSE
         /\ tgt'.main = tgt.main
         /\ tgt.fwd.state = "buffering" => tgt'.fwd.state = "pdcp_active" /\ tgt'.fwd # NoTunnel
         /\ tgt.fwd.state # "buffering" => tgt'.fwd = tgt.fwd
         /\ tgt'.fwd.buffer = <<>> /\ tgt'.fwd.state # "buffering"
<1>1. TypeInv /\ KeyInv /\ PhaseInv
  BY DEF Base
<1>2. tgt.fwd.buffer \in Seq(Items) /\ tgt.fwd \in Tunnels /\ tgt \in Targets /\ radio.target \in Seq(Pdus)
  BY <1>1, TypeFacts DEF TypeInv
<1>3. Sorted(tgt.fwd.buffer) = tgt.fwd.buffer
  BY <1>1, <1>2, KeyOrder DEF KeyInv
<1> DEFINE x0 == [p |-> p, queue |-> radio.target, dropped |-> {}]
           x == FoldLeft(Write, x0, tgt.fwd.buffer)
<1>4. x0 \in Writers /\ x0.p = p
  BY <1>2 DEF Writers
<1>5. pdcp' = [pdcp EXCEPT !.target = x.p] /\ radio' = [radio EXCEPT !.target = x.queue]
      /\ givenUp' = givenUp \cup x.dropped
  BY <1>3 DEF Complete
<1>6. x = FoldLeft(Write, [p |-> p, queue |-> radio.target, dropped |-> {}], tgt.fwd.buffer)
  OBVIOUS
<1> HIDE DEF x0
<1>7. x \in Writers /\ x.p.active = p.active
  BY <1>2, <1>4, FoldType
<1> HIDE DEF x
<1>8. x.p \in Entities /\ x.queue \in Seq(Pdus) /\ x.dropped \in SUBSET Sdus
  BY <1>7 DEF Writers
<1>9. /\ pdcp' \in [ENBs -> Entities] /\ pdcp'.source = pdcp.source /\ pdcp'.target = x.p
      /\ radio' \in [ENBs -> Seq(Pdus)] /\ radio'.source = radio.source /\ radio'.target = x.queue
      /\ givenUp' \in SUBSET Sdus
  BY <1>1, <1>5, <1>8 DEF TypeInv, ENBs
<1>10. core' = [core EXCEPT !.status = <<>>, !.ho = "notified"]
  BY DEF Complete
<1>11. /\ core' \in Cores /\ core'.ho = "notified" /\ core'.path = core.path
       /\ core'.sent = core.sent
  <2>1. <<>> \in Seq(Counters)
    OBVIOUS
  <2> QED
    BY <1>1, <1>10, <2>1 DEF TypeInv, Cores
<1> DEFINE f == IF tgt.fwd.state = "buffering" THEN Active ELSE tgt.fwd
<1>12. tgt' = [tgt EXCEPT !.state = "done", !.recfg = FALSE, !.fwd = f]
  BY <1>2 DEF Complete, Targets
<1>13. Active \in Tunnels /\ Active.buffer = <<>> /\ Active.state = "pdcp_active" /\ Active # NoTunnel
  BY DEF Active, Tunnels, NoTunnel
<1>14. f \in Tunnels /\ f.state # "buffering" /\ f.buffer = <<>>
  BY <1>1, <1>2, <1>13 DEF PhaseInv
<1>15. /\ tgt.fwd.state = "buffering" => f.state = "pdcp_active" /\ f # NoTunnel
       /\ tgt.fwd.state # "buffering" => f = tgt.fwd
  BY <1>13
<1> HIDE DEF f
<1>16. tgt' \in Targets /\ tgt'.state = "done" /\ tgt'.recfg = FALSE
       /\ tgt'.main = tgt.main /\ tgt'.fwd = f
  BY <1>2, <1>12, <1>14 DEF Targets
<1> QED
  BY <1>6, <1>7, <1>5, <1>9, <1>11, <1>14, <1>15, <1>16

LEMMA CompleteBase ==
  ASSUME Base, NEW p \in Entities, Complete(p), p.active,
         core.ho = "started", ue'.cell = "target", ue' \in Receivers, ue'.ho_cmd = FALSE,
         UNCHANGED <<src, acks, s1, x2, delivered, faults>>
  PROVE  Base'
<1>1. TypeInv /\ KeyInv /\ PhaseInv
  BY DEF Base
<1>2. PICK x \in Writers : x.p.active = p.active /\ pdcp'.target = x.p
  BY CompleteIs
<1>3. pdcp'.target.active
  BY <1>2
<1>4. /\ pdcp' \in [ENBs -> Entities]
      /\ radio' \in [ENBs -> Seq(Pdus)] /\ givenUp' \in SUBSET Sdus
      /\ core' \in Cores /\ core'.ho = "notified" /\ core'.path = core.path
      /\ tgt' \in Targets /\ tgt'.state = "done" /\ tgt'.recfg = FALSE
      /\ tgt'.main = tgt.main
      /\ tgt.fwd.state = "buffering" => tgt'.fwd.state = "pdcp_active" /\ tgt'.fwd # NoTunnel
      /\ tgt.fwd.state # "buffering" => tgt'.fwd = tgt.fwd
      /\ tgt'.fwd.buffer = <<>> /\ tgt'.fwd.state # "buffering"
  BY CompleteIs
<1>5. TypeInv'
  BY <1>1, <1>4 DEF TypeInv
<1>6. KeyInv'
  BY <1>1, <1>4, InEmpty DEF KeyInv
<1>7. core.path = "source"
  <2>1. core.path \in ENBs
    BY <1>1 DEF TypeInv, Cores
  <2> QED
    BY <1>1, <2>1 DEF PhaseInv, ENBs
<1>8. NoTunnel.state # "buffering"
  BY DEF NoTunnel
<1>9. src = "forward_to" /\ tgt.main.state # "none"
  BY <1>1 DEF PhaseInv
<1>10. tgt.main.state = "pdcp_active" => tgt'.fwd = NoTunnel
  BY <1>1, <1>4, <1>8 DEF PhaseInv
<1>11. PhaseInv'
  BY <1>1, <1>3, <1>4, <1>7, <1>9, <1>10 DEF PhaseInv
<1> QED
  BY <1>5, <1>6, <1>11 DEF Base

LEMMA StatusTransferBase ==
  ASSUME Base, handle_status_transfer
  PROVE  Base'
<1>1. TypeInv /\ KeyInv /\ PhaseInv
  BY DEF Base
<1> DEFINE p == StartsAt(core.status[1])
<1>2. tgt.state = "s1_target_ho" /\ core.status # <<>>
      /\ UNCHANGED <<src, ue, acks, s1, x2, delivered, faults>>
  BY DEF handle_status_transfer
<1>3. p \in Entities /\ p.active
  <2>1. core.status[1] \in Counters
    BY <1>1, <1>2, TypeFacts
  <2> QED
    BY <2>1, EntityType DEF Counters, StartsAt
<1>4. CASE tgt.recfg
  <2>1. Complete(p)
    BY <1>4 DEF handle_status_transfer
  <2>2. core.ho = "started" /\ ue.cell = "target"
    BY <1>1, <1>4 DEF PhaseInv
  <2>3. ue.ho_cmd = FALSE /\ ue' \in Receivers /\ ue' = ue
    <3>1. ue.ho_cmd \in BOOLEAN /\ ue \in Receivers
      BY <1>1 DEF TypeInv, Receivers
    <3>2. ~ue.ho_cmd
      BY <1>1, <2>2 DEF PhaseInv
    <3> QED
      BY <1>2, <3>1, <3>2
  <2> HIDE DEF p
  <2> QED
    BY <1>2, <1>3, <2>1, <2>2, <2>3, CompleteBase
<1>5. CASE ~tgt.recfg
  <2>1. /\ pdcp' = [pdcp EXCEPT !.target = p]
        /\ core' = [core EXCEPT !.status = <<>>]
        /\ tgt' = [tgt EXCEPT !.state = "wait_recfg_comp"]
        /\ UNCHANGED <<radio, givenUp>>
    BY <1>5 DEF handle_status_transfer
  <2> HIDE DEF p
  <2>2. pdcp' \in [ENBs -> Entities] /\ pdcp'.source = pdcp.source /\ pdcp'.target = p
    BY <1>1, <1>3, <2>1 DEF TypeInv, ENBs
  <2>9. pdcp'.target.active
    BY <1>3, <2>2
  <2>3. core' \in Cores /\ core'.ho = core.ho /\ core'.path = core.path
    <3>1. <<>> \in Seq(Counters)
      OBVIOUS
    <3> QED
      BY <1>1, <2>1, <3>1 DEF TypeInv, Cores
  <2>4. /\ tgt' \in Targets /\ tgt'.fwd = tgt.fwd /\ tgt'.main = tgt.main
        /\ tgt'.recfg = tgt.recfg /\ tgt'.state = "wait_recfg_comp"
    BY <1>1, <2>1 DEF TypeInv, Targets
  <2>5. TypeInv'
    BY <1>1, <1>2, <2>1, <2>2, <2>3, <2>4 DEF TypeInv
  <2>6. KeyInv'
    BY <1>1, <1>2, <2>4 DEF KeyInv
  <2>7. core.ho # "none"
    BY <1>1, <1>2 DEF PhaseInv
  <2>8. PhaseInv'
    BY <1>1, <1>2, <1>5, <2>2, <2>3, <2>4, <2>7, <2>9 DEF PhaseInv
  <2> QED
    BY <2>5, <2>6, <2>8 DEF Base
<1> QED
  BY <1>4, <1>5

LEMMA AccessTargetBase ==
  ASSUME Base, AccessTarget
  PROVE  Base'
<1>1. TypeInv /\ KeyInv /\ PhaseInv
  BY DEF Base
<1>2. ue.cell = "moving" /\ ue' = [ue EXCEPT !.cell = "target"]
      /\ UNCHANGED <<src, acks, s1, x2, delivered, faults>>
  BY DEF AccessTarget
<1>3. core.ho = "started" /\ ~ue.ho_cmd /\ ~tgt.recfg
  BY <1>1, <1>2 DEF PhaseInv
<1>4. ue' \in Receivers /\ ue'.cell = "target" /\ ue'.ho_cmd = FALSE
  <2>1. ue.ho_cmd = FALSE
    BY <1>1, <1>3 DEF TypeInv, Receivers
  <2> QED
    BY <1>1, <1>2, <2>1 DEF TypeInv, Receivers, ENBs
<1>5. CASE tgt.state = "wait_recfg_comp"
  <2>1. Complete(pdcp.target)
    BY <1>5 DEF AccessTarget, RecfgComplete
  <2>2. pdcp.target \in Entities
    BY <1>1, TypeFacts
  <2>3. pdcp.target.active
    BY <1>1, <1>3, <1>5 DEF PhaseInv
  <2> QED
    BY <1>2, <1>3, <1>4, <2>1, <2>2, <2>3, CompleteBase
<1>6. CASE tgt.state # "wait_recfg_comp"
  <2>1. tgt' = [tgt EXCEPT !.recfg = TRUE] /\ UNCHANGED <<pdcp, radio, core, givenUp>>
    BY <1>6 DEF AccessTarget, RecfgComplete
  <2>2. /\ tgt' \in Targets /\ tgt'.fwd = tgt.fwd /\ tgt'.main = tgt.main
        /\ tgt'.state = tgt.state
    BY <1>1, <2>1 DEF TypeInv, Targets
  <2>3. TypeInv'
    BY <1>1, <1>2, <1>4, <2>1, <2>2 DEF TypeInv
  <2>4. KeyInv'
    BY <1>1, <1>2, <2>2 DEF KeyInv
  <2>5. tgt.state = "s1_target_ho"
    BY <1>1, <1>3, <1>6 DEF PhaseInv
  <2>6. ~ue'.ho_cmd
    BY <1>4
  <2>7. PhaseInv'
    BY <1>1, <1>2, <1>3, <1>4, <2>1, <2>2, <2>5, <2>6 DEF PhaseInv
  <2> QED
    BY <2>3, <2>4, <2>7 DEF Base
<1> QED
  BY <1>5, <1>6

(* The forwarding tunnel is removed, and the main one's buffer is written. *)
LEMMA RemoveForwardingIs ==
  ASSUME Base, RemoveForwarding
  PROVE  /\ \E x : Wrote("target", tgt.main.buffer, Data(tgt.fwd.buffer), x)
         /\ pdcp' \in [ENBs -> Entities] /\ radio' \in [ENBs -> Seq(Pdus)]
         /\ givenUp' \in SUBSET Sdus
         /\ pdcp'.source = pdcp.source /\ pdcp'.target.active = pdcp.target.active
         /\ tgt' \in Targets /\ tgt'.fwd = NoTunnel /\ tgt'.main = Active
         /\ tgt'.state = tgt.state /\ tgt'.recfg = tgt.recfg
         /\ tgt'.main.buffer = <<>> /\ tgt'.fwd.buffer = <<>>
         /\ tgt'.fwd.state = "none" /\ tgt'.main.state = "pdcp_active"
<1>1. TypeInv /\ KeyInv /\ PhaseInv
  BY DEF Base
<1>2. tgt.fwd.buffer \in Seq(Items) /\ tgt.main.buffer \in Seq(Plain) /\ tgt \in Targets
  BY <1>1, TypeFacts DEF TypeInv
<1>3. Sorted(tgt.main.buffer) = tgt.main.buffer /\ tgt.main.buffer \in Seq(Items)
  BY <1>2, PlainOrder
<1>4. Data(tgt.fwd.buffer) \in SUBSET Sdus
  BY <1>2, DataType
<1>5. WriteAll("target", tgt.main.buffer, Data(tgt.fwd.buffer))
      /\ tgt' = [tgt EXCEPT !.fwd = NoTunnel, !.main = Active]
  BY <1>3 DEF RemoveForwarding
<1>6. "target" \in ENBs /\ "source" \in ENBs
  BY DEF ENBs
<1>7. /\ \E x : Wrote("target", tgt.main.buffer, Data(tgt.fwd.buffer), x)
      /\ pdcp' \in [ENBs -> Entities] /\ radio' \in [ENBs -> Seq(Pdus)]
      /\ givenUp' \in SUBSET Sdus
      /\ \A o \in ENBs : pdcp'[o].active = pdcp[o].active
  BY <1>1, <1>3, <1>4, <1>5, <1>6, WriteAllIs
<1>8. pdcp'["source"] = pdcp["source"]
  BY <1>6, <1>7 DEF Wrote
<1>9. Active \in Tunnels /\ NoTunnel \in Tunnels
      /\ Active.buffer = <<>> /\ NoTunnel.buffer = <<>>
      /\ Active.state = "pdcp_active" /\ NoTunnel.state = "none"
  BY DEF Active, NoTunnel, Tunnels
<1>10. /\ tgt' \in Targets /\ tgt'.fwd = NoTunnel /\ tgt'.main = Active
       /\ tgt'.state = tgt.state /\ tgt'.recfg = tgt.recfg
  BY <1>2, <1>5, <1>9 DEF Targets
<1> QED
  BY <1>6, <1>7, <1>8, <1>9, <1>10

LEMMA RemoveForwardingBase ==
  ASSUME Base, RemoveForwarding, tgt.fwd # NoTunnel,
         x2' \in Seq(Items \cup {EndMarker}), Part(x2', x2),
         core.ho = "none" => x2' = x2,
         UNCHANGED <<src, ue, acks, s1, core, delivered>>, faults' \in 0 .. MaxFaults,
         faults' >= faults
  PROVE  Base'
<1>1. TypeInv /\ KeyInv /\ PhaseInv
  BY DEF Base
<1>2. /\ pdcp' \in [ENBs -> Entities] /\ radio' \in [ENBs -> Seq(Pdus)]
      /\ givenUp' \in SUBSET Sdus
      /\ pdcp'.source = pdcp.source /\ pdcp'.target.active = pdcp.target.active
      /\ tgt' \in Targets /\ tgt'.fwd = NoTunnel
      /\ tgt'.state = tgt.state /\ tgt'.recfg = tgt.recfg
      /\ tgt'.main.buffer = <<>> /\ tgt'.fwd.buffer = <<>>
      /\ tgt'.fwd.state = "none" /\ tgt'.main.state = "pdcp_active"
  BY RemoveForwardingIs
<1>3. tgt'.main.buffer \in Seq(Plain)
  BY <1>2, SocketEmpty
<1>4. TypeInv'
  BY <1>1, <1>2, <1>3 DEF TypeInv
<1>5. KeyInv'
  <2>1. In(KeyRel, x2')
    BY <1>1, PartKeeps DEF KeyInv
  <2> QED
    BY <1>2, <2>1, InEmpty DEF KeyInv
<1>6. \A i \in DOMAIN x2' : \E j \in DOMAIN x2 : x2'[i] = x2[j]
  BY PartKeeps
<1>7. core.path = "source" => \A i \in DOMAIN x2' : x2'[i] # EndMarker
  BY <1>1, <1>6 DEF PhaseInv
<1>8. tgt.state # "idle" /\ faults \in Nat /\ faults' \in Nat
  BY <1>1, Constants DEF PhaseInv, TypeInv
<1>10. core.ho = "cancelled" => faults' > 0
  BY <1>1, <1>8 DEF PhaseInv
<1>11. PhaseInv'
  BY <1>1, <1>2, <1>7, <1>8, <1>10 DEF PhaseInv
<1> QED
  BY <1>4, <1>5, <1>11 DEF Base

(* An SDU is written, buffered or dropped.                                 *)
LEMMA DataPduFwd ==
  ASSUME TypeInv, NEW d \in Items \cup {EndMarker}, d = EndMarker => tgt.fwd = NoTunnel,
         DataPdu("fwd", d)
  PROVE  /\ \/ /\ tgt.fwd.state = "pdcp_active" /\ d \in Items
               /\ tgt' = tgt /\ \E x : Wrote("target", <<d>>, {}, x)
            \/ /\ tgt.fwd.state = "buffering" /\ Len(tgt.fwd.buffer) < Buffer /\ d \in Items
               /\ tgt'.fwd.buffer = Append(tgt.fwd.buffer, d)
               /\ tgt'.fwd # NoTunnel
               /\ UNCHANGED <<pdcp, radio, givenUp>>
            \/ /\ tgt.fwd.state = "buffering" => Len(tgt.fwd.buffer) >= Buffer
               /\ tgt.fwd.state # "pdcp_active"
               /\ givenUp' = givenUp \cup Data(<<d>>)
               /\ tgt' = tgt /\ UNCHANGED <<pdcp, radio>>
         /\ pdcp' \in [ENBs -> Entities] /\ radio' \in [ENBs -> Seq(Pdus)]
         /\ givenUp' \in SUBSET Sdus
         /\ pdcp'.source = pdcp.source /\ pdcp'.target.active = pdcp.target.active
         /\ tgt' \in Targets /\ tgt'.state = tgt.state /\ tgt'.recfg = tgt.recfg
         /\ tgt'.main = tgt.main /\ tgt'.fwd.state = tgt.fwd.state
<1>1. /\ tgt \in Targets /\ tgt.fwd \in Tunnels /\ tgt.fwd.buffer \in Seq(Items)
      /\ pdcp \in [ENBs -> Entities] /\ radio \in [ENBs -> Seq(Pdus)] /\ givenUp \in SUBSET Sdus
  BY TypeFacts DEF TypeInv
<1>2. tgt["fwd"] = tgt.fwd
  BY <1>1 DEF Targets
<1>3. tgt.fwd.state \in {"pdcp_active", "buffering"} => d \in Items
  <2>1. NoTunnel.state = "none"
    BY DEF NoTunnel
  <2> QED
    BY <2>1
<1>4. "target" \in ENBs /\ "source" \in ENBs
  BY DEF ENBs
<1>5. CASE /\ tgt.fwd.state = "pdcp_active"
           /\ WriteAll("target", <<d>>, {})
           /\ UNCHANGED tgt
  <2>1. <<d>> \in Seq(Items) /\ {} \in SUBSET Sdus
    BY <1>3, <1>5
  <2>2. /\ \E x : Wrote("target", <<d>>, {}, x)
        /\ pdcp' \in [ENBs -> Entities] /\ radio' \in [ENBs -> Seq(Pdus)]
        /\ givenUp' \in SUBSET Sdus
        /\ \A o \in ENBs : pdcp'[o].active = pdcp[o].active
    BY <1>4, <1>5, <2>1, WriteAllIs
  <2>3. pdcp'["source"] = pdcp["source"]
    BY <1>4, <2>2 DEF Wrote
  <2> QED
    BY <1>1, <1>3, <1>4, <1>5, <2>2, <2>3
<1>6. CASE /\ tgt.fwd.state = "buffering" /\ Len(tgt.fwd.buffer) < Buffer
           /\ tgt' = [tgt EXCEPT !["fwd"].buffer = Append(@, d)]
           /\ UNCHANGED <<pdcp, radio, givenUp>>
  <2> DEFINE b == Append(tgt.fwd.buffer, d)
             t == [tgt.fwd EXCEPT !.buffer = b]
  <2>1. b \in Seq(Items)
    BY <1>1, <1>3, <1>6
  <2>2. tgt' = [tgt EXCEPT !.fwd = t]
    BY <1>1, <1>6 DEF Targets, Tunnels
  <2>7. b = Append(tgt.fwd.buffer, d)
    OBVIOUS
  <2> HIDE DEF b
  <2>3. t \in Tunnels /\ t.state = tgt.fwd.state /\ t.buffer = b
    BY <1>1, <2>1 DEF Tunnels
  <2> HIDE DEF t
  <2>4. tgt' \in Targets /\ tgt'.fwd = t /\ tgt'.main = tgt.main /\ tgt'.state = tgt.state
        /\ tgt'.recfg = tgt.recfg
    BY <1>1, <2>2, <2>3 DEF Targets
  <2>5. t # NoTunnel
    BY <1>6, <2>3 DEF NoTunnel
  <2>6. d \in Items
    BY <1>3, <1>6
  <2>8. /\ tgt'.fwd.state = tgt.fwd.state /\ tgt'.fwd # NoTunnel
        /\ tgt'.fwd.buffer = Append(tgt.fwd.buffer, d)
    BY <2>3, <2>4, <2>5, <2>7
  <2> QED
    BY <1>1, <1>6, <2>4, <2>6, <2>8
<1>7. CASE /\ tgt.fwd.state # "pdcp_active"
           /\ tgt.fwd.state = "buffering" => Len(tgt.fwd.buffer) >= Buffer
           /\ givenUp' = givenUp \cup Data(<<d>>)
           /\ UNCHANGED <<pdcp, radio, tgt>>
  <2>1. Data(<<d>>) \subseteq Sdus
    <3>1. <<d>> \in Seq(Items \cup {EndMarker})
      OBVIOUS
    <3> QED
      BY <3>1, DataType
  <2> QED
    BY <1>1, <1>7, <2>1
<1>8. \/ /\ tgt.fwd.state = "pdcp_active"
         /\ WriteAll("target", <<d>>, {})
         /\ UNCHANGED tgt
      \/ /\ tgt.fwd.state = "buffering" /\ Len(tgt.fwd.buffer) < Buffer
         /\ tgt' = [tgt EXCEPT !["fwd"].buffer = Append(@, d)]
         /\ UNCHANGED <<pdcp, radio, givenUp>>
      \/ /\ tgt.fwd.state # "pdcp_active"
         /\ tgt.fwd.state = "buffering" => Len(tgt.fwd.buffer) >= Buffer
         /\ givenUp' = givenUp \cup Data(<<d>>)
         /\ UNCHANGED <<pdcp, radio, tgt>>
  BY <1>2, Zenon DEF DataPdu
<1> QED
  BY <1>5, <1>6, <1>7, <1>8

LEMMA DataPduMain ==
  ASSUME TypeInv, NEW d \in Plain,
         DataPdu("main", d)
  PROVE  /\ \/ /\ tgt.main.state = "pdcp_active" 
               /\ tgt' = tgt /\ \E x : Wrote("target", <<d>>, {}, x)
            \/ /\ tgt.main.state = "buffering" /\ Len(tgt.main.buffer) < Buffer
               /\ tgt'.main.buffer = Append(tgt.main.buffer, d)
               /\ tgt'.main # NoTunnel
               /\ UNCHANGED <<pdcp, radio, givenUp>>
            \/ /\ tgt.main.state = "buffering" => Len(tgt.main.buffer) >= Buffer
               /\ tgt.main.state # "pdcp_active"
               /\ givenUp' = givenUp \cup Data(<<d>>)
               /\ tgt' = tgt /\ UNCHANGED <<pdcp, radio>>
         /\ pdcp' \in [ENBs -> Entities] /\ radio' \in [ENBs -> Seq(Pdus)]
         /\ givenUp' \in SUBSET Sdus
         /\ pdcp'.source = pdcp.source /\ pdcp'.target.active = pdcp.target.active
         /\ tgt' \in Targets /\ tgt'.state = tgt.state /\ tgt'.recfg = tgt.recfg
         /\ tgt'.fwd = tgt.fwd /\ tgt'.main.state = tgt.main.state
         /\ tgt'.main.buffer \in Seq(Plain)
<1>1. /\ tgt \in Targets /\ tgt.main \in Tunnels /\ tgt.main.buffer \in Seq(Plain)
      /\ pdcp \in [ENBs -> Entities] /\ radio \in [ENBs -> Seq(Pdus)] /\ givenUp \in SUBSET Sdus
  BY TypeFacts DEF TypeInv
<1>2. tgt["main"] = tgt.main
  BY <1>1 DEF Targets
<1>3. d \in Items /\ Seq(Plain) \subseteq Seq(Items)
  <2>1. Plain \subseteq Items
    BY DatagramTypes
  <2> QED
    BY <2>1
<1>4. "target" \in ENBs /\ "source" \in ENBs
  BY DEF ENBs
<1>5. CASE /\ tgt.main.state = "pdcp_active"
           /\ WriteAll("target", <<d>>, {})
           /\ UNCHANGED tgt
  <2>1. <<d>> \in Seq(Items) /\ {} \in SUBSET Sdus
    BY <1>3, <1>5
  <2>2. /\ \E x : Wrote("target", <<d>>, {}, x)
        /\ pdcp' \in [ENBs -> Entities] /\ radio' \in [ENBs -> Seq(Pdus)]
        /\ givenUp' \in SUBSET Sdus
        /\ \A o \in ENBs : pdcp'[o].active = pdcp[o].active
    BY <1>4, <1>5, <2>1, WriteAllIs
  <2>3. pdcp'["source"] = pdcp["source"]
    BY <1>4, <2>2 DEF Wrote
  <2> QED
    BY <1>1, <1>3, <1>4, <1>5, <2>2, <2>3
<1>6. CASE /\ tgt.main.state = "buffering" /\ Len(tgt.main.buffer) < Buffer
           /\ tgt' = [tgt EXCEPT !["main"].buffer = Append(@, d)]
           /\ UNCHANGED <<pdcp, radio, givenUp>>
  <2> DEFINE b == Append(tgt.main.buffer, d)
             t == [tgt.main EXCEPT !.buffer = b]
  <2>1. b \in Seq(Plain) /\ b \in Seq(Items)
    BY <1>1, <1>3
  <2>2. tgt' = [tgt EXCEPT !.main = t]
    BY <1>1, <1>6 DEF Targets, Tunnels
  <2>7. b = Append(tgt.main.buffer, d)
    OBVIOUS
  <2> HIDE DEF b
  <2>3. t \in Tunnels /\ t.state = tgt.main.state /\ t.buffer = b
    BY <1>1, <2>1 DEF Tunnels
  <2> HIDE DEF t
  <2>4. tgt' \in Targets /\ tgt'.main = t /\ tgt'.fwd = tgt.fwd /\ tgt'.state = tgt.state
        /\ tgt'.recfg = tgt.recfg
    BY <1>1, <2>2, <2>3 DEF Targets
  <2>5. t # NoTunnel
    BY <1>6, <2>3 DEF NoTunnel
  <2>8. /\ tgt'.main.state = tgt.main.state /\ tgt'.main # NoTunnel
        /\ tgt'.main.buffer = Append(tgt.main.buffer, d) /\ tgt'.main.buffer \in Seq(Plain)
    BY <2>3, <2>4, <2>5, <2>7, <2>1
  <2> QED
    BY <1>1, <1>6, <2>4, <2>8
<1>7. CASE /\ tgt.main.state # "pdcp_active"
           /\ tgt.main.state = "buffering" => Len(tgt.main.buffer) >= Buffer
           /\ givenUp' = givenUp \cup Data(<<d>>)
           /\ UNCHANGED <<pdcp, radio, tgt>>
  <2>1. Data(<<d>>) \subseteq Sdus
    <3>1. <<d>> \in Seq(Items \cup {EndMarker})
      BY <1>3
    <3> QED
      BY <3>1, DataType
  <2> QED
    BY <1>1, <1>7, <2>1
<1>8. \/ /\ tgt.main.state = "pdcp_active"
         /\ WriteAll("target", <<d>>, {})
         /\ UNCHANGED tgt
      \/ /\ tgt.main.state = "buffering" /\ Len(tgt.main.buffer) < Buffer
         /\ tgt' = [tgt EXCEPT !["main"].buffer = Append(@, d)]
         /\ UNCHANGED <<pdcp, radio, givenUp>>
      \/ /\ tgt.main.state # "pdcp_active"
         /\ tgt.main.state = "buffering" => Len(tgt.main.buffer) >= Buffer
         /\ givenUp' = givenUp \cup Data(<<d>>)
         /\ UNCHANGED <<pdcp, radio, tgt>>
  BY <1>2, Zenon DEF DataPdu
<1> QED
  BY <1>5, <1>6, <1>7, <1>8

LEMMA RxForwardedIs ==
  ASSUME Base, RxForwarded
  PROVE  /\ x2 # <<>> /\ x2' = Tail(x2) /\ x2' \in Seq(Items \cup {EndMarker}) /\ Part(x2', x2)
         /\ Head(x2) \in Items \cup {EndMarker} /\ Head(x2) = x2[1] /\ 1 \in DOMAIN x2
         /\ core.ho # "none"
         /\ \/ Head(x2) = EndMarker /\ tgt.fwd # NoTunnel /\ RemoveForwarding
            \/ (Head(x2) = EndMarker => tgt.fwd = NoTunnel) /\ DataPdu("fwd", Head(x2))
         /\ UNCHANGED <<src, ue, acks, s1, core, delivered, faults>>
<1>1. x2 # <<>> /\ x2' = Tail(x2) /\ x2 \in Seq(Items \cup {EndMarker})
  BY DEF RxForwarded, Base, TypeInv
<1>2. Part(x2', x2) /\ x2' \in Seq(Items \cup {EndMarker})
  BY <1>1, TailIsPart
<1>3. Head(x2) \in Items \cup {EndMarker} /\ Head(x2) = x2[1] /\ 1 \in DOMAIN x2
  BY <1>1
<1>4. core.ho # "none"
  BY <1>1 DEF Base, PhaseInv
<1> QED
  BY <1>1, <1>2, <1>3, <1>4 DEF RxForwarded

LEMMA RxForwardedBase ==
  ASSUME Base, RxForwarded
  PROVE  Base'
<1> DEFINE d == Head(x2)
<1>1. TypeInv /\ KeyInv /\ PhaseInv
  BY DEF Base
<1>2. /\ x2 # <<>> /\ x2' = Tail(x2) /\ x2' \in Seq(Items \cup {EndMarker}) /\ Part(x2', x2)
      /\ d \in Items \cup {EndMarker} /\ d = x2[1] /\ 1 \in DOMAIN x2
      /\ core.ho # "none"
      /\ \/ d = EndMarker /\ tgt.fwd # NoTunnel /\ RemoveForwarding
         \/ (d = EndMarker => tgt.fwd = NoTunnel) /\ DataPdu("fwd", d)
      /\ UNCHANGED <<src, ue, acks, s1, core, delivered, faults>>
  BY RxForwardedIs
<1>3. x2 \in Seq(Items \cup {EndMarker})
  BY <1>1 DEF TypeInv
<1>4. \A i \in DOMAIN x2' : <<d, x2'[i]>> \in KeyRel
  <2>1. In(KeyRel, x2)
    BY <1>1 DEF KeyInv
  <2> QED
    BY <1>2, <1>3, <2>1, InHead
<1> HIDE DEF d
<1>5. CASE tgt.fwd # NoTunnel /\ RemoveForwarding
  <2>1. faults' \in 0 .. MaxFaults /\ faults' >= faults
    BY <1>1, <1>2, Constants DEF TypeInv
  <2> QED
    BY <1>2, <1>5, <2>1, RemoveForwardingBase
<1>6. CASE (d = EndMarker => tgt.fwd = NoTunnel) /\ DataPdu("fwd", d)
  <2>1. /\ \/ tgt' = tgt
           \/ /\ tgt.fwd.state = "buffering" /\ d \in Items
              /\ tgt'.fwd.buffer = Append(tgt.fwd.buffer, d) /\ tgt'.fwd # NoTunnel
        /\ pdcp' \in [ENBs -> Entities] /\ radio' \in [ENBs -> Seq(Pdus)]
        /\ givenUp' \in SUBSET Sdus
        /\ pdcp'.source = pdcp.source /\ pdcp'.target.active = pdcp.target.active
        /\ tgt' \in Targets /\ tgt'.state = tgt.state /\ tgt'.recfg = tgt.recfg
        /\ tgt'.main = tgt.main /\ tgt'.fwd.state = tgt.fwd.state
    BY <1>1, <1>2, <1>6, DataPduFwd
  <2>2. TypeInv'
    BY <1>1, <1>2, <2>1 DEF TypeInv
  <2>3. KeyInv'
    <3> DEFINE b == tgt.fwd.buffer
    <3>1. In(KeyRel, b) /\ In(KeyRel, x2) /\ Across(KeyRel, b, x2)
      BY <1>1 DEF KeyInv
    <3>2. In(KeyRel, x2') /\ Across(KeyRel, b, x2')
      BY <1>2, <3>1, PartKeeps
    <3>3. CASE tgt' = tgt
      BY <3>1, <3>2, <3>3 DEF KeyInv
    <3>4. CASE d \in Items /\ tgt'.fwd.buffer = Append(b, d)
      <4>1. b \in Seq(Items)
        BY <1>1, TypeFacts
      <4>2. \A i \in DOMAIN b : <<b[i], d>> \in KeyRel
        BY <1>2, <3>1 DEF Across
      <4> HIDE DEF b
      <4>3. In(KeyRel, Append(b, d))
        BY <3>1, <3>4, <4>1, <4>2, InAppend
      <4>4. Across(KeyRel, Append(b, d), x2')
        BY <1>4, <3>2, <3>4, <4>1, AcrossAppend
      <4> QED
        BY <3>2, <3>4, <4>3, <4>4 DEF KeyInv
    <3> QED
      BY <2>1, <3>3, <3>4
  <2>4. \A i \in DOMAIN x2' : \E j \in DOMAIN x2 : x2'[i] = x2[j]
    BY <1>2, PartKeeps
  <2>5. core.path = "source" => \A i \in DOMAIN x2' : x2'[i] # EndMarker
    BY <1>1, <2>4 DEF PhaseInv
  <2>7. CASE tgt.fwd.state = "buffering" /\ tgt'.fwd # NoTunnel
    <3>1. tgt.state # "idle" /\ tgt.main.state # "pdcp_active"
      <4>1. NoTunnel.state # "buffering"
        BY DEF NoTunnel
      <4> QED
        BY <1>1, <2>7, <4>1 DEF PhaseInv
    <3>2. PhaseInv'
      BY <1>1, <1>2, <2>1, <2>5, <2>7, <3>1 DEF PhaseInv
    <3> QED
      BY <2>2, <2>3, <3>2 DEF Base
  <2>8. tgt' = tgt => PhaseInv'
    BY <1>1, <1>2, <2>1, <2>5 DEF PhaseInv
  <2> QED
    BY <2>1, <2>2, <2>3, <2>7, <2>8 DEF Base
<1> QED
  BY <1>2, <1>5, <1>6

LEMMA RxMainIs ==
  ASSUME Base, RxMain
  PROVE  /\ s1.target # <<>> /\ s1' = [s1 EXCEPT !["target"] = Tail(@)]
         /\ s1' \in [ENBs -> Seq(Plain \cup {EndMarker})] /\ s1'.target \in Seq(Plain)
         /\ Part(s1'.target, s1.target) /\ s1'.source = s1.source
         /\ s1'.target = Tail(s1.target)
         /\ Head(s1.target) \in Plain /\ Head(s1.target) = s1.target[1] /\ 1 \in DOMAIN s1.target
         /\ core.path = "target" /\ core.ho \in {"notified", "done"}
         /\ DataPdu("main", Head(s1.target))
         /\ UNCHANGED <<src, ue, acks, x2, core, delivered, faults>>
<1>1. s1.target # <<>> /\ s1' = [s1 EXCEPT !["target"] = Tail(@)] /\ TypeInv
      /\ DataPdu("main", Head(s1.target))
      /\ UNCHANGED <<src, ue, acks, x2, core, delivered, faults>>
  BY DEF RxMain, Base
<1>2. "target" \in ENBs /\ "source" \in ENBs \ {"target"} /\ s1["target"] # <<>>
  BY <1>1 DEF ENBs
<1>3. /\ s1' \in [ENBs -> Seq(Plain \cup {EndMarker})] /\ s1'.target \in Seq(Plain)
      /\ Part(s1'["target"], s1["target"]) /\ s1'["source"] = s1["source"]
      /\ Head(s1["target"]) \in Plain /\ Head(s1["target"]) = s1["target"][1]
      /\ 1 \in DOMAIN s1["target"]
  BY <1>1, <1>2, S1Recv
<1>4. core.path = "target" /\ core.ho \in {"notified", "done"}
  <2>1. core.path \in ENBs
    BY <1>1 DEF TypeInv, Cores
  <2> QED
    BY <1>1, <2>1 DEF Base, PhaseInv, ENBs
<1>5. s1'.target = Tail(s1.target)
  BY <1>1, <1>2 DEF TypeInv
<1> QED
  BY <1>1, <1>3, <1>4, <1>5

LEMMA RxMainBase ==
  ASSUME Base, RxMain
  PROVE  Base'
<1> DEFINE d == Head(s1.target)
<1>1. TypeInv /\ KeyInv /\ PhaseInv
  BY DEF Base
<1>2. /\ s1' \in [ENBs -> Seq(Plain \cup {EndMarker})] /\ s1'.target \in Seq(Plain)
      /\ s1'.source = s1.source
      /\ d \in Plain
      /\ core.path = "target" /\ core.ho \in {"notified", "done"}
      /\ DataPdu("main", d)
      /\ UNCHANGED <<src, ue, acks, x2, core, delivered, faults>>
  BY RxMainIs
<1> HIDE DEF d
<1>3. /\ pdcp' \in [ENBs -> Entities] /\ radio' \in [ENBs -> Seq(Pdus)]
      /\ givenUp' \in SUBSET Sdus
      /\ pdcp'.source = pdcp.source /\ pdcp'.target.active = pdcp.target.active
      /\ tgt' \in Targets /\ tgt'.state = tgt.state /\ tgt'.recfg = tgt.recfg
      /\ tgt'.fwd = tgt.fwd /\ tgt'.main.state = tgt.main.state
      /\ tgt'.main.buffer \in Seq(Plain)
  BY <1>1, <1>2, DataPduMain
<1>4. TypeInv'
  BY <1>1, <1>2, <1>3 DEF TypeInv
<1>5. KeyInv'
  BY <1>1, <1>2, <1>3 DEF KeyInv
<1>6. tgt.state = "done"
  BY <1>1, <1>2 DEF PhaseInv
<1>7. PhaseInv'
  BY <1>1, <1>2, <1>3, <1>6 DEF PhaseInv
<1> QED
  BY <1>4, <1>5, <1>7 DEF Base

LEMMA PartRefl ==
  ASSUME NEW S, NEW q \in Seq(S)
  PROVE  Part(q, q)
<1> DEFINE m == [i \in DOMAIN q |-> i]
<1>1. m \in [DOMAIN q -> DOMAIN q] /\ (\A i, j \in DOMAIN q : i < j => m[i] < m[j])
      /\ \A i \in DOMAIN q : q[i] = q[m[i]]
  OBVIOUS
<1> QED
  BY <1>1 DEF Part

LEMMA TimerExpiresBase ==
  ASSUME Base, TimerExpires
  PROVE  Base'
<1>1. TypeInv
  BY DEF Base
<1>2. /\ tgt.fwd # NoTunnel /\ RemoveForwarding
      /\ faults' = (IF Premature THEN faults + 1 ELSE faults) /\ faults' <= MaxFaults
      /\ UNCHANGED <<src, ue, acks, s1, x2, core, delivered>>
  BY DEF TimerExpires
<1>3. faults' \in 0 .. MaxFaults /\ faults' >= faults
  BY <1>1, <1>2, Constants DEF TypeInv
<1>4. x2' \in Seq(Items \cup {EndMarker}) /\ Part(x2', x2)
  BY <1>1, <1>2, PartRefl DEF TypeInv
<1> QED
  BY <1>2, <1>3, <1>4, RemoveForwardingBase

LEMMA ReleaseTargetBase ==
  ASSUME Base, ReleaseTarget
  PROVE  Base'
<1>1. TypeInv /\ KeyInv /\ PhaseInv
  BY DEF Base
<1>2. /\ core.ho = "cancelled"
      /\ tgt' = [state |-> "released", recfg |-> FALSE, fwd |-> NoTunnel, main |-> NoTunnel]
      /\ pdcp' = [pdcp EXCEPT !.target = Entity(FALSE, 0, 0)]
      /\ givenUp' = givenUp \cup Data(tgt.fwd.buffer)
      /\ UNCHANGED <<src, ue, radio, acks, s1, x2, core, delivered, faults>>
  BY DEF ReleaseTarget, air
<1>3. pdcp' \in [ENBs -> Entities] /\ pdcp'.source = pdcp.source
  <2> DEFINE p == Entity(FALSE, 0, 0)
  <2>1. p \in Entities
    <3>1. 0 \in SNs
      BY Constants DEF SNs
    <3> QED
      BY <3>1, EntityType
  <2> HIDE DEF p
  <2>2. pdcp' = [pdcp EXCEPT !.target = p]
    BY <1>2 DEF p
  <2> QED
    BY <1>1, <2>1, <2>2 DEF TypeInv, ENBs
<1>4. NoTunnel \in Tunnels /\ NoTunnel.buffer = <<>> /\ NoTunnel.state = "none"
  BY DEF NoTunnel, Tunnels
<1>5. tgt' \in Targets /\ tgt'.fwd = NoTunnel /\ tgt'.main = NoTunnel
      /\ tgt'.state = "released" /\ tgt'.recfg = FALSE
  BY <1>2, <1>4 DEF Targets
<1>6. tgt'.fwd.buffer = <<>> /\ tgt'.main.buffer = <<>>
      /\ tgt'.fwd.state = "none" /\ tgt'.main.state = "none"
  BY <1>4, <1>5
<1>7. givenUp' \in SUBSET Sdus
  <2>1. Data(tgt.fwd.buffer) \subseteq Sdus
    BY <1>1, TypeFacts, DataType
  <2> QED
    BY <1>1, <1>2, <2>1 DEF TypeInv
<1>8. tgt'.main.buffer \in Seq(Plain)
  BY <1>6, SocketEmpty
<1>9. TypeInv'
  BY <1>1, <1>2, <1>3, <1>5, <1>7, <1>8 DEF TypeInv
<1>10. KeyInv'
  BY <1>1, <1>2, <1>6, InEmpty DEF KeyInv
<1>11. PhaseInv'
  BY <1>1, <1>2, <1>5, <1>6 DEF PhaseInv
<1> QED
  BY <1>9, <1>10, <1>11 DEF Base

(* The counters that write_pdu uses and keeps.                             *)
LEMMA ReceivedIs ==
  ASSUME ue \in Receivers, NEW sn \in SNs
  PROVE  LET r == Received(sn) IN
         /\ r.st \in Receivers /\ r.hfn \in Int
         /\ r.st.cell = ue.cell /\ r.st.ho_cmd = ue.ho_cmd /\ r.st.last = sn
         /\ ue.next - sn > Half =>
              r.hfn = ue.hfn + 1 /\ r.st.hfn = ue.hfn + 1 /\ r.st.next = sn + 1
         /\ ~(ue.next - sn > Half) /\ sn - ue.next < Half /\ sn >= ue.next =>
              /\ r.hfn = ue.hfn
              /\ r.st.next = IF sn = MOD - 1 THEN 0 ELSE sn + 1
              /\ r.st.hfn = IF sn = MOD - 1 THEN ue.hfn + 1 ELSE ue.hfn
<1> DEFINE r == Received(sn)
           next == (sn + 1) % MOD
           hfn == IF sn = MOD - 1 THEN ue.hfn + 1 ELSE ue.hfn
           a == [ue EXCEPT !.last = sn, !.hfn = ue.hfn + 1, !.next = sn + 1]
           b == [ue EXCEPT !.last = sn]
           c == [ue EXCEPT !.last = sn, !.hfn = hfn, !.next = next]
<1>1. ue.hfn \in Nat /\ ue.next \in SNs
  BY DEF Receivers
<1>2. next = IF sn = MOD - 1 THEN 0 ELSE sn + 1
  BY SuccType
<1>3. next \in SNs /\ hfn \in Nat /\ ue.hfn + 1 \in Nat
  BY <1>1, <1>2, Constants DEF SNs
<1>4. r = IF ue.next - sn > Half THEN [hfn |-> ue.hfn + 1, st |-> a]
          ELSE IF sn - ue.next >= Half THEN [hfn |-> ue.hfn - 1, st |-> b]
          ELSE IF sn >= ue.next THEN [hfn |-> ue.hfn, st |-> c]
          ELSE [hfn |-> ue.hfn, st |-> b]
  BY DEF Received, Receivers
<1>5. hfn = IF sn = MOD - 1 THEN ue.hfn + 1 ELSE ue.hfn
  OBVIOUS
<1> HIDE DEF r, next, hfn
<1>6. CASE ue.next - sn > Half
  <2>1. r = [hfn |-> ue.hfn + 1, st |-> a]
    BY <1>4, <1>6
  <2>2. sn + 1 \in SNs
    BY <1>1, <1>6, Constants DEF SNs
  <2>3. a \in Receivers /\ a.cell = ue.cell /\ a.ho_cmd = ue.ho_cmd /\ a.last = sn
        /\ a.hfn = ue.hfn + 1 /\ a.next = sn + 1
    BY <1>3, <2>2 DEF Receivers
  <2> HIDE DEF a
  <2> QED
    BY <1>1, <1>6, <2>1, <2>3 DEF r
<1>7. CASE ~(ue.next - sn > Half)
  <2>1. b \in Receivers /\ b.cell = ue.cell /\ b.ho_cmd = ue.ho_cmd /\ b.last = sn
    BY DEF Receivers
  <2>2. c \in Receivers /\ c.cell = ue.cell /\ c.ho_cmd = ue.ho_cmd /\ c.last = sn
        /\ c.hfn = hfn /\ c.next = next
    BY <1>3 DEF Receivers
  <2> HIDE DEF b, c
  <2>3. CASE sn - ue.next >= Half
    <3>1. r = [hfn |-> ue.hfn - 1, st |-> b]
      BY <1>4, <1>7, <2>3
    <3>2. ~(sn - ue.next < Half)
      BY <1>1, <2>3, Constants DEF SNs
    <3> QED
      BY <1>1, <1>7, <2>1, <3>1, <3>2 DEF r
  <2>4. CASE ~(sn - ue.next >= Half) /\ sn >= ue.next
    <3>1. r = [hfn |-> ue.hfn, st |-> c]
      BY <1>4, <1>7, <2>4
    <3> QED
      BY <1>1, <1>2, <1>5, <1>7, <2>2, <3>1 DEF r
  <2>5. CASE ~(sn - ue.next >= Half) /\ ~(sn >= ue.next)
    <3>1. r = [hfn |-> ue.hfn, st |-> b]
      BY <1>4, <1>7, <2>5
    <3> QED
      BY <1>1, <1>7, <2>1, <2>5, <3>1 DEF r
  <2> QED
    BY <2>3, <2>4, <2>5
<1> QED
  BY <1>6, <1>7

LEMMA DrbPduIs ==
  ASSUME TypeInv, handle_am_drb_pdu
  PROVE  LET pdu == Head(radio[ue.cell]) IN
         /\ ue.cell \in ENBs /\ radio[ue.cell] # <<>>
         /\ pdu \in Pdus /\ pdu = radio[ue.cell][1] /\ 1 \in DOMAIN radio[ue.cell]
         /\ radio' = [radio EXCEPT ![ue.cell] = Tail(@)] /\ radio' \in [ENBs -> Seq(Pdus)]
         /\ Part(radio'[ue.cell], radio[ue.cell])
         /\ \A o \in ENBs \ {ue.cell} : radio'[o] = radio[o]
         /\ acks' = acks \cup {pdu.sn}
         /\ \/ Old(pdu.sn) /\ UNCHANGED <<ue, delivered>>
            \/ /\ ~Old(pdu.sn) /\ ue' = Received(pdu.sn).st
               /\ delivered' = Append(delivered, [sdu |-> pdu.sdu, ciphered |-> pdu.hfn,
                                                  deciphered |-> Received(pdu.sn).hfn])
         /\ UNCHANGED <<pdcp, src, tgt, s1, x2, core, givenUp, faults>>
<1> DEFINE q == radio[ue.cell]
           pdu == Head(q)
<1>1. ue.cell \in ENBs /\ q # <<>> /\ q \in Seq(Pdus) /\ radio \in [ENBs -> Seq(Pdus)]
  BY DEF handle_am_drb_pdu, TypeInv
<1>2. /\ radio' = [radio EXCEPT ![ue.cell] = Tail(@)]
      /\ acks' = acks \cup {pdu.sn}
      /\ UNCHANGED <<pdcp, src, tgt, s1, x2, core, givenUp, faults>>
  BY DEF handle_am_drb_pdu, history
<1>3. \/ Old(pdu.sn) /\ UNCHANGED <<ue, delivered>>
      \/ /\ ~Old(pdu.sn) /\ ue' = Received(pdu.sn).st
         /\ delivered' = Append(delivered, [sdu |-> pdu.sdu, ciphered |-> pdu.hfn,
                                            deciphered |-> Received(pdu.sn).hfn])
  BY Zenon DEF handle_am_drb_pdu
<1>4. Tail(q) \in Seq(Pdus) /\ Part(Tail(q), q) /\ pdu \in Pdus /\ pdu = q[1] /\ 1 \in DOMAIN q
  BY <1>1, TailIsPart
<1>5. radio'[ue.cell] = Tail(q) /\ \A o \in ENBs \ {ue.cell} : radio'[o] = radio[o]
  BY <1>1, <1>2
<1>6. radio' \in [ENBs -> Seq(Pdus)]
  <2> DEFINE t == Tail(q)
  <2>1. t \in Seq(Pdus)
    BY <1>4
  <2>2. radio' = [radio EXCEPT ![ue.cell] = t]
    BY <1>2
  <2> HIDE DEF t
  <2> QED
    BY <1>1, <2>1, <2>2
<1> QED
  BY <1>1, <1>2, <1>3, <1>4, <1>5, <1>6

LEMMA DrbPduBase ==
  ASSUME Base, handle_am_drb_pdu
  PROVE  Base'
<1> DEFINE pdu == Head(radio[ue.cell])
           r == Received(pdu.sn)
<1>1. TypeInv /\ KeyInv /\ PhaseInv
  BY DEF Base
<1>2. /\ pdu \in Pdus /\ radio' \in [ENBs -> Seq(Pdus)] /\ ue.cell \in ENBs
      /\ acks' = acks \cup {pdu.sn}
      /\ \/ UNCHANGED <<ue, delivered>>
         \/ /\ ue' = r.st
            /\ delivered' = Append(delivered, [sdu |-> pdu.sdu, ciphered |-> pdu.hfn,
                                               deciphered |-> r.hfn])
      /\ UNCHANGED <<pdcp, src, tgt, s1, x2, core, givenUp, faults>>
  BY <1>1, DrbPduIs
<1> HIDE DEF pdu
<1>3. pdu.sn \in SNs /\ pdu.sdu \in Sdus /\ pdu.hfn \in Nat
  BY <1>2 DEF Pdus
<1>4. r.st \in Receivers /\ r.hfn \in Int /\ r.st.cell = ue.cell /\ r.st.ho_cmd = ue.ho_cmd
  BY <1>1, <1>3, ReceivedIs DEF TypeInv
<1> HIDE DEF r
<1>5. ue' \in Receivers /\ ue'.cell = ue.cell /\ ue'.ho_cmd = ue.ho_cmd
  BY <1>1, <1>2, <1>4 DEF TypeInv
<1>6. delivered' \in Seq(Passed)
  <2> DEFINE e == [sdu |-> pdu.sdu, ciphered |-> pdu.hfn, deciphered |-> r.hfn]
  <2>1. e \in Passed
    BY <1>3, <1>4 DEF Passed
  <2>2. UNCHANGED delivered \/ delivered' = Append(delivered, e)
    BY <1>2
  <2> HIDE DEF e
  <2>3. delivered \in Seq(Passed)
    BY <1>1 DEF TypeInv
  <2> QED
    BY <2>1, <2>2, <2>3
<1>7. acks' \in SUBSET SNs
  BY <1>1, <1>2, <1>3 DEF TypeInv
<1>8. TypeInv'
  BY <1>1, <1>2, <1>5, <1>6, <1>7 DEF TypeInv
<1>9. KeyInv'
  BY <1>1, <1>2 DEF KeyInv
<1>10. ue.cell # "moving"
  BY <1>2 DEF ENBs
<1>11. PhaseInv'
  BY <1>1, <1>2, <1>5, <1>10 DEF PhaseInv
<1> QED
  BY <1>8, <1>9, <1>11 DEF Base

LEMMA UeHandoverBase ==
  ASSUME Base, UeHandover
  PROVE  Base'
<1>1. TypeInv /\ KeyInv /\ PhaseInv
  BY DEF Base
<1>2. /\ ue.ho_cmd /\ ue' = [ue EXCEPT !.cell = "moving", !.ho_cmd = FALSE]
      /\ radio' = [radio EXCEPT !.source = <<>>] /\ acks' = {}
      /\ UNCHANGED <<pdcp, src, tgt, s1, x2, core, delivered, givenUp, faults>>
  BY DEF UeHandover, history
<1>3. ue' \in Receivers /\ ue'.cell = "moving" /\ ue'.ho_cmd = FALSE
  BY <1>1, <1>2 DEF TypeInv, Receivers
<1>4. radio' \in [ENBs -> Seq(Pdus)]
  <2>1. <<>> \in Seq(Pdus)
    OBVIOUS
  <2> QED
    BY <1>1, <1>2, <2>1 DEF TypeInv
<1>5. TypeInv'
  BY <1>1, <1>2, <1>3, <1>4 DEF TypeInv
<1>6. KeyInv'
  BY <1>1, <1>2 DEF KeyInv
<1>7. core.ho = "started" /\ ue.cell = "source" /\ ~ue'.ho_cmd
  BY <1>1, <1>2, <1>3 DEF PhaseInv
<1>8. ~tgt.recfg
  BY <1>1, <1>7 DEF PhaseInv
<1>9. PhaseInv'
  BY <1>1, <1>2, <1>3, <1>7, <1>8 DEF PhaseInv
<1> QED
  BY <1>5, <1>6, <1>9 DEF Base

LEMMA LoseX2Is ==
  ASSUME TypeInv, LoseX2
  PROVE  /\ x2' \in Seq(Items \cup {EndMarker}) /\ Part(x2', x2) /\ givenUp' \in SUBSET Sdus
         /\ faults' \in 0 .. MaxFaults /\ faults' = faults + 1 /\ x2 # <<>>
         /\ UNCHANGED <<pdcp, src, tgt, ue, radio, acks, s1, core, delivered>>
<1>1. x2 # <<>> /\ faults < MaxFaults /\ faults' = faults + 1
      /\ UNCHANGED <<pdcp, src, tgt, ue, radio, acks, s1, core, delivered>>
  BY DEF LoseX2, air
<1>2. PICK i \in DOMAIN x2 : x2' = RemoveAt(x2, i) /\ givenUp' = givenUp \cup Data(<<x2[i]>>)
  BY DEF LoseX2
<1>3. x2 \in Seq(Items \cup {EndMarker}) /\ givenUp \in SUBSET Sdus
  BY DEF TypeInv
<1>4. x2' \in Seq(Items \cup {EndMarker}) /\ Part(x2', x2)
  BY <1>2, <1>3, Removed
<1>5. Data(<<x2[i]>>) \subseteq Sdus
  <2>1. <<x2[i]>> \in Seq(Items \cup {EndMarker})
    BY <1>3
  <2> QED
    BY <2>1, DataType
<1>6. faults' \in 0 .. MaxFaults
  BY <1>1, Constants DEF TypeInv
<1> QED
  BY <1>1, <1>2, <1>3, <1>4, <1>5, <1>6

LEMMA LoseX2Base ==
  ASSUME Base, LoseX2
  PROVE  Base'
<1>1. TypeInv /\ KeyInv /\ PhaseInv
  BY DEF Base
<1>2. /\ x2' \in Seq(Items \cup {EndMarker}) /\ Part(x2', x2) /\ givenUp' \in SUBSET Sdus
      /\ faults' \in 0 .. MaxFaults /\ faults' = faults + 1 /\ x2 # <<>>
      /\ UNCHANGED <<pdcp, src, tgt, ue, radio, acks, s1, core, delivered>>
  BY <1>1, LoseX2Is
<1>3. TypeInv'
  BY <1>1, <1>2 DEF TypeInv
<1>4. KeyInv'
  BY <1>1, <1>2, PartKeeps DEF KeyInv
<1>5. \A i \in DOMAIN x2' : \E j \in DOMAIN x2 : x2'[i] = x2[j]
  BY <1>2, PartKeeps
<1>6. core.path = "source" => \A i \in DOMAIN x2' : x2'[i] # EndMarker
  BY <1>1, <1>5 DEF PhaseInv
<1>7. faults' > 0 /\ core.ho # "none"
  BY <1>1, <1>2, Constants DEF TypeInv, PhaseInv
<1>8. PhaseInv'
  BY <1>1, <1>2, <1>6, <1>7 DEF PhaseInv
<1> QED
  BY <1>3, <1>4, <1>8 DEF Base

LEMMA NotifyIs ==
  ASSUME TypeInv, PhaseInv, NEW sn \in SNs, notify_delivery(sn)
  PROVE  /\ ue.cell \in ENBs /\ acks' \in SUBSET SNs
         /\ pdcp' \in [ENBs -> Entities] /\ pdcp'[ue.cell] = Cleared(pdcp[ue.cell], sn)
         /\ pdcp[ue.cell] \in Entities
         /\ \A o \in ENBs \ {ue.cell} : pdcp'[o] = pdcp[o]
         /\ \A o \in ENBs : pdcp'[o].active = pdcp[o].active
         /\ UNCHANGED <<src, tgt, ue, radio, s1, x2, core, delivered, givenUp, faults>>
<1> DEFINE c == Cleared(pdcp[ue.cell], sn)
<1>1. sn \in acks /\ acks' = acks \ {sn} /\ pdcp' = [pdcp EXCEPT ![ue.cell] = c]
      /\ UNCHANGED <<src, tgt, ue, radio, s1, x2, core, delivered, givenUp, faults>>
  BY DEF notify_delivery, history
<1>2. ue.cell \in ENBs
  BY <1>1 DEF PhaseInv, TypeInv, Receivers
<1>3. pdcp[ue.cell] \in Entities /\ pdcp \in [ENBs -> Entities]
  BY <1>2 DEF TypeInv
<1>4. c \in Entities /\ c.active = pdcp[ue.cell].active
  BY <1>3, ClearedType
<1> HIDE DEF c
<1>5. pdcp' \in [ENBs -> Entities] /\ pdcp'[ue.cell] = c
      /\ \A o \in ENBs \ {ue.cell} : pdcp'[o] = pdcp[o]
  BY <1>1, <1>2, <1>3, <1>4
<1>6. \A o \in ENBs : pdcp'[o].active = pdcp[o].active
  <2> TAKE o \in ENBs
  <2>1. CASE o = ue.cell
    BY <1>4, <1>5, <2>1
  <2>2. CASE o # ue.cell
    BY <1>5, <2>2
  <2> QED
    BY <2>1, <2>2
<1>7. acks' \in SUBSET SNs
  BY <1>1 DEF TypeInv
<1> QED
  BY <1>1, <1>2, <1>3, <1>5, <1>6, <1>7 DEF c

LEMMA DiscardIs ==
  ASSUME TypeInv, NEW enb \in ENBs, NEW sn \in SNs, Discard(enb, sn)
  PROVE  /\ pdcp' \in [ENBs -> Entities] /\ pdcp'[enb] = Cleared(pdcp[enb], sn)
         /\ pdcp[enb] \in Entities
         /\ \A o \in ENBs \ {enb} : pdcp'[o] = pdcp[o]
         /\ \A o \in ENBs : pdcp'[o].active = pdcp[o].active
         /\ radio' \in [ENBs -> Seq(Pdus)] /\ \A o \in ENBs : Part(radio'[o], radio[o])
         /\ givenUp' \in SUBSET Sdus /\ faults' \in 0 .. MaxFaults /\ faults' = faults + 1
         /\ UNCHANGED <<src, tgt, ue, acks, s1, x2, core, delivered>>
<1> DEFINE c == Cleared(pdcp[enb], sn)
<1>1. faults < MaxFaults /\ faults' = faults + 1 /\ sn \in DOMAIN pdcp[enb].undelivered
      /\ givenUp' = givenUp \cup {pdcp[enb].undelivered[sn]}
      /\ pdcp' = [pdcp EXCEPT ![enb] = c]
      /\ UNCHANGED <<src, tgt, ue, acks, s1, x2, core, delivered>>
  BY DEF Discard
<1>3. pdcp[enb] \in Entities /\ pdcp \in [ENBs -> Entities]
  BY DEF TypeInv
<1>4. c \in Entities /\ c.active = pdcp[enb].active
  BY <1>3, ClearedType
<1>5. c = Cleared(pdcp[enb], sn)
  OBVIOUS
<1> HIDE DEF c
<1>6. pdcp' \in [ENBs -> Entities] /\ pdcp'[enb] = c
      /\ \A o \in ENBs \ {enb} : pdcp'[o] = pdcp[o]
  BY <1>1, <1>3, <1>4
<1>7. \A o \in ENBs : pdcp'[o].active = pdcp[o].active
  <2> TAKE o \in ENBs
  <2>1. CASE o = enb
    BY <1>4, <1>6, <2>1
  <2>2. CASE o # enb
    BY <1>6, <2>2
  <2> QED
    BY <2>1, <2>2
<1>8. givenUp' \in SUBSET Sdus
  <2>1. pdcp[enb].undelivered \in Map
    BY <1>3 DEF Entities
  <2>2. pdcp[enb].undelivered[sn] \in Sdus
    BY <1>1, <2>1, MapType
  <2> QED
    BY <1>1, <2>2 DEF TypeInv
<1>9. faults' \in 0 .. MaxFaults
  BY <1>1, Constants DEF TypeInv
<1>10. radio \in [ENBs -> Seq(Pdus)]
  BY DEF TypeInv
<1>11. \A o \in ENBs : Part(radio[o], radio[o])
  BY <1>10, PartRefl
<1>12. \/ UNCHANGED radio
       \/ \E i \in DOMAIN radio[enb] : radio' = [radio EXCEPT ![enb] = RemoveAt(radio[enb], i)]
  BY DEF Discard
<1>13. radio' \in [ENBs -> Seq(Pdus)] /\ \A o \in ENBs : Part(radio'[o], radio[o])
  <2>1. CASE UNCHANGED radio
    BY <1>10, <1>11, <2>1
  <2>2. CASE \E i \in DOMAIN radio[enb] : radio' = [radio EXCEPT ![enb] = RemoveAt(radio[enb], i)]
    <3>1. PICK i \in DOMAIN radio[enb] : radio' = [radio EXCEPT ![enb] = RemoveAt(radio[enb], i)]
      BY <2>2
    <3> DEFINE q == RemoveAt(radio[enb], i)
    <3>2. q \in Seq(Pdus) /\ Part(q, radio[enb])
      BY <1>10, <3>1, Removed
    <3>3. radio' = [radio EXCEPT ![enb] = q]
      BY <3>1
    <3> HIDE DEF q
    <3>4. radio' \in [ENBs -> Seq(Pdus)] /\ radio'[enb] = q
          /\ \A o \in ENBs \ {enb} : radio'[o] = radio[o]
      BY <1>10, <3>2, <3>3
    <3> QED
      BY <1>11, <3>2, <3>4
  <2> QED
    BY <1>12, <2>1, <2>2
<1> QED
  BY <1>1, <1>3, <1>5, <1>6, <1>7, <1>8, <1>9, <1>13

LEMMA NotifyBase ==
  ASSUME Base, NEW sn \in SNs, notify_delivery(sn)
  PROVE  Base'
<1>1. TypeInv /\ KeyInv /\ PhaseInv
  BY DEF Base
<1>2. /\ pdcp' \in [ENBs -> Entities] /\ acks' \in SUBSET SNs /\ ue.cell \in ENBs
      /\ \A o \in ENBs : pdcp'[o].active = pdcp[o].active
      /\ UNCHANGED <<src, tgt, ue, radio, s1, x2, core, delivered, givenUp, faults>>
  BY <1>1, NotifyIs
<1>3. TypeInv'
  BY <1>1, <1>2 DEF TypeInv
<1>4. KeyInv'
  BY <1>1, <1>2 DEF KeyInv
<1>5. ue.cell # "moving"
  BY <1>2 DEF ENBs
<1>6. pdcp'.source.active = pdcp.source.active /\ pdcp'.target.active = pdcp.target.active
  BY <1>2 DEF ENBs
<1>7. PhaseInv'
  BY <1>1, <1>2, <1>5, <1>6 DEF PhaseInv
<1> QED
  BY <1>3, <1>4, <1>7 DEF Base

LEMMA DiscardBase ==
  ASSUME Base, NEW enb \in ENBs, NEW sn \in SNs, Discard(enb, sn)
  PROVE  Base'
<1>1. TypeInv /\ KeyInv /\ PhaseInv
  BY DEF Base
<1>2. /\ pdcp' \in [ENBs -> Entities] /\ radio' \in [ENBs -> Seq(Pdus)]
      /\ \A o \in ENBs : pdcp'[o].active = pdcp[o].active
      /\ givenUp' \in SUBSET Sdus /\ faults' \in 0 .. MaxFaults /\ faults' = faults + 1
      /\ UNCHANGED <<src, tgt, ue, acks, s1, x2, core, delivered>>
  BY <1>1, DiscardIs
<1>3. TypeInv'
  BY <1>1, <1>2 DEF TypeInv
<1>4. KeyInv'
  BY <1>1, <1>2 DEF KeyInv
<1>5. pdcp'.source.active = pdcp.source.active /\ pdcp'.target.active = pdcp.target.active
  BY <1>2 DEF ENBs
<1>6. faults' > 0
  BY <1>1, <1>2, Constants DEF TypeInv
<1>7. PhaseInv'
  BY <1>1, <1>2, <1>5, <1>6 DEF PhaseInv
<1> QED
  BY <1>3, <1>4, <1>7 DEF Base

LEMMA StutterBase ==
  ASSUME Base, UNCHANGED state
  PROVE  Base'
<1>1. UNCHANGED <<pdcp, src, tgt, ue, radio, acks, s1, x2, core, delivered, givenUp, faults>>
  BY DEF state, air, history
<1>2. TypeInv'
  BY <1>1 DEF Base, TypeInv
<1>3. KeyInv'
  BY <1>1 DEF Base, KeyInv
<1>4. PhaseInv'
  BY <1>1 DEF Base, PhaseInv
<1> QED
  BY <1>2, <1>3, <1>4 DEF Base

LEMMA NextBase == Base /\ [Next]_vars => Base'
<1> SUFFICES ASSUME Base, [Next]_vars PROVE Base'
  OBVIOUS
<1>0. Step \/ UNCHANGED state
  BY DEF Next, vars
<1>1. ASSUME \E sn \in SNs : notify_delivery(sn) \/ \E enb \in ENBs : Discard(enb, sn)
      PROVE  Base'
  BY <1>1, NotifyBase, DiscardBase
<1>2. ASSUME Done PROVE Base'
  BY <1>2, StutterBase DEF Done
<1> QED
  BY <1>1, <1>2, SendSduBase, SwitchPathBase, RxSourceBase, HoCmdBase, ReleaseSourceBase,
     ReestablishBase, ReconfigureBase, HoRequestedBase, StatusTransferBase, AccessTargetBase,
     RxForwardedBase, RxMainBase, TimerExpiresBase, ReleaseTargetBase, DrbPduBase,
     UeHandoverBase, LoseX2Base, StutterBase, <1>0 DEF Step

(* The limits that were met are kept.                                      *)
Limits == {"wrap", "window", "marker"}
Grows == met \subseteq met' /\ met' \subseteq met \cup Limits
LimitsInv == timeouts \in BOOLEAN /\ met \subseteq Limits

LEMMA MeetsGrows ==
  ASSUME NEW mark \in Limits, NEW condition, Meets(mark, condition)
  PROVE  Grows
BY DEF Meets, Grows

LEMMA SameGrows == met' = met => Grows
BY DEF Grows

LEMMA WriteAllGrows ==
  ASSUME NEW e, NEW ds, NEW lost, WriteAll(e, ds, lost)
  PROVE  Grows
BY MeetsGrows DEF WriteAll, Limits

LEMMA CompleteGrows ==
  ASSUME NEW p, Complete(p)
  PROVE  Grows
BY MeetsGrows DEF Complete, Limits

LEMMA RemoveForwardingGrows == RemoveForwarding => Grows
BY WriteAllGrows DEF RemoveForwarding

LEMMA DataPduGrows ==
  ASSUME NEW t, NEW d, DataPdu(t, d)
  PROVE  Grows
BY WriteAllGrows, SameGrows DEF DataPdu

LEMMA StepGrows == Step => Grows
<1> SUFFICES ASSUME Step PROVE Grows
  OBVIOUS
<1>1. CASE SendSdu
  BY <1>1, SameGrows DEF SendSdu, history
<1>2. CASE SwitchPath
  BY <1>2, SameGrows DEF SwitchPath, history
<1>3. CASE RxSource
  <2>1. (\E ds : WriteAll("source", ds, {})) \/ met' = met
    BY <1>3 DEF RxSource
  <2> QED
    BY <2>1, WriteAllGrows, SameGrows
<1>4. CASE handle_ho_cmd
  <2>1. \E condition : Meets("wrap", condition)
    BY <1>4 DEF handle_ho_cmd
  <2> QED
    BY <2>1, MeetsGrows DEF Limits
<1>5. CASE ReleaseSource
  BY <1>5, SameGrows DEF ReleaseSource
<1>6. CASE Reestablish
  BY <1>6, SameGrows DEF Reestablish
<1>7. CASE Reconfigure
  BY <1>7, SameGrows DEF Reconfigure, history
<1>8. CASE handle_ho_requested
  BY <1>8, SameGrows DEF handle_ho_requested, history
<1>9. CASE handle_status_transfer
  <2>1. (\E p : Complete(p)) \/ met' = met
    BY <1>9 DEF handle_status_transfer
  <2> QED
    BY <2>1, CompleteGrows, SameGrows
<1>10. CASE AccessTarget
  <2>1. (\E p : Complete(p)) \/ met' = met
    BY <1>10 DEF AccessTarget, RecfgComplete
  <2> QED
    BY <2>1, CompleteGrows, SameGrows
<1>11. CASE RxForwarded
  <2>1. RemoveForwarding \/ \E d : DataPdu("fwd", d)
    BY <1>11 DEF RxForwarded
  <2> QED
    BY <2>1, RemoveForwardingGrows, DataPduGrows
<1>12. CASE RxMain
  BY <1>12, DataPduGrows DEF RxMain
<1>13. CASE TimerExpires
  BY <1>13, RemoveForwardingGrows DEF TimerExpires
<1>14. CASE ReleaseTarget
  BY <1>14, SameGrows DEF ReleaseTarget
<1>15. CASE handle_am_drb_pdu
  BY <1>15, SameGrows DEF handle_am_drb_pdu, history
<1>16. CASE UeHandover
  BY <1>16, SameGrows DEF UeHandover, history
<1>17. CASE LoseX2
  <2>1. \E condition : Meets("marker", condition)
    BY <1>17 DEF LoseX2
  <2> QED
    BY <2>1, MeetsGrows DEF Limits
<1>18. CASE Done
  BY <1>18, SameGrows DEF Done, state, history
<1>19. CASE \E sn \in SNs : notify_delivery(sn) \/ \E enb \in ENBs : Discard(enb, sn)
  BY <1>19, SameGrows DEF notify_delivery, Discard, history
<1> QED
  BY <1>1, <1>2, <1>3, <1>4, <1>5, <1>6, <1>7, <1>8, <1>9, <1>10, <1>11, <1>12, <1>13, <1>14,
     <1>15, <1>16, <1>17, <1>18, <1>19 DEF Step

LEMMA LimitsInit == Init => LimitsInv
<1>1. Init => timeouts \in Timeouts /\ met = {}
  BY DEF Init
<1> QED
  BY <1>1, ConstantsAssumption DEF LimitsInv

LEMMA LimitsNext == LimitsInv /\ [Next]_vars => LimitsInv'
<1> SUFFICES ASSUME LimitsInv, [Next]_vars PROVE LimitsInv'
  OBVIOUS
<1>1. CASE Next
  BY <1>1, StepGrows DEF Next, Grows, LimitsInv
<1>2. CASE UNCHANGED vars
  BY <1>2 DEF vars, state, history, LimitsInv
<1> QED
  BY <1>1, <1>2

LEMMA BaseType == Base /\ LimitsInv => TypeOK
<1> SUFFICES ASSUME Base, LimitsInv PROVE TypeOK
  OBVIOUS
<1>1. TypeInv
  BY DEF Base
<1> DEFINE Datagrams == [sdu : 0 .. NofSdus, sn : SNs \cup {None}]
<1>2. Items \cup {EndMarker} \subseteq Datagrams /\ Plain \cup {EndMarker} \subseteq Datagrams
  BY Constants DEF Items, Plain, Sdus, EndMarker, Datagram
<1>3. ASSUME NEW e \in ENBs
      PROVE  /\ pdcp[e].active \in BOOLEAN /\ pdcp[e].hfn \in Nat /\ pdcp[e].sn \in SNs
             /\ DOMAIN pdcp[e].undelivered \subseteq SNs
             /\ Range(pdcp[e].undelivered) \subseteq Sdus
             /\ \A i \in DOMAIN radio[e] : radio[e][i].sdu \in Sdus /\ radio[e][i].sn \in SNs
             /\ s1[e] \in Seq(Datagrams)
  <2>1. pdcp[e] \in Entities /\ radio[e] \in Seq(Pdus) /\ s1[e] \in Seq(Plain \cup {EndMarker})
    BY <1>1 DEF TypeInv
  <2>2. pdcp[e].undelivered \in Map /\ pdcp[e].active \in BOOLEAN /\ pdcp[e].hfn \in Nat
        /\ pdcp[e].sn \in SNs
    BY <2>1 DEF Entities
  <2>3. DOMAIN pdcp[e].undelivered \subseteq SNs /\ Range(pdcp[e].undelivered) \subseteq Sdus
    BY <2>2, MapType DEF Range
  <2>4. \A i \in DOMAIN radio[e] : radio[e][i] \in Pdus
    BY <2>1
  <2>5. \A i \in DOMAIN radio[e] : radio[e][i].sdu \in Sdus /\ radio[e][i].sn \in SNs
    BY <2>4 DEF Pdus
  <2>6. s1[e] \in Seq(Datagrams)
    <3> HIDE DEF Datagrams
    <3> QED
      BY <1>2, <2>1
  <2> QED
    BY <2>2, <2>3, <2>5, <2>6
<1>4. \A t \in {tgt.fwd, tgt.main} :
        t.state \in {"none", "buffering", "pdcp_active"} /\ t.buffer \in Seq(Datagrams)
  <2>1. tgt.fwd \in Tunnels /\ tgt.main \in Tunnels
    BY <1>1, TypeFacts
  <2>2. Seq(Items) \subseteq Seq(Datagrams)
    <3> HIDE DEF Datagrams
    <3>1. Items \subseteq Datagrams
      BY <1>2
    <3> QED
      BY <3>1
  <2> HIDE DEF Datagrams
  <2> QED
    BY <2>1, <2>2 DEF Tunnels
<1>5. x2 \in Seq(Datagrams)
  <2> HIDE DEF Datagrams
  <2> QED
    BY <1>1, <1>2 DEF TypeInv
<1>6. tgt.state \in {"idle", "s1_target_ho", "wait_recfg_comp", "done", "released"}
  BY <1>1 DEF TypeInv, Targets
<1>7. /\ ue.cell \in ENBs \cup {"moving"} /\ ue.hfn \in Nat
      /\ ue.next \in SNs /\ ue.last \in SNs
  BY <1>1 DEF TypeInv, Receivers
<1>8. core.path \in ENBs /\ core.ho \in {"none", "started", "notified", "done", "cancelled"}
  BY <1>1 DEF TypeInv, Cores
<1>9. /\ src \in {"pdcp_active", "forward_to", "none"}
      /\ acks \subseteq SNs /\ givenUp \subseteq Sdus /\ faults \in 0 .. MaxFaults
  BY <1>1 DEF TypeInv
<1> QED
  BY <1>3, <1>4, <1>5, <1>6, <1>7, <1>8, <1>9 DEF TypeOK, Sdus, LimitsInv, Limits

(* Every variable keeps its type, whatever the sizes: in particular the    *)
(* writes of a buffer and the sort before them leave an entity and a queue. *)
THEOREM TypeCorrect == Spec => []TypeOK
<1>1. Spec => []Base /\ []LimitsInv
  BY InitBase, NextBase, LimitsInit, LimitsNext, PTL DEF Spec
<1> QED
  BY <1>1, BaseType, PTL

-----------------------------------------------------------------------------
(* Distances in the number space, from a on to b.                          *)
Gap(a, b) == IF a <= b THEN b - a ELSE b - a + MOD

LEMMA GapIs ==
  ASSUME NEW a \in SNs, NEW b \in SNs
  PROVE  /\ Gap(a, b) \in 0 .. MOD - 1 /\ (Gap(a, b) = 0 <=> a = b)
         /\ (b - a) % MOD = Gap(a, b)
         /\ (a + Gap(a, b)) % MOD = b
         /\ \A c \in SNs : Gap(a, b) <= Gap(a, c) => Gap(b, c) = Gap(a, c) - Gap(a, b)
<1>1. MOD \in Nat /\ MOD > 0 /\ a \in 0 .. MOD - 1 /\ b \in 0 .. MOD - 1
  BY Constants DEF SNs
<1>2. Gap(a, b) \in 0 .. MOD - 1 /\ (Gap(a, b) = 0 <=> a = b)
  BY <1>1 DEF Gap
<1>3. (b - a) % MOD = Gap(a, b)
  <2>1. CASE a <= b
    BY <1>1, <2>1 DEF Gap
  <2>2. CASE ~(a <= b)
    BY <1>1, <2>2 DEF Gap
  <2> QED
    BY <2>1, <2>2
<1>4. (a + Gap(a, b)) % MOD = b
  <2>1. a + Gap(a, b) = b \/ a + Gap(a, b) = b + MOD
    BY <1>1 DEF Gap
  <2> QED
    BY <1>1, <2>1
<1>5. \A c \in SNs : Gap(a, b) <= Gap(a, c) => Gap(b, c) = Gap(a, c) - Gap(a, b)
  BY <1>1 DEF Gap, SNs
<1> QED
  BY <1>2, <1>3, <1>4, <1>5

LEMMA GapNat ==
  /\ \A a \in SNs : a \in Nat
  /\ \A a, b \in SNs : Gap(a, b) \in Nat /\ (Gap(a, b) = 0 <=> a = b)
<1>1. \A n \in 0 .. MOD - 1 : n \in Nat
  BY Constants
<1> QED
  BY <1>1, GapIs DEF SNs

LEMMA GapAdd ==
  ASSUME NEW a \in SNs, NEW i \in 0 .. MOD - 1
  PROVE  (a + i) % MOD \in SNs /\ Gap(a, (a + i) % MOD) = i
<1>1. MOD \in Nat /\ MOD > 0 /\ a \in 0 .. MOD - 1
  BY Constants DEF SNs
<1>2. CASE a + i < MOD
  <2>1. (a + i) % MOD = a + i
    BY <1>1, <1>2
  <2> QED
    BY <1>1, <1>2, <2>1 DEF Gap, SNs
<1>3. CASE ~(a + i < MOD)
  <2>1. (a + i) % MOD = a + i - MOD
    BY <1>1, <1>3
  <2> QED
    BY <1>1, <1>3, <2>1 DEF Gap, SNs
<1> QED
  BY <1>2, <1>3

-----------------------------------------------------------------------------
(* The map of undelivered SDUs: its numbers lie between the oldest one and *)
(* the next to be given.  As long as these are close the map has room.     *)
Spread(p) ==
  p.undelivered # <<>> =>
    /\ p.fms \in DOMAIN p.undelivered
    /\ \A n \in DOMAIN p.undelivered : Gap(p.fms, n) < Gap(p.fms, p.sn)
Close(p) == p.undelivered # <<>> => Gap(p.fms, p.sn) <= Half

(* A number that was forwarded is behind the next to be given, and before  *)
(* it come those that are held.                                            *)
Below(n, c) == n < c /\ c - n <= Half
Ahead(p, n) == Below(n, p.sn) /\ \A m \in DOMAIN p.undelivered : m < n /\ Below(m, p.sn)

LEMMA ClearedRoom ==
  ASSUME NEW p \in Entities, NEW sn \in SNs, Spread(p), Close(p)
  PROVE  /\ Spread(Cleared(p, sn)) /\ Close(Cleared(p, sn))
         /\ \A n : Ahead(p, n) => Ahead(Cleared(p, sn), n)
<1> DEFINE y == Cleared(p, sn)
           rest == DOMAIN p.undelivered \ {sn}
<1>1. /\ y \in Entities /\ y.sn = p.sn
      /\ DOMAIN y.undelivered = rest
      /\ ~(sn = p.fms /\ sn \in DOMAIN p.undelivered) => y.fms = p.fms
      /\ \A i \in 1 .. Half :
           /\ sn = p.fms /\ sn \in DOMAIN p.undelivered
           /\ (p.fms + i) % MOD \in rest
           => \E k \in 1 .. i : /\ y.fms = (p.fms + k) % MOD
                                /\ y.fms \in rest
                                /\ \A l \in 1 .. k - 1 : (p.fms + l) % MOD \notin rest
  BY ClearedType
<1> HIDE DEF y
<1>2. p.fms \in SNs /\ p.sn \in SNs /\ rest \subseteq SNs /\ p.undelivered \in Map /\ y.undelivered \in Map
  BY <1>1, MapType DEF Entities
<1>3. \A n : Ahead(p, n) => Ahead(y, n)
  BY <1>1 DEF Ahead
<1>4. ASSUME y.undelivered # <<>>
      PROVE  /\ y.fms \in DOMAIN y.undelivered
             /\ \A n \in DOMAIN y.undelivered : Gap(y.fms, n) < Gap(y.fms, y.sn)
             /\ Gap(y.fms, y.sn) <= Half
  <2>1. rest # {} /\ p.undelivered # <<>>
    BY <1>1, <1>2, <1>4, MapEmpty
  <2>2. /\ p.fms \in DOMAIN p.undelivered
        /\ \A n \in DOMAIN p.undelivered : Gap(p.fms, n) < Gap(p.fms, p.sn)
        /\ Gap(p.fms, p.sn) <= Half
    BY <2>1 DEF Spread, Close
  <2>3. CASE sn # p.fms
    BY <1>1, <2>2, <2>3
  <2>4. CASE sn = p.fms
    <3>1. PICK n \in rest : TRUE
      BY <2>1
    <3> DEFINE i == Gap(p.fms, n)
    <3>2. i \in 1 .. Half /\ (p.fms + i) % MOD = n
      <4>1. i \in 0 .. MOD - 1 /\ i # 0 /\ (p.fms + i) % MOD = n /\ i < Gap(p.fms, p.sn)
        BY <1>2, <2>2, <2>4, GapIs
      <4>2. Gap(p.fms, p.sn) \in 0 .. MOD - 1
        BY <1>2, GapIs
      <4> HIDE DEF i
      <4> QED
        BY <2>2, <4>1, <4>2, Constants
    <3> HIDE DEF i
    <3>3. PICK k \in 1 .. i : /\ y.fms = (p.fms + k) % MOD
                              /\ y.fms \in rest
                              /\ \A l \in 1 .. k - 1 : (p.fms + l) % MOD \notin rest
      BY <1>1, <2>2, <2>4, <3>2
    <3>4. Gap(p.fms, y.fms) = k /\ y.fms \in SNs /\ k \in Nat
      <4>1. k \in 0 .. MOD - 1
        BY <3>2, Constants
      <4> QED
        BY <1>2, <3>3, <4>1, GapAdd
    <3>5. ASSUME NEW m \in rest
          PROVE  Gap(p.fms, m) >= k
      <4> DEFINE l == Gap(p.fms, m)
      <4>1. l \in 0 .. MOD - 1 /\ l # 0 /\ (p.fms + l) % MOD = m
        BY <1>2, <2>4, GapIs
      <4> HIDE DEF l
      <4>2. l \notin 1 .. k - 1
        BY <3>3, <4>1
      <4>3. l >= k
        BY <3>4, <4>1, <4>2, Constants
      <4> QED
        BY <4>3 DEF l
    <3>6. \A m \in SNs : Gap(p.fms, m) \in Nat
      BY <1>2, GapIs
    <3>7. \A m \in SNs : Gap(p.fms, m) >= k => Gap(y.fms, m) = Gap(p.fms, m) - k
      <4> TAKE m \in SNs
      <4>1. Gap(p.fms, y.fms) <= Gap(p.fms, m)
             => Gap(y.fms, m) = Gap(p.fms, m) - Gap(p.fms, y.fms)
        BY <1>2, <3>4, GapIs
      <4> QED
        BY <3>4, <3>6, <4>1
    <3>8. Gap(p.fms, p.sn) >= k
      BY <1>2, <2>2, <3>3, <3>4, <3>6
    <3>9. Gap(y.fms, p.sn) = Gap(p.fms, p.sn) - k
      BY <1>2, <3>7, <3>8
    <3>10. \A m \in rest : Gap(y.fms, m) < Gap(y.fms, p.sn)
      <4> TAKE m \in rest
      <4>1. Gap(y.fms, m) = Gap(p.fms, m) - k /\ Gap(p.fms, m) < Gap(p.fms, p.sn)
        BY <1>2, <2>2, <3>5, <3>7
      <4> QED
        BY <1>2, <3>4, <3>6, <3>9, <4>1
    <3>11. Gap(y.fms, p.sn) <= Half
      <4>1. Gap(p.fms, p.sn) \in Nat /\ Gap(p.fms, p.sn) <= Half
        BY <1>2, <2>2, <3>6
      <4> QED
        BY <3>4, <3>9, <4>1, Constants
    <3> HIDE DEF rest
    <3> QED
      BY <1>1, <3>3, <3>10, <3>11
  <2> QED
    BY <2>3, <2>4
<1> QED
  BY <1>3, <1>4 DEF Spread, Close, y

(* A write: it is refused only when the queue is full or the numbers are   *)
(* no longer close, and stays refused from then on.                        *)
Excuse(x) == Len(x.queue) = QueueLen \/ ~Close(x.p)

LEMMA WriteRoom ==
  ASSUME NEW x \in Writers, NEW d \in Items, x.p.active, Spread(x.p), Len(x.queue) <= QueueLen,
         d.sn # None => Ahead(x.p, d.sn)
  PROVE  LET y == Write(x, d) IN
         /\ Spread(y.p) /\ Len(y.queue) <= QueueLen
         /\ y.dropped = x.dropped \/ Excuse(y)
         /\ Excuse(x) => Excuse(y)
         /\ \A n \in SNs : Ahead(x.p, n) /\ d.sn # None /\ d.sn < n => Ahead(y.p, n)
<1> DEFINE y  == Write(x, d)
           sn == NumberFor(x, d)
<1>1. /\ sn \in SNs
      /\ y \in Writers /\ y.p.active = x.p.active
      /\ ~Accepts(x, d) =>
           y.p = x.p /\ y.queue = x.queue /\ y.dropped = x.dropped \cup {d.sdu}
      /\ Accepts(x, d) =>
           /\ y.dropped = x.dropped
           /\ y.queue = Append(x.queue, [sdu |-> d.sdu, sn |-> sn, hfn |-> x.p.hfn])
           /\ DOMAIN y.p.undelivered = DOMAIN x.p.undelivered \cup {sn}
           /\ y.p.fms = IF x.p.undelivered = <<>> THEN sn ELSE x.p.fms
           /\ y.p.sn = IF d.sn # None THEN x.p.sn
                       ELSE IF x.p.sn = MOD - 1 THEN 0 ELSE x.p.sn + 1
  BY WriteIs
<1>2. sn = IF d.sn = None THEN x.p.sn ELSE d.sn
  BY DEF NumberFor
<1>3. x.p \in Entities /\ y.p \in Entities /\ x.queue \in Seq(Pdus) /\ y.queue \in Seq(Pdus)
  BY <1>1 DEF Writers
<1> HIDE DEF y, sn
<1>4. /\ x.p.fms \in SNs /\ x.p.sn \in SNs /\ x.p.undelivered \in Map
      /\ y.p.fms \in SNs /\ y.p.sn \in SNs /\ y.p.undelivered \in Map
      /\ DOMAIN x.p.undelivered \subseteq SNs
  BY <1>3, MapType DEF Entities
<1>5. d.sn # None /\ x.p.undelivered # <<>> => Close(x.p) /\ x.p.fms < sn /\ sn - x.p.fms <= Half
  <2> SUFFICES ASSUME d.sn # None, x.p.undelivered # <<>>
               PROVE  Close(x.p) /\ x.p.fms < sn /\ sn - x.p.fms <= Half
    OBVIOUS
  <2>1. Ahead(x.p, sn) /\ x.p.fms \in DOMAIN x.p.undelivered
    BY <1>2 DEF Spread
  <2>2. x.p.fms < sn /\ Below(x.p.fms, x.p.sn) /\ Below(sn, x.p.sn)
    BY <2>1 DEF Ahead
  <2> QED
    BY <1>1, <1>4, <2>2, Constants DEF Below, Close, Gap, SNs
<1>6. CASE ~Accepts(x, d)
  <2>1. y.p = x.p /\ y.queue = x.queue
    BY <1>1, <1>6
  <2>2. Excuse(x)
    <3> SUFFICES ASSUME Len(x.queue) # QueueLen, Close(x.p) PROVE FALSE
      BY DEF Excuse
    <3>1. Len(x.queue) < QueueLen
      BY <1>3, Constants
    <3>2. ~CanStore(x.p, sn)
      BY <1>6, <3>1 DEF Accepts, sn
    <3>3. CASE x.p.undelivered = <<>>
      <4>1. DOMAIN x.p.undelivered = {}
        BY <3>3
      <4> QED
        BY <3>2, <3>3, <4>1 DEF CanStore
    <3>4. CASE x.p.undelivered # <<>>
      <4>1. Gap(x.p.fms, x.p.sn) <= Half /\ x.p.fms \in DOMAIN x.p.undelivered
            /\ \A n \in DOMAIN x.p.undelivered : Gap(x.p.fms, n) < Gap(x.p.fms, x.p.sn)
        BY <3>4 DEF Close, Spread
      <4>2. CASE d.sn # None
        <5>1. sn \notin DOMAIN x.p.undelivered
          <6>1. Ahead(x.p, sn)
            BY <1>2, <4>2
          <6>2. ~(sn < sn)
            BY <1>1, <1>4, Constants
          <6> QED
            BY <6>1, <6>2 DEF Ahead
        <5>2. sn - x.p.fms <= Half /\ sn - x.p.fms > 0
          <6>1. x.p.fms < sn /\ sn - x.p.fms <= Half
            BY <1>5, <3>4, <4>2
          <6>2. x.p.fms \in Int /\ sn \in Int
            BY <1>1, <1>4, GapNat
          <6> QED
            BY <6>1, <6>2
        <5> QED
          BY <3>2, <3>4, <5>1, <5>2 DEF CanStore
      <4>3. CASE d.sn = None
        <5>1. sn = x.p.sn /\ x.p.sn # x.p.fms /\ Gap(x.p.fms, x.p.sn) \in Nat
          BY <1>2, <1>4, <4>1, <4>3, GapIs
        <5>2. sn \notin DOMAIN x.p.undelivered
          BY <4>1, <5>1
        <5>3. sn - x.p.fms <= Half /\ (sn - x.p.fms > 0 \/ sn - x.p.fms <= -Half)
          BY <1>4, <4>1, <5>1, Constants DEF Gap, SNs
        <5> QED
          BY <3>2, <5>2, <5>3 DEF CanStore
      <4> QED
        BY <4>2, <4>3
    <3> QED
      BY <3>3, <3>4
  <2>3. Excuse(y)
    BY <2>1, <2>2 DEF Excuse
  <2> QED
    BY <2>1, <2>3 DEF y
<1>7. CASE Accepts(x, d)
  <2>1. /\ y.dropped = x.dropped
        /\ y.queue = Append(x.queue, [sdu |-> d.sdu, sn |-> sn, hfn |-> x.p.hfn])
        /\ DOMAIN y.p.undelivered = DOMAIN x.p.undelivered \cup {sn}
        /\ y.p.fms = IF x.p.undelivered = <<>> THEN sn ELSE x.p.fms
        /\ y.p.sn = IF d.sn # None THEN x.p.sn
                    ELSE IF x.p.sn = MOD - 1 THEN 0 ELSE x.p.sn + 1
    BY <1>1, <1>7
  <2>2. Len(x.queue) < QueueLen /\ CanStore(x.p, sn)
    BY <1>7 DEF Accepts, sn
  <2>3. Len(y.queue) <= QueueLen
    <3>1. Len(y.queue) = Len(x.queue) + 1
      BY <1>3, <2>1
    <3> QED
      BY <1>3, <2>2, <3>1, Constants
  <2>4. Close(x.p)
    <3>1. CASE x.p.undelivered = <<>>
      BY <3>1 DEF Close
    <3>2. CASE x.p.undelivered # <<>> /\ d.sn # None
      BY <1>5, <3>2
    <3>3. CASE x.p.undelivered # <<>> /\ d.sn = None
      <4>1. LET diff == x.p.sn - x.p.fms IN diff <= Half /\ (diff > 0 \/ diff <= -Half)
        BY <1>2, <2>2, <3>3 DEF CanStore
      <4>2. Gap(x.p.fms, x.p.sn) <= Half
        BY <1>4, <4>1, Constants DEF Gap, SNs
      <4> QED
        BY <4>2 DEF Close
    <3> QED
      BY <3>1, <3>2, <3>3
  <2>5. ~Excuse(x)
    BY <1>3, <2>2, <2>4, Constants DEF Excuse
  <2>6. Spread(y.p)
    <3>1. CASE x.p.undelivered = <<>>
      <4>1. DOMAIN y.p.undelivered = {sn} /\ y.p.fms = sn
        BY <2>1, <3>1
      <4>2. Gap(sn, sn) < Gap(sn, y.p.sn)
        <5>1. sn # y.p.sn
          <6>1. CASE d.sn # None
            <7>1. Below(sn, x.p.sn) /\ y.p.sn = x.p.sn
              BY <1>2, <2>1, <6>1 DEF Ahead
            <7> QED
              BY <1>1, <1>4, <7>1, Constants DEF Below
          <6>2. CASE d.sn = None
            BY <1>1, <1>2, <1>4, <2>1, <6>2, ConstantsAssumption DEF SNs
          <6> QED
            BY <6>1, <6>2
        <5>2. Gap(sn, sn) = 0 /\ Gap(sn, y.p.sn) \in Nat /\ Gap(sn, y.p.sn) # 0
          BY <1>1, <1>4, <5>1, GapNat
        <5> QED
          BY <5>2
      <4> QED
        BY <4>1, <4>2 DEF Spread
    <3>2. CASE x.p.undelivered # <<>>
      <4>1. /\ x.p.fms \in DOMAIN x.p.undelivered /\ y.p.fms = x.p.fms
            /\ \A n \in DOMAIN x.p.undelivered : Gap(x.p.fms, n) < Gap(x.p.fms, x.p.sn)
            /\ Gap(x.p.fms, x.p.sn) <= Half
        BY <2>1, <2>4, <3>2 DEF Spread, Close
      <4>2. CASE d.sn # None
        <5>1. y.p.sn = x.p.sn /\ x.p.fms < sn /\ sn < x.p.sn
          BY <1>2, <1>5, <2>1, <3>2, <4>2 DEF Ahead, Below
        <5>2. Gap(x.p.fms, sn) < Gap(x.p.fms, x.p.sn)
          BY <1>1, <1>4, <5>1, Constants DEF Gap, SNs
        <5> QED
          BY <2>1, <4>1, <5>1, <5>2 DEF Spread
      <4>3. CASE d.sn = None
        <5>1. sn = x.p.sn /\ y.p.sn = IF x.p.sn = MOD - 1 THEN 0 ELSE x.p.sn + 1
          BY <1>2, <2>1, <4>3
        <5>2. Gap(x.p.fms, y.p.sn) = Gap(x.p.fms, x.p.sn) + 1
          BY <1>4, <4>1, <5>1, ConstantsAssumption, Constants DEF Gap, SNs
        <5>3. \A n \in SNs : Gap(x.p.fms, n) \in Nat
          BY <1>4, GapNat
        <5>4. \A n \in DOMAIN x.p.undelivered \cup {sn} : Gap(x.p.fms, n) < Gap(x.p.fms, y.p.sn)
          BY <1>4, <4>1, <5>1, <5>2, <5>3
        <5> QED
          BY <2>1, <4>1, <5>4 DEF Spread
      <4> QED
        BY <4>2, <4>3
    <3> QED
      BY <3>1, <3>2
  <2>7. ASSUME NEW n \in SNs, Ahead(x.p, n), d.sn # None, d.sn < n
        PROVE  Ahead(y.p, n)
    <3>1. sn = d.sn /\ y.p.sn = x.p.sn /\ Below(sn, x.p.sn)
      BY <1>2, <2>1, <2>7 DEF Ahead
    <3> QED
      BY <2>1, <2>7, <3>1 DEF Ahead
  <2> QED
    BY <2>1, <2>3, <2>5, <2>6, <2>7 DEF y
<1> QED
  BY <1>6, <1>7

(* A whole buffer, with what was forwarded by number first.                *)
LEMMA FoldRoom ==
  ASSUME NEW x \in Writers, NEW ds \in Seq(Items), In(KeyRel, ds),
         x.p.active, Spread(x.p), Len(x.queue) <= QueueLen,
         \A i \in DOMAIN ds : ds[i].sn # None => Ahead(x.p, ds[i].sn)
  PROVE  LET y == FoldLeft(Write, x, ds) IN
         /\ y.dropped = x.dropped \/ Excuse(y)
         /\ Spread(y.p) /\ Len(y.queue) <= QueueLen
         /\ \A n \in SNs : /\ Ahead(x.p, n)
                           /\ \A i \in DOMAIN ds : ds[i].sn # None /\ ds[i].sn < n
                           => Ahead(y.p, n)
<1>1. PICK w : Steps(w, x, ds) /\ FoldLeft(Write, x, ds) = w[Len(ds)]
  BY FoldIs
<1> DEFINE n == Len(ds)
           Good(i) ==
             /\ w[i] \in Writers /\ w[i].p.active
             /\ Spread(w[i].p) /\ Len(w[i].queue) <= QueueLen
             /\ w[i].dropped = x.dropped \/ Excuse(w[i])
             /\ \A s \in SNs : /\ Ahead(x.p, s)
                               /\ \A j \in DOMAIN ds : j <= i => ds[j].sn # None /\ ds[j].sn < s
                               => Ahead(w[i].p, s)
           G == {i \in Nat : i <= n => Good(i)}
<1>2. n \in Nat /\ \A i \in 1 .. n : i \in DOMAIN ds /\ ds[i] \in Items
  OBVIOUS
<1>3. 0 \in G
  <2>1. w[0] = x
    BY <1>1 DEF Steps
  <2> QED
    BY <2>1
<1>4. ASSUME NEW i \in Nat, i \in G
      PROVE  i + 1 \in G
  <2>1. SUFFICES ASSUME i + 1 <= n
                 PROVE  Good(i + 1)
    OBVIOUS
  <2>2. i + 1 \in 1 .. n /\ i <= n /\ (i + 1) - 1 = i
    BY <1>2, <2>1
  <2>3. Good(i)
    BY <1>4, <2>2
  <2> DEFINE d == ds[i + 1]
             y == Write(w[i], d)
  <2>4. w[i + 1] = y
    BY <1>1, <1>2, <2>2 DEF Steps
  <2>5. d \in Items /\ i + 1 \in DOMAIN ds /\ d.sn \in SNs \cup {None}
    <3>1. d \in Items /\ i + 1 \in DOMAIN ds
      BY <1>2, <2>2
    <3> QED
      BY <3>1, DatagramTypes
  <2>6. \A j \in DOMAIN ds : j < i + 1 /\ d.sn # None => ds[j].sn # None /\ ds[j].sn < d.sn
    BY <2>5, Zenon DEF In, KeyRel
  <2>7. \A j \in DOMAIN ds : j \in Int /\ (j <= i => j < i + 1) /\ (j <= i => j <= i + 1)
    BY <1>2
  <2>8. d.sn # None => Ahead(w[i].p, d.sn)
    <3> SUFFICES ASSUME d.sn # None PROVE Ahead(w[i].p, d.sn)
      OBVIOUS
    <3>1. Ahead(x.p, d.sn) /\ d.sn \in SNs
      BY <2>5
    <3>2. \A j \in DOMAIN ds : j <= i => ds[j].sn # None /\ ds[j].sn < d.sn
      BY <2>6, <2>7
    <3> QED
      BY <2>3, <3>1, <3>2
  <2> HIDE DEF d
  <2>9. /\ y \in Writers /\ y.p.active
        /\ Spread(y.p) /\ Len(y.queue) <= QueueLen
        /\ y.dropped = w[i].dropped \/ Excuse(y)
        /\ Excuse(w[i]) => Excuse(y)
        /\ \A s \in SNs : Ahead(w[i].p, s) /\ d.sn # None /\ d.sn < s => Ahead(y.p, s)
    <3>1. y \in Writers /\ y.p.active = w[i].p.active
      BY <2>3, <2>5, WriteIs
    <3>2. /\ Spread(y.p) /\ Len(y.queue) <= QueueLen
          /\ y.dropped = w[i].dropped \/ Excuse(y)
          /\ Excuse(w[i]) => Excuse(y)
          /\ \A s \in SNs : Ahead(w[i].p, s) /\ d.sn # None /\ d.sn < s => Ahead(y.p, s)
      BY <2>3, <2>5, <2>8, WriteRoom
    <3> QED
      BY <2>3, <3>1, <3>2
  <2> HIDE DEF y
  <2>10. y.dropped = x.dropped \/ Excuse(y)
    BY <2>3, <2>9
  <2>11. ASSUME NEW s \in SNs, Ahead(x.p, s),
                \A j \in DOMAIN ds : j <= i + 1 => ds[j].sn # None /\ ds[j].sn < s
         PROVE  Ahead(y.p, s)
    <3>1. Ahead(w[i].p, s)
      BY <2>3, <2>7, <2>11
    <3>2. d.sn # None /\ d.sn < s
      BY <2>5, <2>11 DEF d
    <3> QED
      BY <2>9, <3>1, <3>2
  <2> QED
    BY <2>4, <2>9, <2>10, <2>11
<1> HIDE DEF G
<1>5. n \in G
  BY <1>2, <1>3, <1>4, SetInduction
<1>6. Good(n)
  BY <1>2, <1>5 DEF G
<1>7. \A j \in DOMAIN ds : j <= n
  OBVIOUS
<1> QED
  BY <1>1, <1>6, <1>7

-----------------------------------------------------------------------------
(* What the source's tunnel still has to bring, and that what comes last   *)
(* is the end marker.                                                      *)
SourceInv ==
  /\ src = "pdcp_active" => pdcp.source.active
  /\ src = "none" => core.path = "target" /\ \A i \in DOMAIN s1.source : s1.source[i] = EndMarker
  /\ \A i \in DOMAIN s1.source : s1.source[i] = EndMarker => i = Len(s1.source)
MarkerInv == \A i \in DOMAIN x2 : x2[i] = EndMarker => i = Len(x2) /\ src = "none"
GoneInv   == tgt.fwd.state = "none" => x2 = <<>> /\ (tgt.state = "idle" \/ src = "none")
SpaceInv  == \A e \in ENBs : Spread(pdcp[e]) /\ Close(pdcp[e])

(* The numbers that are forwarded come before the next one that the source *)
(* would have given, and after those that the target holds.                *)
Expected(n) ==
  IF core.status # <<>> THEN Below(n, core.status[1].sn) ELSE Ahead(pdcp.target, n)
NumberInv ==
  /\ core.status # <<>> => core.ho = "started" /\ tgt.state = "s1_target_ho"
  /\ \A i \in DOMAIN tgt.fwd.buffer : tgt.fwd.buffer[i].sn # None => Expected(tgt.fwd.buffer[i].sn)
  /\ \A i \in DOMAIN x2 : x2[i].sn # None => Expected(x2[i].sn)
LimitInv ==
  /\ \A e \in ENBs : Len(radio[e]) <= QueueLen
  /\ Len(tgt.fwd.buffer) <= Buffer /\ Len(tgt.main.buffer) <= Buffer

Orderly == SourceInv /\ MarkerInv /\ GoneInv /\ SpaceInv /\ NumberInv /\ LimitInv
Smooth  == faults = 0 /\ InTheWindow
Given   == Base /\ Orderly /\ faults = 0
Kept    == Orderly' /\ (~Full' => givenUp' = givenUp)

LEMMA GivenFacts ==
  ASSUME Given
  PROVE  /\ TypeInv /\ KeyInv /\ PhaseInv
         /\ SourceInv /\ MarkerInv /\ GoneInv /\ SpaceInv /\ NumberInv /\ LimitInv
         /\ pdcp.source \in Entities /\ pdcp.target \in Entities
         /\ core.ho # "cancelled"
         /\ tgt.state = "idle" => core.ho = "none" /\ src = "pdcp_active" /\ x2 = <<>>
         /\ src = "none" => core.path = "target"
         /\ core.path = "target" =>
              /\ core.ho \in {"notified", "done"} /\ src # "pdcp_active" /\ tgt.state = "done"
              /\ pdcp.target.active /\ tgt.fwd.buffer = <<>> /\ core.status = <<>>
         /\ core.path # "target" =>
              /\ \A i \in DOMAIN s1.source : s1.source[i] # EndMarker
              /\ \A i \in DOMAIN x2 : x2[i] # EndMarker
<1>1. /\ TypeInv /\ KeyInv /\ PhaseInv
      /\ SourceInv /\ MarkerInv /\ GoneInv /\ SpaceInv /\ NumberInv /\ LimitInv /\ faults = 0
  BY DEF Given, Base, Orderly
<1>2. pdcp.source \in Entities /\ pdcp.target \in Entities /\ core.path \in ENBs
      /\ core.ho \in {"none", "started", "notified", "done", "cancelled"}
  BY <1>1, TypeFacts DEF TypeInv, Cores
<1>3. core.ho # "cancelled"
  BY <1>1 DEF PhaseInv
<1>4. tgt.state = "idle" => core.ho = "none" /\ src = "pdcp_active" /\ x2 = <<>>
  BY <1>1, <1>2, <1>3 DEF PhaseInv
<1>5. core.path = "target" =>
        /\ core.ho \in {"notified", "done"} /\ src # "pdcp_active" /\ tgt.state = "done"
        /\ pdcp.target.active /\ tgt.fwd.buffer = <<>> /\ core.status = <<>>
  <2>1. core.path = "target" => core.ho \in {"notified", "done"}
    BY <1>1 DEF PhaseInv
  <2>2. core.path = "target" => core.status = <<>>
    BY <1>1, <2>1 DEF NumberInv
  <2> QED
    BY <1>1, <2>1, <2>2 DEF PhaseInv
<1>6. core.path # "target" =>
        /\ \A i \in DOMAIN s1.source : s1.source[i] # EndMarker
        /\ \A i \in DOMAIN x2 : x2[i] # EndMarker
  BY <1>1, <1>2 DEF PhaseInv, ENBs
<1>7. src = "none" => core.path = "target"
  BY <1>1 DEF SourceInv
<1> QED
  BY <1>1, <1>2, <1>3, <1>4, <1>5, <1>6, <1>7

LEMMA DataOf ==
  /\ Data(<<>>) = {} /\ Data(<<EndMarker>>) = {}
  /\ \A ds \in Seq(Plain \cup {EndMarker}) :
       Data(ds) = {} => \A i \in DOMAIN ds : ds[i] = EndMarker
<1>1. Data(<<>>) = {}
  BY DEF Data, Range
<1>2. Data(<<EndMarker>>) = {}
  <2>1. Range(<<EndMarker>>) = {EndMarker}
    BY DEF Range
  <2> QED
    BY <2>1 DEF Data
<1>3. ASSUME NEW ds \in Seq(Plain \cup {EndMarker}), Data(ds) = {}, NEW i \in DOMAIN ds
      PROVE  ds[i] = EndMarker
  <2>1. ds[i] \in Plain \cup {EndMarker} /\ ds[i] \in Range(ds)
    BY DEF Range
  <2>2. ds[i].sdu = EndMarker.sdu
    BY <1>3, <2>1 DEF Data
  <2>3. ds[i] \notin Plain
    BY <2>2, DatagramTypes, Constants DEF Plain, Sdus
  <2> QED
    BY <2>1, <2>3
<1> QED
  BY <1>1, <1>2, <1>3

LEMMA InOne ==
  ASSUME NEW R, NEW d
  PROVE  In(R, <<d>>)
BY DEF In

-----------------------------------------------------------------------------
(* The writes of an action.                                                *)
LEMMA WriteAllRoom ==
  ASSUME Base, LimitInv, NEW e \in ENBs, NEW ds \in Seq(Items), NEW lost \in SUBSET Sdus,
         WriteAll(e, ds, lost), InTheWindow', In(KeyRel, ds), pdcp[e].active, Spread(pdcp[e]),
         \A i \in DOMAIN ds : ds[i].sn # None => Ahead(pdcp[e], ds[i].sn)
  PROVE  /\ Spread(pdcp'[e]) /\ Close(pdcp'[e]) /\ pdcp'[e].active
         /\ \A o \in ENBs \ {e} : pdcp'[o] = pdcp[o]
         /\ \A o \in ENBs : Len(radio'[o]) <= QueueLen
         /\ Len(radio'[e]) # QueueLen => givenUp' = givenUp \cup lost
         /\ \A n \in SNs : /\ Ahead(pdcp[e], n)
                           /\ \A i \in DOMAIN ds : ds[i].sn # None /\ ds[i].sn < n
                           => Ahead(pdcp'[e], n)
<1> DEFINE x0 == [p |-> pdcp[e], queue |-> radio[e], dropped |-> lost]
           x == FoldLeft(Write, x0, ds)
<1>1. TypeInv
  BY DEF Base
<1>2. x0 \in Writers /\ x0.p = pdcp[e] /\ x0.queue = radio[e] /\ x0.dropped = lost
  BY <1>1 DEF TypeInv, Writers
<1>3. /\ x \in Writers /\ x.p.active = pdcp[e].active
      /\ pdcp'[e] = x.p /\ radio'[e] = x.queue
      /\ \A o \in ENBs \ {e} : pdcp'[o] = pdcp[o] /\ radio'[o] = radio[o]
      /\ givenUp' = givenUp \cup x.dropped
  <2>1. PICK z : Wrote(e, ds, lost, z)
    BY <1>1, WriteAllIs
  <2> QED
    BY <2>1, Zenon DEF Wrote
<1>4. met' = met \cup IF PastWindow(x) THEN {"window"} ELSE {}
  BY DEF WriteAll, Meets
<1> HIDE DEF x0
<1>5. /\ Spread(x.p) /\ Len(x.queue) <= QueueLen
      /\ x.dropped = lost \/ Excuse(x)
      /\ \A n \in SNs : /\ Ahead(pdcp[e], n)
                        /\ \A i \in DOMAIN ds : ds[i].sn # None /\ ds[i].sn < n
                        => Ahead(x.p, n)
  <2>1. Len(x0.queue) <= QueueLen
    BY <1>2 DEF LimitInv
  <2> QED
    BY <1>2, <2>1, FoldRoom
<1> HIDE DEF x
<1>6. Close(x.p)
  <2>1. ~PastWindow(x)
    BY <1>4 DEF InTheWindow
  <2>2. x.p.undelivered # <<>> => ~((x.p.sn - x.p.fms) % MOD > Half)
    BY <2>1 DEF PastWindow
  <2>3. x.p.sn \in SNs /\ x.p.fms \in SNs
    BY <1>3 DEF Writers, Entities
  <2>4. (x.p.sn - x.p.fms) % MOD = Gap(x.p.fms, x.p.sn) /\ Gap(x.p.fms, x.p.sn) \in Nat
    BY <2>3, GapIs, GapNat
  <2> QED
    BY <2>2, <2>4, Constants DEF Close
<1>7. Len(x.queue) # QueueLen => x.dropped = lost
  BY <1>5, <1>6 DEF Excuse
<1>8. \A o \in ENBs : Len(radio'[o]) <= QueueLen
  <2> TAKE o \in ENBs
  <2>1. o = e \/ radio'[o] = radio[o]
    BY <1>3
  <2> QED
    BY <1>3, <1>5, <2>1 DEF LimitInv
<1> QED
  BY <1>3, <1>5, <1>6, <1>7, <1>8

(* The target's room when the forwarding tunnel is done: nothing with a    *)
(* number is left.                                                         *)
LEMMA RemoveRoom ==
  ASSUME Given, RemoveForwarding, src = "none", tgt.fwd.buffer = <<>>, x2' = <<>>,
         InTheWindow', UNCHANGED <<src, s1, core>>
  PROVE  Kept
<1>1. /\ TypeInv /\ KeyInv /\ PhaseInv
      /\ SourceInv /\ SpaceInv /\ NumberInv /\ LimitInv
      /\ core.path = "target" /\ core.status = <<>> /\ pdcp.target.active
  BY GivenFacts
<1>2. /\ pdcp'.source = pdcp.source
      /\ tgt'.state = tgt.state
      /\ tgt'.main.buffer = <<>> /\ tgt'.fwd.buffer = <<>>
  BY RemoveForwardingIs DEF Given
<1>3. /\ tgt.main.buffer \in Seq(Items) /\ Sorted(tgt.main.buffer) = tgt.main.buffer
      /\ \A i \in DOMAIN tgt.main.buffer : tgt.main.buffer[i].sn = None
  <2>1. tgt.main.buffer \in Seq(Plain)
    BY <1>1 DEF TypeInv
  <2>2. \A i \in DOMAIN tgt.main.buffer : tgt.main.buffer[i] \in Plain
    BY <2>1
  <2> QED
    BY <2>1, <2>2, PlainOrder, DatagramTypes
<1>4. WriteAll("target", tgt.main.buffer, {})
  BY <1>3, DataOf DEF RemoveForwarding
<1>5. In(KeyRel, tgt.main.buffer)
  <2>1. \A i \in DOMAIN tgt.main.buffer : tgt.main.buffer[i] \in Marked
    BY <1>3, DatagramTypes
  <2> QED
    BY <1>3, <2>1 DEF In, KeyRel
<1>6. "target" \in ENBs /\ Spread(pdcp["target"]) /\ "source" \in ENBs
  BY <1>1 DEF SpaceInv, ENBs
<1>7. /\ Spread(pdcp'["target"]) /\ Close(pdcp'["target"])
      /\ \A o \in ENBs \ {"target"} : pdcp'[o] = pdcp[o]
      /\ \A o \in ENBs : Len(radio'[o]) <= QueueLen
      /\ Len(radio'["target"]) # QueueLen => givenUp' = givenUp \cup {}
  <2> DEFINE q == tgt.main.buffer
  <2>1. Base /\ {} \in SUBSET Sdus /\ pdcp["target"].active /\ LimitInv
    BY <1>1 DEF Given
  <2>2. \A i \in DOMAIN q : q[i].sn # None => Ahead(pdcp["target"], q[i].sn)
    BY <1>3
  <2>3. q \in Seq(Items) /\ WriteAll("target", q, {}) /\ In(KeyRel, q)
    BY <1>3, <1>4, <1>5
  <2> HIDE DEF q
  <2> QED
    BY <1>6, <2>1, <2>2, <2>3, WriteAllRoom
<1>8. ~Full' => givenUp' = givenUp
  BY <1>6, <1>7 DEF Full
<1>9. SourceInv'
  BY <1>1, <1>2 DEF SourceInv
<1>10. MarkerInv' /\ GoneInv'
  BY DEF MarkerInv, GoneInv
<1>11. SpaceInv'
  BY <1>1, <1>7 DEF SpaceInv
<1>12. NumberInv'
  BY <1>1, <1>2 DEF NumberInv
<1>13. LimitInv'
  <2>1. Len(<<>>) = 0 /\ 0 <= Buffer
    BY Constants
  <2> QED
    BY <1>2, <1>7, <2>1 DEF LimitInv
<1> QED
  BY <1>8, <1>9, <1>10, <1>11, <1>12, <1>13 DEF Kept, Orderly

(* The UE has arrived: what was buffered is written.                       *)
LEMMA CompleteRoom ==
  ASSUME Given, NEW p \in Entities, Complete(p), p.active, Spread(p),
         \A i \in DOMAIN tgt.fwd.buffer : tgt.fwd.buffer[i].sn # None => Ahead(p, tgt.fwd.buffer[i].sn),
         \A i \in DOMAIN x2 : x2[i].sn # None => Ahead(p, x2[i].sn),
         InTheWindow', UNCHANGED <<src, s1, x2>>, core.ho = "started"
  PROVE  Kept
<1>1. /\ TypeInv /\ KeyInv /\ PhaseInv
      /\ SourceInv /\ MarkerInv /\ GoneInv /\ SpaceInv /\ LimitInv
  BY GivenFacts
<1> DEFINE b == tgt.fwd.buffer
           x0 == [p |-> p, queue |-> radio.target, dropped |-> {}]
           x == FoldLeft(Write, x0, b)
<1>2. b \in Seq(Items) /\ In(KeyRel, b) /\ Across(KeyRel, b, x2) /\ x2 \in Seq(Items \cup {EndMarker})
      /\ radio.target \in Seq(Pdus)
  BY <1>1, TypeFacts DEF KeyInv, TypeInv
<1>3. /\ x \in Writers /\ x.p.active = p.active
      /\ pdcp'.target = x.p /\ radio'.target = x.queue
      /\ givenUp' = givenUp \cup x.dropped
  BY CompleteIs DEF Given
<1>4. /\ pdcp'.source = pdcp.source /\ radio'.source = radio.source
      /\ core'.path = core.path
      /\ tgt'.state = "done" /\ tgt'.main = tgt.main
      /\ tgt.fwd.state = "buffering" => tgt'.fwd.state = "pdcp_active"
      /\ tgt.fwd.state # "buffering" => tgt'.fwd = tgt.fwd
      /\ tgt'.fwd.buffer = <<>>
  BY CompleteIs DEF Given
<1>5. core'.status = <<>>
  BY <1>1 DEF Complete, TypeInv, Cores
<1>6. met' = met \cup IF PastWindow(x) THEN {"window"} ELSE {}
  <2>1. Sorted(b) = b
    BY <1>2, KeyOrder
  <2> QED
    BY <2>1 DEF Complete, Meets
<1>7. x0 \in Writers /\ x0.p = p /\ x0.queue = radio.target /\ x0.dropped = {}
  BY <1>2 DEF Writers
<1> HIDE DEF x0
<1>8. /\ Spread(x.p) /\ Len(x.queue) <= QueueLen
      /\ x.dropped = {} \/ Excuse(x)
      /\ \A n \in SNs : Ahead(p, n) /\ (\A i \in DOMAIN b : b[i].sn # None /\ b[i].sn < n)
                        => Ahead(x.p, n)
  <2>1. Len(x0.queue) <= QueueLen
    BY <1>1, <1>7 DEF LimitInv, ENBs
  <2> QED
    BY <1>2, <1>7, <2>1, FoldRoom
<1> HIDE DEF x
<1>9. Close(x.p)
  <2>1. ~PastWindow(x)
    BY <1>6 DEF InTheWindow
  <2>2. x.p.undelivered # <<>> => ~((x.p.sn - x.p.fms) % MOD > Half)
    BY <2>1 DEF PastWindow
  <2>3. x.p.sn \in SNs /\ x.p.fms \in SNs
    BY <1>3 DEF Writers, Entities
  <2>4. (x.p.sn - x.p.fms) % MOD = Gap(x.p.fms, x.p.sn) /\ Gap(x.p.fms, x.p.sn) \in Nat
    BY <2>3, GapIs, GapNat
  <2> QED
    BY <2>2, <2>4, Constants DEF Close
<1>10. ~Full' => givenUp' = givenUp
  <2>1. ~Full' => Len(x.queue) # QueueLen
    BY <1>3 DEF Full, ENBs
  <2> QED
    BY <1>3, <1>8, <1>9, <2>1 DEF Excuse
<1>11. SourceInv'
  BY <1>1, <1>4 DEF SourceInv
<1>12. MarkerInv'
  BY <1>1 DEF MarkerInv
<1>13. GoneInv'
  <2>1. tgt.state # "idle"
    BY <1>1 DEF PhaseInv
  <2> QED
    BY <1>1, <1>4, <2>1 DEF GoneInv
<1>14. SpaceInv'
  BY <1>1, <1>3, <1>4, <1>8, <1>9 DEF SpaceInv, ENBs
<1>15. NumberInv'
  <2>1. ASSUME NEW i \in DOMAIN x2, x2[i].sn # None
        PROVE  Ahead(x.p, x2[i].sn)
    <3>1. x2[i] \in Items
      BY <1>2, <2>1, DatagramTypes
    <3>2. x2[i].sn \in SNs
      BY <2>1, <3>1, DatagramTypes
    <3>3. \A j \in DOMAIN b : b[j].sn # None /\ b[j].sn < x2[i].sn
      BY <1>2, <2>1, Zenon DEF Across, KeyRel
    <3> QED
      BY <1>8, <2>1, <3>2, <3>3
  <2> QED
    BY <1>3, <1>4, <1>5, <2>1 DEF NumberInv, Expected
<1>16. LimitInv'
  <2>1. Len(<<>>) = 0 /\ 0 <= Buffer
    BY Constants
  <2> QED
    BY <1>1, <1>3, <1>4, <1>8, <2>1 DEF LimitInv, ENBs
<1> QED
  BY <1>10, <1>11, <1>12, <1>13, <1>14, <1>15, <1>16 DEF Kept, Orderly

-----------------------------------------------------------------------------
(* Each action leaves the order as it is and drops nothing, but at a limit. *)
(* What leaves these as they are leaves the order.                         *)
LEMMA OrderlyFrame ==
  ASSUME Given, UNCHANGED <<pdcp, src, tgt, s1, x2, core, givenUp>>,
         \A e \in ENBs : Len(radio'[e]) <= QueueLen
  PROVE  Kept
<1>1. SourceInv /\ MarkerInv /\ GoneInv /\ SpaceInv /\ NumberInv /\ LimitInv
  BY GivenFacts
<1>2. SourceInv' /\ MarkerInv' /\ GoneInv'
  BY <1>1 DEF SourceInv, MarkerInv, GoneInv
<1>3. SpaceInv' /\ LimitInv'
  BY <1>1 DEF SpaceInv, LimitInv
<1>4. NumberInv'
  BY <1>1 DEF NumberInv, Expected
<1> QED
  BY <1>2, <1>3, <1>4 DEF Kept, Orderly

LEMMA SendSduRoom ==
  ASSUME Given, SendSdu
  PROVE  Kept
<1> DEFINE d == Datagram(core.sent + 1, None)
<1>1. /\ TypeInv /\ SourceInv /\ MarkerInv /\ GoneInv /\ SpaceInv /\ NumberInv /\ LimitInv
      /\ src = "none" => core.path = "target"
      /\ core.path # "target" => \A i \in DOMAIN s1.source : s1.source[i] # EndMarker
  BY GivenFacts
<1>2. core.sent < NofSdus /\ core' = [core EXCEPT !.sent = @ + 1]
      /\ s1' = [s1 EXCEPT ![core.path] = Append(@, d)]
  BY DEF SendSdu
<1>3. UNCHANGED <<pdcp, src, tgt, radio, x2, givenUp>>
  BY DEF SendSdu, air, history
<1>4. core \in Cores /\ core.path \in ENBs /\ core.sent \in 0 .. NofSdus
  BY <1>1 DEF TypeInv, Cores
<1>5. d \in Plain /\ d # EndMarker
  <2>1. d \in Plain
    BY <1>2, <1>4, Constants DEF Datagram, Plain, Sdus
  <2> QED
    BY <2>1, DatagramTypes
<1> HIDE DEF d
<1>6. core'.path = core.path /\ core'.ho = core.ho /\ core'.status = core.status
  BY <1>2, <1>4 DEF Cores
<1>7. s1 \in [ENBs -> Seq(Plain \cup {EndMarker})]
  BY <1>1 DEF TypeInv
<1>8. CASE core.path = "source"
  <2>1. s1'.source = Append(s1.source, d)
    BY <1>2, <1>7, <1>8 DEF ENBs
  <2>2. /\ DOMAIN s1'.source = DOMAIN s1.source \cup {Len(s1.source) + 1}
        /\ \A k \in DOMAIN s1.source : s1'.source[k] = s1.source[k]
        /\ s1'.source[Len(s1.source) + 1] = d
    BY <1>5, <1>7, <2>1, SocketSend DEF ENBs
  <2>3. \A i \in DOMAIN s1'.source : s1'.source[i] # EndMarker
    BY <1>1, <1>5, <1>8, <2>2
  <2>4. SourceInv'
    BY <1>1, <1>3, <1>8, <2>3 DEF SourceInv
  <2> QED
    BY <1>1, <1>3, <1>6, <2>4
       DEF Kept, Orderly, MarkerInv, GoneInv, SpaceInv, NumberInv, Expected, LimitInv
<1>9. CASE core.path = "target"
  <2>1. s1'.source = s1.source
    BY <1>2, <1>7, <1>9 DEF ENBs
  <2>2. SourceInv'
    BY <1>1, <1>3, <1>6, <2>1 DEF SourceInv
  <2> QED
    BY <1>1, <1>3, <1>6, <2>2
       DEF Kept, Orderly, MarkerInv, GoneInv, SpaceInv, NumberInv, Expected, LimitInv
<1> QED
  BY <1>4, <1>8, <1>9 DEF ENBs

LEMMA SwitchPathRoom ==
  ASSUME Given, SwitchPath
  PROVE  Kept
<1>1. /\ TypeInv /\ SourceInv /\ MarkerInv /\ GoneInv /\ SpaceInv /\ NumberInv /\ LimitInv
      /\ src = "none" => core.path = "target"
      /\ core.path # "target" => \A i \in DOMAIN s1.source : s1.source[i] # EndMarker
  BY GivenFacts
<1>2. core.path = "source" /\ core' = [core EXCEPT !.path = "target"]
      /\ s1' = [s1 EXCEPT !.source = Append(@, EndMarker)]
      /\ UNCHANGED <<pdcp, src, tgt, radio, x2, givenUp>>
  BY DEF SwitchPath, air, history
<1>3. core'.ho = core.ho /\ core'.status = core.status
  BY <1>1, <1>2 DEF TypeInv, Cores
<1>4. s1.source \in Seq(Plain \cup {EndMarker}) /\ s1'.source = Append(s1.source, EndMarker)
  BY <1>1, <1>2, TypeFacts DEF TypeInv, ENBs
<1>5. /\ DOMAIN s1'.source = DOMAIN s1.source \cup {Len(s1.source) + 1}
      /\ \A k \in DOMAIN s1.source : s1'.source[k] = s1.source[k]
      /\ Len(s1'.source) = Len(s1.source) + 1
  BY <1>4, SocketSend
<1>6. SourceInv'
  BY <1>1, <1>2, <1>5 DEF SourceInv
<1> QED
  BY <1>1, <1>2, <1>3, <1>6
     DEF Kept, Orderly, MarkerInv, GoneInv, SpaceInv, NumberInv, Expected, LimitInv

LEMMA RxSourceRoom ==
  ASSUME Given, RxSource, InTheWindow'
  PROVE  Kept
<1> DEFINE d == Head(s1.source)
           q == s1.source
<1>1. /\ TypeInv /\ KeyInv /\ PhaseInv
      /\ SourceInv /\ MarkerInv /\ GoneInv /\ SpaceInv /\ NumberInv /\ LimitInv
      /\ tgt.state = "idle" => src = "pdcp_active"
      /\ core.path = "target" => src # "pdcp_active"
      /\ core.path # "target" => \A i \in DOMAIN q : q[i] # EndMarker
  BY GivenFacts
<1>2. /\ q # <<>> /\ s1' = [s1 EXCEPT !["source"] = Tail(@)]
      /\ src' = IF d = EndMarker THEN "none" ELSE src
      /\ x2' = IF src = "forward_to" THEN Append(x2, d) ELSE x2
      /\ UNCHANGED <<tgt, core>>
  BY DEF RxSource
<1>3. q \in Seq(Plain \cup {EndMarker}) /\ s1'.source = Tail(q)
  BY <1>1, <1>2, TypeFacts DEF TypeInv, ENBs
<1>4. /\ d \in Plain \cup {EndMarker} /\ d = q[1] /\ 1 \in DOMAIN q
      /\ Len(Tail(q)) = Len(q) - 1 /\ Len(q) \in Nat
      /\ \A k \in DOMAIN Tail(q) : k \in Nat /\ k + 1 \in DOMAIN q /\ Tail(q)[k] = q[k + 1]
  BY <1>2, <1>3
<1>5. d = EndMarker => core.path = "target" /\ DOMAIN Tail(q) = {}
  <2> SUFFICES ASSUME d = EndMarker PROVE core.path = "target" /\ DOMAIN Tail(q) = {}
    OBVIOUS
  <2>1. 1 = Len(q)
    BY <1>1, <1>4 DEF SourceInv
  <2> DEFINE t == Tail(q)
  <2>2. t \in Seq(Plain \cup {EndMarker}) /\ Len(t) = 0
    BY <1>2, <1>3, <1>4, <2>1
  <2> HIDE DEF t
  <2>5. DOMAIN t = 1 .. Len(t)
    BY <2>2
  <2>3. DOMAIN t = {}
    BY <2>2, <2>5
  <2>4. core.path = "target"
    <3>1. q[1] = EndMarker
      BY <1>4
    <3> QED
      BY <1>1, <1>4, <3>1
  <2> QED
    BY <2>3, <2>4 DEF t
<1>6. src = "none" => d = EndMarker
  BY <1>1, <1>4 DEF SourceInv
<1>7. \A i \in DOMAIN Tail(q) : Tail(q)[i] = EndMarker => i = Len(Tail(q))
  BY <1>1, <1>4 DEF SourceInv
<1>8. src \in {"pdcp_active", "forward_to", "none"} /\ x2 \in Seq(Items \cup {EndMarker})
  BY <1>1 DEF TypeInv
<1> HIDE DEF d, q
<1>9. CASE src = "pdcp_active" /\ d # EndMarker
  <2>1. WriteAll("source", <<d>>, {})
    BY <1>9 DEF RxSource, d
  <2>2. d \in Items /\ d.sn = None
    BY <1>4, <1>9, DatagramTypes
  <2>3. /\ <<d>> \in Seq(Items) /\ {} \in SUBSET Sdus /\ "source" \in ENBs /\ Base
        /\ In(KeyRel, <<d>>) /\ pdcp["source"].active /\ Spread(pdcp["source"])
        /\ \A i \in DOMAIN <<d>> : <<d>>[i].sn # None => Ahead(pdcp["source"], <<d>>[i].sn)
    BY <1>1, <1>9, <2>2, InOne DEF ENBs, SourceInv, SpaceInv, Given
  <2>4. /\ Spread(pdcp'["source"]) /\ Close(pdcp'["source"]) /\ pdcp'["source"].active
        /\ \A o \in ENBs \ {"source"} : pdcp'[o] = pdcp[o]
        /\ \A o \in ENBs : Len(radio'[o]) <= QueueLen
        /\ Len(radio'["source"]) # QueueLen => givenUp' = givenUp \cup {}
    <3> DEFINE ds == <<d>>
    <3> HIDE DEF ds
    <3> QED
      BY <1>1, <2>1, <2>3, WriteAllRoom DEF ds
  <2>5. x2' = x2 /\ src' = src
    BY <1>2, <1>9
  <2>6. ~Full' => givenUp' = givenUp
    BY <2>3, <2>4 DEF Full
  <2>7. SourceInv'
    BY <1>3, <1>7, <1>9, <2>4, <2>5 DEF SourceInv
  <2>8. SpaceInv'
    BY <1>1, <2>4 DEF SpaceInv
  <2>9. pdcp'.target = pdcp.target
    BY <2>4 DEF ENBs
  <2>10. MarkerInv' /\ GoneInv'
    BY <1>1, <1>2, <2>5 DEF MarkerInv, GoneInv
  <2>11. NumberInv' /\ LimitInv'
    BY <1>1, <1>2, <2>4, <2>5, <2>9 DEF NumberInv, Expected, LimitInv
  <2> QED
    BY <2>6, <2>7, <2>8, <2>10, <2>11 DEF Kept, Orderly
<1>10. CASE ~(src = "pdcp_active" /\ d # EndMarker)
  <2>1. givenUp' = givenUp \cup (IF src = "none" THEN Data(<<d>>) ELSE {})
        /\ UNCHANGED <<pdcp, radio>>
    BY <1>10 DEF RxSource, d
  <2>2. givenUp' = givenUp
    BY <1>6, <2>1, DataOf
  <2>3. src # "pdcp_active"
    BY <1>1, <1>5, <1>10
  <2>4. SourceInv'
    BY <1>1, <1>2, <1>3, <1>5, <1>6, <1>7, <2>1, <2>3 DEF SourceInv
  <2>5. CASE src = "none"
    <3>1. x2' = x2 /\ src' = "none"
      BY <1>2, <1>6, <2>5
    <3> QED
      BY <1>1, <1>2, <2>1, <2>2, <2>4, <2>5, <3>1
         DEF Kept, Orderly, MarkerInv, GoneInv, SpaceInv, NumberInv, Expected, LimitInv
  <2>6. CASE src = "forward_to"
    <3>1. x2' = Append(x2, d) /\ d.sn = None
      BY <1>2, <1>4, <2>6, DatagramTypes
    <3>2. /\ DOMAIN x2' = DOMAIN x2 \cup {Len(x2) + 1}
          /\ \A k \in DOMAIN x2 : x2'[k] = x2[k] /\ x2[k] # EndMarker
          /\ x2'[Len(x2) + 1] = d /\ Len(x2') = Len(x2) + 1
      <4>1. d \in Items \cup {EndMarker}
        BY <1>4, DatagramTypes
      <4> QED
        BY <1>1, <1>8, <2>6, <3>1, <4>1, SocketSend DEF MarkerInv
    <3>3. MarkerInv'
      BY <1>2, <3>2 DEF MarkerInv
    <3>4. GoneInv'
      BY <1>1, <1>2, <2>6 DEF GoneInv
    <3>5. NumberInv'
      BY <1>1, <1>2, <2>1, <3>1, <3>2 DEF NumberInv, Expected
    <3> QED
      BY <1>1, <1>2, <2>1, <2>2, <2>4, <3>3, <3>4, <3>5
         DEF Kept, Orderly, SpaceInv, LimitInv
  <2> QED
    BY <1>8, <2>3, <2>5, <2>6
<1> QED
  BY <1>9, <1>10

LEMMA HoCmdRoom ==
  ASSUME Given, handle_ho_cmd, InTheWindow'
  PROVE  Kept
<1> DEFINE p  == pdcp.source
           p2 == [pdcp.source EXCEPT !.active = FALSE]
<1>1. /\ TypeInv /\ KeyInv /\ PhaseInv
      /\ SourceInv /\ MarkerInv /\ GoneInv /\ SpaceInv /\ NumberInv /\ LimitInv
      /\ p \in Entities
  BY GivenFacts
<1>2. /\ core.ho = "none" /\ tgt.state = "s1_target_ho"
      /\ tgt.fwd.buffer = <<>> /\ src = "pdcp_active"
      /\ x2' = Forwarded(p) /\ x2' \in Seq(Items)
      /\ src' = "forward_to"
      /\ pdcp' = [pdcp EXCEPT !.source = p2]
      /\ core' = [core EXCEPT !.ho = "started",
                              !.status = <<[hfn |-> p.hfn, sn |-> p.sn]>>]
      /\ UNCHANGED <<tgt, radio, s1, givenUp>>
  BY HoCmdIs DEF Given
<1>3. p2.undelivered = p.undelivered /\ p2.fms = p.fms /\ p2.sn = p.sn
  BY <1>1 DEF Entities
<1>4. core'.ho = "started" /\ core'.path = core.path /\ core'.status # <<>>
      /\ core'.status[1].sn = p.sn
  BY <1>1, <1>2 DEF TypeInv, Cores
<1>5. \A n \in DOMAIN p.undelivered : n < p.sn
  <2>1. Meets("wrap", \E sn \in DOMAIN p.undelivered : sn >= p.sn)
    BY DEF handle_ho_cmd
  <2>2. ~\E sn \in DOMAIN p.undelivered : sn >= p.sn
    BY <2>1 DEF Meets, InTheWindow
  <2>3. p.sn \in SNs /\ DOMAIN p.undelivered \subseteq SNs
    BY <1>1, MapType DEF Entities
  <2> QED
    BY <2>2, <2>3, GapNat
<1>6. \A n \in DOMAIN p.undelivered : Below(n, p.sn)
  <2> TAKE n \in DOMAIN p.undelivered
  <2>1. p.undelivered # <<>>
    OBVIOUS
  <2>2. p.fms \in DOMAIN p.undelivered /\ Gap(p.fms, n) < Gap(p.fms, p.sn) /\ Gap(p.fms, p.sn) <= Half
    BY <1>1, <2>1 DEF SpaceInv, Spread, Close, ENBs
  <2>3. p.sn \in SNs /\ n \in SNs /\ p.fms \in SNs
    BY <1>1, MapType DEF Entities
  <2>4. n < p.sn /\ p.fms < p.sn
    BY <1>5, <2>2
  <2> QED
    BY <2>2, <2>3, <2>4, Constants DEF Gap, Below, SNs
<1>7. \A i \in DOMAIN x2' : x2'[i].sn \in DOMAIN p.undelivered /\ x2'[i] # EndMarker
  <2>1. \A i \in DOMAIN x2' : x2'[i] \in Items
    BY <1>2
  <2> QED
    BY <1>1, <1>2, <2>1, ForwardedIs, DatagramTypes
<1> HIDE DEF p, p2
<1>8. pdcp'.source = p2 /\ pdcp'.target = pdcp.target
  BY <1>1, <1>2 DEF TypeInv, ENBs
<1>9. SourceInv' /\ MarkerInv'
  BY <1>1, <1>2, <1>4, <1>7 DEF SourceInv, MarkerInv
<1>10. GoneInv'
  BY <1>1, <1>2 DEF GoneInv
<1>11. SpaceInv'
  <2>1. Spread(p) /\ Close(p) /\ Spread(pdcp.target) /\ Close(pdcp.target)
    BY <1>1 DEF SpaceInv, ENBs, p
  <2>2. Spread(p2) /\ Close(p2)
    BY <1>3, <2>1 DEF Spread, Close
  <2> QED
    BY <1>8, <2>1, <2>2 DEF SpaceInv, ENBs
<1>12. NumberInv'
  BY <1>2, <1>4, <1>6, <1>7 DEF NumberInv, Expected
<1>13. LimitInv'
  BY <1>1, <1>2 DEF LimitInv
<1> QED
  BY <1>2, <1>9, <1>10, <1>11, <1>12, <1>13 DEF Kept, Orderly

LEMMA ReleaseSourceRoom ==
  ASSUME Given, ReleaseSource, faults' = 0
  PROVE  Kept
<1> DEFINE p == Entity(FALSE, 0, 0)
<1>1. /\ TypeInv /\ KeyInv /\ PhaseInv
      /\ SourceInv /\ MarkerInv /\ GoneInv /\ SpaceInv /\ NumberInv /\ LimitInv
      /\ tgt.state = "idle" => core.ho = "none"
      /\ core.path = "target" => core.status = <<>>
  BY GivenFacts
<1>2. /\ core.ho = "notified" /\ core.path = "target"
      /\ core' = [core EXCEPT !.ho = "done"]
      /\ faults' = (IF Data(s1.source) = {} THEN faults ELSE faults + 1)
      /\ x2' = IF src = "forward_to" THEN Append(x2, EndMarker) ELSE x2
      /\ src' = "none"
      /\ pdcp' = [pdcp EXCEPT !.source = p]
      /\ UNCHANGED <<tgt, radio, s1, givenUp>>
  BY DEF ReleaseSource, air
<1>3. Data(s1.source) = {}
  BY <1>2 DEF Given
<1>4. \A i \in DOMAIN s1.source : s1.source[i] = EndMarker
  BY <1>1, <1>3, TypeFacts, DataOf
<1>5. p.undelivered = <<>>
  BY DEF Entity
<1> HIDE DEF p
<1>6. pdcp'.source = p /\ pdcp'.target = pdcp.target
  BY <1>1, <1>2 DEF TypeInv, ENBs
<1>7. core'.path = "target" /\ core'.status = <<>>
  BY <1>1, <1>2 DEF TypeInv, Cores
<1>8. SourceInv'
  BY <1>1, <1>2, <1>4, <1>7 DEF SourceInv
<1>9. SpaceInv'
  BY <1>1, <1>5, <1>6 DEF SpaceInv, Spread, Close, ENBs
<1>10. src \in {"pdcp_active", "forward_to", "none"} /\ x2 \in Seq(Items \cup {EndMarker})
  BY <1>1 DEF TypeInv
<1>11. CASE src # "forward_to"
  <2>1. x2' = x2
    BY <1>2, <1>11
  <2> QED
    BY <1>1, <1>2, <1>6, <1>7, <1>8, <1>9, <2>1
       DEF Kept, Orderly, MarkerInv, GoneInv, NumberInv, Expected, LimitInv
<1>12. CASE src = "forward_to"
  <2>1. x2' = Append(x2, EndMarker) /\ EndMarker.sn = None
    BY <1>2, <1>12, DatagramTypes
  <2>2. /\ DOMAIN x2' = DOMAIN x2 \cup {Len(x2) + 1}
        /\ \A k \in DOMAIN x2 : x2'[k] = x2[k] /\ x2[k] # EndMarker
        /\ x2'[Len(x2) + 1] = EndMarker /\ Len(x2') = Len(x2) + 1
    BY <1>1, <1>10, <1>12, <2>1, SocketSend DEF MarkerInv
  <2>3. MarkerInv'
    BY <1>2, <2>2 DEF MarkerInv
  <2>4. GoneInv'
    BY <1>1, <1>2, <1>12 DEF GoneInv
  <2>5. NumberInv'
    BY <1>1, <1>2, <1>6, <1>7, <2>1, <2>2 DEF NumberInv, Expected
  <2> QED
    BY <1>1, <1>2, <1>8, <1>9, <2>3, <2>4, <2>5 DEF Kept, Orderly, LimitInv
<1> QED
  BY <1>11, <1>12

LEMMA HoRequestedRoom ==
  ASSUME Given, handle_ho_requested
  PROVE  Kept
<1>1. /\ TypeInv /\ PhaseInv
      /\ SourceInv /\ MarkerInv /\ SpaceInv /\ NumberInv /\ LimitInv
      /\ core.ho = "none" /\ x2 = <<>> /\ tgt.state = "idle"
  BY GivenFacts DEF handle_ho_requested
<1>2. UNCHANGED <<pdcp, src, radio, s1, x2, core, givenUp>>
  BY DEF handle_ho_requested, air, history
<1>3. tgt'.fwd = Buffering /\ tgt'.main = Buffering
  BY <1>1 DEF handle_ho_requested, TypeInv, Targets
<1>4. tgt'.fwd.state # "none" /\ tgt'.fwd.buffer = <<>> /\ tgt'.main.buffer = <<>>
  BY <1>3 DEF Buffering
<1>5. core.status = <<>>
  BY <1>1 DEF PhaseInv
<1>6. SourceInv' /\ MarkerInv' /\ GoneInv' /\ SpaceInv'
  BY <1>1, <1>2, <1>4 DEF SourceInv, MarkerInv, GoneInv, SpaceInv
<1>7. NumberInv'
  BY <1>1, <1>2, <1>4, <1>5 DEF NumberInv
<1>8. LimitInv'
  <2>1. Len(<<>>) = 0 /\ 0 <= Buffer
    BY Constants
  <2> QED
    BY <1>1, <1>2, <1>4, <2>1 DEF LimitInv
<1> QED
  BY <1>2, <1>6, <1>7, <1>8 DEF Kept, Orderly

LEMMA StatusTransferRoom ==
  ASSUME Given, handle_status_transfer, InTheWindow'
  PROVE  Kept
<1> DEFINE p == StartsAt(core.status[1])
<1>1. /\ TypeInv /\ PhaseInv
      /\ SourceInv /\ MarkerInv /\ GoneInv /\ SpaceInv /\ NumberInv /\ LimitInv
      /\ core.status # <<>> /\ core.status \in Seq(Counters)
      /\ tgt.state = "s1_target_ho"
  BY GivenFacts, TypeFacts DEF handle_status_transfer
<1>2. core.ho = "started"
  BY <1>1 DEF NumberInv
<1>3. p \in Entities /\ p.active /\ p.sn = core.status[1].sn /\ p.undelivered = <<>>
  <2>1. core.status[1] \in Counters
    BY <1>1
  <2>2. core.status[1].hfn \in Nat /\ core.status[1].sn \in SNs
    BY <2>1 DEF Counters
  <2>3. p = Entity(TRUE, core.status[1].hfn, core.status[1].sn)
    BY DEF StartsAt
  <2> DEFINE hfn == core.status[1].hfn
             sn == core.status[1].sn
             q == Entity(TRUE, hfn, sn)
  <2>4. hfn \in Nat /\ sn \in SNs /\ p = q
    BY <2>2, <2>3
  <2> HIDE DEF hfn, sn, p
  <2>5. q \in Entities /\ q.active = TRUE /\ q.sn = sn /\ q.undelivered = <<>>
    BY <2>4, EntityType
  <2> HIDE DEF q
  <2> QED
    BY <2>4, <2>5 DEF sn
<1>4. Spread(p) /\ Close(p) /\ \A n : Below(n, p.sn) => Ahead(p, n)
  BY <1>3 DEF Spread, Close, Ahead
<1>5. /\ \A i \in DOMAIN tgt.fwd.buffer :
           tgt.fwd.buffer[i].sn # None => Ahead(p, tgt.fwd.buffer[i].sn)
      /\ \A i \in DOMAIN x2 : x2[i].sn # None => Ahead(p, x2[i].sn)
  BY <1>1, <1>3, <1>4 DEF NumberInv, Expected
<1>6. UNCHANGED <<src, s1, x2>>
  BY DEF handle_status_transfer
<1>7. CASE tgt.recfg
  <2>1. Complete(p)
    BY <1>7 DEF handle_status_transfer
  <2> HIDE DEF p
  <2> QED
    BY <1>2, <1>3, <1>4, <1>5, <1>6, <2>1, CompleteRoom
<1>8. CASE ~tgt.recfg
  <2>1. /\ pdcp' = [pdcp EXCEPT !.target = p]
        /\ core' = [core EXCEPT !.status = <<>>]
        /\ tgt' = [tgt EXCEPT !.state = "wait_recfg_comp"]
        /\ UNCHANGED <<radio, givenUp>>
    BY <1>8 DEF handle_status_transfer
  <2> HIDE DEF p
  <2>2. pdcp'.target = p /\ pdcp'.source = pdcp.source
    BY <1>1, <2>1 DEF TypeInv, ENBs
  <2>3. core'.status = <<>> /\ core'.path = core.path
    BY <1>1, <2>1 DEF TypeInv, Cores
  <2>4. tgt'.fwd = tgt.fwd /\ tgt'.main = tgt.main
    BY <1>1, <2>1 DEF TypeInv, Targets
  <2>5. SourceInv' /\ MarkerInv'
    BY <1>1, <1>6, <2>2, <2>3 DEF SourceInv, MarkerInv
  <2>6. GoneInv'
    BY <1>1, <1>6, <2>4 DEF GoneInv
  <2>7. SpaceInv'
    BY <1>1, <1>4, <2>2 DEF SpaceInv, ENBs
  <2>8. NumberInv'
    BY <1>5, <1>6, <2>2, <2>3, <2>4 DEF NumberInv, Expected
  <2>9. LimitInv'
    BY <1>1, <2>1, <2>4 DEF LimitInv
  <2> QED
    BY <2>1, <2>5, <2>6, <2>7, <2>8, <2>9 DEF Kept, Orderly
<1> QED
  BY <1>7, <1>8

LEMMA AccessTargetRoom ==
  ASSUME Given, AccessTarget, InTheWindow'
  PROVE  Kept
<1>1. /\ TypeInv /\ PhaseInv
      /\ SourceInv /\ MarkerInv /\ GoneInv /\ SpaceInv /\ NumberInv /\ LimitInv
      /\ pdcp.target \in Entities /\ core.ho = "started"
  BY GivenFacts DEF AccessTarget, PhaseInv
<1>2. UNCHANGED <<src, s1, x2>>
  BY DEF AccessTarget
<1>3. CASE tgt.state = "wait_recfg_comp"
  <2>1. Complete(pdcp.target)
    BY <1>3 DEF AccessTarget, RecfgComplete
  <2>2. core.status = <<>>
    BY <1>1, <1>3 DEF NumberInv
  <2>3. /\ \A i \in DOMAIN tgt.fwd.buffer :
             tgt.fwd.buffer[i].sn # None => Ahead(pdcp.target, tgt.fwd.buffer[i].sn)
        /\ \A i \in DOMAIN x2 : x2[i].sn # None => Ahead(pdcp.target, x2[i].sn)
    BY <1>1, <2>2 DEF NumberInv, Expected
  <2>4. pdcp.target.active
    BY <1>1, <1>3 DEF PhaseInv
  <2>5. Spread(pdcp.target)
    BY <1>1 DEF SpaceInv, ENBs
  <2> QED
    BY <1>1, <1>2, <2>1, <2>3, <2>4, <2>5, CompleteRoom
<1>4. CASE tgt.state # "wait_recfg_comp"
  <2>1. tgt' = [tgt EXCEPT !.recfg = TRUE] /\ UNCHANGED <<pdcp, radio, core, givenUp>>
    BY <1>4 DEF AccessTarget, RecfgComplete
  <2>2. tgt'.fwd = tgt.fwd /\ tgt'.main = tgt.main /\ tgt'.state = tgt.state
    BY <1>1, <2>1 DEF TypeInv, Targets
  <2>3. SourceInv' /\ MarkerInv' /\ GoneInv' /\ SpaceInv'
    BY <1>1, <1>2, <2>1, <2>2 DEF SourceInv, MarkerInv, GoneInv, SpaceInv
  <2>4. NumberInv' /\ LimitInv'
    BY <1>1, <1>2, <2>1, <2>2 DEF NumberInv, Expected, LimitInv
  <2> QED
    BY <2>1, <2>3, <2>4 DEF Kept, Orderly
<1> QED
  BY <1>3, <1>4

LEMMA RxForwardedRoom ==
  ASSUME Given, RxForwarded, InTheWindow'
  PROVE  Kept
<1> DEFINE d == Head(x2)
           r == Tail(x2)
<1>1. /\ TypeInv /\ KeyInv /\ PhaseInv
      /\ SourceInv /\ MarkerInv /\ GoneInv /\ SpaceInv /\ NumberInv /\ LimitInv
      /\ core.ho # "cancelled"
      /\ tgt.state = "idle" => core.ho = "none"
      /\ src = "none" => core.path = "target"
      /\ core.path = "target" => tgt.fwd.buffer = <<>>
      /\ x2 \in Seq(Items \cup {EndMarker})
      /\ tgt.fwd \in Tunnels /\ tgt.fwd.buffer \in Seq(Items)
  BY GivenFacts, TypeFacts DEF TypeInv
<1>2. /\ x2 # <<>> /\ x2' = r
      /\ d \in Items \cup {EndMarker} /\ d = x2[1] /\ 1 \in DOMAIN x2
      /\ core.ho # "none"
      /\ \/ d = EndMarker /\ tgt.fwd # NoTunnel /\ RemoveForwarding
         \/ (d = EndMarker => tgt.fwd = NoTunnel) /\ DataPdu("fwd", d)
      /\ UNCHANGED <<src, s1, core>>
  BY RxForwardedIs DEF Given
<1>3. tgt.fwd.state # "none" /\ tgt.fwd # NoTunnel
  <2>1. tgt.fwd.state # "none"
    BY <1>1, <1>2 DEF GoneInv
  <2> QED
    BY <2>1 DEF NoTunnel
<1>4. /\ r \in Seq(Items \cup {EndMarker}) /\ Len(r) = Len(x2) - 1 /\ Len(x2) \in Nat
      /\ \A k \in DOMAIN r : k \in Nat /\ k + 1 \in DOMAIN x2 /\ r[k] = x2[k + 1]
      /\ In(KeyRel, x2)
  BY <1>1, <1>2 DEF KeyInv
<1>5. \A k \in DOMAIN r : <<d, r[k]>> \in KeyRel
  BY <1>1, <1>2, <1>4, InHead
<1> HIDE DEF d, r
<1>6. CASE d = EndMarker
  <2>1. RemoveForwarding
    BY <1>2, <1>3, <1>6
  <2>2. 1 = Len(x2) /\ src = "none"
    BY <1>1, <1>2, <1>6 DEF MarkerInv
  <2>3. x2' = <<>>
    <3>1. r \in Seq(Items \cup {EndMarker}) /\ Len(r) = Len(x2) - 1
      BY <1>4
    <3>2. Len(r) = 0
      BY <2>2, <3>1
    <3>3. DOMAIN r = 1 .. Len(r) /\ (r # <<>> <=> 1 \in DOMAIN r)
      BY <3>1, SocketDomain
    <3>4. r = <<>>
      BY <3>2, <3>3
    <3> QED
      BY <1>2, <3>4
  <2>4. tgt.fwd.buffer = <<>>
    BY <1>1, <2>2
  <2> QED
    BY <1>2, <2>1, <2>2, <2>3, <2>4, RemoveRoom
<1>7. CASE d # EndMarker
  <2>1. DataPdu("fwd", d) /\ d \in Items
    BY <1>2, <1>7
  <2>2. /\ pdcp'.source = pdcp.source
        /\ tgt'.state = tgt.state /\ tgt'.main = tgt.main /\ tgt'.fwd.state = tgt.fwd.state
    BY <1>1, <1>7, <2>1, DataPduFwd
  <2>3. SourceInv'
    BY <1>1, <1>2, <2>2 DEF SourceInv
  <2>4. MarkerInv'
    BY <1>1, <1>2, <1>4 DEF MarkerInv
  <2>5. GoneInv'
    BY <1>3, <2>2 DEF GoneInv
  <2>6. CASE tgt.fwd.state = "pdcp_active"
    <3>1. WriteAll("target", <<d>>, {}) /\ tgt' = tgt
      BY <2>1, <2>6 DEF DataPdu
    <3>2. core.status = <<>> /\ pdcp.target.active /\ tgt.fwd.buffer = <<>>
      <4>1. core.ho \in {"notified", "done"} /\ tgt.fwd.state # "buffering"
        BY <1>1, <2>6 DEF PhaseInv
      <4> QED
        BY <1>1, <4>1 DEF PhaseInv, NumberInv
    <3>3. d.sn # None => Ahead(pdcp["target"], d.sn)
      BY <1>1, <1>2, <3>2 DEF NumberInv, Expected
    <3>4. /\ "target" \in ENBs /\ "source" \in ENBs /\ <<d>> \in Seq(Items)
          /\ {} \in SUBSET Sdus /\ Base /\ In(KeyRel, <<d>>)
          /\ pdcp["target"].active /\ Spread(pdcp["target"])
          /\ \A i \in DOMAIN <<d>> : <<d>>[i].sn # None => Ahead(pdcp["target"], <<d>>[i].sn)
      BY <1>1, <2>1, <3>2, <3>3, InOne DEF ENBs, SpaceInv, Given
    <3>5. /\ Spread(pdcp'["target"]) /\ Close(pdcp'["target"])
          /\ \A o \in ENBs \ {"target"} : pdcp'[o] = pdcp[o]
          /\ \A o \in ENBs : Len(radio'[o]) <= QueueLen
          /\ Len(radio'["target"]) # QueueLen => givenUp' = givenUp \cup {}
          /\ \A n \in SNs : /\ Ahead(pdcp["target"], n)
                            /\ \A i \in DOMAIN <<d>> : <<d>>[i].sn # None /\ <<d>>[i].sn < n
                            => Ahead(pdcp'["target"], n)
      <4> DEFINE ds == <<d>>
      <4> HIDE DEF ds
      <4> QED
        BY <1>1, <3>1, <3>4, WriteAllRoom DEF ds
    <3>6. ~Full' => givenUp' = givenUp
      BY <3>4, <3>5 DEF Full
    <3>7. SpaceInv'
      BY <1>1, <3>5 DEF SpaceInv
    <3>8. ASSUME NEW k \in DOMAIN r, r[k].sn # None
          PROVE  Ahead(pdcp'.target, r[k].sn)
      <4>1. r[k] \in Items /\ r[k].sn \in SNs
        <5>1. r[k] \in Items \cup {EndMarker}
          BY <1>4, <3>8
        <5>2. r[k] \in Items
          BY <3>8, <5>1, DatagramTypes
        <5> QED
          BY <3>8, <5>2, DatagramTypes
      <4>2. d.sn # None /\ d.sn < r[k].sn
        BY <1>5, <3>8, Zenon DEF KeyRel
      <4>3. Ahead(pdcp["target"], r[k].sn)
        BY <1>1, <1>4, <3>2, <3>8 DEF NumberInv, Expected
      <4> QED
        BY <3>5, <4>1, <4>2, <4>3
    <3>9. NumberInv'
      BY <1>2, <3>1, <3>2, <3>8 DEF NumberInv, Expected
    <3>10. LimitInv'
      BY <1>1, <3>1, <3>5 DEF LimitInv
    <3> QED
      BY <2>3, <2>4, <2>5, <3>6, <3>7, <3>9, <3>10 DEF Kept, Orderly
  <2>7. CASE tgt.fwd.state = "buffering" /\ Len(tgt.fwd.buffer) < Buffer
    <3>1. ~(Len(tgt.fwd.buffer) >= Buffer)
      BY <1>1, <2>7, Constants
    <3>2. tgt'.fwd.buffer = Append(tgt.fwd.buffer, d) /\ UNCHANGED <<pdcp, radio, givenUp>>
      BY <1>1, <1>7, <2>1, <2>7, <3>1, DataPduFwd
    <3>3. /\ DOMAIN tgt'.fwd.buffer = DOMAIN tgt.fwd.buffer \cup {Len(tgt.fwd.buffer) + 1}
          /\ \A k \in DOMAIN tgt.fwd.buffer : tgt'.fwd.buffer[k] = tgt.fwd.buffer[k]
          /\ tgt'.fwd.buffer[Len(tgt.fwd.buffer) + 1] = d
          /\ Len(tgt'.fwd.buffer) = Len(tgt.fwd.buffer) + 1
      BY <1>1, <2>1, <3>2, SocketSend
    <3>4. NumberInv'
      BY <1>1, <1>2, <1>4, <2>2, <3>2, <3>3 DEF NumberInv, Expected
    <3>5. LimitInv' /\ SpaceInv'
      BY <1>1, <2>2, <2>7, <3>2, <3>3, Constants DEF LimitInv, SpaceInv
    <3> QED
      BY <2>3, <2>4, <2>5, <3>2, <3>4, <3>5 DEF Kept, Orderly
  <2>8. CASE tgt.fwd.state = "buffering" /\ ~(Len(tgt.fwd.buffer) < Buffer)
    <3>1. tgt' = tgt /\ UNCHANGED <<pdcp, radio>>
      BY <2>1, <2>8 DEF DataPdu
    <3>2. Full'
      BY <1>1, <2>8, <3>1, Constants DEF LimitInv, Full
    <3>3. NumberInv'
      BY <1>1, <1>2, <1>4, <3>1 DEF NumberInv, Expected
    <3> QED
      BY <1>1, <2>3, <2>4, <2>5, <3>1, <3>2, <3>3 DEF Kept, Orderly, LimitInv, SpaceInv
  <2> QED
    BY <1>1, <1>3, <2>6, <2>7, <2>8 DEF Tunnels
<1> QED
  BY <1>6, <1>7

LEMMA RxMainRoom ==
  ASSUME Given, RxMain, InTheWindow'
  PROVE  Kept
<1> DEFINE d == Head(s1.target)
<1>1. /\ TypeInv /\ KeyInv /\ PhaseInv
      /\ SourceInv /\ MarkerInv /\ GoneInv /\ SpaceInv /\ NumberInv /\ LimitInv
      /\ tgt.main \in Tunnels /\ tgt.main.buffer \in Seq(Plain)
  BY GivenFacts, TypeFacts
<1>2. /\ d \in Plain /\ s1'.source = s1.source
      /\ core.path = "target" /\ DataPdu("main", d)
      /\ UNCHANGED <<src, x2, core>>
  BY RxMainIs DEF Given
<1>3. tgt.state = "done" /\ pdcp.target.active /\ tgt.fwd.buffer = <<>> /\ core.status = <<>>
  BY <1>2, GivenFacts
<1>4. tgt.main.state # "none"
  BY <1>1, <1>3 DEF PhaseInv
<1> HIDE DEF d
<1>5. d \in Items /\ d.sn = None
  BY <1>2, DatagramTypes
<1>6. /\ pdcp'.source = pdcp.source
      /\ tgt'.state = tgt.state /\ tgt'.fwd = tgt.fwd
  BY <1>1, <1>2, DataPduMain
<1>7. SourceInv' /\ MarkerInv' /\ GoneInv'
  BY <1>1, <1>2, <1>6 DEF SourceInv, MarkerInv, GoneInv
<1>8. CASE tgt.main.state = "pdcp_active"
  <2>1. WriteAll("target", <<d>>, {}) /\ tgt' = tgt
    BY <1>2, <1>8 DEF DataPdu
  <2>2. x2 = <<>>
    <3>1. tgt.fwd = NoTunnel
      BY <1>1, <1>8 DEF PhaseInv
    <3> QED
      BY <1>1, <3>1 DEF GoneInv, NoTunnel
  <2>3. /\ "target" \in ENBs /\ <<d>> \in Seq(Items)
        /\ {} \in SUBSET Sdus /\ Base /\ In(KeyRel, <<d>>)
        /\ pdcp["target"].active /\ Spread(pdcp["target"])
        /\ \A i \in DOMAIN <<d>> : <<d>>[i].sn # None => Ahead(pdcp["target"], <<d>>[i].sn)
    BY <1>1, <1>3, <1>5, InOne DEF ENBs, SpaceInv, Given
  <2>4. /\ Spread(pdcp'["target"]) /\ Close(pdcp'["target"])
        /\ \A o \in ENBs \ {"target"} : pdcp'[o] = pdcp[o]
        /\ \A o \in ENBs : Len(radio'[o]) <= QueueLen
        /\ Len(radio'["target"]) # QueueLen => givenUp' = givenUp \cup {}
    <3> DEFINE ds == <<d>>
    <3> HIDE DEF ds
    <3> QED
      BY <1>1, <2>1, <2>3, WriteAllRoom DEF ds
  <2>5. ~Full' => givenUp' = givenUp
    BY <2>3, <2>4 DEF Full
  <2>6. SpaceInv' /\ LimitInv'
    BY <1>1, <2>1, <2>4 DEF SpaceInv, LimitInv
  <2>7. NumberInv'
    BY <1>2, <1>3, <2>1, <2>2 DEF NumberInv
  <2> QED
    BY <1>7, <2>5, <2>6, <2>7 DEF Kept, Orderly
<1>9. CASE tgt.main.state = "buffering" /\ Len(tgt.main.buffer) < Buffer
  <2>1. Len(tgt.main.buffer) \in Nat
    BY <1>1
  <2>5. ~(Len(tgt.main.buffer) >= Buffer)
    BY <1>9, <2>1, Constants
  <2>2. tgt'.main.buffer = Append(tgt.main.buffer, d) /\ UNCHANGED <<pdcp, radio, givenUp>>
    BY <1>1, <1>2, <1>9, <2>5, DataPduMain
  <2>3. Len(tgt'.main.buffer) = Len(tgt.main.buffer) + 1 /\ Len(tgt.main.buffer) \in Nat
    BY <1>1, <2>2
  <2>4. LimitInv' /\ SpaceInv'
    BY <1>1, <1>6, <1>9, <2>2, <2>3, Constants DEF LimitInv, SpaceInv
  <2>6. NumberInv'
    BY <1>1, <1>2, <1>6, <2>2 DEF NumberInv, Expected
  <2> QED
    BY <1>7, <2>2, <2>4, <2>6 DEF Kept, Orderly
<1>10. CASE tgt.main.state = "buffering" /\ ~(Len(tgt.main.buffer) < Buffer)
  <2>1. tgt' = tgt /\ UNCHANGED <<pdcp, radio>>
    BY <1>2, <1>10 DEF DataPdu
  <2>2. Full'
    BY <1>1, <1>10, <2>1, Constants DEF LimitInv, Full
  <2>3. NumberInv'
    BY <1>1, <1>2, <2>1 DEF NumberInv, Expected
  <2> QED
    BY <1>1, <1>7, <2>1, <2>2, <2>3 DEF Kept, Orderly, LimitInv, SpaceInv
<1> QED
  BY <1>1, <1>4, <1>8, <1>9, <1>10 DEF Tunnels

LEMMA TimerExpiresRoom ==
  ASSUME Given, TimerExpires, faults' = 0, InTheWindow'
  PROVE  Kept
<1>1. RemoveForwarding /\ UNCHANGED <<src, s1, x2, core>>
      /\ faults' = IF Premature THEN faults + 1 ELSE faults
  BY DEF TimerExpires
<1>2. ~Premature
  BY <1>1 DEF Given
<1>3. src = "none" /\ x2' = <<>> /\ tgt.fwd.buffer = <<>>
  BY <1>1, <1>2 DEF Premature
<1> QED
  BY <1>1, <1>3, RemoveRoom

LEMMA DrbPduRoom ==
  ASSUME Given, handle_am_drb_pdu
  PROVE  Kept
<1> DEFINE e == ue.cell
<1>1. TypeInv /\ LimitInv
  BY GivenFacts
<1>2. /\ e \in ENBs /\ radio[e] # <<>>
      /\ radio' = [radio EXCEPT ![e] = Tail(@)]
      /\ UNCHANGED <<pdcp, src, tgt, s1, x2, core, givenUp>>
  BY <1>1, DrbPduIs
<1> HIDE DEF e
<1>3. ASSUME NEW o \in ENBs
      PROVE  Len(radio'[o]) <= QueueLen
  <2>1. radio \in [ENBs -> Seq(Pdus)]
    BY <1>1 DEF TypeInv
  <2>2. radio[e] \in Seq(Pdus) /\ Len(radio[o]) <= QueueLen /\ Len(radio[e]) <= QueueLen
    BY <1>1, <1>2, <1>3, <2>1 DEF LimitInv
  <2>3. Len(Tail(radio[e])) = Len(radio[e]) - 1 /\ Len(radio[e]) \in Nat
    BY <1>2, <2>2
  <2>4. radio'[o] = IF o = e THEN Tail(radio[e]) ELSE radio[o]
    BY <1>2, <1>3, <2>1
  <2> QED
    BY <2>2, <2>3, <2>4, Constants
<1> QED
  BY <1>2, <1>3, OrderlyFrame

LEMMA UeHandoverRoom ==
  ASSUME Given, UeHandover
  PROVE  Kept
<1>1. TypeInv /\ LimitInv
  BY GivenFacts
<1>2. /\ radio' = [radio EXCEPT !.source = <<>>]
      /\ UNCHANGED <<pdcp, src, tgt, s1, x2, core, givenUp>>
  BY DEF UeHandover, history
<1>3. \A o \in ENBs : Len(radio'[o]) <= QueueLen
  <2>1. Len(<<>>) = 0 /\ 0 <= QueueLen
    BY Constants
  <2>2. radio'.source = <<>> /\ radio'.target = radio.target
    BY <1>1, <1>2 DEF TypeInv, ENBs
  <2> QED
    BY <1>1, <2>1, <2>2 DEF ENBs, LimitInv
<1> QED
  BY <1>2, <1>3, OrderlyFrame

LEMMA NotifyRoom ==
  ASSUME Given, NEW sn \in SNs, notify_delivery(sn)
  PROVE  Kept
<1> DEFINE e == ue.cell
<1>1. /\ TypeInv /\ PhaseInv
      /\ SourceInv /\ MarkerInv /\ GoneInv /\ SpaceInv /\ NumberInv /\ LimitInv
  BY GivenFacts
<1>2. /\ e \in ENBs
      /\ pdcp'[e] = Cleared(pdcp[e], sn) /\ pdcp[e] \in Entities
      /\ \A o \in ENBs \ {e} : pdcp'[o] = pdcp[o]
      /\ \A o \in ENBs : pdcp'[o].active = pdcp[o].active
      /\ UNCHANGED <<src, tgt, radio, s1, x2, core, givenUp>>
  BY <1>1, NotifyIs
<1> HIDE DEF e
<1>3. /\ Spread(pdcp'[e]) /\ Close(pdcp'[e])
      /\ \A n : Ahead(pdcp[e], n) => Ahead(pdcp'[e], n)
  BY <1>1, <1>2, ClearedRoom DEF SpaceInv
<1>4. \A n : Ahead(pdcp.target, n) => Ahead(pdcp'.target, n)
  <2>1. e = "target" \/ pdcp'.target = pdcp.target
    BY <1>2 DEF ENBs
  <2> QED
    BY <1>3, <2>1
<1>5. SourceInv' /\ MarkerInv' /\ GoneInv'
  BY <1>1, <1>2 DEF SourceInv, MarkerInv, GoneInv, ENBs
<1>6. SpaceInv' /\ LimitInv'
  BY <1>1, <1>2, <1>3 DEF SpaceInv, LimitInv
<1>7. NumberInv'
  BY <1>1, <1>2, <1>4 DEF NumberInv, Expected
<1> QED
  BY <1>2, <1>5, <1>6, <1>7 DEF Kept, Orderly

LEMMA StillRoom ==
  ASSUME Given, UNCHANGED state
  PROVE  Kept
<1>1. /\ UNCHANGED <<pdcp, src, tgt, s1, x2, core, givenUp>> /\ radio' = radio
  BY DEF state, air, history
<1>2. \A e \in ENBs : Len(radio'[e]) <= QueueLen
  BY <1>1, GivenFacts DEF LimitInv
<1> QED
  BY <1>1, <1>2, OrderlyFrame

(* The faults are counted, never taken back.                               *)
LEMMA FaultsGrow == Base /\ Step => faults' \in Nat /\ faults \in Nat /\ faults <= faults'
<1> SUFFICES ASSUME Base, Step PROVE faults' \in Nat /\ faults \in Nat /\ faults <= faults'
  OBVIOUS
<1>1. faults \in Nat
  BY Constants DEF Base, TypeInv
<1>2. faults' \in {faults, faults + 1}
  <2>1. SendSdu \/ SwitchPath => faults' = faults
    BY DEF SendSdu, SwitchPath, history
  <2>2. RxSource \/ handle_ho_cmd \/ handle_status_transfer \/ AccessTarget \/ RxForwarded
        \/ RxMain \/ ReleaseTarget => faults' = faults
    BY DEF RxSource, handle_ho_cmd, handle_status_transfer, AccessTarget, RxForwarded,
           RxMain, ReleaseTarget
  <2>3. ReleaseSource => faults' \in {faults, faults + 1}
    BY DEF ReleaseSource
  <2>4. Reestablish \/ LoseX2 => faults' = faults + 1
    BY DEF Reestablish, LoseX2
  <2>5. Reconfigure \/ handle_ho_requested \/ handle_am_drb_pdu \/ UeHandover => faults' = faults
    BY DEF Reconfigure, handle_ho_requested, handle_am_drb_pdu, UeHandover, history
  <2>6. TimerExpires => faults' \in {faults, faults + 1}
    BY DEF TimerExpires
  <2>7. Done => faults' = faults
    BY DEF Done, state, history
  <2>8. \A sn \in SNs : notify_delivery(sn) => faults' = faults
    BY DEF notify_delivery, history
  <2>9. \A sn \in SNs, enb \in ENBs : Discard(enb, sn) => faults' = faults + 1
    BY DEF Discard
  <2> QED
    BY <2>1, <2>2, <2>3, <2>4, <2>5, <2>6, <2>7, <2>8, <2>9 DEF Step
<1> QED
  BY <1>1, <1>2

LEMMA StepRoom ==
  ASSUME Given, Step, faults' = 0, InTheWindow'
  PROVE  Kept
<1>1. faults = 0 /\ core.ho # "cancelled"
  BY GivenFacts DEF Given
<1>2. ~Reestablish /\ ~LoseX2
  BY <1>1 DEF Reestablish, LoseX2
<1>3. ~Reconfigure /\ ~ReleaseTarget
  BY <1>1 DEF Reconfigure, ReleaseTarget
<1>4. \A sn \in SNs, enb \in ENBs : ~Discard(enb, sn)
  BY <1>1 DEF Discard
<1>5. Done => Kept
  BY StillRoom DEF Done
<1> QED
  BY <1>2, <1>3, <1>4, <1>5, SendSduRoom, SwitchPathRoom, RxSourceRoom, HoCmdRoom,
     ReleaseSourceRoom, HoRequestedRoom, StatusTransferRoom, AccessTargetRoom, RxForwardedRoom,
     RxMainRoom, TimerExpiresRoom, DrbPduRoom, UeHandoverRoom, NotifyRoom DEF Step

LEMMA InitRoom == Init => Orderly
<1> SUFFICES ASSUME Init PROVE Orderly
  OBVIOUS
<1>1. PICK first \in Starts :
        pdcp = [source |-> Entity(TRUE, 0, first), target |-> Entity(FALSE, 0, 0)]
  BY DEF Init
<1>2. /\ src = "pdcp_active" /\ tgt.state = "idle"
      /\ tgt.fwd = NoTunnel /\ tgt.main = NoTunnel
      /\ radio = [e \in ENBs |-> <<>>] /\ s1 = [e \in ENBs |-> <<>>] /\ x2 = <<>>
      /\ core.status = <<>>
  BY DEF Init
<1>3. s1.source = <<>>
  BY <1>2 DEF ENBs
<1>4. /\ pdcp.source.active /\ pdcp.source.undelivered = <<>>
      /\ pdcp.target.undelivered = <<>>
  BY <1>1 DEF Entity
<1>5. SourceInv /\ MarkerInv /\ GoneInv
  BY <1>2, <1>3, <1>4 DEF SourceInv, MarkerInv, GoneInv
<1>6. SpaceInv
  BY <1>4 DEF SpaceInv, Spread, Close, ENBs
<1>7. NumberInv
  BY <1>2 DEF NumberInv, NoTunnel
<1>8. LimitInv
  <2>1. Len(<<>>) = 0 /\ 0 <= Buffer /\ 0 <= QueueLen
    BY Constants
  <2> QED
    BY <1>2, <2>1 DEF LimitInv, NoTunnel
<1> QED
  BY <1>5, <1>6, <1>7, <1>8 DEF Orderly

(* It is kept while nothing fails and no limit of the numbers was met.     *)
RoomInv == faults = 0 /\ InTheWindow => Orderly

LEMMA NextRoom ==
  ASSUME Base, RoomInv, [Next]_vars
  PROVE  /\ RoomInv'
         /\ faults' = 0 /\ InTheWindow' /\ ~Full' => givenUp' = givenUp
<1> SUFFICES ASSUME faults' = 0, InTheWindow'
             PROVE  Orderly' /\ (~Full' => givenUp' = givenUp)
  BY DEF RoomInv
<1>1. CASE Next
  <2>1. Step
    BY <1>1 DEF Next
  <2>2. faults = 0
    BY <2>1, FaultsGrow
  <2>3. InTheWindow
    BY <2>1, StepGrows DEF Grows, InTheWindow
  <2>4. Given
    BY <2>2, <2>3 DEF Given, RoomInv
  <2> QED
    BY <2>1, <2>4, StepRoom DEF Kept
<1>2. CASE UNCHANGED vars
  <2>1. UNCHANGED state /\ faults' = faults /\ met' = met
    BY <1>2 DEF vars, state, history
  <2>2. Given
    BY <2>1 DEF Given, RoomInv, InTheWindow
  <2> QED
    BY <2>1, <2>2, StillRoom DEF Kept
<1> QED
  BY <1>1, <1>2

(* While nothing fails, neither a queue nor a buffer is full, no more than *)
(* half of the numbers are in use and none is forwarded from before a wrap, *)
(* no step drops an SDU: create_dl_fwd_tunnel, the tunnels of gtpu.cc and  *)
(* write_sdu bring all that the gateway sends into RLC's queues.           *)
THEOREM Lossless == Spec => HandoverIsLossless
<1>1. Init => Base /\ RoomInv
  BY InitBase, InitRoom DEF RoomInv
<1>2. Base /\ RoomInv /\ [Next]_vars =>
        /\ Base' /\ RoomInv'
        /\ [faults' = 0 /\ InTheWindow' /\ ~Full' => givenUp' = givenUp]_vars
  BY NextBase, NextRoom
<1> QED
  BY <1>1, <1>2, PTL DEF Spec, HandoverIsLossless

=============================================================================
