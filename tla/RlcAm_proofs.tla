---------------------------- MODULE RlcAm_proofs ----------------------------
(***************************************************************************)
(* Theorems about RlcAm, for any SDUs, any window and numbering, and any   *)
(* number of losses and of PDUs on the air: the state keeps its type, and, *)
(* until the sender has run ahead of VT(MS), no status makes it drop a PDU *)
(* that is still missing.                                                  *)
(***************************************************************************)
EXTENDS RlcAm, FiniteSetTheorems, WellFoundedInduction, TLAPS

-----------------------------------------------------------------------------
(* Natural numbers.  A set of them has a least element, which gives        *)
(* induction for sets.                                                     *)
LEMMA LeastNat ==
  ASSUME NEW T \in SUBSET Nat, T # {}
  PROVE  \E x \in T : \A y \in T : x <= y
<1> DEFINE R == OpToRel(<, Nat)
<1>1. IsWellFoundedOn(R, Nat)
  BY NatLessThanWellFounded, Zenon
<1>2. \A a, b \in Nat : a < b => <<a, b>> \in R
  BY DEF OpToRel
<1> HIDE DEF R
<1>3. PICK x \in T : \A y \in T : ~(<<y, x>> \in R)
  BY <1>1, WFMin
<1>4. ASSUME NEW y \in T
      PROVE  x <= y
  <2>1. x \in Nat /\ y \in Nat
    OBVIOUS
  <2>2. ~(y < x)
    BY <1>2, <1>3, <2>1
  <2> QED
    BY <2>1, <2>2
<1> QED
  BY <1>4

LEMMA SetInduction ==
  ASSUME NEW S, 0 \in S, \A n \in Nat : n \in S => n + 1 \in S
  PROVE  \A n \in Nat : n \in S
<1> SUFFICES ASSUME NEW n \in Nat, n \notin S PROVE FALSE
  OBVIOUS
<1>1. PICK x \in Nat \ S : \A y \in Nat \ S : x <= y
  BY LeastNat
<1>2. x - 1 \in Nat /\ (x - 1) + 1 = x
  OBVIOUS
<1>3. x - 1 \in S
  BY <1>1, <1>2
<1> QED
  BY <1>2, <1>3

LEMMA GreatestNat ==
  ASSUME NEW n \in Nat, NEW T \in SUBSET (0 .. n), T # {}
  PROVE  \E x \in T : \A y \in T : x >= y
<1> DEFINE U == {n - y : y \in T}
<1>1. U \in SUBSET Nat /\ U # {}
  <2>1. \A y \in T : n - y \in Nat
    OBVIOUS
  <2> QED
    BY <2>1
<1>2. PICK u \in U : \A v \in U : u <= v
  BY <1>1, LeastNat
<1>3. PICK x \in T : u = n - x
  BY <1>2
<1>4. ASSUME NEW y \in T
      PROVE  x >= y
  <2>1. n - y \in U
    OBVIOUS
  <2>2. n - x <= n - y
    BY <1>2, <1>3, <2>1
  <2> QED
    BY <2>2
<1> QED
  BY <1>4

(* The least and the greatest element, as FiniteSetsExt has them.          *)
LEMMA MinIs ==
  ASSUME NEW T \in SUBSET Nat, T # {}
  PROVE  Min(T) \in T /\ \A y \in T : Min(T) <= y
BY LeastNat DEF Min

LEMMA MaxIs ==
  ASSUME NEW n \in Nat, NEW T \in SUBSET (0 .. n), T # {}
  PROVE  Max(T) \in T /\ \A y \in T : Max(T) >= y
BY GreatestNat DEF Max

(* Of a finite set of naturals, whatever bounds it.                        *)
LEMMA FiniteBounded ==
  ASSUME NEW T \in SUBSET Nat, IsFiniteSet(T)
  PROVE  \E n \in Nat : T \subseteq 0 .. n
<1> DEFINE G == {k \in Nat : \A U \in SUBSET Nat : IsFiniteSet(U) /\ Cardinality(U) = k =>
                    \E n \in Nat : U \subseteq 0 .. n}
<1>1. 0 \in G
  <2> SUFFICES ASSUME NEW U \in SUBSET Nat, IsFiniteSet(U), Cardinality(U) = 0
               PROVE  \E n \in Nat : U \subseteq 0 .. n
    OBVIOUS
  <2>1. U = {}
    BY FS_EmptySet
  <2> QED
    BY <2>1
<1>2. ASSUME NEW k \in Nat, k \in G
      PROVE  k + 1 \in G
  <2> SUFFICES ASSUME NEW U \in SUBSET Nat, IsFiniteSet(U), Cardinality(U) = k + 1
               PROVE  \E n \in Nat : U \subseteq 0 .. n
    OBVIOUS
  <2>1. U # {}
    BY FS_EmptySet
  <2>2. PICK x \in U : TRUE
    BY <2>1
  <2>3. IsFiniteSet(U \ {x}) /\ Cardinality(U \ {x}) = Cardinality(U) - 1
    BY FS_RemoveElement
  <2>4. Cardinality(U \ {x}) = k
    BY <2>3
  <2>5. PICK n \in Nat : U \ {x} \subseteq 0 .. n
    BY <1>2, <2>3, <2>4
  <2>6. n + x \in Nat /\ \A y \in U : y \in 0 .. n + x
    BY <2>5
  <2> QED
    BY <2>6
<1> HIDE DEF G
<1>3. \A k \in Nat : k \in G
  BY <1>1, <1>2, SetInduction
<1>4. Cardinality(T) \in Nat
  BY FS_CardinalityType
<1> QED
  BY <1>3, <1>4 DEF G

-----------------------------------------------------------------------------
(* Functions on parts of a set, with and without elements.                 *)
Maps(A, B) == UNION {[P -> B] : P \in SUBSET A}

LEMMA MapsDef ==
  ASSUME NEW A, NEW B, NEW f
  PROVE  f \in Maps(A, B) <=> /\ f = [x \in DOMAIN f |-> f[x]]
                              /\ DOMAIN f \subseteq A
                              /\ \A x \in DOMAIN f : f[x] \in B
BY DEF Maps

LEMMA EmptyMap ==
  ASSUME NEW A, NEW B
  PROVE  <<>> \in Maps(A, B) /\ DOMAIN <<>> = {}
<1>1. <<>> \in [{} -> B]
  OBVIOUS
<1> QED
  BY <1>1 DEF Maps

LEMMA WithoutMap ==
  ASSUME NEW A, NEW B, NEW f \in Maps(A, B), NEW S
  PROVE  Without(f, S) \in Maps(A, B)
<1>1. DOMAIN f \subseteq A /\ \A x \in DOMAIN f : f[x] \in B
  BY MapsDef
<1>2. Without(f, S) \in [DOMAIN f \ S -> B]
  BY <1>1 DEF Without
<1> QED
  BY <1>1, <1>2 DEF Maps, Without

LEMMA WithMap ==
  ASSUME NEW A, NEW B, NEW f \in Maps(A, B), NEW x \in A, NEW y \in B
  PROVE  With(f, x, y) \in Maps(A, B)
<1>1. DOMAIN f \subseteq A /\ \A z \in DOMAIN f : f[z] \in B
  BY MapsDef
<1>2. With(f, x, y) \in [DOMAIN f \cup {x} -> B]
  BY <1>1 DEF With
<1> QED
  BY <1>1, <1>2 DEF Maps, With

LEMMA BiggerMaps ==
  ASSUME NEW A, NEW B, NEW C, NEW E, A \subseteq C, B \subseteq E
  PROVE  Maps(A, B) \subseteq Maps(C, E)
<1> SUFFICES ASSUME NEW f \in Maps(A, B)
             PROVE  f \in Maps(C, E)
  OBVIOUS
<1> QED
  BY MapsDef, Zenon

-----------------------------------------------------------------------------
(* FlattenSeq joins sequences over a set to one over it.                   *)
Joins(f, seqs, n) ==
  f = [i \in 1 .. n |-> IF i = 1 THEN seqs[i] ELSE f[i-1] \o seqs[i]]

LEMMA JoinsExist ==
  ASSUME NEW seqs
  PROVE  \A n \in Nat : \E f : Joins(f, seqs, n)
<1> DEFINE G == {n \in Nat : \E f : Joins(f, seqs, n)}
<1>1. 0 \in G
  <2>1. Joins(<<>>, seqs, 0)
    BY SMT DEF Joins
  <2> QED
    BY <2>1
<1>2. ASSUME NEW n \in Nat, n \in G
      PROVE  n + 1 \in G
  <2>1. PICK f : Joins(f, seqs, n)
    BY <1>2
  <2>2. /\ DOMAIN f = 1 .. n
        /\ \A i \in 1 .. n : f[i] = IF i = 1 THEN seqs[i] ELSE f[i-1] \o seqs[i]
    BY <2>1 DEF Joins
  <2> DEFINE last == IF n = 0 THEN seqs[1] ELSE f[n] \o seqs[n + 1]
             g == [i \in 1 .. n + 1 |-> IF i = n + 1 THEN last ELSE f[i]]
  <2>3. ASSUME NEW i \in 1 .. n + 1
        PROVE  g[i] = IF i = 1 THEN seqs[i] ELSE g[i-1] \o seqs[i]
    <3>1. CASE i = n + 1
      <4>1. n # 0 => g[n] = f[n] /\ n = i - 1
        BY <3>1
      <4>2. g[i] = last
        BY <3>1
      <4> HIDE DEF g
      <4> QED
        BY <3>1, <4>1, <4>2
    <3>2. CASE i # n + 1
      <4>1. i \in 1 .. n
        BY <3>2
      <4>2. g[i] = f[i]
        BY <3>2
      <4>3. i # 1 => i - 1 \in 1 .. n /\ g[i-1] = f[i-1]
        BY <4>1
      <4>4. f[i] = IF i = 1 THEN seqs[i] ELSE f[i-1] \o seqs[i]
        BY <4>1, <2>2
      <4> HIDE DEF g
      <4> QED
        BY <4>2, <4>3, <4>4
    <3> QED
      BY <3>1, <3>2
  <2>4. DOMAIN g = 1 .. n + 1 /\ g = [i \in 1 .. n + 1 |-> g[i]]
    OBVIOUS
  <2> HIDE DEF g
  <2>5. g = [i \in 1 .. n + 1 |-> IF i = 1 THEN seqs[i] ELSE g[i-1] \o seqs[i]]
    BY <2>3, <2>4
  <2>6. \E h : Joins(h, seqs, n + 1)
    BY <2>5 DEF Joins
  <2> QED
    BY <2>6
<1> HIDE DEF G
<1>3. \A n \in Nat : n \in G
  BY <1>1, <1>2, SetInduction
<1> QED
  BY <1>3 DEF G

LEMMA FlattenType ==
  ASSUME NEW S, NEW seqs \in Seq(Seq(S))
  PROVE  FlattenSeq(seqs) \in Seq(S)
<1>1. CASE Len(seqs) = 0
  <2>1. seqs = <<>>
    BY <1>1
  <2>2. FlattenSeq(seqs) = seqs
    BY <1>1 DEF FlattenSeq
  <2>3. <<>> \in Seq(S)
    OBVIOUS
  <2> QED
    BY <2>1, <2>2, <2>3, Zenon
<1>2. CASE Len(seqs) # 0
  <2> DEFINE F == CHOOSE f : Joins(f, seqs, Len(seqs))
  <2>1. Joins(F, seqs, Len(seqs))
    <3>1. Len(seqs) \in Nat
      OBVIOUS
    <3>2. \E f : Joins(f, seqs, Len(seqs))
      BY <3>1, JoinsExist, Zenon
    <3> QED
      BY <3>2, Zenon
  <2>2. F = CHOOSE f : f = [i \in 1 .. Len(seqs) |->
                              IF i = 1 THEN seqs[i] ELSE f[i-1] \o seqs[i]]
    BY DEF Joins
  <2>3. FlattenSeq(seqs) = F[Len(seqs)]
    BY <1>2, <2>2 DEF FlattenSeq
  <2> HIDE DEF F
  <2>4. \A i \in 1 .. Len(seqs) : F[i] = IF i = 1 THEN seqs[i] ELSE F[i-1] \o seqs[i]
    BY <2>1 DEF Joins
  <2> DEFINE G == {n \in Nat : n + 1 \in 1 .. Len(seqs) => F[n + 1] \in Seq(S)}
  <2>5. 0 \in G
    BY <2>4
  <2>6. ASSUME NEW n \in Nat, n \in G
        PROVE  n + 1 \in G
    <3>1. ASSUME n + 2 \in 1 .. Len(seqs)
          PROVE  F[n + 2] \in Seq(S)
      <4>1. F[n + 1] \in Seq(S)
        BY <2>6, <3>1
      <4>2. F[n + 2] = F[(n + 2) - 1] \o seqs[n + 2]
        <5>1. n + 2 # 1
          OBVIOUS
        <5> QED
          BY <2>4, <3>1, <5>1, Zenon
      <4>3. (n + 2) - 1 = n + 1
        OBVIOUS
      <4>4. seqs[n + 2] \in Seq(S)
        BY <3>1
      <4> QED
        BY <4>1, <4>2, <4>3, <4>4
    <3>2. (n + 1) + 1 = n + 2
      OBVIOUS
    <3> QED
      BY <3>1, <3>2
  <2> HIDE DEF G
  <2>7. \A n \in Nat : n \in G
    BY <2>5, <2>6, SetInduction
  <2>8. Len(seqs) - 1 \in Nat /\ (Len(seqs) - 1) + 1 = Len(seqs)
    BY <1>2
  <2>9. Len(seqs) - 1 \in G
    BY <2>7, <2>8
  <2> QED
    BY <1>2, <2>3, <2>8, <2>9 DEF G
<1> QED
  BY <1>1, <1>2

-----------------------------------------------------------------------------
(* Sequence numbers and the distance from one to another.                  *)
LEMMA Constants ==
  /\ MOD \in Nat /\ Window \in Nat /\ Window > 0 /\ MOD >= 2 * Window /\ MOD > 1
  /\ MOD % Window = 0 /\ 0 \in SNs
BY ConstantsAssumption DEF SNs

LEMMA DistIs ==
  ASSUME NEW x \in SNs, NEW y \in SNs
  PROVE  /\ Dist(x, y) = IF x <= y THEN y - x ELSE (y - x) + MOD
         /\ Dist(x, y) \in SNs /\ Dist(x, y) \in 0 .. MOD - 1
         /\ Dist(x, y) = 0 <=> x = y
BY Constants DEF Dist, SNs

(* The number k further on.                                                *)
LEMMA PlusIs ==
  ASSUME NEW x \in SNs, NEW k \in 0 .. MOD
  PROVE  /\ (x + k) % MOD = IF x + k < MOD THEN x + k ELSE (x + k) - MOD
         /\ (x + k) % MOD \in SNs
<1>1. CASE x + k < MOD
  BY <1>1, Constants DEF SNs
<1>2. CASE x + k >= MOD
  BY <1>2, Constants DEF SNs
<1> QED
  BY <1>1, <1>2, Constants DEF SNs

LEMMA ModType ==
  ASSUME NEW n \in Int
  PROVE  n % MOD \in SNs
BY Constants DEF SNs

(* Distances seen from a third number.                                     *)
LEMMA DistVia ==
  ASSUME NEW a \in SNs, NEW x \in SNs, NEW y \in SNs
  PROVE  Dist(x, y) = IF Dist(a, x) <= Dist(a, y) THEN Dist(a, y) - Dist(a, x)
                      ELSE (Dist(a, y) - Dist(a, x)) + MOD
<1>1. Dist(a, x) = IF a <= x THEN x - a ELSE (x - a) + MOD
  BY DistIs
<1>2. Dist(a, y) = IF a <= y THEN y - a ELSE (y - a) + MOD
  BY DistIs
<1>3. Dist(x, y) = IF x <= y THEN y - x ELSE (y - x) + MOD
  BY DistIs
<1> QED
  BY <1>1, <1>2, <1>3, Constants DEF SNs

LEMMA DistInjective ==
  ASSUME NEW a \in SNs, NEW x \in SNs, NEW y \in SNs, Dist(a, x) = Dist(a, y)
  PROVE  x = y
<1>1. Dist(a, x) = IF a <= x THEN x - a ELSE (x - a) + MOD
  BY DistIs
<1>2. Dist(a, y) = IF a <= y THEN y - a ELSE (y - a) + MOD
  BY DistIs
<1>3. x \in Int /\ y \in Int /\ a \in Int /\ x < MOD /\ y < MOD /\ x >= 0 /\ y >= 0 /\ MOD \in Int
  BY Constants DEF SNs
<1>4. (IF a <= x THEN x - a ELSE (x - a) + MOD) = (IF a <= y THEN y - a ELSE (y - a) + MOD)
  BY <1>1, <1>2
<1> QED
  BY <1>3, <1>4

LEMMA DistPlus ==
  ASSUME NEW a \in SNs, NEW x \in SNs, NEW k \in Nat, Dist(a, x) + k < MOD
  PROVE  (x + k) % MOD \in SNs /\ Dist(a, (x + k) % MOD) = Dist(a, x) + k
<1>1. k \in 0 .. MOD
  BY DistIs, Constants
<1> DEFINE y == (x + k) % MOD
<1>2. y \in SNs /\ y = IF x + k < MOD THEN x + k ELSE (x + k) - MOD
  BY <1>1, PlusIs
<1> HIDE DEF y
<1>3. Dist(a, y) = IF a <= y THEN y - a ELSE (y - a) + MOD
  BY <1>2, DistIs
<1>4. Dist(a, x) = IF a <= x THEN x - a ELSE (x - a) + MOD
  BY DistIs
<1>5. Dist(a, y) = Dist(a, x) + k
  BY <1>1, <1>2, <1>3, <1>4, Constants DEF SNs
<1> QED
  BY <1>2, <1>5 DEF y

LEMMA DistNext ==
  ASSUME NEW a \in SNs, NEW x \in SNs
  PROVE  /\ Next1(x) \in SNs
         /\ Dist(a, x) + 1 < MOD => Dist(a, Next1(x)) = Dist(a, x) + 1
         /\ x # a => Dist(Next1(a), x) = Dist(a, x) - 1
         /\ Dist(Next1(a), a) = MOD - 1
<1>1. /\ Next1(x) \in SNs /\ Next1(x) = IF x + 1 < MOD THEN x + 1 ELSE (x + 1) - MOD
      /\ Next1(a) \in SNs /\ Next1(a) = IF a + 1 < MOD THEN a + 1 ELSE (a + 1) - MOD
  <2>1. 1 \in 0 .. MOD
    BY Constants
  <2> QED
    BY <2>1, PlusIs DEF Next1
<1>2. Dist(a, x) = IF a <= x THEN x - a ELSE (x - a) + MOD
  BY DistIs
<1>3. Dist(a, Next1(x)) = IF a <= Next1(x) THEN Next1(x) - a ELSE (Next1(x) - a) + MOD
  BY <1>1, DistIs
<1>4. Dist(Next1(a), x) = IF Next1(a) <= x THEN x - Next1(a) ELSE (x - Next1(a)) + MOD
  BY <1>1, DistIs
<1>5. Dist(Next1(a), a) = IF Next1(a) <= a THEN a - Next1(a) ELSE (a - Next1(a)) + MOD
  BY <1>1, DistIs
<1>6. Dist(a, x) + 1 < MOD => Dist(a, Next1(x)) = Dist(a, x) + 1
  BY <1>1, <1>2, <1>3, Constants DEF SNs
<1>7. x # a => Dist(Next1(a), x) = Dist(a, x) - 1
  BY <1>1, <1>2, <1>4, Constants DEF SNs
<1>8. Dist(Next1(a), a) = MOD - 1
  BY <1>1, <1>5, Constants DEF SNs
<1> QED
  BY <1>1, <1>6, <1>7, <1>8

(* Every number lies its distance further on.                              *)
LEMMA PlusDist ==
  ASSUME NEW x \in SNs, NEW y \in SNs
  PROVE  (x + Dist(x, y)) % MOD = y
<1>1. Dist(x, y) \in 0 .. MOD
  BY DistIs, Constants
<1>2. (x + Dist(x, y)) % MOD = IF x + Dist(x, y) < MOD THEN x + Dist(x, y)
                               ELSE (x + Dist(x, y)) - MOD
  BY <1>1, PlusIs
<1>3. Dist(x, y) = IF x <= y THEN y - x ELSE (y - x) + MOD
  BY DistIs
<1> QED
  BY <1>2, <1>3, Constants DEF SNs

(* The first free number, when one is free no more than a window ahead.    *)
LEMMA FirstFreeIs ==
  ASSUME NEW window, NEW x \in SNs,
         NEW e \in SNs, e \notin DOMAIN window, Dist(x, e) <= Window
  PROVE  /\ FirstFree(window, x) \in SNs
         /\ FirstFree(window, x) \notin DOMAIN window
         /\ Dist(x, FirstFree(window, x)) <= Dist(x, e)
         /\ \A k \in 0 .. Dist(x, FirstFree(window, x)) - 1 : (x + k) % MOD \in DOMAIN window
<1> DEFINE Free == {k \in 0 .. Window : (x + k) % MOD \notin DOMAIN window}
           P(k) == /\ (x + k) % MOD \notin DOMAIN window
                   /\ \A j \in 0 .. k - 1 : (x + j) % MOD \in DOMAIN window
           d == Dist(x, e)
           f == CHOOSE k \in 0 .. Window : P(k)
<1>1. d \in Free
  <2>1. d \in 0 .. Window /\ (x + d) % MOD = e
    BY DistIs, PlusDist, Constants
  <2> QED
    BY <2>1
<1>2. PICK k \in Free : \A j \in Free : k <= j
  <2>1. Free \in SUBSET Nat /\ Free # {}
    BY <1>1, Constants
  <2> QED
    BY <2>1, LeastNat
<1>3. \A j \in 0 .. k - 1 : (x + j) % MOD \in DOMAIN window
  <2> TAKE j \in 0 .. k - 1
  <2>1. j \in 0 .. Window /\ ~(k <= j)
    BY Constants
  <2> QED
    BY <1>2, <2>1
<1>4. k \in 0 .. Window /\ P(k)
  BY <1>3
<1>5. f \in 0 .. Window /\ P(f)
  <2> HIDE DEF P
  <2> QED
    BY <1>4, Zenon
<1>6. FirstFree(window, x) = (x + f) % MOD
  BY DEF FirstFree
<1> HIDE DEF f
<1>7. f <= d
  <2> SUFFICES ASSUME d < f
               PROVE  FALSE
    BY <1>5, DistIs, Constants
  <2>1. d \in 0 .. f - 1
    BY <1>5, DistIs, Constants
  <2>2. (x + d) % MOD \in DOMAIN window
    BY <1>5, <2>1
  <2> QED
    BY <2>2, PlusDist
<1>8. Dist(x, x) = 0
  BY DistIs
<1>9. Dist(x, x) + f < MOD
  BY <1>5, <1>8, Constants
<1>10. (x + f) % MOD \in SNs /\ Dist(x, (x + f) % MOD) = f
  BY <1>5, <1>8, <1>9, DistPlus
<1> QED
  BY <1>5, <1>6, <1>7, <1>10

(* Numbers less than a window apart have slots of their own in the ring.   *)
LEMMA OwnSlots ==
  ASSUME NEW x \in SNs, NEW y \in SNs, x % Window = y % Window, Dist(x, y) < Window
  PROVE  x = y
<1>1. \A n \in Int : n = Window * (n \div Window) + (n % Window) /\ n \div Window \in Int
  BY Constants
<1> DEFINE rest == x % Window
<1>2. PICK p \in Int : x = Window * p + rest
  BY <1>1 DEF SNs
<1>3. PICK q \in Int : y = Window * q + rest
  BY <1>1 DEF SNs
<1>4. PICK m \in Int : MOD = Window * m
  <2>1. MOD = Window * (MOD \div Window) + (MOD % Window) /\ MOD \div Window \in Int
    BY <1>1, Constants
  <2>2. Window * (MOD \div Window) + 0 = Window * (MOD \div Window)
    BY <2>1, Constants
  <2> QED
    BY <2>1, <2>2, Constants
<1>5. rest \in Int
  BY Constants DEF SNs
<1> HIDE DEF rest
<1>6. Dist(x, y) = (IF x <= y THEN y - x ELSE (y - x) + MOD) /\ Dist(x, y) \in 0 .. MOD - 1
  BY DistIs
<1>7. PICK k \in Int : Dist(x, y) = Window * k
  <2>1. y - x = Window * q - Window * p
    BY <1>2, <1>3, <1>5, Constants
  <2>2. Window * q - Window * p = Window * (q - p) /\ q - p \in Int
    BY Constants
  <2>3. CASE x <= y
    <3>1. Dist(x, y) = Window * (q - p)
      BY <2>1, <2>2, <2>3, <1>6
    <3> QED
      BY <2>2, <3>1
  <2>4. CASE ~(x <= y)
    <3>1. Dist(x, y) = Window * (q - p) + Window * m
      BY <2>1, <2>2, <2>4, <1>4, <1>6
    <3>2. Window * (q - p) + Window * m = Window * ((q - p) + m) /\ (q - p) + m \in Int
      BY <2>2, Constants
    <3> QED
      BY <3>1, <3>2
  <2> QED
    BY <2>3, <2>4
<1>8. k >= 1 => Window * k >= Window
  BY Constants
<1>9. k <= 0 - 1 => Window * k < 0
  BY Constants
<1>10. k = 0
  BY <1>6, <1>7, <1>8, <1>9, Constants
<1>11. Dist(x, y) = 0
  BY <1>7, <1>10, Constants
<1> QED
  BY <1>11, DistIs

-----------------------------------------------------------------------------
(* Units, and those of the SDUs that are written.                          *)
WUnit(w) == {u \in Unit : u[1] \in 0 .. w}

LEMMA UnitIs ==
  /\ Empty \in Unit /\ Empty[1] = 0
  /\ \A s \in DOMAIN SduLen : SduLen[s] \in Nat \ {0} /\ s \in Nat \ {0}
  /\ \A s \in DOMAIN SduLen, k \in Nat : k \in 1 .. SduLen[s] => <<s, k>> \in Unit
  /\ \A u \in Unit : u # Empty => u[1] \in DOMAIN SduLen /\ u[2] \in 1 .. SduLen[u[1]]
<1>1. \A s \in DOMAIN SduLen : SduLen[s] \in Nat \ {0} /\ s \in Nat \ {0}
  BY ConstantsAssumption
<1>2. \A s \in DOMAIN SduLen : ToSet(Units(s)) = {<<s, k>> : k \in 1 .. SduLen[s]}
  BY <1>1 DEF ToSet, Units
<1>3. Empty \in Unit /\ Empty[1] = 0
  BY DEF Unit, Empty
<1>4. \A s \in DOMAIN SduLen, k \in Nat : k \in 1 .. SduLen[s] => <<s, k>> \in Unit
  BY <1>2 DEF Unit
<1>5. ASSUME NEW u \in Unit, u # Empty
      PROVE  u[1] \in DOMAIN SduLen /\ u[2] \in 1 .. SduLen[u[1]]
  <2>1. PICK s \in DOMAIN SduLen : u \in ToSet(Units(s))
    BY <1>5 DEF Unit
  <2>2. PICK k \in 1 .. SduLen[s] : u = <<s, k>>
    BY <1>2, <2>1
  <2> QED
    BY <2>2
<1> QED
  BY <1>1, <1>3, <1>4, <1>5

(* An SDU, and what is left of it.                                         *)
LEMMA UnitsType ==
  ASSUME NEW w \in Nat, w <= Len(SduLen), NEW s \in 1 .. w
  PROVE  s \in DOMAIN SduLen /\ Units(s) \in Seq(WUnit(w))
<1>1. s \in DOMAIN SduLen
  BY ConstantsAssumption
<1>2. SduLen[s] \in Nat
  BY <1>1, UnitIs
<1>3. \A k \in 1 .. SduLen[s] : <<s, k>> \in WUnit(w)
  BY <1>1, UnitIs DEF WUnit
<1>4. Units(s) = [k \in 1 .. SduLen[s] |-> <<s, k>>]
  BY DEF Units
<1> QED
  BY <1>1, <1>2, <1>3, <1>4

LEMMA WUnitGrows ==
  ASSUME NEW v \in Nat, NEW w \in Nat, v <= w
  PROVE  WUnit(v) \subseteq WUnit(w) /\ WUnit(w) \subseteq Unit
BY DEF WUnit

LEMMA SeqGrows ==
  ASSUME NEW A, NEW B, A \subseteq B
  PROVE  Seq(A) \subseteq Seq(B)
<1> SUFFICES ASSUME NEW s \in Seq(A) PROVE s \in Seq(B)
  OBVIOUS
<1>1. s \in [1 .. Len(s) -> B] /\ Len(s) \in Nat
  OBVIOUS
<1> QED
  BY <1>1

LEMMA JoinIs ==
  ASSUME NEW S, NEW a \in Seq(S), NEW b \in Seq(S)
  PROVE  /\ a \o b \in Seq(S) /\ Len(a \o b) = Len(a) + Len(b)
         /\ \A i \in 1 .. Len(a) + Len(b) : (a \o b)[i] = IF i <= Len(a) THEN a[i] ELSE b[i - Len(a)]
OBVIOUS

LEMMA SubSeqIs ==
  ASSUME NEW S, NEW s \in Seq(S), NEW m \in Nat \ {0}, NEW n \in Int, n <= Len(s)
  PROVE  /\ SubSeq(s, m, n) \in Seq(S)
         /\ Len(SubSeq(s, m, n)) = IF m <= n THEN (n - m) + 1 ELSE 0
         /\ \A i \in 1 .. (n - m) + 1 : SubSeq(s, m, n)[i] = s[(m + i) - 1]
OBVIOUS

(* The SDUs that some units belong to.                                     *)
LEMMA SdusOfType ==
  ASSUME NEW w \in Nat, NEW data \in Seq(WUnit(w))
  PROVE  SdusOf(data) \subseteq 1 .. w
BY DEF SdusOf, WUnit

LEMMA RestOfSdu ==
  ASSUME NEW w \in Nat, w <= Len(SduLen), NEW u \in WUnit(w), ~EndsSdu(u)
  PROVE  SubSeq(Units(u[1]), u[2] + 1, SduLen[u[1]]) \in Seq(WUnit(w))
<1>1. u # Empty /\ u \in Unit /\ u[1] \in 0 .. w
  BY DEF EndsSdu, WUnit
<1>2. u[1] \in DOMAIN SduLen /\ u[2] \in 1 .. SduLen[u[1]] /\ u[1] \in 1 .. w
  BY <1>1, UnitIs
<1>3. Units(u[1]) \in Seq(WUnit(w)) /\ Len(Units(u[1])) = SduLen[u[1]]
  <2>1. SduLen[u[1]] \in Nat
    BY <1>2, UnitIs
  <2> QED
    BY <1>2, <2>1, UnitsType DEF Units
<1> DEFINE s == Units(u[1])
<1> HIDE DEF s
<1>4. SubSeq(s, u[2] + 1, Len(s)) \in Seq(WUnit(w))
  BY <1>2, <1>3 DEF s
<1> QED
  BY <1>3, <1>4 DEF s

-----------------------------------------------------------------------------
(* The sender.                                                             *)
Entries == [sn : SNs, is_segment : BOOLEAN, so : Nat]
Windows(w) == Maps(SNs, Seq(WUnit(w)))
TxStates(w) ==
  [vt_a : SNs, vt_s : SNs, poll_sn : SNs, without_poll : 0 .. PollPdu + 1,
   queue : Seq(0 .. w), sdu : Seq(WUnit(w)), window : Windows(w), retx : Seq(Entries),
   info : Maps(1 .. w, SUBSET SNs), poll_timer : {"stopped", "running", "expired"}]

(* No two numbers of the window share a slot.                              *)
Slots(window) == \A a, b \in DOMAIN window : a % Window = b % Window => a = b

LEMMA SlotsBound ==
  ASSUME NEW window, DOMAIN window \subseteq SNs, Slots(window)
  PROVE  Cardinality(DOMAIN window) <= Window
<1> DEFINE f == [sn \in DOMAIN window |-> sn % Window]
<1>1. f \in Injection(DOMAIN window, 0 .. Window - 1)
  <2>1. \A sn \in DOMAIN window : sn % Window \in 0 .. Window - 1
    BY Constants DEF SNs
  <2> QED
    BY <2>1, Constants DEF Slots, Injection, IsInjective
<1>2. IsFiniteSet(0 .. Window - 1) /\ Cardinality(0 .. Window - 1) = Window
  BY Constants, FS_Interval
<1> QED
  BY <1>1, <1>2, FS_Injection

LEMMA TxGrows ==
  ASSUME NEW v \in Nat, NEW w \in Nat, v <= w
  PROVE  TxStates(v) \subseteq TxStates(w)
<1> SUFFICES ASSUME NEW x \in TxStates(v) PROVE x \in TxStates(w)
  OBVIOUS
<1>1. WUnit(v) \subseteq WUnit(w)
  BY WUnitGrows
<1>2. Seq(WUnit(v)) \subseteq Seq(WUnit(w)) /\ Seq(0 .. v) \subseteq Seq(0 .. w)
  <2>1. 0 .. v \subseteq 0 .. w
    OBVIOUS
  <2> QED
    BY <1>1, <2>1, SeqGrows
<1>3. Windows(v) \subseteq Windows(w) /\ Maps(1 .. v, SUBSET SNs) \subseteq Maps(1 .. w, SUBSET SNs)
  <2>1. 1 .. v \subseteq 1 .. w
    OBVIOUS
  <2> QED
    BY <1>2, <2>1, BiggerMaps DEF Windows
<1> QED
  BY <1>2, <1>3 DEF TxStates

(* What a step at the head of the queues leaves alone.                     *)
Frame(x, y) ==
  /\ y.vt_a = x.vt_a /\ y.vt_s = x.vt_s /\ y.window = x.window
  /\ y.queue = x.queue /\ y.sdu = x.sdu /\ y.info = x.info /\ y.poll_sn = x.poll_sn

LEMMA TxFields ==
  ASSUME NEW w \in Nat, NEW x \in TxStates(w)
  PROVE  /\ x.vt_a \in SNs /\ x.vt_s \in SNs /\ x.poll_sn \in SNs
         /\ x.without_poll \in 0 .. PollPdu + 1
         /\ x.queue \in Seq(0 .. w) /\ x.sdu \in Seq(WUnit(w)) /\ x.window \in Windows(w)
         /\ x.retx \in Seq(Entries) /\ x.info \in Maps(1 .. w, SUBSET SNs)
         /\ x.poll_timer \in {"stopped", "running", "expired"}
BY DEF TxStates

LEMMA WindowIs ==
  ASSUME NEW w, NEW f \in Windows(w)
  PROVE  DOMAIN f \subseteq SNs /\ \A sn \in DOMAIN f : f[sn] \in Seq(WUnit(w))
BY MapsDef DEF Windows

LEMMA RetransmitType ==
  ASSUME NEW w \in Nat, NEW x \in TxStates(w), NEW sn
  PROVE  LET y == retransmit_pdu(x, sn) IN
         /\ y \in TxStates(w) /\ Frame(x, y)
         /\ y.without_poll = x.without_poll /\ y.poll_timer = x.poll_timer
         /\ y.retx = x.retx \/ (sn \in DOMAIN x.window /\ y.retx = Append(x.retx, Entry(sn)))
<1>1. CASE sn \in DOMAIN x.window
  <2>1. sn \in SNs
    BY <1>1, TxFields, WindowIs
  <2>2. Entry(sn) \in Entries
    BY <2>1 DEF Entry, Entries
  <2>3. Append(x.retx, Entry(sn)) \in Seq(Entries)
    BY <2>2, TxFields
  <2> QED
    BY <1>1, <2>3 DEF retransmit_pdu, TxStates, Frame
<1>2. CASE sn \notin DOMAIN x.window
  BY <1>2 DEF retransmit_pdu, Frame
<1> QED
  BY <1>1, <1>2

LEMMA DropStaleType ==
  ASSUME NEW w \in Nat, NEW x \in TxStates(w)
  PROVE  LET y == DropStale(x) IN
         /\ y \in TxStates(w) /\ Frame(x, y)
         /\ y.without_poll = x.without_poll /\ y.poll_timer = x.poll_timer
         /\ y.retx # <<>> => Head(y.retx).sn \in DOMAIN y.window
<1> DEFINE live == {i \in DOMAIN x.retx : x.retx[i].sn \in DOMAIN x.window}
           y == DropStale(x)
<1>1. x.retx \in Seq(Entries)
  BY TxFields
<1>2. CASE live # {}
  <2>1. y = [x EXCEPT !.retx = SubSeq(x.retx, Min(live), Len(x.retx))]
    BY <1>2 DEF DropStale
  <2>2. live \in SUBSET Nat
    BY <1>1
  <2>3. Min(live) \in live
    BY <1>2, <2>2, MinIs
  <2> DEFINE m == Min(live)
  <2>4. m \in 1 .. Len(x.retx) /\ x.retx[m].sn \in DOMAIN x.window
    BY <1>1, <2>3
  <2> HIDE DEF m
  <2> DEFINE s == SubSeq(x.retx, m, Len(x.retx))
  <2>5. s \in Seq(Entries) /\ s # <<>> /\ Head(s) = x.retx[m]
    <3>1. s \in Seq(Entries) /\ Len(s) = (Len(x.retx) - m) + 1
      BY <1>1, <2>4, SubSeqIs
    <3>2. s[1] = x.retx[(m + 1) - 1] /\ (m + 1) - 1 = m
      BY <1>1, <2>4, SubSeqIs
    <3> HIDE DEF s
    <3> QED
      BY <3>1, <3>2, <2>4
  <2> HIDE DEF s
  <2>6. y = [x EXCEPT !.retx = s]
    BY <2>1 DEF m, s
  <2> HIDE DEF y
  <2>7. y \in TxStates(w) /\ Frame(x, y) /\ y.retx = s
        /\ y.without_poll = x.without_poll /\ y.poll_timer = x.poll_timer
    BY <2>5, <2>6 DEF TxStates, Frame
  <2>8. Head(y.retx).sn \in DOMAIN y.window
    BY <2>4, <2>5, <2>7 DEF Frame
  <2> QED
    BY <2>7, <2>8 DEF y
<1>3. CASE live = {} /\ x.retx = <<>>
  <2>1. y = x
    BY <1>3 DEF DropStale
  <2> HIDE DEF y
  <2>2. Frame(x, y)
    BY <2>1 DEF Frame
  <2> QED
    BY <1>3, <2>1, <2>2 DEF y
<1>4. CASE live = {} /\ x.retx # <<>>
  <2> DEFINE z == [x EXCEPT !.retx = <<>>]
             v == retransmit_pdu(z, x.vt_a)
  <2>1. y = v
    BY <1>4 DEF DropStale
  <2>2. z \in TxStates(w) /\ Frame(x, z) /\ z.retx = <<>>
        /\ z.without_poll = x.without_poll /\ z.poll_timer = x.poll_timer
    <3>1. <<>> \in Seq(Entries)
      OBVIOUS
    <3> QED
      BY <3>1 DEF TxStates, Frame
  <2> HIDE DEF z
  <2>3. /\ v \in TxStates(w) /\ Frame(z, v)
        /\ v.without_poll = z.without_poll /\ v.poll_timer = z.poll_timer
        /\ v.retx = z.retx \/ (x.vt_a \in DOMAIN z.window /\ v.retx = Append(z.retx, Entry(x.vt_a)))
    BY <2>2, RetransmitType
  <2> HIDE DEF v
  <2>4. Frame(x, v)
    BY <2>2, <2>3 DEF Frame
  <2>5. v.retx # <<>> => Head(v.retx).sn \in DOMAIN v.window
    <3>1. Head(Append(<<>>, Entry(x.vt_a))) = Entry(x.vt_a)
      OBVIOUS
    <3>2. Entry(x.vt_a).sn = x.vt_a
      BY DEF Entry
    <3> QED
      BY <2>2, <2>3, <3>1, <3>2 DEF Frame
  <2> QED
    BY <2>1, <2>2, <2>3, <2>4, <2>5 DEF y
<1> QED
  BY <1>2, <1>3, <1>4

(* A PDU is counted, and polls if it is time to.                           *)
LEMMA PolledType ==
  ASSUME NEW w \in Nat, NEW x \in TxStates(w), x.without_poll <= PollPdu
  PROVE  LET y == Polled(Counted(x)) IN
         /\ Counted(x) \in TxStates(w) /\ Frame(x, Counted(x)) /\ Counted(x).retx = x.retx
         /\ y \in TxStates(w) /\ Frame(x, y) /\ y.retx = x.retx
         /\ y.without_poll <= PollPdu
<1> DEFINE c == Counted(x)
           y == Polled(c)
<1>1. PollPdu \in Nat
  BY ConstantsAssumption
<1>2. c = [x EXCEPT !.without_poll = x.without_poll + 1]
  BY <1>1, TxFields DEF Counted
<1>3. x.without_poll + 1 \in 0 .. PollPdu + 1
  BY <1>1, TxFields
<1> HIDE DEF c
<1>4. c \in TxStates(w) /\ Frame(x, c) /\ c.retx = x.retx
  BY <1>2, <1>3 DEF TxStates, Frame
<1>5. CASE poll_required(c)
  <2>1. y = [c EXCEPT !.without_poll = 0, !.poll_timer = "running"]
    BY <1>5 DEF Polled
  <2> HIDE DEF y
  <2>2. y \in TxStates(w) /\ Frame(c, y) /\ y.retx = c.retx /\ y.without_poll = 0
    <3>1. 0 \in 0 .. PollPdu + 1
      BY <1>1
    <3> QED
      BY <1>4, <2>1, <3>1 DEF TxStates, Frame
  <2>3. Frame(x, y)
    BY <1>4, <2>2 DEF Frame
  <2> QED
    BY <1>1, <1>4, <2>2, <2>3 DEF y, c
<1>6. CASE ~poll_required(c)
  <2>1. y = c
    BY <1>6 DEF Polled
  <2>2. c.without_poll <= PollPdu
    BY <1>6, <1>1, <1>4, TxFields DEF poll_required
  <2> QED
    BY <1>4, <2>1, <2>2 DEF y, c
<1> QED
  BY <1>5, <1>6

LEMMA MinOfTwo ==
  ASSUME NEW a \in Int, NEW b \in Int
  PROVE  Min({a, b}) = IF a <= b THEN a ELSE b
<1>1. \E x \in {a, b} : \A y \in {a, b} : x <= y
  OBVIOUS
<1>2. Min({a, b}) \in {a, b} /\ \A y \in {a, b} : Min({a, b}) <= y
  BY <1>1 DEF Min
<1> QED
  BY <1>2

LEMMA PduType ==
  ASSUME NEW sn \in SNs, NEW poll \in BOOLEAN, NEW so \in Nat, NEW lsf \in BOOLEAN, NEW data \in Data
  PROVE  /\ Pdu(sn, poll, data) \in Sent /\ Pdu(sn, poll, data).sn = sn
         /\ Segment(sn, poll, so, lsf, data) \in Sent /\ Segment(sn, poll, so, lsf, data).sn = sn
         /\ Segment(sn, poll, so, lsf, data).so = so
BY DEF Pdu, Segment, Sent

(* What a retransmission does: the PDU is one of the window, unless it     *)
(* does not fit and the grant goes to a data PDU.                          *)
LEMMA BuildRetxType ==
  ASSUME NEW w \in Nat, NEW x \in TxStates(w), x.without_poll <= PollPdu,
         x.retx # <<>>, Head(x.retx).sn \in DOMAIN x.window,
         NEW g \in Nat, NEW fits, BuildRetx(x, g, fits)
  PROVE  \/ /\ tx' \in TxStates(w) /\ Frame(x, tx') /\ tx'.without_poll <= PollPdu
            /\ \E p \in Sent : air' = Append(air, p) /\ p.sn \in DOMAIN x.window
         \/ BuildData(Polled(Counted(x)), g)
<1> DEFINE e    == Head(x.retx)
           data == x.window[e.sn]
           n    == Min({g, Len(data) - e.so})
           lsf  == e.so + n = Len(data)
           poll == poll_required(Counted(x))
           y    == Polled(Counted(x))
           rest == Tail(x.retx)
           cont == [e EXCEPT !.is_segment = TRUE, !.so = e.so + n]
           sub  == SubSeq(data, e.so + 1, e.so + n)
<1>1. x.retx \in Seq(Entries) /\ e \in Entries /\ rest \in Seq(Entries)
  BY TxFields
<1>2. e.sn \in SNs /\ e.so \in Nat
  BY <1>1 DEF Entries
<1>3. data \in Seq(WUnit(w)) /\ data \in Data /\ Len(data) \in Nat
  <2>1. data \in Seq(WUnit(w))
    BY TxFields, WindowIs
  <2>2. WUnit(w) \subseteq Unit
    BY WUnitGrows
  <2> QED
    BY <2>1, <2>2, SeqGrows DEF Data
<1>4. n \in Int /\ e.so + n \in Nat /\ e.so + n <= Len(data)
  <2> HIDE DEF data, e
  <2>1. Len(data) - e.so \in Int /\ g \in Int
    BY <1>2, <1>3
  <2>2. n = IF g <= Len(data) - e.so THEN g ELSE Len(data) - e.so
    BY <2>1, MinOfTwo
  <2> HIDE DEF n
  <2> QED
    BY <2>1, <2>2, <1>2, <1>3
<1>5. sub \in Data
  <2> HIDE DEF data, e, n
  <2>1. e.so + 1 \in Nat \ {0} /\ e.so + n \in Int
    BY <1>2, <1>4
  <2> QED
    BY <2>1, <1>3, <1>4, SubSeqIs DEF Data
<1>6. /\ y \in TxStates(w) /\ Frame(x, y) /\ y.retx = x.retx
      /\ y.without_poll <= PollPdu
  BY PolledType
<1>7. cont \in Entries
  BY <1>1, <1>4 DEF Entries
<1>8. poll \in BOOLEAN /\ lsf \in BOOLEAN
  BY DEF poll_required
<1>9. \/ /\ ~e.is_segment /\ Len(data) <= g
         /\ tx' = [y EXCEPT !.retx = Tail(@)]
         /\ air' = Append(air, Pdu(e.sn, poll, data))
      \/ /\ e.is_segment \/ Len(data) > g
         /\ IF g = 0 \/ ~fits THEN BuildData(y, g)
            ELSE /\ tx' = [y EXCEPT !.retx = IF lsf THEN Tail(@) ELSE <<cont>> \o Tail(@)]
                 /\ air' = Append(air, Segment(e.sn, poll, e.so, lsf, sub))
  BY DEF BuildRetx
<1>10. <<cont>> \o rest \in Seq(Entries)
  BY <1>1, <1>7
<1> DEFINE pdu == Pdu(e.sn, poll, data)
           seg == Segment(e.sn, poll, e.so, lsf, sub)
<1>11. pdu \in Sent /\ pdu.sn = e.sn /\ seg \in Sent /\ seg.sn = e.sn
  <2> HIDE DEF sub, poll, lsf, data, e
  <2> QED
    BY <1>2, <1>3, <1>5, <1>8, PduType
<1> HIDE DEF pdu, seg, sub, cont
<1>12. \A r \in Seq(Entries) : LET z == [y EXCEPT !.retx = r] IN
         z \in TxStates(w) /\ Frame(x, z) /\ z.without_poll <= PollPdu
  <2> HIDE DEF y
  <2>1. TAKE r \in Seq(Entries)
  <2> DEFINE z == [y EXCEPT !.retx = r]
  <2>2. z \in TxStates(w)
    BY <1>6 DEF TxStates
  <2>3. Frame(y, z) /\ z.without_poll = y.without_poll
    BY <1>6 DEF TxStates, Frame
  <2> QED
    BY <1>6, <2>2, <2>3 DEF Frame
<1>13. y.retx = x.retx /\ Tail(y.retx) = rest
  BY <1>6
<1> HIDE DEF y, rest, n, poll, data, e
<1>14. CASE tx' = [y EXCEPT !.retx = Tail(@)] /\ air' = Append(air, pdu)
  <2>1. tx' = [y EXCEPT !.retx = rest]
    BY <1>13, <1>14
  <2> QED
    BY <1>1, <1>11, <1>12, <1>14, <2>1 DEF e
<1>15. CASE BuildData(y, g)
  BY <1>15 DEF y
<1>16. CASE /\ tx' = [y EXCEPT !.retx = IF lsf THEN Tail(@) ELSE <<cont>> \o Tail(@)]
            /\ air' = Append(air, seg)
  <2> DEFINE r == IF lsf THEN rest ELSE <<cont>> \o rest
  <2>1. r \in Seq(Entries)
    BY <1>1, <1>10
  <2>2. tx' = [y EXCEPT !.retx = r]
    BY <1>13, <1>16
  <2> HIDE DEF r
  <2> QED
    BY <1>11, <1>12, <1>16, <2>1, <2>2 DEF e
<1> QED
  BY <1>9, <1>14, <1>15, <1>16 DEF pdu, seg, sub, cont, y, rest, n, poll, data, e

-----------------------------------------------------------------------------
(* A new PDU.                                                              *)
LEMMA PayloadType ==
  ASSUME NEW w \in Nat, w <= Len(SduLen), NEW x \in TxStates(w), NEW g \in Nat, g > 0
  PROVE  Payload(x, g) \in Seq(WUnit(w)) /\ Len(Payload(x, g)) >= 1
<1> DEFINE queued == [i \in DOMAIN x.queue |-> IF x.queue[i] = 0 THEN <<>> ELSE Units(x.queue[i])]
           avail  == x.sdu \o FlattenSeq(queued)
<1>1. x.queue \in Seq(0 .. w) /\ x.sdu \in Seq(WUnit(w))
  BY TxFields
<1>2. queued \in Seq(Seq(WUnit(w)))
  <2>1. \A i \in DOMAIN x.queue : (IF x.queue[i] = 0 THEN <<>> ELSE Units(x.queue[i])) \in Seq(WUnit(w))
    <3> TAKE i \in DOMAIN x.queue
    <3>1. x.queue[i] \in 0 .. w
      BY <1>1
    <3>2. CASE x.queue[i] = 0
      <4>1. <<>> \in Seq(WUnit(w))
        OBVIOUS
      <4> QED
        BY <3>2, <4>1
    <3>3. CASE x.queue[i] # 0
      <4>1. x.queue[i] \in 1 .. w
        BY <3>1, <3>3
      <4> QED
        BY <3>3, <4>1, UnitsType
    <3> QED
      BY <3>2, <3>3
  <2>2. DOMAIN x.queue = 1 .. Len(x.queue) /\ Len(x.queue) \in Nat
    BY <1>1
  <2> QED
    BY <2>1, <2>2
<1>3. FlattenSeq(queued) \in Seq(WUnit(w))
  <2> HIDE DEF queued
  <2> QED
    BY <1>2, FlattenType
<1>4. avail \in Seq(WUnit(w))
  BY <1>1, <1>3
<1>5. Payload(x, g) = IF avail = <<>> THEN <<Empty>> ELSE SubSeq(avail, 1, Min({g, Len(avail)}))
  BY DEF Payload
<1>6. CASE avail = <<>>
  <2>1. Empty \in WUnit(w)
    BY UnitIs DEF WUnit
  <2>2. <<Empty>> \in Seq(WUnit(w)) /\ Len(<<Empty>>) = 1
    BY <2>1
  <2> QED
    BY <1>5, <1>6, <2>2
<1>7. CASE avail # <<>>
  <2> HIDE DEF avail
  <2> DEFINE n == Min({g, Len(avail)})
  <2>1. n = IF g <= Len(avail) THEN g ELSE Len(avail)
    BY <1>4, MinOfTwo
  <2>2. n \in Int /\ n <= Len(avail) /\ n >= 1 /\ Len(avail) \in Nat
    BY <2>1, <1>4, <1>7
  <2> HIDE DEF n
  <2>3. SubSeq(avail, 1, n) \in Seq(WUnit(w)) /\ Len(SubSeq(avail, 1, n)) = (n - 1) + 1
    BY <1>4, <2>2, SubSeqIs
  <2>4. Payload(x, g) = SubSeq(avail, 1, n)
    BY <1>5, <1>7 DEF n
  <2> QED
    BY <2>2, <2>3, <2>4
<1> QED
  BY <1>6, <1>7

SameSlot(x) == {r \in DOMAIN x.window : r % Window = x.vt_s % Window}

LEMMA AddPduType ==
  ASSUME NEW w \in Nat, NEW x \in TxStates(w), NEW data \in Seq(WUnit(w))
  PROVE  LET y == AddPdu(x, x.vt_s, data) IN
         /\ y \in TxStates(w) /\ y = [x EXCEPT !.window = y.window]
         /\ DOMAIN y.window = (DOMAIN x.window \ SameSlot(x)) \cup {x.vt_s}
         /\ Slots(x.window) => Slots(y.window)
<1> DEFINE B    == Seq(WUnit(w))
           old  == x.window
           same == SameSlot(x)
           kept == Without(old, same)
           win  == With(kept, x.vt_s, data)
           y    == AddPdu(x, x.vt_s, data)
<1>1. old \in Maps(SNs, B) /\ x.vt_s \in SNs /\ data \in B
  BY TxFields DEF Windows
<1> HIDE DEF B, old, same
<1>2. kept \in Maps(SNs, B) /\ DOMAIN kept = DOMAIN old \ same
  <2>1. old \in Maps(SNs, B)
    BY <1>1, Zenon
  <2>2. Without(old, same) \in Maps(SNs, B)
    BY <2>1, WithoutMap, Zenon
  <2>3. DOMAIN Without(old, same) = DOMAIN old \ same
    BY DEF Without
  <2> QED
    BY <2>2, <2>3
<1> HIDE DEF kept
<1>3. win \in Maps(SNs, B) /\ DOMAIN win = DOMAIN kept \cup {x.vt_s}
  <2>1. kept \in Maps(SNs, B) /\ x.vt_s \in SNs /\ data \in B
    BY <1>1, <1>2
  <2>2. win \in Maps(SNs, B)
    BY <2>1, WithMap, Zenon
  <2>3. DOMAIN win = DOMAIN kept \cup {x.vt_s}
    BY DEF With
  <2> QED
    BY <2>2, <2>3
<1>4. y = [x EXCEPT !.window = win]
  BY DEF AddPdu, SameSlot, kept, same, old
<1> HIDE DEF win, y
<1>5. y \in TxStates(w) /\ y.window = win
  BY <1>3, <1>4 DEF TxStates, Windows, B
<1>6. Slots(x.window) => Slots(win)
  BY <1>2, <1>3 DEF Slots, SameSlot, old, same
<1> QED
  BY <1>2, <1>3, <1>4, <1>5, <1>6 DEF y, old, same

LEMMA PackedType ==
  ASSUME NEW w \in Nat, w <= Len(SduLen), NEW x \in TxStates(w),
         NEW data \in Seq(WUnit(w)), Len(data) >= 1
  PROVE  LET y == Packed(x, data) IN
         /\ y \in TxStates(w)
         /\ y.vt_a = x.vt_a /\ y.vt_s = x.vt_s /\ y.retx = x.retx
         /\ y.without_poll = x.without_poll /\ Len(y.queue) <= Len(x.queue)
         /\ DOMAIN y.window = (DOMAIN x.window \ SameSlot(x)) \cup {x.vt_s}
         /\ Slots(x.window) => Slots(y.window)
<1> DEFINE last  == data[Len(data)]
           sdus  == SdusOf(data)
           read  == {i \in DOMAIN x.queue : x.queue[i] \in sdus}
           a     == AddPdu(x, x.vt_s, data)
           queue == IF read = {} THEN x.queue ELSE SubSeq(x.queue, Max(read) + 1, Len(x.queue))
           sdu   == IF EndsSdu(last) THEN <<>>
                    ELSE SubSeq(Units(last[1]), last[2] + 1, SduLen[last[1]])
           info  == [s \in DOMAIN x.info \cup sdus |->
                      (IF s \in DOMAIN x.info THEN x.info[s] ELSE {})
                      \cup (IF s \in sdus THEN {x.vt_s} ELSE {})]
           y     == Packed(x, data)
<1>1. /\ a \in TxStates(w) /\ a = [x EXCEPT !.window = a.window]
      /\ DOMAIN a.window = (DOMAIN x.window \ SameSlot(x)) \cup {x.vt_s}
      /\ Slots(x.window) => Slots(a.window)
  BY AddPduType
<1>2. /\ x.queue \in Seq(0 .. w) /\ x.info \in Maps(1 .. w, SUBSET SNs) /\ x.vt_s \in SNs
  BY TxFields
<1>3. /\ a.queue = x.queue /\ a.info = x.info /\ a.vt_a = x.vt_a /\ a.vt_s = x.vt_s
      /\ a.retx = x.retx /\ a.without_poll = x.without_poll
  <2> HIDE DEF a
  <2> QED
    BY <1>1 DEF TxStates
<1>4. y = [a EXCEPT !.queue = queue, !.sdu = sdu, !.info = info]
  <2>1. y = [a EXCEPT !.queue = IF read = {} THEN @ ELSE SubSeq(@, Max(read) + 1, Len(@)),
                      !.sdu   = sdu,
                      !.info  = [s \in DOMAIN @ \cup sdus |->
                                  (IF s \in DOMAIN @ THEN @[s] ELSE {})
                                  \cup (IF s \in sdus THEN {x.vt_s} ELSE {})]]
    BY DEF Packed
  <2> HIDE DEF a, y, read, sdus, sdu
  <2> QED
    BY <2>1, <1>3
<1>5. last \in WUnit(w)
  <2>1. Len(data) \in DOMAIN data
    OBVIOUS
  <2> QED
    BY <2>1
<1>6. sdu \in Seq(WUnit(w))
  <2>1. CASE EndsSdu(last)
    <3>1. <<>> \in Seq(WUnit(w))
      OBVIOUS
    <3> QED
      BY <2>1, <3>1
  <2>2. CASE ~EndsSdu(last)
    <3> HIDE DEF last
    <3> QED
      BY <2>2, <1>5, RestOfSdu
  <2> QED
    BY <2>1, <2>2
<1>7. queue \in Seq(0 .. w) /\ Len(queue) <= Len(x.queue)
  <2>1. CASE read = {}
    BY <2>1, <1>2
  <2>2. CASE read # {}
    <3>1. read \in SUBSET (0 .. Len(x.queue)) /\ Len(x.queue) \in Nat
      BY <1>2
    <3>2. Max(read) \in read
      <4> HIDE DEF read
      <4> QED
        BY <2>2, <3>1, MaxIs
    <3> DEFINE m == Max(read)
    <3>3. m \in 1 .. Len(x.queue)
      BY <1>2, <3>2
    <3> HIDE DEF m
    <3>4. m + 1 \in Nat \ {0} /\ Len(x.queue) \in Int
      BY <3>1, <3>3
    <3>5. /\ SubSeq(x.queue, m + 1, Len(x.queue)) \in Seq(0 .. w)
          /\ Len(SubSeq(x.queue, m + 1, Len(x.queue)))
               = IF m + 1 <= Len(x.queue) THEN (Len(x.queue) - (m + 1)) + 1 ELSE 0
      BY <1>2, <3>1, <3>4, SubSeqIs
    <3>6. queue = SubSeq(x.queue, m + 1, Len(x.queue))
      BY <2>2 DEF m
    <3> HIDE DEF queue
    <3> QED
      BY <3>1, <3>3, <3>5, <3>6
  <2> QED
    BY <2>1, <2>2
<1>8. info \in Maps(1 .. w, SUBSET SNs)
  <2>1. sdus \subseteq 1 .. w
    BY SdusOfType
  <2>2. DOMAIN x.info \subseteq 1 .. w /\ \A s \in DOMAIN x.info : x.info[s] \in SUBSET SNs
    BY <1>2, MapsDef
  <2> HIDE DEF sdus
  <2>3. info \in [DOMAIN x.info \cup sdus -> SUBSET SNs]
    BY <1>2, <2>2
  <2> QED
    BY <2>1, <2>2, <2>3 DEF Maps
<1> HIDE DEF last, sdus, read, a, queue, sdu, info, y
<1>9. y \in TxStates(w)
  BY <1>1, <1>4, <1>6, <1>7, <1>8 DEF TxStates
<1>10. /\ y.vt_a = a.vt_a /\ y.vt_s = a.vt_s /\ y.retx = a.retx
       /\ y.without_poll = a.without_poll /\ y.queue = queue /\ y.window = a.window
  BY <1>1, <1>4 DEF TxStates
<1> QED
  BY <1>1, <1>3, <1>7, <1>9, <1>10 DEF y

(* The sender with data left over, or with one new PDU.                    *)
LEMMA BuildDataType ==
  ASSUME NEW w \in Nat, w <= Len(SduLen), NEW x \in TxStates(w), x.without_poll <= PollPdu,
         NEW g \in Nat, BuildData(x, g)
  PROVE  \/ tx' = x /\ air' = air
         \/ /\ NoStraggler
            /\ tx' \in TxStates(w) /\ tx'.without_poll <= PollPdu
            /\ tx'.vt_a = x.vt_a /\ tx'.vt_s = Next1(x.vt_s)
            /\ Len(tx'.queue) <= Len(x.queue)
            /\ DOMAIN tx'.window = (DOMAIN x.window \ SameSlot(x)) \cup {x.vt_s}
            /\ Slots(x.window) => Slots(tx'.window)
            /\ \E p \in Sent : air' = Append(air, p) /\ p.sn = x.vt_s
<1>1. CASE g = 0 \/ (x.sdu = <<>> /\ (x.queue = <<>> \/ Full(x)))
  BY <1>1 DEF BuildData
<1>2. CASE ~(g = 0 \/ (x.sdu = <<>> /\ (x.queue = <<>> \/ Full(x))))
  <2> DEFINE data == Payload(x, g)
             pk   == Packed(x, data)
             y    == Counted(pk)
             poll == poll_required(y)
             z    == Polled(y)
             psn  == IF poll THEN x.vt_s ELSE z.poll_sn
             pdu  == Pdu(x.vt_s, poll, data)
  <2>1. /\ NoStraggler
        /\ tx' = [z EXCEPT !.poll_sn = IF poll THEN x.vt_s ELSE @, !.vt_s = Next1(@)]
        /\ air' = Append(air, pdu)
    BY <1>2 DEF BuildData
  <2>2. data \in Seq(WUnit(w)) /\ Len(data) >= 1
    BY <1>2, PayloadType
  <2>3. data \in Data
    <3>1. WUnit(w) \subseteq Unit
      BY WUnitGrows
    <3> QED
      BY <2>2, <3>1, SeqGrows DEF Data
  <2> HIDE DEF data
  <2>4. /\ pk \in TxStates(w)
        /\ pk.vt_a = x.vt_a /\ pk.vt_s = x.vt_s /\ pk.retx = x.retx
        /\ pk.without_poll = x.without_poll /\ Len(pk.queue) <= Len(x.queue)
        /\ DOMAIN pk.window = (DOMAIN x.window \ SameSlot(x)) \cup {x.vt_s}
        /\ Slots(x.window) => Slots(pk.window)
    BY <2>2, PackedType
  <2> HIDE DEF pk
  <2>5. z \in TxStates(w) /\ Frame(pk, z) /\ z.without_poll <= PollPdu
    <3>1. pk.without_poll <= PollPdu
      BY <2>4
    <3> QED
      BY <2>4, <3>1, PolledType
  <2>6. poll \in BOOLEAN /\ x.vt_s \in SNs
    BY TxFields DEF poll_required
  <2>7. pdu \in Sent /\ pdu.sn = x.vt_s
    <3> HIDE DEF poll
    <3>1. 0 \in Nat /\ FALSE \in BOOLEAN
      OBVIOUS
    <3> QED
      BY <2>3, <2>6, <3>1, PduType
  <2> HIDE DEF pdu, z, poll
  <2>8. psn \in SNs /\ Next1(z.vt_s) \in SNs
    <3>1. z.poll_sn \in SNs /\ z.vt_s \in SNs
      BY <2>5, TxFields
    <3> QED
      BY <2>6, <3>1, DistNext
  <2>9. tx' = [z EXCEPT !.poll_sn = psn, !.vt_s = Next1(z.vt_s)]
    BY <2>1, <2>5 DEF TxStates
  <2> HIDE DEF psn
  <2>10. tx' \in TxStates(w)
    BY <2>5, <2>8, <2>9 DEF TxStates
  <2>11. /\ tx'.vt_a = z.vt_a /\ tx'.vt_s = Next1(z.vt_s) /\ tx'.queue = z.queue
         /\ tx'.window = z.window /\ tx'.without_poll = z.without_poll
    BY <2>5, <2>9 DEF TxStates
  <2>12. /\ z.vt_a = pk.vt_a /\ z.vt_s = pk.vt_s /\ z.queue = pk.queue /\ z.window = pk.window
    BY <2>5 DEF Frame
  <2> QED
    BY <2>1, <2>4, <2>5, <2>7, <2>10, <2>11, <2>12
<1> QED
  BY <1>1, <1>2

-----------------------------------------------------------------------------
(* The receiver.                                                           *)
SegMaps == {f \in Maps(Nat, Sent) : IsFiniteSet(DOMAIN f) /\ \A o \in DOMAIN f : f[o].so = o}
RxStates ==
  [vr_r : SNs, vr_x : SNs, vr_ms : SNs, vr_h : SNs,
   window : Maps(SNs, Data), segments : Maps(SNs, SegMaps), sdu : Data,
   poll_received : BOOLEAN, do_status : BOOLEAN, reordering : BOOLEAN, prohibit : BOOLEAN]

(* The receiving window is no longer than Window; segments are kept under  *)
(* the number of their PDU.                                                *)
Within(window, from) == \A sn \in DOMAIN window : Dist(from, sn) < Window
Sorted(segments) ==
  \A sn \in DOMAIN segments : \A o \in DOMAIN segments[sn] : segments[sn][o].sn = sn
RxOK(x) == x \in RxStates /\ Within(x.window, x.vr_r) /\ Sorted(x.segments)

LEMMA RxFields ==
  ASSUME NEW x \in RxStates
  PROVE  /\ x.vr_r \in SNs /\ x.vr_x \in SNs /\ x.vr_ms \in SNs /\ x.vr_h \in SNs
         /\ x.window \in Maps(SNs, Data) /\ x.segments \in Maps(SNs, SegMaps) /\ x.sdu \in Data
         /\ x.poll_received \in BOOLEAN /\ x.do_status \in BOOLEAN
         /\ x.reordering \in BOOLEAN /\ x.prohibit \in BOOLEAN
BY DEF RxStates

(* A number that is free, no more than a window further on.                *)
LEMMA FreeAhead ==
  ASSUME NEW window, NEW from \in SNs, Within(window, from), NEW x \in SNs
  PROVE  \E e \in SNs : e \notin DOMAIN window /\ Dist(x, e) <= Window
<1>1. CASE x \notin DOMAIN window
  BY <1>1, DistIs, Constants
<1>2. CASE x \in DOMAIN window
  <2>1. Dist(from, x) < Window /\ Dist(from, from) = 0
    BY <1>2, DistIs DEF Within
  <2> DEFINE e == (from + Window) % MOD
  <2>2. e \in SNs /\ Dist(from, e) = Window
    <3>1. Window \in Nat /\ Dist(from, from) + Window < MOD
      BY <2>1, Constants
    <3>2. (from + Window) % MOD \in SNs
          /\ Dist(from, (from + Window) % MOD) = Dist(from, from) + Window
      BY <3>1, DistPlus
    <3> QED
      BY <2>1, <3>1, <3>2
  <2> HIDE DEF e
  <2>3. e \notin DOMAIN window
    BY <2>2, Constants DEF Within
  <2>4. Dist(x, e) = Window - Dist(from, x)
    <3>1. Dist(x, e) = IF Dist(from, x) <= Dist(from, e) THEN Dist(from, e) - Dist(from, x)
                       ELSE (Dist(from, e) - Dist(from, x)) + MOD
      BY <2>2, DistVia
    <3>2. Dist(from, x) \in Int /\ Window \in Int
      BY DistIs, Constants
    <3> QED
      BY <2>1, <2>2, <3>1, <3>2
  <2> QED
    BY <2>1, <2>2, <2>3, <2>4, DistIs, Constants
<1> QED
  BY <1>1, <1>2

LEMMA FirstFreeType ==
  ASSUME NEW window, NEW from \in SNs, Within(window, from), NEW x \in SNs
  PROVE  /\ FirstFree(window, x) \in SNs /\ FirstFree(window, x) \notin DOMAIN window
         /\ Dist(x, FirstFree(window, x)) <= Window
         /\ \A k \in 0 .. Dist(x, FirstFree(window, x)) - 1 : (x + k) % MOD \in DOMAIN window
         /\ \A b \in SNs : Dist(x, b) < Dist(x, FirstFree(window, x)) => b \in DOMAIN window
<1> DEFINE f == FirstFree(window, x)
<1>1. PICK e \in SNs : e \notin DOMAIN window /\ Dist(x, e) <= Window
  BY FreeAhead
<1>2. /\ f \in SNs /\ f \notin DOMAIN window /\ Dist(x, f) <= Dist(x, e)
      /\ \A k \in 0 .. Dist(x, f) - 1 : (x + k) % MOD \in DOMAIN window
  BY <1>1, FirstFreeIs
<1> HIDE DEF f
<1>3. Dist(x, f) \in Nat /\ Dist(x, e) \in Nat /\ Window \in Nat
  BY <1>1, <1>2, DistIs, Constants
<1>4. ASSUME NEW b \in SNs, Dist(x, b) < Dist(x, f)
      PROVE  b \in DOMAIN window
  <2>1. Dist(x, b) \in 0 .. Dist(x, f) - 1
    BY <1>3, <1>4, DistIs, Constants
  <2>2. (x + Dist(x, b)) % MOD = b
    BY PlusDist
  <2> QED
    BY <1>2, <2>1, <2>2
<1> QED
  BY <1>1, <1>2, <1>3, <1>4 DEF f

(* The first n numbers from x on.                                          *)
LEMMA FirstNumbers ==
  ASSUME NEW x \in SNs, NEW n \in 0 .. MOD, NEW b \in SNs
  PROVE  b \in {(x + k) % MOD : k \in 0 .. n - 1} <=> Dist(x, b) < n
<1>1. ASSUME Dist(x, b) < n
      PROVE  \E k \in 0 .. n - 1 : b = (x + k) % MOD
  <2>1. Dist(x, b) \in 0 .. n - 1
    BY <1>1, DistIs, Constants
  <2> QED
    BY <2>1, PlusDist
<1>2. ASSUME NEW k \in 0 .. n - 1, b = (x + k) % MOD
      PROVE  Dist(x, b) < n
  <2>1. Dist(x, x) = 0 /\ k \in Nat /\ k < MOD
    BY DistIs, Constants
  <2>2. Dist(x, (x + k) % MOD) = Dist(x, x) + k
    <3>1. Dist(x, x) + k < MOD
      BY <2>1
    <3> QED
      BY <2>1, <3>1, DistPlus
  <2> QED
    BY <1>2, <2>1, <2>2
<1> QED
  BY <1>1, <1>2

(* Units that are put in order, and what PDCP gets of them.                *)
LEMMA EndsIs ==
  ASSUME NEW units \in Data
  PROVE  Ends(units) \in SUBSET (0 .. Len(units)) /\ 0 \in Ends(units) /\ Len(units) \in Nat
BY DEF Ends, Data

LEMMA DeliverType ==
  ASSUME NEW units \in Data, delivered \in Seq(Data), Deliver(units)
  PROVE  delivered' \in Seq(Data)
<1> DEFINE start(i) == Max({j \in Ends(units) : j < i})
           sdu(i) == SubSeq(units, start(i) + 1, i)
           passed == [i \in DOMAIN units |->
                        IF i \in Ends(units) /\ sdu(i) # <<Empty>> THEN <<sdu(i)>> ELSE <<>>]
<1>1. delivered' = delivered \o FlattenSeq(passed)
  BY DEF Deliver
<1>2. \A i \in DOMAIN units : sdu(i) \in Data
  <2> TAKE i \in DOMAIN units
  <2>1. i \in 1 .. Len(units) /\ Len(units) \in Nat
    BY DEF Data
  <2> DEFINE T == {j \in Ends(units) : j < i}
  <2>2. T \in SUBSET (0 .. Len(units)) /\ T # {}
    BY <2>1, EndsIs
  <2>3. start(i) \in T
    <3> HIDE DEF T
    <3>1. Max(T) \in T
      BY <2>1, <2>2, MaxIs
    <3> QED
      BY <3>1 DEF T
  <2>4. start(i) + 1 \in Nat \ {0}
    BY <2>2, <2>3
  <2> HIDE DEF start
  <2>5. units \in Seq(Unit) /\ i \in Int /\ i <= Len(units)
    BY <2>1 DEF Data
  <2> QED
    BY <2>4, <2>5, SubSeqIs DEF Data
<1>3. passed \in Seq(Seq(Data))
  <2> HIDE DEF sdu
  <2>1. \A i \in DOMAIN units :
          (IF i \in Ends(units) /\ sdu(i) # <<Empty>> THEN <<sdu(i)>> ELSE <<>>) \in Seq(Data)
    <3> TAKE i \in DOMAIN units
    <3>1. sdu(i) \in Data
      BY <1>2
    <3>2. <<sdu(i)>> \in Seq(Data) /\ <<>> \in Seq(Data)
      BY <3>1
    <3> QED
      BY <3>2
  <2>2. DOMAIN units = 1 .. Len(units) /\ Len(units) \in Nat
    BY DEF Data
  <2> QED
    BY <2>1, <2>2
<1>4. FlattenSeq(passed) \in Seq(Data)
  <2> HIDE DEF passed
  <2> QED
    BY <1>3, FlattenType
<1> QED
  BY <1>1, <1>4

LEMMA CollectedType ==
  ASSUME NEW x \in RxStates, NEW n \in Nat,
         \A k \in 0 .. n - 1 : (x.vr_r + k) % MOD \in DOMAIN x.window
  PROVE  Collected(x, n) \in Data
<1> DEFINE pdus == [k \in 1 .. n |-> x.window[(x.vr_r + k - 1) % MOD]]
<1>1. \A k \in 1 .. n : x.window[(x.vr_r + k - 1) % MOD] \in Data
  <2> TAKE k \in 1 .. n
  <2>1. k - 1 \in 0 .. n - 1 /\ x.vr_r + k - 1 = x.vr_r + (k - 1)
    BY RxFields DEF SNs
  <2>2. (x.vr_r + (k - 1)) % MOD \in DOMAIN x.window
    BY <2>1
  <2>3. (x.vr_r + k - 1) % MOD \in DOMAIN x.window
    BY <2>1, <2>2
  <2> QED
    BY <2>3, RxFields, MapsDef
<1>2. pdus \in Seq(Seq(Unit))
  BY <1>1 DEF Data
<1>3. FlattenSeq(pdus) \in Seq(Unit)
  <2> HIDE DEF pdus
  <2> QED
    BY <1>2, FlattenType
<1>4. Collected(x, n) = x.sdu \o FlattenSeq(pdus)
  BY DEF Collected
<1> HIDE DEF pdus
<1> QED
  BY <1>3, <1>4, RxFields DEF Data

LEMMA HighestType ==
  ASSUME NEW x \in RxStates, NEW sn \in SNs
  PROVE  Highest(x, sn) \in SNs
BY DistNext, RxFields DEF Highest

(* A PDU that the receiver does not have yet.                              *)
LEMMA StoredOK ==
  ASSUME NEW x, RxOK(x), NEW pdu, pdu.sn \in SNs, pdu.data \in Data, Inside(x, pdu.sn)
  PROVE  LET y == Stored(x, pdu) IN
         /\ RxOK(y)
         /\ y.vr_r = x.vr_r /\ y.vr_x = x.vr_x /\ y.reordering = x.reordering
         /\ y.vr_h = Highest(x, pdu.sn)
         /\ DOMAIN y.window = DOMAIN x.window \cup {pdu.sn}
         /\ y.vr_ms = FirstFree(y.window, x.vr_ms)
<1> DEFINE win == With(x.window, pdu.sn, pdu.data)
           h   == Highest(x, pdu.sn)
           ms  == FirstFree(win, x.vr_ms)
           y   == Stored(x, pdu)
<1>1. x \in RxStates /\ Within(x.window, x.vr_r) /\ Sorted(x.segments)
  BY DEF RxOK
<1>2. h \in SNs
  BY <1>1, HighestType
<1>3. win \in Maps(SNs, Data)
  BY <1>1, RxFields, WithMap, Zenon
<1>4. DOMAIN win = DOMAIN x.window \cup {pdu.sn}
  BY DEF With
<1> HIDE DEF win, h
<1>5. Within(win, x.vr_r)
  BY <1>1, <1>4 DEF Within, Inside
<1>6. ms \in SNs
  BY <1>1, <1>5, RxFields, FirstFreeType
<1>7. y = [x EXCEPT !.window = win, !.vr_h = h, !.vr_ms = ms]
  BY <1>1 DEF Stored, win, h, RxStates
<1> HIDE DEF ms, y
<1>8. /\ y \in RxStates /\ y.window = win /\ y.vr_h = h /\ y.vr_ms = ms
      /\ y.vr_r = x.vr_r /\ y.vr_x = x.vr_x /\ y.reordering = x.reordering
      /\ y.segments = x.segments
  BY <1>1, <1>2, <1>3, <1>6, <1>7 DEF RxStates
<1> QED
  BY <1>1, <1>4, <1>5, <1>8 DEF RxOK, y, h, ms

SameNumbers(x, y) ==
  /\ y.vr_r = x.vr_r /\ y.vr_x = x.vr_x /\ y.vr_ms = x.vr_ms
  /\ y.vr_h = x.vr_h /\ y.window = x.window /\ y.reordering = x.reordering

LEMMA WithPollOK ==
  ASSUME NEW x, RxOK(x), NEW pdu, pdu.poll \in BOOLEAN
  PROVE  /\ RxOK(WithPoll(x, pdu)) /\ SameNumbers(x, WithPoll(x, pdu))
         /\ RxOK(Answered(x, pdu)) /\ SameNumbers(x, Answered(x, pdu))
         /\ Answered(x, pdu).segments = x.segments
<1> DEFINE p == x.poll_received \/ pdu.poll
           d == x.do_status \/ (pdu.poll /\ Settled(x, pdu.sn))
           e == x.do_status \/ pdu.poll
           y == WithPoll(x, pdu)
           z == Answered(x, pdu)
<1>1. p \in BOOLEAN /\ d \in BOOLEAN /\ e \in BOOLEAN
  OBVIOUS
<1>2. y = [x EXCEPT !.poll_received = p, !.do_status = d] /\ z = [x EXCEPT !.do_status = e]
  BY DEF WithPoll, Answered
<1> HIDE DEF p, d, e, y, z
<1>3. x \in RxStates
  BY DEF RxOK
<1>4. /\ y \in RxStates /\ y.poll_received = p /\ y.do_status = d
      /\ SameNumbers(x, y) /\ y.segments = x.segments
  BY <1>1, <1>2, <1>3 DEF RxStates, SameNumbers
<1>5. /\ z \in RxStates /\ z.do_status = e
      /\ SameNumbers(x, z) /\ z.segments = x.segments
  BY <1>1, <1>2, <1>3 DEF RxStates, SameNumbers
<1> QED
  BY <1>4, <1>5, Zenon DEF RxOK, SameNumbers, y, z

(* Reassembly takes the n PDUs in order out of the window.                 *)
LEMMA ReassembledOK ==
  ASSUME NEW x, RxOK(x), NEW n \in 0 .. Window,
         NEW units \in Data,
         \A b \in SNs : Dist(x.vr_r, b) < n => b \in DOMAIN x.window
  PROVE  LET y == Reassembled(x, n, units) IN
         /\ RxOK(y)
         /\ y.vr_r = (x.vr_r + n) % MOD /\ y.vr_x = x.vr_x /\ y.vr_ms = x.vr_ms
         /\ y.vr_h = x.vr_h /\ y.reordering = x.reordering
         /\ \A b \in SNs : b \in DOMAIN y.window <=>
                             b \in DOMAIN x.window /\ Dist(x.vr_r, b) >= n
<1> DEFINE moved == {(x.vr_r + k) % MOD : k \in 0 .. n - 1}
           r     == (x.vr_r + n) % MOD
           win   == Without(x.window, moved)
           segs  == [sn \in DOMAIN x.segments |-> IF sn \in moved THEN <<>> ELSE x.segments[sn]]
           rest  == SubSeq(units, Max(Ends(units)) + 1, Len(units))
           y     == Reassembled(x, n, units)
<1>1. x \in RxStates /\ Within(x.window, x.vr_r) /\ Sorted(x.segments) /\ x.vr_r \in SNs
  BY RxFields DEF RxOK
<1>2. n \in 0 .. MOD /\ Dist(x.vr_r, x.vr_r) = 0 /\ n \in Nat
  BY <1>1, DistIs, Constants
<1>3. r \in SNs /\ Dist(x.vr_r, r) = n
  <2>1. Dist(x.vr_r, x.vr_r) + n < MOD
    BY <1>2, Constants
  <2>2. (x.vr_r + n) % MOD \in SNs
        /\ Dist(x.vr_r, (x.vr_r + n) % MOD) = Dist(x.vr_r, x.vr_r) + n
    BY <1>1, <1>2, <2>1, DistPlus
  <2> QED
    BY <1>2, <2>2
<1>4. \A b \in SNs : b \in moved <=> Dist(x.vr_r, b) < n
  BY <1>1, <1>2, FirstNumbers
<1>5. win \in Maps(SNs, Data)
  BY <1>1, RxFields, WithoutMap, Zenon
<1>6. DOMAIN win = DOMAIN x.window \ moved
  BY DEF Without
<1>7. DOMAIN x.window \subseteq SNs /\ DOMAIN x.segments \subseteq SNs
      /\ \A sn \in DOMAIN x.segments : x.segments[sn] \in SegMaps
  BY <1>1, RxFields, MapsDef
<1>8. <<>> \in SegMaps /\ DOMAIN <<>> = {}
  BY EmptyMap, FS_EmptySet DEF SegMaps
<1>9. segs \in Maps(SNs, SegMaps)
  <2>1. segs \in [DOMAIN x.segments -> SegMaps]
    BY <1>7, <1>8
  <2> QED
    BY <1>7, <2>1 DEF Maps
<1>10. Sorted(segs)
  <2> SUFFICES ASSUME NEW sn \in DOMAIN segs, NEW o \in DOMAIN segs[sn]
               PROVE  segs[sn][o].sn = sn
    BY DEF Sorted
  <2>1. sn \in DOMAIN x.segments /\ segs[sn] = IF sn \in moved THEN <<>> ELSE x.segments[sn]
    OBVIOUS
  <2> HIDE DEF segs, moved
  <2>2. segs[sn] = x.segments[sn]
    BY <1>8, <2>1
  <2> QED
    BY <1>1, <2>1, <2>2 DEF Sorted
<1>11. rest \in Data
  <2> DEFINE m == Max(Ends(units))
  <2>1. m \in 0 .. Len(units) /\ Len(units) \in Nat
    <3>1. Ends(units) \in SUBSET (0 .. Len(units)) /\ Ends(units) # {} /\ Len(units) \in Nat
      BY EndsIs
    <3> QED
      BY <3>1, MaxIs
  <2> HIDE DEF m
  <2>2. m + 1 \in Nat \ {0} /\ Len(units) \in Int /\ units \in Seq(Unit)
    BY <2>1 DEF Data
  <2>3. SubSeq(units, m + 1, Len(units)) \in Seq(Unit)
    BY <2>1, <2>2, SubSeqIs
  <2> QED
    BY <2>3 DEF m, Data
<1>12. y = [x EXCEPT !.vr_r = r, !.window = win, !.segments = segs, !.sdu = rest]
  BY DEF Reassembled
<1> HIDE DEF moved, r, win, segs, rest, y
<1>13. /\ y \in RxStates /\ y.window = win /\ y.segments = segs /\ y.vr_r = r
       /\ y.vr_x = x.vr_x /\ y.vr_ms = x.vr_ms
       /\ y.vr_h = x.vr_h /\ y.reordering = x.reordering
  BY <1>1, <1>3, <1>5, <1>9, <1>11, <1>12 DEF RxStates
<1>14. Within(win, r)
  <2> SUFFICES ASSUME NEW sn \in DOMAIN win
               PROVE  Dist(r, sn) < Window
    BY DEF Within
  <2>1. sn \in DOMAIN x.window /\ sn \in SNs /\ ~(Dist(x.vr_r, sn) < n)
    BY <1>4, <1>6, <1>7
  <2>2. Dist(x.vr_r, sn) < Window /\ Dist(x.vr_r, sn) \in Int
    BY <1>1, <2>1, DistIs DEF Within
  <2>3. Dist(r, sn) = IF Dist(x.vr_r, r) <= Dist(x.vr_r, sn) THEN Dist(x.vr_r, sn) - Dist(x.vr_r, r)
                      ELSE (Dist(x.vr_r, sn) - Dist(x.vr_r, r)) + MOD
    BY <1>1, <1>3, <2>1, DistVia
  <2> QED
    BY <1>2, <1>3, <2>1, <2>2, <2>3, Constants
<1>15. \A b \in SNs : b \in DOMAIN win <=> b \in DOMAIN x.window /\ Dist(x.vr_r, b) >= n
  <2> TAKE b \in SNs
  <2>1. Dist(x.vr_r, b) >= n <=> ~(Dist(x.vr_r, b) < n)
    BY <1>1, <1>2, DistIs
  <2> QED
    BY <1>4, <1>6, <2>1
<1> QED
  BY <1>10, <1>13, <1>14, <1>15 DEF RxOK, r, y

LEMMA ReorderedOK ==
  ASSUME NEW x, RxOK(x)
  PROVE  LET y == Reordered(x) IN
         /\ RxOK(y)
         /\ y.vr_r = x.vr_r /\ y.vr_ms = x.vr_ms /\ y.vr_h = x.vr_h /\ y.window = x.window
         /\ y.reordering =>
              \/ y.vr_x = x.vr_h /\ x.vr_h # x.vr_r
              \/ /\ x.reordering /\ y.vr_x = x.vr_x /\ x.vr_x # x.vr_r
                 /\ Inside(x, x.vr_x) \/ Dist(x.vr_r, x.vr_x) = Window
<1> DEFINE over == \/ x.vr_x = x.vr_r
                   \/ (~Inside(x, x.vr_x) /\ Dist(x.vr_r, x.vr_x) # Window)
           on   == x.reordering /\ ~over
           y    == Reordered(x)
<1>1. x \in RxStates
  BY DEF RxOK
<1>2. on \in BOOLEAN /\ TRUE \in BOOLEAN /\ x.vr_h \in SNs
  BY <1>1, RxFields
<1>3. CASE ~on /\ x.vr_h # x.vr_r
  <2>1. y = [x EXCEPT !.reordering = TRUE, !.vr_x = x.vr_h]
    BY <1>3 DEF Reordered
  <2> HIDE DEF y
  <2>2. /\ y \in RxStates /\ y.window = x.window /\ y.segments = x.segments /\ y.vr_r = x.vr_r
        /\ y.vr_x = x.vr_h /\ y.vr_ms = x.vr_ms /\ y.vr_h = x.vr_h
    BY <1>1, <1>2, <2>1 DEF RxStates
  <2> QED
    BY <1>3, <2>2 DEF RxOK, y
<1>4. CASE ~(~on /\ x.vr_h # x.vr_r)
  <2>1. y = [x EXCEPT !.reordering = on]
    BY <1>4 DEF Reordered
  <2> HIDE DEF y, on
  <2>2. /\ y \in RxStates /\ y.window = x.window /\ y.segments = x.segments /\ y.vr_r = x.vr_r
        /\ y.vr_x = x.vr_x /\ y.vr_ms = x.vr_ms /\ y.vr_h = x.vr_h
    BY <1>1, <1>2, <2>1 DEF RxStates
  <2>3. y.reordering = on
    BY <1>1, <2>1, Zenon DEF RxStates
  <2>4. on => /\ x.reordering /\ x.vr_x # x.vr_r
              /\ Inside(x, x.vr_x) \/ Dist(x.vr_r, x.vr_x) = Window
    BY Zenon DEF on
  <2> QED
    BY <2>2, <2>3, <2>4, Zenon DEF RxOK, y
<1> QED
  BY <1>3, <1>4

LEMMA WithoutSegmentsOK ==
  ASSUME NEW x, RxOK(x), NEW S
  PROVE  LET y == [x EXCEPT !.segments = Without(@, S)] IN
         /\ RxOK(y)
         /\ y.vr_r = x.vr_r /\ y.vr_x = x.vr_x /\ y.vr_ms = x.vr_ms
         /\ y.vr_h = x.vr_h /\ y.window = x.window /\ y.reordering = x.reordering
<1> DEFINE segs == Without(x.segments, S)
           y    == [x EXCEPT !.segments = segs]
<1>1. x \in RxStates
  BY DEF RxOK
<1>2. segs \in Maps(SNs, SegMaps)
  BY <1>1, RxFields, WithoutMap, Zenon
<1>3. Sorted(segs)
  <2>1. \A sn \in DOMAIN segs : sn \in DOMAIN x.segments /\ segs[sn] = x.segments[sn]
    BY DEF Without
  <2> QED
    BY <2>1 DEF RxOK, Sorted
<1> HIDE DEF segs
<1>4. /\ y \in RxStates /\ y.segments = segs
      /\ y.vr_r = x.vr_r /\ y.vr_x = x.vr_x /\ y.vr_ms = x.vr_ms
      /\ y.vr_h = x.vr_h /\ y.window = x.window /\ y.reordering = x.reordering
  BY <1>1, <1>2 DEF RxStates
<1> QED
  BY <1>3, <1>4 DEF RxOK, segs

(* What the receiver's numbers are after a PDU that it takes.              *)
Takes(x, sn, y) ==
  LET got == DOMAIN x.window \cup {sn} IN
  /\ Inside(x, sn) /\ sn \notin DOMAIN x.window
  /\ y.vr_h = Highest(x, sn)
  /\ y.vr_r \notin got /\ \A b \in SNs : Dist(x.vr_r, b) < Dist(x.vr_r, y.vr_r) => b \in got
  /\ y.vr_ms \notin got /\ \A b \in SNs : Dist(x.vr_ms, b) < Dist(x.vr_ms, y.vr_ms) => b \in got
  /\ \A b \in SNs : b \in DOMAIN y.window <=> b \in got /\ Dist(x.vr_r, b) >= Dist(x.vr_r, y.vr_r)
  /\ y.reordering =>
       \/ y.vr_x = y.vr_h /\ y.vr_h # y.vr_r
       \/ /\ x.reordering /\ y.vr_x = x.vr_x /\ x.vr_x # y.vr_r
          /\ Inside(y, x.vr_x) \/ Dist(y.vr_r, x.vr_x) = Window

LEMMA DataEffect ==
  ASSUME NEW x, RxOK(x), NEW pdu, pdu.sn \in SNs, pdu.data \in Data, pdu.poll \in BOOLEAN,
         NEW done, delivered \in Seq(Data), handle_data_pdu(x, pdu, done)
  PROVE  /\ RxOK(rx') /\ delivered' \in Seq(Data)
         /\ SameNumbers(x, rx') \/ Takes(x, pdu.sn, rx')
<1>1. CASE ~Inside(x, pdu.sn) \/ pdu.sn \in DOMAIN x.window
  <2> DEFINE a == Answered(x, pdu)
  <2>1. rx' = [a EXCEPT !.segments = Without(@, done)] /\ delivered' = delivered
    BY <1>1 DEF handle_data_pdu
  <2>2. RxOK(a) /\ SameNumbers(x, a)
    BY WithPollOK
  <2> HIDE DEF a
  <2>4. RxOK(rx') /\ SameNumbers(a, rx')
    BY <2>1, <2>2, WithoutSegmentsOK DEF SameNumbers
  <2> QED
    BY <2>1, <2>2, <2>4 DEF SameNumbers
<1>2. CASE Inside(x, pdu.sn) /\ pdu.sn \notin DOMAIN x.window
  <2> DEFINE y     == Stored(x, pdu)
             n     == InOrder(y)
             units == Collected(y, n)
             p     == WithPoll(y, pdu)
             z     == Reassembled(p, n, units)
             u     == Reordered(z)
  <2>1. rx' = [u EXCEPT !.segments = Without(@, done)] /\ Deliver(units)
    BY <1>2 DEF handle_data_pdu
  <2>2. /\ RxOK(y)
        /\ y.vr_r = x.vr_r /\ y.vr_x = x.vr_x /\ y.reordering = x.reordering
        /\ y.vr_h = Highest(x, pdu.sn)
        /\ DOMAIN y.window = DOMAIN x.window \cup {pdu.sn}
        /\ y.vr_ms = FirstFree(y.window, x.vr_ms)
    BY <1>2, StoredOK
  <2> HIDE DEF y
  <2>3. /\ y \in RxStates /\ y.vr_r \in SNs /\ x.vr_ms \in SNs /\ x.vr_r \in SNs
        /\ Within(y.window, y.vr_r)
    BY <2>2, RxFields DEF RxOK
  <2> DEFINE f == FirstFree(y.window, y.vr_r)
  <2>4. /\ f \in SNs /\ f \notin DOMAIN y.window /\ Dist(y.vr_r, f) <= Window
        /\ \A k \in 0 .. Dist(y.vr_r, f) - 1 : (y.vr_r + k) % MOD \in DOMAIN y.window
        /\ \A b \in SNs : Dist(y.vr_r, b) < Dist(y.vr_r, f) => b \in DOMAIN y.window
    BY <2>3, FirstFreeType
  <2>5. /\ y.vr_ms \notin DOMAIN y.window
        /\ \A b \in SNs : Dist(x.vr_ms, b) < Dist(x.vr_ms, y.vr_ms) => b \in DOMAIN y.window
    BY <2>2, <2>3, FirstFreeType
  <2>6. n = Dist(y.vr_r, f)
    BY DEF InOrder
  <2> HIDE DEF f, n
  <2>7. n \in 0 .. Window /\ n \in Nat /\ (y.vr_r + n) % MOD = f
    <3>1. Dist(y.vr_r, f) \in 0 .. MOD - 1 /\ (y.vr_r + Dist(y.vr_r, f)) % MOD = f
      BY <2>3, <2>4, DistIs, PlusDist
    <3> QED
      BY <2>4, <2>6, <3>1, Constants
  <2>8. units \in Data
    BY <2>3, <2>4, <2>6, <2>7, CollectedType
  <2> HIDE DEF units
  <2>9. delivered' \in Seq(Data)
    BY <2>1, <2>8, DeliverType
  <2>10. RxOK(p) /\ SameNumbers(y, p)
    BY <2>2, WithPollOK
  <2> HIDE DEF p
  <2>11. /\ RxOK(z)
         /\ z.vr_r = f /\ z.vr_x = y.vr_x /\ z.vr_ms = y.vr_ms
         /\ z.vr_h = y.vr_h /\ z.reordering = y.reordering
         /\ \A b \in SNs : b \in DOMAIN z.window <=>
                             b \in DOMAIN y.window /\ Dist(y.vr_r, b) >= n
    <3>1. \A b \in SNs : Dist(p.vr_r, b) < n => b \in DOMAIN p.window
      BY <2>4, <2>6, <2>10 DEF SameNumbers
    <3>2. /\ RxOK(z)
          /\ z.vr_r = (p.vr_r + n) % MOD /\ z.vr_x = p.vr_x /\ z.vr_ms = p.vr_ms
          /\ z.vr_h = p.vr_h /\ z.reordering = p.reordering
          /\ \A b \in SNs : b \in DOMAIN z.window <=>
                              b \in DOMAIN p.window /\ Dist(p.vr_r, b) >= n
      BY <2>7, <2>8, <2>10, <3>1, ReassembledOK
    <3> QED
      BY <2>7, <2>10, <3>2 DEF SameNumbers
  <2> HIDE DEF z
  <2>12. /\ RxOK(u)
         /\ u.vr_r = z.vr_r /\ u.vr_ms = z.vr_ms /\ u.vr_h = z.vr_h /\ u.window = z.window
         /\ u.reordering =>
              \/ u.vr_x = z.vr_h /\ z.vr_h # z.vr_r
              \/ /\ z.reordering /\ u.vr_x = z.vr_x /\ z.vr_x # z.vr_r
                 /\ Inside(z, z.vr_x) \/ Dist(z.vr_r, z.vr_x) = Window
    BY <2>11, ReorderedOK
  <2> HIDE DEF u
  <2>13. RxOK(rx') /\ SameNumbers(u, rx')
    BY <2>1, <2>12, WithoutSegmentsOK DEF SameNumbers
  <2>14. rx'.reordering =>
           \/ rx'.vr_x = rx'.vr_h /\ rx'.vr_h # rx'.vr_r
           \/ /\ x.reordering /\ rx'.vr_x = x.vr_x /\ x.vr_x # rx'.vr_r
              /\ Inside(rx', x.vr_x) \/ Dist(rx'.vr_r, x.vr_x) = Window
    BY <2>2, <2>11, <2>12, <2>13, Zenon DEF SameNumbers, Inside
  <2>15. Takes(x, pdu.sn, rx')
    BY <1>2, <2>2, <2>4, <2>5, <2>6, <2>11, <2>12, <2>13, <2>14 DEF SameNumbers, Takes
  <2> QED
    BY <2>9, <2>13, <2>15
<1> QED
  BY <1>1, <1>2

(* Segments of one PDU, with another; and the PDU they make.               *)
LEMMA AddedOK ==
  ASSUME NEW segs \in SegMaps, NEW seg \in Sent,
         \A o \in DOMAIN segs : segs[o].sn = seg.sn
  PROVE  /\ Added(segs, seg) \in SegMaps /\ DOMAIN Added(segs, seg) # {}
         /\ \A o \in DOMAIN Added(segs, seg) : Added(segs, seg)[o].sn = seg.sn
<1> DEFINE longer == seg.so \notin DOMAIN segs \/ Len(segs[seg.so].data) < Len(seg.data)
           all    == IF longer THEN With(segs, seg.so, seg) ELSE segs
           End(o) == o + Len(all[o].data)
           gone   == {o \in DOMAIN all : \E p \in DOMAIN all : p < o /\ End(p) >= End(o)}
<1>1. /\ segs \in Maps(Nat, Sent) /\ IsFiniteSet(DOMAIN segs)
      /\ \A o \in DOMAIN segs : segs[o].so = o
  BY DEF SegMaps
<1>2. seg.so \in Nat
  BY DEF Sent
<1>3. /\ all \in SegMaps /\ seg.so \in DOMAIN all
      /\ \A o \in DOMAIN all : all[o].sn = seg.sn
  <2>1. CASE longer
    <3> DEFINE w == With(segs, seg.so, seg)
    <3>1. w \in Maps(Nat, Sent)
      BY <1>1, <1>2, WithMap, Zenon
    <3>2. DOMAIN w = DOMAIN segs \cup {seg.so} /\ \A o \in DOMAIN w : w[o] = IF o = seg.so THEN seg ELSE segs[o]
      BY DEF With
    <3>3. IsFiniteSet(DOMAIN w)
      BY <1>1, <3>2, FS_AddElement
    <3> HIDE DEF w, longer
    <3>4. all = w
      BY <2>1 DEF w
    <3> HIDE DEF all
    <3> QED
      BY <1>1, <3>1, <3>2, <3>3, <3>4 DEF SegMaps
  <2>2. CASE ~longer
    <3>1. all = segs
      BY <2>2
    <3>2. seg.so \in DOMAIN segs
      BY <2>2
    <3> HIDE DEF all
    <3> QED
      BY <3>1, <3>2
  <2> QED
    BY <2>1, <2>2
<1>4. Added(segs, seg) = Without(all, gone)
  BY DEF Added
<1> HIDE DEF all
<1>5. all \in Maps(Nat, Sent) /\ IsFiniteSet(DOMAIN all) /\ \A o \in DOMAIN all : all[o].so = o
  BY <1>3 DEF SegMaps
<1>6. DOMAIN all \subseteq Nat
  BY <1>5, MapsDef
<1>7. PICK m \in DOMAIN all : \A o \in DOMAIN all : m <= o
  BY <1>3, <1>6, LeastNat
<1>8. m \notin gone
  <2>1. \A p \in DOMAIN all : ~(p < m)
    BY <1>6, <1>7
  <2> QED
    BY <2>1
<1> HIDE DEF gone
<1>9. Without(all, gone) \in Maps(Nat, Sent)
  BY <1>5, WithoutMap
<1>10. /\ DOMAIN Without(all, gone) = DOMAIN all \ gone
       /\ \A o \in DOMAIN Without(all, gone) : Without(all, gone)[o] = all[o]
  BY DEF Without
<1>11. IsFiniteSet(DOMAIN Without(all, gone))
  <2>1. DOMAIN Without(all, gone) \subseteq DOMAIN all
    BY <1>10
  <2> QED
    BY <1>5, <2>1, FS_Subset
<1> QED
  BY <1>3, <1>4, <1>5, <1>7, <1>8, <1>9, <1>10, <1>11 DEF SegMaps

LEMMA JoinedOK ==
  ASSUME NEW segs \in SegMaps, DOMAIN segs # {}, Complete(segs), NEW sn \in SNs,
         \A o \in DOMAIN segs : segs[o].sn = sn
  PROVE  Joined(segs).sn = sn /\ Joined(segs).data \in Data /\ Joined(segs).poll \in BOOLEAN
<1> DEFINE last == Max(DOMAIN segs)
           len  == last + Len(segs[last].data)
           poll == \E o \in DOMAIN segs : segs[o].poll
           unit(i) == LET o == Min(Covering(segs, i)) IN segs[o].data[i - o]
           data == [i \in 1 .. len |-> unit(i)]
<1>1. /\ DOMAIN segs \subseteq Nat /\ IsFiniteSet(DOMAIN segs)
      /\ \A o \in DOMAIN segs : segs[o] \in Sent
  BY MapsDef DEF SegMaps
<1>2. PICK n \in Nat : DOMAIN segs \subseteq 0 .. n
  BY <1>1, FiniteBounded
<1>3. last \in DOMAIN segs
  BY <1>2, MaxIs
<1>4. \A o \in DOMAIN segs : segs[o].data \in Seq(Unit)
  BY <1>1 DEF Sent, Data
<1>5. \A i \in 1 .. len : Covering(segs, i) # {}
  BY DEF Complete
<1>6. len \in Nat
  <2> HIDE DEF last
  <2>1. last \in Nat /\ segs[last].data \in Seq(Unit)
    BY <1>1, <1>3, <1>4
  <2> QED
    BY <2>1
<1> HIDE DEF len
<1>7. \A i \in 1 .. len : unit(i) \in Unit
  <2> TAKE i \in 1 .. len
  <2>1. Covering(segs, i) \in SUBSET Nat /\ Covering(segs, i) # {}
    BY <1>1, <1>5 DEF Covering
  <2> DEFINE o == Min(Covering(segs, i))
  <2>2. o \in Covering(segs, i)
    BY <2>1, MinIs
  <2> HIDE DEF o
  <2>3. o \in DOMAIN segs /\ o < i /\ i <= o + Len(segs[o].data) /\ o \in Nat
    BY <2>1, <2>2 DEF Covering
  <2>4. segs[o].data \in Seq(Unit) /\ i - o \in Int
    BY <1>4, <2>3
  <2>5. i - o \in 1 .. Len(segs[o].data)
    BY <1>6, <2>3, <2>4
  <2>6. segs[o].data[i - o] \in Unit
    BY <2>4, <2>5
  <2> QED
    BY <2>6 DEF o
<1>8. data \in Data
  <2> HIDE DEF unit
  <2>1. data \in [1 .. len -> Unit]
    BY <1>7
  <2> QED
    BY <1>6, <2>1 DEF Data
<1>9. Joined(segs) = Pdu(segs[last].sn, poll, data)
  BY DEF Joined, len
<1>10. poll \in BOOLEAN
  OBVIOUS
<1> HIDE DEF poll, data, last
<1>11. /\ Joined(segs).sn = segs[last].sn /\ Joined(segs).data = data
       /\ Joined(segs).poll = poll
  BY <1>9, <1>10 DEF Pdu
<1> QED
  BY <1>3, <1>8, <1>10, <1>11, Zenon

(* Segments of a PDU that are kept.                                        *)
LEMMA KeptSegments ==
  ASSUME NEW x, RxOK(x), NEW sn \in SNs, NEW segs \in SegMaps,
         \A o \in DOMAIN segs : segs[o].sn = sn
  PROVE  LET y == [x EXCEPT !.segments = With(@, sn, segs)] IN RxOK(y) /\ SameNumbers(x, y)
<1> DEFINE all == With(x.segments, sn, segs)
           y   == [x EXCEPT !.segments = all]
<1>1. x \in RxStates
  BY DEF RxOK
<1>2. all \in Maps(SNs, SegMaps)
  BY <1>1, RxFields, WithMap, Zenon
<1>3. Sorted(all)
  <2>1. /\ DOMAIN all = DOMAIN x.segments \cup {sn}
        /\ \A s \in DOMAIN all : all[s] = IF s = sn THEN segs ELSE x.segments[s]
    BY DEF With
  <2> HIDE DEF all
  <2> QED
    BY <2>1 DEF RxOK, Sorted
<1> HIDE DEF all
<1>4. y \in RxStates /\ y.segments = all /\ SameNumbers(x, y)
  BY <1>1, <1>2 DEF RxStates, SameNumbers
<1> QED
  BY <1>3, <1>4 DEF RxOK, SameNumbers, all

LEMMA HigherOK ==
  ASSUME NEW x, RxOK(x), NEW h \in SNs
  PROVE  LET y == [x EXCEPT !.vr_h = h] IN
         /\ RxOK(y) /\ y.vr_h = h
         /\ y.vr_r = x.vr_r /\ y.vr_x = x.vr_x /\ y.vr_ms = x.vr_ms
         /\ y.window = x.window /\ y.reordering = x.reordering /\ y.segments = x.segments
BY DEF RxOK, RxStates

(* The first segment of a PDU only moves VR(H).                            *)
Raises(x, sn, y) ==
  /\ Inside(x, sn)
  /\ y.vr_r = x.vr_r /\ y.vr_x = x.vr_x /\ y.vr_ms = x.vr_ms
  /\ y.vr_h = Highest(x, sn) /\ y.window = x.window /\ y.reordering = x.reordering

LEMMA SegmentEffect ==
  ASSUME NEW x, RxOK(x), NEW seg \in Sent,
         delivered \in Seq(Data), handle_data_pdu_segment(x, seg)
  PROVE  /\ RxOK(rx') /\ delivered' \in Seq(Data)
         /\ SameNumbers(x, rx') \/ Takes(x, seg.sn, rx') \/ Raises(x, seg.sn, rx')
<1>1. seg.sn \in SNs /\ seg.so \in Nat /\ seg.poll \in BOOLEAN
  BY DEF Sent
<1>2. x \in RxStates /\ x.segments \in Maps(SNs, SegMaps)
  BY RxFields DEF RxOK
<1>3. CASE ~Inside(x, seg.sn)
  <2>1. rx' = Answered(x, seg) /\ delivered' = delivered
    BY <1>3 DEF handle_data_pdu_segment
  <2>2. RxOK(Answered(x, seg)) /\ SameNumbers(x, Answered(x, seg))
    BY <1>1, WithPollOK
  <2> QED
    BY <2>1, <2>2
<1>4. CASE Inside(x, seg.sn) /\ seg.sn \notin DOMAIN x.segments
  <2> DEFINE one   == With(<<>>, seg.so, seg)
             h     == Highest(x, seg.sn)
             y     == [x EXCEPT !.segments = With(@, seg.sn, one)]
             first == [x EXCEPT !.segments = With(@, seg.sn, one), !.vr_h = h]
  <2>1. rx' = WithPoll(first, seg) /\ delivered' = delivered
    BY <1>4 DEF handle_data_pdu_segment
  <2>2. one \in SegMaps /\ \A o \in DOMAIN one : one[o].sn = seg.sn
    <3>1. <<>> \in Maps(Nat, Sent) /\ DOMAIN <<>> = {}
      BY EmptyMap
    <3>2. one \in Maps(Nat, Sent)
      BY <1>1, <3>1, WithMap, Zenon
    <3>3. DOMAIN one = {seg.so} /\ one[seg.so] = seg
      BY <3>1 DEF With
    <3>4. IsFiniteSet({seg.so})
      BY FS_Singleton
    <3> HIDE DEF one
    <3> QED
      BY <3>2, <3>3, <3>4 DEF SegMaps
  <2> HIDE DEF one
  <2>3. RxOK(y) /\ SameNumbers(x, y)
    BY <1>1, <2>2, KeptSegments
  <2>4. h \in SNs
    BY <1>1, <1>2, HighestType
  <2> HIDE DEF h
  <2>5. first = [y EXCEPT !.vr_h = h]
    BY <1>2 DEF RxStates
  <2> HIDE DEF y, first
  <2>6. /\ RxOK(first) /\ first.vr_h = h
        /\ first.vr_r = y.vr_r /\ first.vr_x = y.vr_x /\ first.vr_ms = y.vr_ms
        /\ first.window = y.window /\ first.reordering = y.reordering
    BY <2>3, <2>4, <2>5, HigherOK
  <2>7. RxOK(WithPoll(first, seg)) /\ SameNumbers(first, WithPoll(first, seg))
    BY <1>1, <2>6, WithPollOK
  <2> QED
    BY <1>4, <2>1, <2>3, <2>6, <2>7 DEF SameNumbers, Raises, h
<1>5. CASE Inside(x, seg.sn) /\ seg.sn \in DOMAIN x.segments
  <2> DEFINE old  == x.segments[seg.sn]
             segs == Added(old, seg)
             a    == Answered(x, seg)
             kept == [a EXCEPT !.segments[seg.sn] = segs]
  <2>1. IF Complete(segs) THEN handle_data_pdu(kept, Joined(segs), {seg.sn})
        ELSE rx' = kept /\ delivered' = delivered
    BY <1>5 DEF handle_data_pdu_segment
  <2>2. old \in SegMaps /\ \A o \in DOMAIN old : old[o].sn = seg.sn
    BY <1>2, <1>5, MapsDef DEF RxOK, Sorted
  <2> HIDE DEF old
  <2>3. segs \in SegMaps /\ DOMAIN segs # {} /\ \A o \in DOMAIN segs : segs[o].sn = seg.sn
    BY <2>2, AddedOK
  <2> HIDE DEF segs
  <2>4. RxOK(a) /\ SameNumbers(x, a) /\ a.segments = x.segments
    BY <1>1, WithPollOK
  <2> HIDE DEF a
  <2>5. kept = [a EXCEPT !.segments = With(@, seg.sn, segs)]
    <3>1. [a.segments EXCEPT ![seg.sn] = segs] = With(a.segments, seg.sn, segs)
      BY <1>5, <2>4 DEF With
    <3>2. a \in RxStates
      BY <2>4 DEF RxOK
    <3>3. kept = [a EXCEPT !.segments = [a.segments EXCEPT ![seg.sn] = segs]]
      BY <3>2 DEF RxStates
    <3> QED
      BY <3>1, <3>3, Zenon
  <2>6. RxOK(kept) /\ SameNumbers(a, kept)
    <3> HIDE DEF kept
    <3> QED
      BY <1>1, <2>3, <2>4, <2>5, KeptSegments
  <2> HIDE DEF kept
  <2>7. SameNumbers(x, kept)
    BY <2>4, <2>6 DEF SameNumbers
  <2>8. CASE ~Complete(segs)
    BY <2>1, <2>6, <2>7, <2>8
  <2>9. CASE Complete(segs)
    <3>1. Joined(segs).sn = seg.sn /\ Joined(segs).data \in Data /\ Joined(segs).poll \in BOOLEAN
      BY <1>1, <2>3, <2>9, JoinedOK
    <3>2. /\ RxOK(rx') /\ delivered' \in Seq(Data)
          /\ SameNumbers(kept, rx') \/ Takes(kept, seg.sn, rx')
      BY <1>1, <2>1, <2>6, <2>9, <3>1, DataEffect
    <3> QED
      BY <2>7, <3>2, Zenon DEF SameNumbers, Takes, Inside, Highest
  <2> QED
    BY <2>8, <2>9
<1> QED
  BY <1>3, <1>4, <1>5

-----------------------------------------------------------------------------
(* Type correctness.                                                       *)
Reports == [ack_sn : SNs, nacks : SUBSET SNs]
Controls(w) ==
  [pc : {"control"}, ack_sn : SNs, nacks : SUBSET SNs, i : SNs, vt_s : SNs,
   update : BOOLEAN, notify : SUBSET (1 .. w)]
CtrlStates(w) == {Idle, [pc |-> "poll"]} \cup Controls(w)

TxOK(w, x) ==
  x \in TxStates(w) /\ x.without_poll <= PollPdu /\ Len(x.queue) <= QueueLen /\ Slots(x.window)

HistoryOK ==
  /\ written \in 0 .. Len(SduLen)
  /\ discarded \subseteq 1 .. written /\ acked \subseteq 1 .. written

TypeInv ==
  /\ HistoryOK
  /\ TxOK(written, tx)
  /\ ctrl \in CtrlStates(written)
  /\ RxOK(rx) /\ delivered \in Seq(Data)
  /\ air \in Seq(Sent) /\ Len(air) <= InFlight
  /\ report \in Seq(Reports) /\ Len(report) <= 1
  /\ losses \in 0 .. MaxLoss

LEMMA WrittenIs ==
  ASSUME HistoryOK
  PROVE  written \in Nat /\ written <= Len(SduLen) /\ Len(SduLen) \in Nat
BY ConstantsAssumption DEF HistoryOK

LEMMA InitTypeInv ==
  ASSUME Init
  PROVE  TypeInv
<1>1. written = 0 /\ discarded = {} /\ acked = {} /\ ctrl = Idle /\ delivered = <<>>
      /\ air = <<>> /\ report = <<>> /\ losses = 0
  BY DEF Init
<1>2. HistoryOK
  BY <1>1, ConstantsAssumption DEF HistoryOK
<1>3. <<>> \in Maps(SNs, Data) /\ <<>> \in Maps(SNs, SegMaps) /\ <<>> \in Windows(0)
      /\ <<>> \in Maps(1 .. 0, SUBSET SNs) /\ DOMAIN <<>> = {}
  BY EmptyMap DEF Windows
<1>4. <<>> \in Data /\ <<>> \in Seq(WUnit(0)) /\ <<>> \in Seq(0 .. 0) /\ <<>> \in Seq(Entries)
      /\ <<>> \in Seq(Data) /\ <<>> \in Seq(Sent) /\ <<>> \in Seq(Reports) /\ Len(<<>>) = 0
  BY DEF Data
<1>5. 0 \in SNs /\ 0 \in 0 .. PollPdu + 1 /\ 0 <= PollPdu /\ 0 <= QueueLen /\ 0 <= InFlight
      /\ 0 <= 1 /\ 0 \in 0 .. MaxLoss
  BY Constants, ConstantsAssumption
<1>6. TxOK(0, tx)
  <2>1. tx = [vt_a |-> 0, vt_s |-> 0, poll_sn |-> 0, without_poll |-> 0,
              queue |-> <<>>, sdu |-> <<>>, window |-> <<>>, retx |-> <<>>,
              info |-> <<>>, poll_timer |-> "stopped"]
    BY DEF Init
  <2>2. tx \in TxStates(0)
    BY <2>1, <1>3, <1>4, <1>5 DEF TxStates
  <2> QED
    BY <2>1, <2>2, <1>3, <1>4, <1>5 DEF TxOK, Slots
<1>7. RxOK(rx)
  <2>1. rx = [vr_r |-> 0, vr_x |-> 0, vr_ms |-> 0, vr_h |-> 0,
              window |-> <<>>, segments |-> <<>>, sdu |-> <<>>,
              poll_received |-> FALSE, do_status |-> FALSE,
              reordering |-> FALSE, prohibit |-> FALSE]
    BY DEF Init
  <2>2. rx \in RxStates
    BY <2>1, <1>3, <1>4, <1>5 DEF RxStates
  <2> QED
    BY <2>1, <2>2, <1>3 DEF RxOK, Within, Sorted
<1> QED
  BY <1>1, <1>2, <1>4, <1>5, <1>6, <1>7 DEF TypeInv, CtrlStates

(* What read_pdu does to the numbers.                                      *)
Resent ==
  /\ tx'.vt_s = tx.vt_s /\ tx'.window = tx.window
  /\ \/ air' = air
     \/ \E p \in Sent : air' = Append(air, p) /\ p.sn \in DOMAIN tx.window
SentNew ==
  /\ NoStraggler
  /\ tx'.vt_s = Next1(tx.vt_s)
  /\ DOMAIN tx'.window = (DOMAIN tx.window \ SameSlot(tx)) \cup {tx.vt_s}
  /\ \E p \in Sent : air' = Append(air, p) /\ p.sn = tx.vt_s

(* What a new PDU, or none, does to them.                                  *)
LEMMA DataSent ==
  ASSUME TypeInv, NEW y \in TxStates(written), Frame(tx, y), y.without_poll <= PollPdu,
         NEW g \in Nat, BuildData(y, g)
  PROVE  /\ TxOK(written, tx') /\ tx'.vt_a = tx.vt_a
         /\ Resent \/ SentNew
<1> DEFINE w == written
<1>1. w \in Nat /\ w <= Len(SduLen)
  BY WrittenIs DEF TypeInv
<1>2. tx \in TxStates(w) /\ tx.without_poll <= PollPdu /\ Len(tx.queue) <= QueueLen /\ Slots(tx.window)
  BY DEF TypeInv, TxOK
<1>3. y \in TxStates(w)
  OBVIOUS
<1> HIDE DEF w
<1>4. \/ tx' = y /\ air' = air
      \/ /\ NoStraggler
         /\ tx' \in TxStates(w) /\ tx'.without_poll <= PollPdu
         /\ tx'.vt_a = y.vt_a /\ tx'.vt_s = Next1(y.vt_s)
         /\ Len(tx'.queue) <= Len(y.queue)
         /\ DOMAIN tx'.window = (DOMAIN y.window \ SameSlot(y)) \cup {y.vt_s}
         /\ Slots(y.window) => Slots(tx'.window)
         /\ \E p \in Sent : air' = Append(air, p) /\ p.sn = y.vt_s
  BY <1>1, <1>3, BuildDataType
<1>5. CASE tx' = y /\ air' = air
  BY <1>2, <1>3, <1>5 DEF Frame, Resent, TxOK, w
<1>6. CASE ~(tx' = y /\ air' = air)
  <2>1. Len(tx'.queue) \in Int /\ Len(tx.queue) \in Int /\ QueueLen \in Int
    BY <1>1, <1>2, <1>4, <1>6, TxFields, ConstantsAssumption
  <2>2. SameSlot(y) = SameSlot(tx)
    BY DEF Frame, SameSlot
  <2>3. SentNew /\ tx'.vt_a = tx.vt_a
    BY <1>4, <1>6, <2>2 DEF Frame, SentNew
  <2>4. TxOK(w, tx')
    BY <1>2, <1>4, <1>6, <2>1 DEF Frame, TxOK
  <2> QED
    BY <2>3, <2>4 DEF w
<1> QED
  BY <1>5, <1>6

LEMMA ReadEffect ==
  ASSUME TypeInv, NEW g \in Nat, NEW fits, read_pdu(g, fits)
  PROVE  /\ TxOK(written, tx') /\ tx'.vt_a = tx.vt_a
         /\ Resent \/ SentNew
<1> DEFINE w == written
           x == IF Full(tx) /\ tx.retx = <<>> THEN retransmit_pdu(tx, tx.vt_a) ELSE tx
           y == DropStale(x)
<1>1. w \in Nat /\ w <= Len(SduLen)
  BY WrittenIs DEF TypeInv
<1>2. tx \in TxStates(w) /\ tx.without_poll <= PollPdu /\ Len(tx.queue) <= QueueLen /\ Slots(tx.window)
  BY DEF TypeInv, TxOK
<1>3. IF y.retx # <<>> THEN BuildRetx(y, g, fits) ELSE BuildData(y, g)
  BY DEF read_pdu
<1>4. x \in TxStates(w) /\ Frame(tx, x) /\ x.without_poll = tx.without_poll
  <2> HIDE DEF w
  <2>1. LET z == retransmit_pdu(tx, tx.vt_a) IN
        z \in TxStates(w) /\ Frame(tx, z) /\ z.without_poll = tx.without_poll
    BY <1>1, <1>2, RetransmitType
  <2>2. Frame(tx, tx)
    BY DEF Frame
  <2> QED
    BY <1>2, <2>1, <2>2
<1> HIDE DEF x, w
<1>5. /\ y \in TxStates(w) /\ Frame(x, y) /\ y.without_poll = x.without_poll
      /\ y.retx # <<>> => Head(y.retx).sn \in DOMAIN y.window
  BY <1>1, <1>4, DropStaleType
<1> HIDE DEF y
<1>6. Frame(tx, y) /\ y.without_poll <= PollPdu
  BY <1>2, <1>4, <1>5 DEF Frame
<1>7. ASSUME NEW z \in TxStates(w), Frame(tx, z), z.without_poll <= PollPdu, BuildData(z, g)
      PROVE  TxOK(written, tx') /\ tx'.vt_a = tx.vt_a /\ (Resent \/ SentNew)
  BY <1>7, DataSent DEF w
<1>8. CASE y.retx # <<>>
  <2> DEFINE z == Polled(Counted(y))
  <2>1. BuildRetx(y, g, fits)
    BY <1>3, <1>8
  <2>2. \/ /\ tx' \in TxStates(w) /\ Frame(y, tx') /\ tx'.without_poll <= PollPdu
           /\ \E p \in Sent : air' = Append(air, p) /\ p.sn \in DOMAIN y.window
        \/ BuildData(z, g)
    BY <2>1, <1>1, <1>5, <1>6, <1>8, BuildRetxType
  <2>3. CASE BuildData(z, g)
    <3>1. z \in TxStates(w) /\ Frame(y, z) /\ z.without_poll <= PollPdu
      BY <1>1, <1>5, <1>6, PolledType
    <3> HIDE DEF z
    <3>2. Frame(tx, z)
      BY <1>6, <3>1 DEF Frame
    <3> QED
      BY <1>7, <2>3, <3>1, <3>2
  <2>4. CASE ~BuildData(z, g)
    <3>1. /\ tx' \in TxStates(w) /\ Frame(y, tx') /\ tx'.without_poll <= PollPdu
          /\ \E p \in Sent : air' = Append(air, p) /\ p.sn \in DOMAIN y.window
      BY <2>2, <2>4
    <3>2. Frame(tx, tx')
      BY <1>6, <3>1 DEF Frame
    <3> QED
      BY <1>2, <1>6, <3>1, <3>2 DEF Frame, Resent, TxOK, w
  <2> QED
    BY <2>3, <2>4
<1>9. CASE y.retx = <<>>
  BY <1>3, <1>5, <1>6, <1>7, <1>9
<1> QED
  BY <1>8, <1>9

LEMMA RetransmitOK ==
  ASSUME NEW w \in Nat, NEW x, TxOK(w, x), NEW sn
  PROVE  TxOK(w, retransmit_pdu(x, sn)) /\ Frame(x, retransmit_pdu(x, sn))
<1> DEFINE y == retransmit_pdu(x, sn)
<1>1. y \in TxStates(w) /\ Frame(x, y) /\ y.without_poll = x.without_poll
  BY RetransmitType DEF TxOK
<1> HIDE DEF y
<1> QED
  BY <1>1 DEF TxOK, Frame, y

LEMMA TypeWrite ==
  ASSUME TypeInv, write_sdu
  PROVE  TypeInv'
<1>1. /\ written' = written + 1 /\ written < Len(SduLen) /\ ctrl = Idle /\ ctrl' = Idle
      /\ rx' = rx /\ air' = air /\ report' = report /\ losses' = losses
      /\ delivered' = delivered /\ acked' = acked
  BY DEF write_sdu, radio
<1>2. written \in Nat /\ Len(SduLen) \in Nat
  BY WrittenIs DEF TypeInv
<1>3. TxOK(written, tx) /\ TxStates(written) \subseteq TxStates(written')
  BY <1>1, <1>2, TxGrows DEF TypeInv
<1>4. TxOK(written', tx)
  BY <1>3 DEF TxOK
<1>5. TxOK(written', tx') /\ discarded' \subseteq 1 .. written'
  <2>1. discarded \subseteq 1 .. written'
    BY <1>1, <1>2 DEF TypeInv, HistoryOK
  <2>2. CASE Len(tx.queue) < QueueLen
    <3> DEFINE queue == Append(tx.queue, written')
    <3>1. tx' = [tx EXCEPT !.queue = queue] /\ discarded' = discarded
      BY <2>2 DEF write_sdu
    <3>2. tx.queue \in Seq(0 .. written') /\ written' \in 0 .. written'
      BY <1>1, <1>2, <1>4, TxFields DEF TxOK
    <3>3. queue \in Seq(0 .. written') /\ Len(queue) = Len(tx.queue) + 1 /\ Len(tx.queue) \in Nat
      BY <3>2
    <3> HIDE DEF queue
    <3>4. tx' \in TxStates(written') /\ tx'.queue = queue /\ tx'.without_poll = tx.without_poll
          /\ tx'.window = tx.window
      BY <1>4, <3>1, <3>3 DEF TxOK, TxStates
    <3> QED
      BY <1>4, <2>1, <2>2, <3>1, <3>3, <3>4, ConstantsAssumption DEF TxOK
  <2>3. CASE ~(Len(tx.queue) < QueueLen)
    <3>1. tx' = tx /\ discarded' = discarded \cup {written'}
      BY <2>3 DEF write_sdu
    <3> QED
      BY <1>1, <1>2, <1>4, <2>1, <3>1
  <2> QED
    BY <2>2, <2>3
<1>6. HistoryOK'
  BY <1>1, <1>2, <1>5 DEF TypeInv, HistoryOK
<1> QED
  BY <1>1, <1>5, <1>6 DEF TypeInv, CtrlStates

LEMMA TypeDiscard ==
  ASSUME TypeInv, NEW s \in Discards, discard_sdu(s)
  PROVE  TypeInv'
<1>1. /\ written' = written /\ ctrl' = ctrl /\ discarded' = discarded \cup {s}
      /\ rx' = rx /\ air' = air /\ report' = report /\ losses' = losses
      /\ delivered' = delivered /\ acked' = acked
  BY DEF discard_sdu, radio
<1>2. written \in Nat
  BY WrittenIs DEF TypeInv
<1>3. PICK i \in DOMAIN tx.queue : tx.queue[i] = s /\ tx' = [tx EXCEPT !.queue[i] = 0]
  BY DEF discard_sdu
<1>4. tx \in TxStates(written) /\ tx.queue \in Seq(0 .. written) /\ TxOK(written, tx)
  BY <1>2, TxFields DEF TypeInv, TxOK
<1>5. s \in 1 .. written
  <2>1. s \in 0 .. written
    <3> DEFINE q == tx.queue
    <3>1. q \in Seq(0 .. written)
      BY <1>4
    <3>2. i \in DOMAIN q /\ q[i] = s
      BY <1>3
    <3> HIDE DEF q
    <3>3. \A S : q \in Seq(S) => q[i] \in S
      BY <3>2
    <3> QED
      BY <3>1, <3>2, <3>3
  <2>2. s \in DOMAIN SduLen
    BY ConstantsAssumption
  <2>3. s \in Nat \ {0}
    BY <2>2, UnitIs
  <2> QED
    BY <1>2, <2>1, <2>3
<1> DEFINE queue == [tx.queue EXCEPT ![i] = 0]
<1>6. queue \in Seq(0 .. written) /\ Len(queue) = Len(tx.queue)
  <2>1. 0 \in 0 .. written
    BY <1>2
  <2> QED
    BY <1>4, <2>1
<1>7. tx' = [tx EXCEPT !.queue = queue]
  BY <1>3
<1> HIDE DEF queue
<1>8. TxOK(written, tx')
  BY <1>4, <1>6, <1>7 DEF TxOK, TxStates
<1> QED
  BY <1>1, <1>5, <1>8 DEF TypeInv, HistoryOK

LEMMA TypeRead ==
  ASSUME TypeInv, NEW g \in Nat, NEW fits, read_pdu(g, fits)
  PROVE  TypeInv'
<1>1. /\ Len(air) < InFlight /\ written' = written /\ ctrl' = ctrl /\ discarded' = discarded
      /\ rx' = rx /\ report' = report /\ losses' = losses
      /\ delivered' = delivered /\ acked' = acked
  BY DEF read_pdu, pdcp
<1>2. TxOK(written, tx') /\ (air' = air \/ \E p \in Sent : air' = Append(air, p))
  BY ReadEffect DEF Resent, SentNew
<1>3. air' \in Seq(Sent) /\ Len(air') <= InFlight
  <2>1. air \in Seq(Sent) /\ Len(air) \in Nat /\ InFlight \in Nat
    BY ConstantsAssumption DEF TypeInv
  <2>2. CASE air' = air
    BY <1>1, <2>1, <2>2
  <2>3. CASE \E p \in Sent : air' = Append(air, p)
    <3>1. PICK p \in Sent : air' = Append(air, p)
      BY <2>3
    <3>2. Append(air, p) \in Seq(Sent) /\ Len(Append(air, p)) = Len(air) + 1
      BY <2>1
    <3> QED
      BY <1>1, <2>1, <3>1, <3>2
  <2> QED
    BY <1>2, <2>2, <2>3
<1> QED
  BY <1>1, <1>2, <1>3 DEF TypeInv, HistoryOK

LEMMA TypeStatus ==
  ASSUME TypeInv, ReceiveStatus
  PROVE  TypeInv'
<1> DEFINE st    == Head(report)
           valid == Dist(tx.vt_a, st.ack_sn) <= Window /\ Dist(st.ack_sn, tx.vt_s) <= Window
<1>1. /\ ctrl = Idle /\ report # <<>> /\ report' = <<>>
      /\ rx' = rx /\ air' = air /\ losses' = losses /\ written' = written
      /\ discarded' = discarded /\ delivered' = delivered /\ acked' = acked
  BY DEF ReceiveStatus, pdcp
<1>2. written \in Nat /\ TxOK(written, tx) /\ tx \in TxStates(written)
  BY WrittenIs DEF TypeInv, TxOK
<1>3. st \in Reports
  BY <1>1 DEF TypeInv
<1>4. CASE valid
  <2> DEFINE pt   == IF Dist(tx.vt_a, tx.poll_sn) < Dist(tx.vt_a, st.ack_sn)
                        /\ tx.poll_timer = "running"
                     THEN "stopped" ELSE tx.poll_timer
             retx == IF st.nacks # {} THEN <<>> ELSE tx.retx
  <2>1. /\ ctrl' = [pc |-> "control", ack_sn |-> st.ack_sn, nacks |-> st.nacks,
                    i |-> tx.vt_a, vt_s |-> tx.vt_s, update |-> TRUE, notify |-> {}]
        /\ tx' = [tx EXCEPT !.poll_timer = pt, !.retx = retx]
    BY <1>4 DEF ReceiveStatus
  <2>2. st.ack_sn \in SNs /\ st.nacks \in SUBSET SNs /\ tx.vt_a \in SNs /\ tx.vt_s \in SNs
    BY <1>2, <1>3, TxFields DEF Reports
  <2>3. ctrl' \in Controls(written)
    BY <2>1, <2>2 DEF Controls
  <2>4. pt \in {"stopped", "running", "expired"} /\ retx \in Seq(Entries)
    <3>1. <<>> \in Seq(Entries)
      OBVIOUS
    <3> QED
      BY <1>2, <3>1, TxFields
  <2> HIDE DEF pt, retx
  <2>5. TxOK(written, tx')
    BY <1>2, <2>1, <2>4 DEF TxOK, TxStates
  <2> QED
    BY <1>1, <2>3, <2>5 DEF TypeInv, HistoryOK, CtrlStates
<1>5. CASE ~valid
  <2>1. ctrl' = ctrl /\ tx' = tx
    BY <1>5 DEF ReceiveStatus
  <2> QED
    BY <1>1, <2>1 DEF TypeInv, HistoryOK
<1> QED
  BY <1>4, <1>5

LEMMA CtrlIs ==
  ASSUME NEW w, NEW c \in CtrlStates(w)
  PROVE  /\ c.pc \in {"idle", "poll", "control"}
         /\ c.pc = "control" => c \in Controls(w)
BY DEF CtrlStates, Controls, Idle

LEMMA TypeNack ==
  ASSUME TypeInv, Nack
  PROVE  TypeInv'
<1>1. /\ ctrl.pc = "control" /\ ctrl' = [ctrl EXCEPT !.update = FALSE, !.i = Next1(ctrl.i)]
      /\ tx' = IF \E k \in DOMAIN tx.retx : tx.retx[k].sn = ctrl.i THEN tx
               ELSE retransmit_pdu(tx, ctrl.i)
      /\ rx' = rx /\ air' = air /\ report' = report /\ losses' = losses /\ written' = written
      /\ discarded' = discarded /\ delivered' = delivered /\ acked' = acked
  BY DEF Nack, MoreToCheck, radio, pdcp
<1>2. written \in Nat /\ TxOK(written, tx) /\ ctrl \in Controls(written)
  BY <1>1, WrittenIs, CtrlIs DEF TypeInv
<1>3. TxOK(written, tx')
  <2>1. TxOK(written, retransmit_pdu(tx, ctrl.i))
    BY <1>2, RetransmitOK
  <2> QED
    BY <1>1, <1>2, <2>1
<1>4. ctrl' \in Controls(written)
  <2>1. ctrl.i \in SNs
    BY <1>2 DEF Controls
  <2>2. Next1(ctrl.i) \in SNs
    BY <2>1, DistNext
  <2> QED
    BY <1>1, <1>2, <2>2 DEF Controls
<1> QED
  BY <1>1, <1>3, <1>4 DEF TypeInv, HistoryOK, CtrlStates

LEMMA TypeAck ==
  ASSUME TypeInv, Ack
  PROVE  TypeInv'
<1> DEFINE w       == written
           present == ctrl.i \in DOMAIN tx.window
           done    == IF present THEN Confirmed(ctrl.i) ELSE {}
           win     == Without(tx.window, {ctrl.i})
           info    == [s \in DOMAIN tx.info \ done |->
                         IF present THEN tx.info[s] \ {ctrl.i} ELSE tx.info[s]]
           a       == IF ctrl.update THEN Next1(tx.vt_a) ELSE tx.vt_a
<1>1. /\ ctrl.pc = "control"
      /\ tx' = [tx EXCEPT !.window = win, !.info = info, !.vt_a = a]
      /\ ctrl' = [ctrl EXCEPT !.i = Next1(ctrl.i), !.notify = ctrl.notify \cup done]
      /\ rx' = rx /\ air' = air /\ report' = report /\ losses' = losses /\ written' = written
      /\ discarded' = discarded /\ delivered' = delivered /\ acked' = acked
  BY DEF Ack, MoreToCheck, radio, pdcp
<1>2. w \in Nat /\ w <= Len(SduLen) /\ TxOK(w, tx) /\ ctrl \in Controls(w) /\ tx \in TxStates(w)
  BY <1>1, WrittenIs, CtrlIs DEF TypeInv, TxOK
<1> HIDE DEF w
<1>3. tx.window \in Windows(w) /\ tx.info \in Maps(1 .. w, SUBSET SNs) /\ tx.vt_a \in SNs
  BY <1>2, TxFields
<1>4. win \in Windows(w) /\ Slots(win)
  <2>1. win \in Windows(w)
    BY <1>3, WithoutMap DEF Windows
  <2>2. DOMAIN win = DOMAIN tx.window \ {ctrl.i}
    BY DEF Without
  <2> QED
    BY <1>2, <2>1, <2>2 DEF TxOK, Slots
<1>5. done \subseteq 1 .. w
  <2>1. CASE present
    <3>1. tx.window[ctrl.i] \in Seq(WUnit(w))
      BY <1>3, <2>1, WindowIs
    <3>2. SdusOf(tx.window[ctrl.i]) \subseteq 1 .. w
      BY <1>2, <3>1, SdusOfType
    <3> QED
      BY <2>1, <3>2 DEF Confirmed
  <2>2. CASE ~present
    BY <2>2
  <2> QED
    BY <2>1, <2>2
<1> HIDE DEF done, present
<1>6. info \in Maps(1 .. w, SUBSET SNs)
  <2>1. DOMAIN tx.info \subseteq 1 .. w /\ \A s \in DOMAIN tx.info : tx.info[s] \in SUBSET SNs
    <3> DEFINE f == tx.info
               A == 1 .. w
               B == SUBSET SNs
    <3>1. f \in Maps(A, B)
      BY <1>3
    <3> HIDE DEF A, B, f
    <3>2. DOMAIN f \subseteq A /\ \A s \in DOMAIN f : f[s] \in B
      BY <3>1, MapsDef
    <3> QED
      BY <3>2 DEF A, B, f
  <2>2. info \in [DOMAIN tx.info \ done -> SUBSET SNs]
    BY <2>1
  <2> QED
    BY <2>1, <2>2 DEF Maps
<1>7. a \in SNs
  BY <1>3, DistNext
<1> HIDE DEF win, info, a
<1>8. TxOK(w, tx')
  BY <1>1, <1>2, <1>4, <1>6, <1>7 DEF TxOK, TxStates
<1>9. ctrl' \in Controls(w)
  <2>1. ctrl.i \in SNs /\ ctrl.notify \in SUBSET (1 .. w)
    BY <1>2 DEF Controls
  <2>2. Next1(ctrl.i) \in SNs /\ ctrl.notify \cup done \in SUBSET (1 .. w)
    BY <1>5, <2>1, DistNext
  <2> QED
    BY <1>1, <1>2, <2>2 DEF Controls
<1> QED
  BY <1>1, <1>8, <1>9 DEF TypeInv, HistoryOK, CtrlStates, w

LEMMA TypeNotify ==
  ASSUME TypeInv, NotifyDelivery
  PROVE  TypeInv'
<1>1. /\ ctrl.pc = "control" /\ ctrl' = Idle /\ acked' = acked \cup ctrl.notify
      /\ tx' = tx /\ rx' = rx /\ air' = air /\ report' = report /\ losses' = losses
      /\ written' = written /\ discarded' = discarded /\ delivered' = delivered
  BY DEF NotifyDelivery, radio
<1>2. ctrl.notify \in SUBSET (1 .. written)
  <2>1. ctrl \in Controls(written)
    BY <1>1, CtrlIs DEF TypeInv
  <2> QED
    BY <2>1 DEF Controls
<1> QED
  BY <1>1, <1>2 DEF TypeInv, HistoryOK, CtrlStates

LEMMA TypePoll ==
  ASSUME TypeInv, PollTimerExpires \/ timer_expired
  PROVE  TypeInv'
<1>1. /\ rx' = rx /\ air' = air /\ report' = report /\ losses' = losses /\ written' = written
      /\ discarded' = discarded /\ delivered' = delivered /\ acked' = acked
  BY DEF PollTimerExpires, timer_expired, radio, pdcp
<1>2. written \in Nat /\ TxOK(written, tx)
  BY WrittenIs DEF TypeInv
<1>3. CASE PollTimerExpires
  <2>1. tx' = [tx EXCEPT !.poll_timer = "expired"] /\ ctrl' = [pc |-> "poll"]
    BY <1>3 DEF PollTimerExpires
  <2>2. TxOK(written, tx')
    BY <1>2, <2>1 DEF TxOK, TxStates
  <2> QED
    BY <1>1, <2>1, <2>2 DEF TypeInv, HistoryOK, CtrlStates
<1>4. CASE timer_expired
  <2>1. ctrl' = Idle /\ (tx' = tx \/ tx' = retransmit_pdu(tx, tx.vt_a))
    BY <1>4 DEF timer_expired
  <2>2. TxOK(written, retransmit_pdu(tx, tx.vt_a))
    BY <1>2, RetransmitOK
  <2>3. TxOK(written, tx')
    BY <1>2, <2>1, <2>2
  <2> QED
    BY <1>1, <2>1, <2>3 DEF TypeInv, HistoryOK, CtrlStates
<1> QED
  BY <1>3, <1>4

(* One PDU leaves the air; the one before it may be marked as passed.      *)
LEMMA Received ==
  ASSUME TypeInv, NEW i \in 1 .. 2, ReceiveData(i)
  PROVE  /\ i \in DOMAIN air /\ air[i] \in Sent
         /\ air' \in Seq(Sent) /\ Len(air') = Len(air) - 1
         /\ \A j \in DOMAIN air' : \E k \in DOMAIN air : air'[j].sn = air[k].sn
<1>1. /\ air \in Seq(Sent) /\ i \in DOMAIN air
      /\ air' = IF i = 1 THEN Tail(air) ELSE RemoveAt([air EXCEPT ![1].passed = TRUE], 2)
  BY DEF TypeInv, ReceiveData
<1>2. Len(air) \in Nat /\ i \in 1 .. Len(air) /\ air[i] \in Sent
  BY <1>1
<1>3. CASE i = 1
  <2>1. air' = Tail(air) /\ Len(air) >= 1
    BY <1>1, <1>2, <1>3
  <2>2. Tail(air) \in Seq(Sent) /\ Len(Tail(air)) = Len(air) - 1
        /\ \A j \in 1 .. Len(air) - 1 : Tail(air)[j] = air[j + 1] /\ j + 1 \in DOMAIN air
    BY <1>1, <2>1
  <2>3. DOMAIN air' = 1 .. Len(air) - 1
    BY <2>1, <2>2
  <2> QED
    BY <1>1, <1>2, <2>1, <2>2, <2>3
<1>4. CASE i = 2
  <2> DEFINE first == [air[1] EXCEPT !.passed = TRUE]
             s == [air EXCEPT ![1].passed = TRUE]
  <2>1. Len(air) >= 2 /\ 1 \in DOMAIN air /\ air[1] \in Sent
    BY <1>1, <1>2, <1>4
  <2>2. first \in Sent /\ first.sn = air[1].sn
    BY <2>1 DEF Sent
  <2>3. s = [air EXCEPT ![1] = first]
    OBVIOUS
  <2> HIDE DEF first, s
  <2>4. s \in Seq(Sent) /\ Len(s) = Len(air) /\ \A j \in DOMAIN air : s[j] = IF j = 1 THEN first ELSE air[j]
    BY <1>1, <2>2, <2>3
  <2>5. \A j \in DOMAIN air : s[j].sn = air[j].sn
    BY <2>2, <2>4
  <2>6. air' = SubSeq(s, 1, 1) \o SubSeq(s, 3, Len(s))
    <3>1. air' = RemoveAt(s, 2)
      BY <1>1, <1>4 DEF s
    <3>2. 2 - 1 = 1 /\ 2 + 1 = 3
      OBVIOUS
    <3> QED
      BY <3>1, <3>2 DEF RemoveAt
  <2> DEFINE a == SubSeq(s, 1, 1)
             b == SubSeq(s, 3, Len(s))
  <2>7. a \in Seq(Sent) /\ Len(a) = 1 /\ a[1] = s[1]
    BY <2>1, <2>4
  <2>8. b \in Seq(Sent) /\ Len(b) = Len(air) - 2 /\ \A j \in 1 .. Len(air) - 2 : b[j] = s[j + 2]
    BY <1>2, <2>1, <2>4
  <2>9. air' = a \o b
    BY <2>6
  <2> HIDE DEF a, b
  <2>10. air' \in Seq(Sent) /\ Len(air') = Len(air) - 1
    <3>1. a \o b \in Seq(Sent) /\ Len(a \o b) = Len(a) + Len(b)
      BY <2>7, <2>8, JoinIs
    <3> QED
      BY <1>2, <2>7, <2>8, <2>9, <3>1
  <2>11. \A j \in 1 .. Len(air) - 1 : air'[j] = IF j = 1 THEN s[1] ELSE s[j + 1]
    <3> TAKE j \in 1 .. Len(air) - 1
    <3>1. air'[j] = IF j <= 1 THEN a[j] ELSE b[j - 1]
      <4>1. j \in 1 .. Len(a) + Len(b)
        BY <1>2, <2>7, <2>8
      <4>2. (a \o b)[j] = IF j <= Len(a) THEN a[j] ELSE b[j - Len(a)]
        BY <2>7, <2>8, <4>1, JoinIs
      <4> QED
        BY <2>7, <2>9, <4>2
    <3>2. j # 1 => j - 1 \in 1 .. Len(air) - 2 /\ (j - 1) + 2 = j + 1
      BY <1>2
    <3> QED
      BY <1>2, <2>7, <2>8, <3>1, <3>2
  <2>12. DOMAIN air' = 1 .. Len(air) - 1
    BY <1>2, <2>10
  <2>13. \A j \in 1 .. Len(air) - 1 : \E k \in DOMAIN air : air'[j].sn = air[k].sn
    <3> TAKE j \in 1 .. Len(air) - 1
    <3>1. j + 1 \in DOMAIN air
      BY <1>1, <1>2
    <3> QED
      BY <2>1, <2>5, <2>11, <3>1
  <2> QED
    BY <1>1, <1>2, <2>10, <2>12, <2>13
<1> QED
  BY <1>3, <1>4

LEMMA ReceiveEffect ==
  ASSUME TypeInv, NEW i \in 1 .. 2, ReceiveData(i)
  PROVE  /\ RxOK(rx') /\ delivered' \in Seq(Data)
         /\ SameNumbers(rx, rx') \/ Takes(rx, air[i].sn, rx') \/ Raises(rx, air[i].sn, rx')
<1>1. /\ RxOK(rx) /\ delivered \in Seq(Data) /\ air[i] \in Sent
      /\ IF air[i].rf THEN handle_data_pdu_segment(rx, air[i])
         ELSE handle_data_pdu(rx, air[i], {})
  BY Received DEF TypeInv, ReceiveData
<1>2. CASE air[i].rf
  BY <1>1, <1>2, SegmentEffect
<1>3. CASE ~air[i].rf
  <2>1. air[i].sn \in SNs /\ air[i].data \in Data /\ air[i].poll \in BOOLEAN
    BY <1>1 DEF Sent
  <2> QED
    BY <1>1, <1>3, <2>1, DataEffect
<1> QED
  BY <1>2, <1>3

(* A status acknowledges nothing that is missing.                          *)
LEMMA StatusIs ==
  ASSUME RxOK(rx), NEW upto \in Uptos
  PROVE  LET st == Status(upto) IN
         /\ st \in Reports
         /\ Dist(rx.vr_r, st.ack_sn) <= Dist(rx.vr_r, rx.vr_ms)
         /\ \A n \in st.nacks : /\ n \notin DOMAIN rx.window
                                /\ Dist(rx.vr_r, n) < Dist(rx.vr_r, st.ack_sn)
         /\ \A b \in SNs : Dist(rx.vr_r, b) < Dist(rx.vr_r, st.ack_sn) /\ b \notin st.nacks
                             => b \in DOMAIN rx.window
<1> DEFINE r == rx.vr_r
           d == Dist(r, rx.vr_ms)
           nacks == {k \in Missing : k < upto}
           seen  == {k \in 0 .. upto - 1 : k \notin Missing}
           ack   == IF upto = d THEN upto ELSE IF seen = {} THEN 0 ELSE Max(seen)
           valid == \A k \in nacks : k < ack
           names == {(r + k) % MOD : k \in nacks}
           st    == Status(upto)
<1>1. r \in SNs /\ rx.vr_ms \in SNs
  BY RxFields DEF RxOK
<1>2. d \in 0 .. MOD - 1 /\ Dist(r, r) = 0
  BY <1>1, DistIs
<1>3. Missing = {k \in 0 .. d - 1 : (r + k) % MOD \notin DOMAIN rx.window}
  BY DEF Missing
<1>4. upto \in Missing \/ upto = d
  BY DEF Uptos
<1>5. st = IF valid THEN [ack_sn |-> (r + ack) % MOD, nacks |-> names]
           ELSE [ack_sn |-> r, nacks |-> {}]
  BY DEF Status
<1> HIDE DEF r, d, st
<1>6. upto \in 0 .. d
  BY <1>2, <1>3, <1>4
<1>7. ack \in 0 .. d /\ ack <= upto
  <2>1. CASE upto = d
    BY <1>2, <1>6, <2>1
  <2>2. CASE upto # d /\ seen = {}
    BY <1>2, <1>6, <2>2
  <2>3. CASE upto # d /\ seen # {}
    <3>1. upto \in Nat /\ seen \in SUBSET (0 .. upto)
      BY <1>2, <1>6
    <3>2. Max(seen) \in seen
      <4> HIDE DEF seen
      <4> QED
        BY <2>3, <3>1, MaxIs
    <3>3. ack = Max(seen)
      BY <2>3
    <3> HIDE DEF ack
    <3> QED
      BY <1>2, <1>6, <3>1, <3>2, <3>3
  <2> QED
    BY <2>1, <2>2, <2>3
<1> HIDE DEF ack
<1>8. \A k \in 0 .. d : (r + k) % MOD \in SNs /\ Dist(r, (r + k) % MOD) = k
  <2> TAKE k \in 0 .. d
  <2>1. k \in Nat /\ Dist(r, r) + k < MOD
    BY <1>2, Constants
  <2>2. (r + k) % MOD \in SNs /\ Dist(r, (r + k) % MOD) = Dist(r, r) + k
    BY <1>1, <2>1, DistPlus
  <2> QED
    BY <1>2, <2>1, <2>2
<1>9. CASE valid
  <2>1. st.ack_sn = (r + ack) % MOD /\ st.nacks = names
    BY <1>5, <1>9
  <2>2. st.ack_sn \in SNs /\ Dist(r, st.ack_sn) = ack
    BY <1>7, <1>8, <2>1
  <2>3. ASSUME NEW n \in names
        PROVE  n \in SNs /\ n \notin DOMAIN rx.window /\ Dist(r, n) < ack
    <3>1. PICK k \in nacks : n = (r + k) % MOD
      OBVIOUS
    <3>2. k \in 0 .. d /\ (r + k) % MOD \notin DOMAIN rx.window
      BY <1>2, <1>3
    <3>3. k < ack
      BY <1>9
    <3> QED
      BY <1>8, <3>1, <3>2, <3>3
  <2>4. ASSUME NEW b \in SNs, Dist(r, b) < ack, b \notin names
        PROVE  b \in DOMAIN rx.window
    <3> SUFFICES ASSUME b \notin DOMAIN rx.window PROVE FALSE
      OBVIOUS
    <3> DEFINE k == Dist(r, b)
    <3>1. (r + k) % MOD = b /\ k \in 0 .. MOD - 1
      BY <1>1, DistIs, PlusDist
    <3> HIDE DEF k
    <3>2. k \in 0 .. d - 1 /\ k < upto
      BY <1>2, <1>6, <1>7, <2>4, <3>1 DEF k
    <3>3. k \in nacks
      BY <1>3, <3>1, <3>2
    <3>4. b \in names
      BY <3>1, <3>3
    <3> QED
      BY <2>4, <3>4
  <2>5. st \in Reports
    <3>1. names \in SUBSET SNs
      BY <2>3
    <3>2. st = [ack_sn |-> (r + ack) % MOD, nacks |-> names]
      BY <1>5, <1>9
    <3> HIDE DEF names
    <3> QED
      BY <2>1, <2>2, <3>1, <3>2 DEF Reports
  <2> HIDE DEF names
  <2> QED
    BY <1>2, <1>7, <2>1, <2>2, <2>3, <2>4, <2>5 DEF r, d, st
<1>10. CASE ~valid
  <2>1. st = [ack_sn |-> r, nacks |-> {}]
    BY <1>5, <1>10
  <2>2. \A b \in SNs : ~(Dist(r, b) < 0)
    BY <1>1, DistIs
  <2> HIDE DEF valid
  <2> QED
    BY <1>1, <1>2, <2>1, <2>2 DEF r, d, st, Reports
<1> QED
  BY <1>9, <1>10

LEMMA TypeReceive ==
  ASSUME TypeInv, NEW i \in 1 .. 2, ReceiveData(i)
  PROVE  TypeInv'
<1>1. /\ tx' = tx /\ ctrl' = ctrl /\ report' = report /\ losses' = losses
      /\ written' = written /\ discarded' = discarded /\ acked' = acked
  BY DEF ReceiveData
<1>2. RxOK(rx') /\ delivered' \in Seq(Data)
  BY ReceiveEffect
<1>3. air' \in Seq(Sent) /\ Len(air') <= InFlight
  <2>1. air' \in Seq(Sent) /\ Len(air') = Len(air) - 1
    BY Received
  <2> QED
    BY <2>1, ConstantsAssumption DEF TypeInv
<1> QED
  BY <1>1, <1>2, <1>3 DEF TypeInv, HistoryOK

LEMMA TypeReorderingTimer ==
  ASSUME TypeInv, ReorderingTimerExpires
  PROVE  TypeInv'
<1> DEFINE ms   == FirstFree(rx.window, rx.vr_x)
           more == Dist(rx.vr_r, rx.vr_h) > Dist(rx.vr_r, ms)
           status == rx.do_status \/ rx.poll_received
           x    == IF more THEN rx.vr_h ELSE rx.vr_x
<1>1. /\ rx' = [rx EXCEPT !.vr_ms = ms, !.do_status = status, !.reordering = more, !.vr_x = x]
      /\ tx' = tx /\ ctrl' = ctrl /\ air' = air /\ report' = report /\ losses' = losses
      /\ written' = written /\ discarded' = discarded /\ acked' = acked /\ delivered' = delivered
  BY DEF ReorderingTimerExpires, radio, pdcp
<1>2. RxOK(rx) /\ rx \in RxStates /\ rx.vr_x \in SNs /\ rx.vr_r \in SNs /\ rx.vr_h \in SNs
  BY RxFields DEF TypeInv, RxOK
<1>3. ms \in SNs
  BY <1>2, FirstFreeType DEF RxOK
<1>4. status \in BOOLEAN /\ more \in BOOLEAN /\ x \in SNs
  BY <1>2
<1> HIDE DEF ms, more, status, x
<1>5. RxOK(rx')
  BY <1>1, <1>2, <1>3, <1>4 DEF RxOK, RxStates
<1> QED
  BY <1>1, <1>5 DEF TypeInv, HistoryOK

LEMMA TypeBuildStatus ==
  ASSUME TypeInv, NEW u \in Uptos, build_status_pdu(u)
  PROVE  TypeInv'
<1>1. /\ rx' = [rx EXCEPT !.do_status = FALSE, !.poll_received = FALSE, !.prohibit = TRUE]
      /\ report' = <<Status(u)>>
      /\ tx' = tx /\ ctrl' = ctrl /\ air' = air /\ losses' = losses
      /\ written' = written /\ discarded' = discarded /\ acked' = acked /\ delivered' = delivered
  BY DEF build_status_pdu, pdcp
<1>2. RxOK(rx')
  BY <1>1 DEF TypeInv, RxOK, RxStates
<1>3. Status(u) \in Reports
  BY StatusIs DEF TypeInv
<1>4. <<Status(u)>> \in Seq(Reports) /\ Len(<<Status(u)>>) = 1
  BY <1>3
<1> QED
  BY <1>1, <1>2, <1>4 DEF TypeInv, HistoryOK

LEMMA TypeProhibit ==
  ASSUME TypeInv, StatusProhibitExpires
  PROVE  TypeInv'
<1>1. /\ rx' = [rx EXCEPT !.prohibit = FALSE]
      /\ tx' = tx /\ ctrl' = ctrl /\ air' = air /\ report' = report /\ losses' = losses
      /\ written' = written /\ discarded' = discarded /\ acked' = acked /\ delivered' = delivered
  BY DEF StatusProhibitExpires, radio, pdcp
<1>2. RxOK(rx')
  BY <1>1 DEF TypeInv, RxOK, RxStates
<1> QED
  BY <1>1, <1>2 DEF TypeInv, HistoryOK

LEMMA RemovedFromAir ==
  ASSUME air \in Seq(Sent), NEW i \in DOMAIN air, air' = RemoveAt(air, i)
  PROVE  /\ air' \in Seq(Sent) /\ Len(air') = Len(air) - 1
         /\ \A j \in DOMAIN air' : \E k \in DOMAIN air : air'[j] = air[k]
<1> DEFINE a == SubSeq(air, 1, i - 1)
           b == SubSeq(air, i + 1, Len(air))
<1>1. i \in 1 .. Len(air) /\ Len(air) \in Nat
  OBVIOUS
<1>2. air' = a \o b
  BY DEF RemoveAt
<1>3. a \in Seq(Sent) /\ Len(a) = i - 1 /\ \A j \in 1 .. i - 1 : a[j] = air[j]
  BY <1>1
<1>4. b \in Seq(Sent) /\ Len(b) = Len(air) - i /\ \A j \in 1 .. Len(air) - i : b[j] = air[j + i]
  BY <1>1
<1> HIDE DEF a, b
<1>5. /\ a \o b \in Seq(Sent) /\ Len(a \o b) = Len(a) + Len(b)
      /\ \A j \in 1 .. Len(a) + Len(b) : (a \o b)[j] = IF j <= Len(a) THEN a[j] ELSE b[j - Len(a)]
  BY <1>3, <1>4, JoinIs
<1>6. ASSUME NEW j \in 1 .. Len(air) - 1
      PROVE  \E k \in DOMAIN air : air'[j] = air[k]
  <2>1. (a \o b)[j] = IF j <= i - 1 THEN a[j] ELSE b[j - (i - 1)]
    <3>1. j \in 1 .. Len(a) + Len(b)
      BY <1>1, <1>3, <1>4
    <3>2. (a \o b)[j] = IF j <= Len(a) THEN a[j] ELSE b[j - Len(a)]
      BY <1>5, <3>1
    <3> QED
      BY <1>3, <3>2
  <2>2. CASE j <= i - 1
    <3>1. air'[j] = air[j] /\ j \in DOMAIN air
      BY <1>1, <1>2, <1>3, <2>1, <2>2
    <3> QED
      BY <3>1
  <2>3. CASE ~(j <= i - 1)
    <3>1. j - (i - 1) \in 1 .. Len(air) - i /\ (j - (i - 1)) + i = j + 1 /\ j + 1 \in DOMAIN air
      BY <1>1, <2>3
    <3>2. air'[j] = air[j + 1]
      BY <1>2, <1>4, <2>1, <2>3, <3>1
    <3> QED
      BY <3>1, <3>2
  <2> QED
    BY <2>2, <2>3
<1>7. air' \in Seq(Sent) /\ Len(air') = Len(air) - 1
  BY <1>1, <1>2, <1>3, <1>4, <1>5
<1>8. DOMAIN air' = 1 .. Len(air) - 1
  BY <1>7
<1> QED
  BY <1>6, <1>7, <1>8

LEMMA TypeLose ==
  ASSUME TypeInv, LoseStatus \/ \E i \in 1 .. InFlight : LoseData(i)
  PROVE  TypeInv'
<1>1. /\ losses < MaxLoss /\ losses' = losses + 1 /\ tx' = tx /\ ctrl' = ctrl /\ rx' = rx
      /\ written' = written /\ discarded' = discarded /\ acked' = acked /\ delivered' = delivered
  BY DEF LoseStatus, LoseData, pdcp
<1>2. losses' \in 0 .. MaxLoss
  BY <1>1, ConstantsAssumption DEF TypeInv
<1>3. CASE LoseStatus
  <2>1. report' = <<>> /\ air' = air
    BY <1>3 DEF LoseStatus
  <2>2. <<>> \in Seq(Reports) /\ Len(<<>>) <= 1
    OBVIOUS
  <2> QED
    BY <1>1, <1>2, <2>1, <2>2 DEF TypeInv, HistoryOK
<1>4. CASE \E i \in 1 .. InFlight : LoseData(i)
  <2>1. PICK i \in DOMAIN air : air' = RemoveAt(air, i) /\ report' = report
    BY <1>4 DEF LoseData
  <2>2. air' \in Seq(Sent) /\ Len(air') = Len(air) - 1
    BY <2>1, RemovedFromAir DEF TypeInv
  <2>3. Len(air') <= InFlight
    BY <2>2, ConstantsAssumption DEF TypeInv
  <2> QED
    BY <1>1, <1>2, <2>1, <2>2, <2>3 DEF TypeInv, HistoryOK
<1> QED
  BY <1>3, <1>4

LEMMA NextTypeInv ==
  ASSUME TypeInv, [Next]_vars
  PROVE  TypeInv'
<1>1. CASE write_sdu
  BY <1>1, TypeWrite
<1>2. CASE \E s \in Discards : discard_sdu(s)
  BY <1>2, TypeDiscard
<1>3. CASE \E g \in Grants, fits \in Fits : read_pdu(g, fits)
  <2>1. Grants \subseteq Nat
    BY ConstantsAssumption DEF Grants
  <2> QED
    BY <1>3, <2>1, TypeRead
<1>4. CASE ReceiveStatus
  BY <1>4, TypeStatus
<1>5. CASE Nack
  BY <1>5, TypeNack
<1>6. CASE Ack
  BY <1>6, TypeAck
<1>7. CASE NotifyDelivery
  BY <1>7, TypeNotify
<1>8. CASE PollTimerExpires \/ timer_expired
  BY <1>8, TypePoll
<1>9. CASE \E i \in 1 .. 2 : ReceiveData(i)
  BY <1>9, TypeReceive
<1>10. CASE ReorderingTimerExpires
  BY <1>10, TypeReorderingTimer
<1>11. CASE \E u \in Uptos : build_status_pdu(u)
  BY <1>11, TypeBuildStatus
<1>12. CASE StatusProhibitExpires
  BY <1>12, TypeProhibit
<1>13. CASE LoseStatus \/ \E i \in 1 .. InFlight : LoseData(i)
  BY <1>13, TypeLose
<1>14. CASE UNCHANGED vars
  BY <1>14 DEF vars, radio, pdcp, TypeInv, HistoryOK, Uptos, Missing
<1> QED
  BY <1>1, <1>2, <1>3, <1>4, <1>5, <1>6, <1>7, <1>8, <1>9, <1>10, <1>11, <1>12, <1>13, <1>14
     DEF Next

(* The receiver holds no more than a window of PDUs.                       *)
LEMMA WithinBound ==
  ASSUME NEW window, DOMAIN window \subseteq SNs, NEW from \in SNs, Within(window, from)
  PROVE  Cardinality(DOMAIN window) <= Window
<1> DEFINE f == [sn \in DOMAIN window |-> Dist(from, sn)]
<1>1. f \in Injection(DOMAIN window, 0 .. Window - 1)
  <2>1. \A sn \in DOMAIN window : Dist(from, sn) \in 0 .. Window - 1
    BY DistIs, Constants DEF Within
  <2>2. \A a, b \in DOMAIN window : Dist(from, a) = Dist(from, b) => a = b
    BY DistInjective
  <2> QED
    BY <2>1, <2>2 DEF Injection, IsInjective
<1>2. IsFiniteSet(0 .. Window - 1) /\ Cardinality(0 .. Window - 1) = Window
  BY Constants, FS_Interval
<1> QED
  BY <1>1, <1>2, FS_Injection

(* Whether the sender ran ahead is remembered.                             *)
LEMMA AheadStays ==
  ASSUME ahead \in BOOLEAN, [Next]_vars
  PROVE  ahead' \in BOOLEAN /\ (ahead => ahead')
<1>1. CASE \E g \in Grants, fits \in Fits : read_pdu(g, fits)
  <2>1. PICK g \in Grants, fits \in Fits : read_pdu(g, fits)
    BY <1>1
  <2>2. ahead' = (ahead \/ (tx'.vt_s # tx.vt_s /\ Dist(tx.vt_a, tx.vt_s) >= Window))
    BY <2>1 DEF read_pdu
  <2> QED
    BY <2>2
<1>2. CASE ~ \E g \in Grants, fits \in Fits : read_pdu(g, fits)
  <2>1. ahead' = ahead
    BY <1>2 DEF Next, vars, pdcp, write_sdu, discard_sdu, ReceiveStatus, Nack, Ack,
                NotifyDelivery, PollTimerExpires, timer_expired, ReceiveData,
                ReorderingTimerExpires, build_status_pdu, StatusProhibitExpires,
                LoseData, LoseStatus
  <2> QED
    BY <2>1
<1> QED
  BY <1>1, <1>2

LEMMA TypeInvImplies ==
  ASSUME TypeInv, ahead \in BOOLEAN
  PROVE  TypeOK
<1>1. written \in Nat /\ written <= Len(SduLen) /\ DOMAIN SduLen = 1 .. Len(SduLen)
  BY WrittenIs, ConstantsAssumption DEF TypeInv
<1>2. Seq(WUnit(written)) \subseteq Data
  BY <1>1, WUnitGrows, SeqGrows DEF Data
<1>3. TxOK(written, tx) /\ RxOK(rx)
  BY DEF TypeInv
<1>4. /\ tx.vt_a \in SNs /\ tx.vt_s \in SNs /\ tx.poll_sn \in SNs
      /\ tx.without_poll \in 0 .. PollPdu + 1
      /\ tx.queue \in Seq(0 .. written) /\ tx.sdu \in Seq(WUnit(written))
      /\ tx.window \in Windows(written)
      /\ tx.retx \in Seq(Entries) /\ tx.info \in Maps(1 .. written, SUBSET SNs)
      /\ tx.poll_timer \in {"stopped", "running", "expired"}
  BY <1>1, <1>3, TxFields DEF TxOK
<1>5. /\ rx.vr_r \in SNs /\ rx.vr_x \in SNs /\ rx.vr_ms \in SNs /\ rx.vr_h \in SNs
      /\ rx.window \in Maps(SNs, Data) /\ rx.segments \in Maps(SNs, SegMaps) /\ rx.sdu \in Data
      /\ rx.poll_received \in BOOLEAN /\ rx.do_status \in BOOLEAN
      /\ rx.reordering \in BOOLEAN /\ rx.prohibit \in BOOLEAN
  BY <1>3, RxFields DEF RxOK
<1>6. tx.without_poll \in 0 .. PollPdu
  BY <1>3, <1>4, ConstantsAssumption DEF TxOK
<1>7. tx.queue \in Seq({0} \cup DOMAIN SduLen) /\ Len(tx.queue) <= QueueLen
  <2>1. 0 .. written \subseteq {0} \cup DOMAIN SduLen
    BY <1>1
  <2> QED
    BY <1>3, <1>4, <2>1, SeqGrows DEF TxOK
<1>8. tx.sdu \in Data /\ IsWindow(tx.window, Data) /\ Cardinality(DOMAIN tx.window) <= Window
  <2>1. DOMAIN tx.window \subseteq SNs /\ \A sn \in DOMAIN tx.window : tx.window[sn] \in Seq(WUnit(written))
    BY <1>4, WindowIs
  <2>2. Cardinality(DOMAIN tx.window) <= Window
    BY <1>3, <2>1, SlotsBound DEF TxOK
  <2> QED
    BY <1>2, <1>4, <2>1, <2>2 DEF IsWindow
<1>9. DOMAIN tx.info \subseteq DOMAIN SduLen /\ \A s \in DOMAIN tx.info : tx.info[s] \subseteq SNs
  <2> DEFINE f == tx.info
             A == 1 .. written
             B == SUBSET SNs
  <2>1. f \in Maps(A, B)
    BY <1>4
  <2> HIDE DEF A, B, f
  <2>2. DOMAIN f \subseteq A /\ \A s \in DOMAIN f : f[s] \in B
    BY <2>1, MapsDef
  <2>3. A \subseteq DOMAIN SduLen
    BY <1>1 DEF A
  <2> QED
    BY <2>2, <2>3 DEF B, f
<1>10. /\ ctrl.pc \in {"idle", "poll", "control"}
       /\ ctrl.pc = "control" =>
            /\ {ctrl.i, ctrl.ack_sn, ctrl.vt_s} \cup ctrl.nacks \subseteq SNs
            /\ ctrl.update \in BOOLEAN /\ ctrl.notify \subseteq DOMAIN SduLen
  <2>1. ctrl \in CtrlStates(written)
    BY DEF TypeInv
  <2>2. ctrl.pc \in {"idle", "poll", "control"} /\ (ctrl.pc = "control" => ctrl \in Controls(written))
    BY <2>1, CtrlIs
  <2>3. ASSUME ctrl \in Controls(written)
        PROVE  /\ ctrl.i \in SNs /\ ctrl.ack_sn \in SNs /\ ctrl.vt_s \in SNs /\ ctrl.nacks \subseteq SNs
               /\ ctrl.update \in BOOLEAN /\ ctrl.notify \subseteq 1 .. written
    BY <2>3 DEF Controls
  <2>4. 1 .. written \subseteq DOMAIN SduLen
    BY <1>1
  <2> QED
    BY <2>2, <2>3, <2>4
<1>11. IsWindow(rx.window, Data) /\ Cardinality(DOMAIN rx.window) <= Window /\ rx.sdu \in Data
  <2>1. DOMAIN rx.window \subseteq SNs /\ \A sn \in DOMAIN rx.window : rx.window[sn] \in Data
    BY <1>5, MapsDef
  <2>2. Cardinality(DOMAIN rx.window) <= Window
    BY <1>3, <1>5, <2>1, WithinBound DEF RxOK
  <2> QED
    BY <1>5, <2>1, <2>2 DEF IsWindow
<1>12. /\ DOMAIN rx.segments \subseteq SNs
       /\ \A sn \in DOMAIN rx.segments : \A o \in DOMAIN rx.segments[sn] :
            rx.segments[sn][o] \in Sent /\ rx.segments[sn][o].so = o
  <2>1. DOMAIN rx.segments \subseteq SNs /\ \A sn \in DOMAIN rx.segments : rx.segments[sn] \in SegMaps
    BY <1>5, MapsDef
  <2>2. \A f \in SegMaps : \A o \in DOMAIN f : f[o] \in Sent /\ f[o].so = o
    BY MapsDef DEF SegMaps
  <2> QED
    BY <2>1, <2>2
<1>13. {rx.poll_received, rx.do_status, rx.reordering, rx.prohibit} \subseteq BOOLEAN
  BY <1>5
<1>14. /\ air \in Seq(Sent) /\ Len(air) <= InFlight
       /\ report \in Seq([ack_sn : SNs, nacks : SUBSET SNs]) /\ Len(report) <= 1
       /\ losses \in 0 .. MaxLoss /\ written \in 0 .. Len(SduLen)
       /\ discarded \subseteq 1 .. written /\ acked \subseteq 1 .. written
       /\ delivered \in Seq(Data) /\ ahead \in BOOLEAN
  BY DEF TypeInv, HistoryOK, Reports
<1>15. tx.retx \in Seq([sn : SNs, is_segment : BOOLEAN, so : Nat])
  BY <1>4 DEF Entries
<1>16. {tx.vt_a, tx.vt_s, tx.poll_sn, rx.vr_r, rx.vr_x, rx.vr_ms, rx.vr_h} \subseteq SNs
  BY <1>4, <1>5
<1> QED
  BY <1>4, <1>6, <1>7, <1>8, <1>9, <1>10, <1>11, <1>12, <1>13, <1>14, <1>15, <1>16, Zenon DEF TypeOK

LEMMA TypeInvHolds == Spec => [](TypeInv /\ ahead \in BOOLEAN)
<1>1. Init => TypeInv /\ ahead \in BOOLEAN
  <2>1. Init => ahead = FALSE
    BY DEF Init
  <2> QED
    BY <2>1, InitTypeInv
<1>2. TypeInv /\ ahead \in BOOLEAN /\ [Next]_vars => (TypeInv /\ ahead \in BOOLEAN)'
  BY NextTypeInv, AheadStays
<1> QED
  BY <1>1, <1>2, PTL DEF Spec

(* Every number, window, queue and PDU keeps its type; the sender's ring   *)
(* buffer and the receiver's window never hold more than a window of PDUs  *)
(* and the queue of read_pdu no more than cfg.tx_queue_length.             *)
THEOREM TypeCorrect == Spec => []TypeOK
<1>1. TypeInv /\ ahead \in BOOLEAN => TypeOK
  BY TypeInvImplies
<1> QED
  BY <1>1, TypeInvHolds, PTL

-----------------------------------------------------------------------------
(* The numbers of a sender x and of a receiver y, counted from VT(A):      *)
(* VR(R), VR(MS), VR(H) and VT(S) come in this order, within a window.     *)
Order(x, y) ==
  LET D(sn) == Dist(x.vt_a, sn) IN
  /\ D(y.vr_r) <= D(y.vr_ms) /\ D(y.vr_ms) <= D(y.vr_h) /\ D(y.vr_h) <= D(x.vt_s)
  /\ D(x.vt_s) <= Window
  /\ \A sn \in DOMAIN x.window : D(sn) < D(x.vt_s)
  /\ \A sn \in DOMAIN y.window : D(y.vr_r) < D(sn) /\ D(sn) < D(y.vr_h)
  /\ y.reordering => D(y.vr_r) < D(y.vr_x) /\ D(y.vr_x) <= D(y.vr_h)

(* What is on the air was sent less than a window ago.                     *)
Recent(x, pdus) == \A i \in DOMAIN pdus : Dist(pdus[i].sn, x.vt_s) \in 1 .. Window

(* What has not arrived is in the sender's window.                         *)
Arrived(x, y, sn) == Dist(x.vt_a, sn) < Dist(x.vt_a, y.vr_r) \/ sn \in DOMAIN y.window
Kept(x, y) ==
  \A sn \in SNs : Dist(x.vt_a, sn) < Dist(x.vt_a, x.vt_s) =>
    Arrived(x, y, sn) \/ sn \in DOMAIN x.window

(* A status has a base: the number it asks for first, VR(R) when it was    *)
(* built.  The sender holds it as long as the status is not worked off.    *)
Held(x, b) == b = x.vt_s \/ b \in DOMAIN x.window
Asks(x, y, ack, nacks, b) ==
  LET D(sn) == Dist(x.vt_a, sn) IN
  /\ D(b) <= D(y.vr_r) /\ D(b) <= D(ack) /\ D(ack) <= D(x.vt_s)
  /\ (b = ack /\ nacks = {}) \/ (b \in nacks /\ D(b) < D(ack))
  /\ \A sn \in nacks : D(b) <= D(sn)
  /\ Held(x, b)

(* Everything from i on that a status acknowledges has arrived.            *)
Truthful(x, y, i, ack, nacks) ==
  LET D(sn) == Dist(x.vt_a, sn) IN
  \A sn \in SNs : D(i) <= D(sn) /\ D(sn) < D(ack) /\ sn \notin nacks => Arrived(x, y, sn)

(* The status on the air, with base c; the one that the sender works off,  *)
(* with base b; and that the second does not take away the first's base.   *)
ReportOK(x, y, st, c) ==
  Asks(x, y, st.ack_sn, st.nacks, c) /\ Truthful(x, y, x.vt_a, st.ack_sn, st.nacks)

WorkOK(x, y, k, b) ==
  LET D(sn) == Dist(x.vt_a, sn) IN
  /\ Asks(x, y, k.ack_sn, k.nacks, b) /\ Truthful(x, y, k.i, k.ack_sn, k.nacks)
  /\ D(k.ack_sn) <= D(k.vt_s) /\ D(k.i) <= D(k.ack_sn)
  /\ IF k.update THEN k.i = x.vt_a ELSE b = x.vt_a

Apart(x, k, b, c) ==
  LET D(sn) == Dist(x.vt_a, sn) IN
  /\ D(b) <= D(c)
  /\ ~(c \notin k.nacks /\ D(k.i) <= D(c) /\ D(c) < D(k.ack_sn))

Numbers(x, y) ==
  /\ x.vt_a \in SNs /\ x.vt_s \in SNs /\ DOMAIN x.window \subseteq SNs
  /\ y.vr_r \in SNs /\ y.vr_x \in SNs /\ y.vr_ms \in SNs /\ y.vr_h \in SNs
  /\ DOMAIN y.window \subseteq SNs

LEMMA Distances ==
  ASSUME NEW a \in SNs
  PROVE  /\ \A m \in SNs : Dist(a, m) \in Int /\ 0 <= Dist(a, m) /\ Dist(a, m) < MOD
         /\ \A m, n \in SNs : Dist(m, n) = IF Dist(a, m) <= Dist(a, n) THEN Dist(a, n) - Dist(a, m)
                                           ELSE (Dist(a, n) - Dist(a, m)) + MOD
         /\ \A m, n \in SNs : Dist(a, m) = Dist(a, n) => m = n
         /\ Dist(a, a) = 0
<1>1. ASSUME NEW m \in SNs
      PROVE  Dist(a, m) \in Int /\ 0 <= Dist(a, m) /\ Dist(a, m) < MOD
  BY DistIs, Constants
<1>2. ASSUME NEW m \in SNs, NEW n \in SNs
      PROVE  Dist(m, n) = IF Dist(a, m) <= Dist(a, n) THEN Dist(a, n) - Dist(a, m)
                          ELSE (Dist(a, n) - Dist(a, m)) + MOD
  BY DistVia
<1>3. ASSUME NEW m \in SNs, NEW n \in SNs, Dist(a, m) = Dist(a, n)
      PROVE  m = n
  BY <1>3, DistInjective
<1>4. Dist(a, a) = 0
  BY DistIs
<1> QED
  BY <1>1, <1>2, <1>3, <1>4

(* From x up to the first free number f, which lies before h.              *)
LEMMA Run ==
  ASSUME NEW a \in SNs, NEW x \in SNs, NEW f \in SNs, NEW h \in SNs, NEW got,
         Dist(a, x) <= Dist(a, h), h \notin got,
         \A b \in SNs : Dist(x, b) < Dist(x, f) => b \in got
  PROVE  /\ Dist(a, x) <= Dist(a, f) /\ Dist(a, f) <= Dist(a, h)
         /\ \A b \in SNs : Dist(a, x) <= Dist(a, b) /\ Dist(a, b) < Dist(a, f) => b \in got
<1>1. ~(Dist(x, h) < Dist(x, f))
  OBVIOUS
<1>2. /\ Dist(a, x) \in Int /\ 0 <= Dist(a, x) /\ Dist(a, x) < MOD
      /\ Dist(a, f) \in Int /\ 0 <= Dist(a, f) /\ Dist(a, f) < MOD
      /\ Dist(a, h) \in Int /\ 0 <= Dist(a, h) /\ Dist(a, h) < MOD
      /\ MOD \in Int
  BY Distances, Constants
<1>3. Dist(x, h) = Dist(a, h) - Dist(a, x)
  BY <1>2, DistVia
<1>4. Dist(x, f) = IF Dist(a, x) <= Dist(a, f) THEN Dist(a, f) - Dist(a, x)
                   ELSE (Dist(a, f) - Dist(a, x)) + MOD
  BY DistVia
<1>5. Dist(a, x) <= Dist(a, f) /\ Dist(a, f) <= Dist(a, h)
  BY <1>1, <1>2, <1>3, <1>4
<1>6. ASSUME NEW b \in SNs, Dist(a, x) <= Dist(a, b), Dist(a, b) < Dist(a, f)
      PROVE  b \in got
  <2>1. Dist(x, b) = Dist(a, b) - Dist(a, x)
    BY <1>6, DistVia
  <2>2. Dist(a, b) \in Int
    BY Distances
  <2>3. Dist(x, b) < Dist(x, f)
    BY <1>2, <1>4, <1>5, <1>6, <2>1, <2>2
  <2> QED
    BY <2>3
<1> QED
  BY <1>5, <1>6

-----------------------------------------------------------------------------
(* The receiver's steps: what has arrived stays so.                        *)
Later(x, y, z) ==
  /\ Dist(x.vt_a, y.vr_r) <= Dist(x.vt_a, z.vr_r)
  /\ \A b \in SNs : Arrived(x, y, b) => Arrived(x, z, b)

LEMMA OnTime ==
  ASSUME NEW x, NEW y, Numbers(x, y), Order(x, y), NEW p \in SNs,
         Dist(p, x.vt_s) \in 1 .. Window, Inside(y, p)
  PROVE  LET D(sn) == Dist(x.vt_a, sn) IN
         /\ D(y.vr_r) <= D(p) /\ D(p) < D(x.vt_s)
         /\ Highest(y, p) \in SNs /\ D(p) < D(Highest(y, p))
         /\ D(y.vr_h) <= D(Highest(y, p)) /\ D(Highest(y, p)) <= D(x.vt_s)
         /\ Highest(y, p) = y.vr_h \/ D(Highest(y, p)) = D(p) + 1
<1> DEFINE a == x.vt_a
           D(sn) == Dist(a, sn)
<1>1. a \in SNs /\ x.vt_s \in SNs /\ y.vr_r \in SNs /\ y.vr_h \in SNs /\ y.vr_ms \in SNs
  BY DEF Numbers
<1> HIDE DEF a
<1>2. /\ D(y.vr_r) <= D(y.vr_h) /\ D(y.vr_h) <= D(x.vt_s) /\ D(x.vt_s) <= Window
  <2>1. /\ D(y.vr_r) <= D(y.vr_ms) /\ D(y.vr_ms) <= D(y.vr_h) /\ D(y.vr_h) <= D(x.vt_s)
        /\ D(x.vt_s) <= Window
    BY DEF Order, a
  <2>2. D(y.vr_r) \in Int /\ D(y.vr_ms) \in Int /\ D(y.vr_h) \in Int
    BY <1>1, Distances
  <2> HIDE DEF D
  <2> QED
    BY <2>1, <2>2
<1>3. /\ D(p) \in Int /\ 0 <= D(p) /\ D(p) < MOD
      /\ D(x.vt_s) \in Int /\ 0 <= D(x.vt_s) /\ D(x.vt_s) < MOD
      /\ D(y.vr_r) \in Int /\ 0 <= D(y.vr_r) /\ D(y.vr_r) < MOD
      /\ D(y.vr_h) \in Int /\ 0 <= D(y.vr_h) /\ D(y.vr_h) < MOD
  BY <1>1, Distances
<1>4. Dist(p, x.vt_s) = IF D(p) <= D(x.vt_s) THEN D(x.vt_s) - D(p) ELSE (D(x.vt_s) - D(p)) + MOD
  BY <1>1, DistVia
<1>5. Dist(y.vr_r, p) = IF D(y.vr_r) <= D(p) THEN D(p) - D(y.vr_r) ELSE (D(p) - D(y.vr_r)) + MOD
  BY <1>1, DistVia
<1>6. Dist(y.vr_r, y.vr_h) = D(y.vr_h) - D(y.vr_r)
  BY <1>1, <1>2, DistVia
<1>7. Dist(y.vr_r, p) < Window
  BY DEF Inside
<1> HIDE DEF D
<1>8. D(y.vr_r) <= D(p) /\ D(p) < D(x.vt_s)
  BY <1>2, <1>3, <1>4, <1>5, <1>7, Constants
<1>9. Dist(y.vr_r, p) >= Dist(y.vr_r, y.vr_h) <=> D(p) >= D(y.vr_h)
  BY <1>3, <1>5, <1>6, <1>8
<1>10. Next1(p) \in SNs /\ D(Next1(p)) = D(p) + 1
  <2>1. D(p) + 1 < MOD
    BY <1>2, <1>3, <1>8, Constants
  <2> QED
    BY <1>1, <2>1, DistNext DEF D
<1>11. Highest(y, p) = IF D(p) >= D(y.vr_h) THEN Next1(p) ELSE y.vr_h
  BY <1>9 DEF Highest
<1>12. CASE D(p) >= D(y.vr_h)
  BY <1>2, <1>3, <1>8, <1>10, <1>11, <1>12 DEF D, a
<1>13. CASE ~(D(p) >= D(y.vr_h))
  BY <1>1, <1>2, <1>3, <1>8, <1>11, <1>13 DEF D, a
<1> QED
  BY <1>12, <1>13

LEMMA TakesKeeps ==
  ASSUME NEW x, NEW y, NEW z, Numbers(x, y), Numbers(x, z), Order(x, y), NEW p \in SNs,
         Dist(p, x.vt_s) \in 1 .. Window, Takes(y, p, z)
  PROVE  Order(x, z) /\ Later(x, y, z)
<1> DEFINE D(sn) == Dist(x.vt_a, sn)
           got   == DOMAIN y.window \cup {p}
<1>1. /\ x.vt_a \in SNs /\ x.vt_s \in SNs
      /\ y.vr_r \in SNs /\ y.vr_x \in SNs /\ y.vr_ms \in SNs /\ y.vr_h \in SNs
      /\ DOMAIN y.window \subseteq SNs
      /\ z.vr_r \in SNs /\ z.vr_x \in SNs /\ z.vr_ms \in SNs /\ z.vr_h \in SNs
      /\ DOMAIN z.window \subseteq SNs
  BY DEF Numbers
<1>2. /\ D(y.vr_r) <= D(y.vr_ms) /\ D(y.vr_ms) <= D(y.vr_h) /\ D(y.vr_h) <= D(x.vt_s)
      /\ D(x.vt_s) <= Window
      /\ \A sn \in DOMAIN x.window : D(sn) < D(x.vt_s)
      /\ \A sn \in DOMAIN y.window : D(y.vr_r) < D(sn) /\ D(sn) < D(y.vr_h)
      /\ y.reordering => D(y.vr_r) < D(y.vr_x) /\ D(y.vr_x) <= D(y.vr_h)
  BY DEF Order
<1>3. /\ Inside(y, p) /\ z.vr_h = Highest(y, p)
      /\ z.vr_r \notin got /\ \A b \in SNs : Dist(y.vr_r, b) < Dist(y.vr_r, z.vr_r) => b \in got
      /\ z.vr_ms \notin got /\ \A b \in SNs : Dist(y.vr_ms, b) < Dist(y.vr_ms, z.vr_ms) => b \in got
      /\ \A b \in SNs : b \in DOMAIN z.window <=> b \in got /\ Dist(y.vr_r, b) >= Dist(y.vr_r, z.vr_r)
  BY DEF Takes
<1>4. /\ D(y.vr_r) <= D(p) /\ D(p) < D(x.vt_s) /\ D(p) < D(z.vr_h)
      /\ D(y.vr_h) <= D(z.vr_h) /\ D(z.vr_h) <= D(x.vt_s)
  BY <1>3, OnTime
<1>5. \A m \in SNs : D(m) \in Int /\ 0 <= D(m) /\ D(m) < MOD
  BY <1>1, Distances
<1>6. \A m, n \in SNs : D(m) = D(n) => m = n
  BY <1>1, Distances
<1>7. \A m, n \in SNs : Dist(m, n) = IF D(m) <= D(n) THEN D(n) - D(m) ELSE (D(n) - D(m)) + MOD
  BY <1>1, Distances
<1> HIDE DEF D
<1>8. \A b \in got : b \in SNs /\ D(y.vr_r) <= D(b) /\ D(b) < D(z.vr_h)
  <2>1. \A b \in DOMAIN y.window : b \in SNs /\ D(y.vr_r) <= D(b) /\ D(b) < D(z.vr_h)
    <3> TAKE b \in DOMAIN y.window
    <3>1. b \in SNs /\ D(y.vr_r) < D(b) /\ D(b) < D(y.vr_h)
      BY <1>1, <1>2
    <3> QED
      BY <1>1, <1>4, <1>5, <3>1
  <2> QED
    BY <1>4, <2>1
<1>9. z.vr_h \notin got
  BY <1>1, <1>5, <1>8
<1> HIDE DEF got
<1>10. D(y.vr_r) <= D(z.vr_h) /\ D(y.vr_ms) <= D(z.vr_h)
  BY <1>1, <1>2, <1>4, <1>5
<1>11. /\ D(y.vr_r) <= D(z.vr_r) /\ D(z.vr_r) <= D(z.vr_h)
       /\ \A b \in SNs : D(y.vr_r) <= D(b) /\ D(b) < D(z.vr_r) => b \in got
  <2> DEFINE a == x.vt_a
             h == z.vr_h
             n == y.vr_r
             m == z.vr_r
  <2>1. a \in SNs /\ n \in SNs /\ m \in SNs /\ h \in SNs /\ h \notin got
        /\ Dist(a, n) <= Dist(a, h)
    BY <1>1, <1>9, <1>10 DEF D
  <2>2. \A b \in SNs : Dist(n, b) < Dist(n, m) => b \in got
    BY <1>3
  <2> HIDE DEF a, h, n, m
  <2>3. /\ Dist(a, n) <= Dist(a, m) /\ Dist(a, m) <= Dist(a, h)
        /\ \A b \in SNs : Dist(a, n) <= Dist(a, b) /\ Dist(a, b) < Dist(a, m) => b \in got
    BY <2>1, <2>2, Run
  <2> QED
    BY <2>3 DEF a, h, n, m, D
<1>12. /\ D(y.vr_ms) <= D(z.vr_ms) /\ D(z.vr_ms) <= D(z.vr_h)
       /\ \A b \in SNs : D(y.vr_ms) <= D(b) /\ D(b) < D(z.vr_ms) => b \in got
  <2> DEFINE a == x.vt_a
             h == z.vr_h
             n == y.vr_ms
             m == z.vr_ms
  <2>1. a \in SNs /\ n \in SNs /\ m \in SNs /\ h \in SNs /\ h \notin got
        /\ Dist(a, n) <= Dist(a, h)
    BY <1>1, <1>9, <1>10 DEF D
  <2>2. \A b \in SNs : Dist(n, b) < Dist(n, m) => b \in got
    BY <1>3
  <2> HIDE DEF a, h, n, m
  <2>3. /\ Dist(a, n) <= Dist(a, m) /\ Dist(a, m) <= Dist(a, h)
        /\ \A b \in SNs : Dist(a, n) <= Dist(a, b) /\ Dist(a, b) < Dist(a, m) => b \in got
    BY <2>1, <2>2, Run
  <2> QED
    BY <2>3 DEF a, h, n, m, D
<1>13. D(z.vr_r) <= D(z.vr_ms)
  <2> SUFFICES ASSUME D(z.vr_ms) < D(z.vr_r) PROVE FALSE
    BY <1>1, <1>5
  <2>1. D(y.vr_r) <= D(z.vr_ms)
    BY <1>1, <1>2, <1>5, <1>12
  <2>2. z.vr_ms \in got
    BY <1>1, <1>11, <2>1
  <2> QED
    BY <1>3, <2>2
<1>14. Dist(y.vr_r, z.vr_r) = D(z.vr_r) - D(y.vr_r)
  BY <1>1, <1>7, <1>11
<1>15. \A b \in got : b \in DOMAIN z.window <=> D(b) >= D(z.vr_r)
  <2> TAKE b \in got
  <2>1. b \in SNs /\ Dist(y.vr_r, b) = D(b) - D(y.vr_r)
    BY <1>1, <1>7, <1>8
  <2>2. b \in DOMAIN z.window <=> Dist(y.vr_r, b) >= Dist(y.vr_r, z.vr_r)
    BY <1>3, <2>1
  <2>3. D(b) \in Int /\ D(y.vr_r) \in Int /\ D(z.vr_r) \in Int
    BY <1>1, <1>5, <2>1
  <2> QED
    BY <1>14, <2>1, <2>2, <2>3
<1>16. \A b \in DOMAIN z.window : D(z.vr_r) < D(b) /\ D(b) < D(z.vr_h)
  <2> TAKE b \in DOMAIN z.window
  <2>1. b \in SNs /\ b \in got
    BY <1>1, <1>3
  <2>2. D(z.vr_r) <= D(b) /\ b # z.vr_r /\ D(b) < D(z.vr_h)
    BY <1>3, <1>8, <1>15, <2>1
  <2>3. D(z.vr_r) # D(b) /\ D(b) \in Int /\ D(z.vr_r) \in Int
    BY <1>1, <1>5, <1>6, <2>1, <2>2
  <2> QED
    BY <2>2, <2>3
<1>17. z.reordering => D(z.vr_r) < D(z.vr_x) /\ D(z.vr_x) <= D(z.vr_h)
  <2> SUFFICES ASSUME z.reordering
               PROVE  D(z.vr_r) < D(z.vr_x) /\ D(z.vr_x) <= D(z.vr_h)
    OBVIOUS
  <2>1. \/ z.vr_x = z.vr_h /\ z.vr_h # z.vr_r
        \/ /\ y.reordering /\ z.vr_x = y.vr_x /\ y.vr_x # z.vr_r
           /\ Inside(z, y.vr_x) \/ Dist(z.vr_r, y.vr_x) = Window
    BY Zenon DEF Takes
  <2>2. CASE z.vr_x = z.vr_h /\ z.vr_h # z.vr_r
    <3>1. D(z.vr_h) # D(z.vr_r)
      BY <1>1, <1>6, <2>2
    <3> QED
      BY <1>1, <1>5, <1>11, <2>2, <3>1
  <2>3. CASE /\ y.reordering /\ z.vr_x = y.vr_x /\ y.vr_x # z.vr_r
             /\ Inside(z, y.vr_x) \/ Dist(z.vr_r, y.vr_x) = Window
    <3>1. D(y.vr_r) < D(y.vr_x) /\ D(y.vr_x) <= D(y.vr_h) /\ z.vr_x = y.vr_x /\ y.vr_x # z.vr_r
      BY <1>2, <2>3, Zenon
    <3>2. Dist(z.vr_r, y.vr_x) < Window \/ Dist(z.vr_r, y.vr_x) = Window
      BY <2>3, Zenon DEF Inside
    <3>3. Dist(z.vr_r, y.vr_x) = IF D(z.vr_r) <= D(y.vr_x) THEN D(y.vr_x) - D(z.vr_r)
                                 ELSE (D(y.vr_x) - D(z.vr_r)) + MOD
      BY <1>1, <1>7
    <3>4. D(y.vr_x) # D(z.vr_r)
      BY <1>1, <1>6, <3>1
    <3>5. /\ D(y.vr_r) \in Int /\ 0 <= D(y.vr_r) /\ D(y.vr_x) \in Int /\ D(z.vr_r) \in Int
          /\ D(z.vr_h) \in Int /\ D(x.vt_s) \in Int /\ D(y.vr_h) \in Int
      BY <1>1, <1>5
    <3>6. D(z.vr_r) <= Window
      BY <1>2, <1>4, <1>11, <3>5, Constants
    <3>7. D(z.vr_r) <= D(y.vr_x)
      BY <3>1, <3>2, <3>3, <3>5, <3>6, Constants
    <3> QED
      BY <1>4, <3>1, <3>4, <3>5, <3>7
  <2> QED
    BY <2>1, <2>2, <2>3, Zenon
<1>18. Order(x, z)
  BY <1>2, <1>4, <1>12, <1>13, <1>16, <1>17, Zenon DEF Order, D
<1>19. ASSUME NEW b \in SNs, Arrived(x, y, b)
       PROVE  Arrived(x, z, b)
  <2>1. D(b) < D(y.vr_r) \/ b \in DOMAIN y.window
    BY <1>19 DEF Arrived, D
  <2>2. CASE D(b) < D(y.vr_r)
    <3>1. D(b) < D(z.vr_r)
      BY <1>1, <1>5, <1>11, <2>2
    <3> QED
      BY <3>1 DEF Arrived, D
  <2>3. CASE b \in DOMAIN y.window
    <3>1. b \in got
      BY <2>3 DEF got
    <3>2. D(b) < D(z.vr_r) \/ b \in DOMAIN z.window
      BY <1>1, <1>5, <1>15, <3>1
    <3> QED
      BY <3>2 DEF Arrived, D
  <2> QED
    BY <2>1, <2>2, <2>3
<1> QED
  BY <1>11, <1>18, <1>19 DEF Later, D

LEMMA RaisesKeeps ==
  ASSUME NEW x, NEW y, NEW z, Numbers(x, y), Numbers(x, z), Order(x, y), NEW p \in SNs,
         Dist(p, x.vt_s) \in 1 .. Window, Raises(y, p, z)
  PROVE  Order(x, z) /\ Later(x, y, z)
<1> DEFINE D(sn) == Dist(x.vt_a, sn)
<1>1. /\ Inside(y, p) /\ z.vr_h = Highest(y, p) /\ z.vr_r = y.vr_r /\ z.vr_ms = y.vr_ms
      /\ z.vr_x = y.vr_x /\ z.window = y.window
  BY DEF Raises
<1>2. z.reordering = y.reordering
  BY Zenon DEF Raises
<1>3. D(y.vr_h) <= D(z.vr_h) /\ D(z.vr_h) <= D(x.vt_s)
  BY <1>1, OnTime
<1>4. \A m \in SNs : D(m) \in Int
  BY Distances DEF Numbers
<1>5. /\ x.vt_s \in SNs /\ y.vr_r \in SNs /\ y.vr_x \in SNs /\ y.vr_ms \in SNs /\ y.vr_h \in SNs
      /\ z.vr_h \in SNs /\ DOMAIN y.window \subseteq SNs
  BY DEF Numbers
<1>6. /\ D(y.vr_r) <= D(y.vr_ms) /\ D(y.vr_ms) <= D(y.vr_h) /\ D(x.vt_s) <= Window
      /\ \A sn \in DOMAIN x.window : D(sn) < D(x.vt_s)
      /\ \A sn \in DOMAIN y.window : D(y.vr_r) < D(sn) /\ D(sn) < D(y.vr_h)
      /\ y.reordering => D(y.vr_r) < D(y.vr_x) /\ D(y.vr_x) <= D(y.vr_h)
  BY DEF Order
<1> HIDE DEF D
<1>7. D(y.vr_ms) <= D(z.vr_h) /\ (D(y.vr_x) <= D(y.vr_h) => D(y.vr_x) <= D(z.vr_h))
  BY <1>3, <1>4, <1>5, <1>6
<1>8. \A sn \in DOMAIN y.window : D(sn) < D(z.vr_h)
  BY <1>3, <1>4, <1>5, <1>6
<1>9. Order(x, z)
  BY <1>1, <1>2, <1>3, <1>6, <1>7, <1>8, Zenon DEF Order, D
<1>10. D(y.vr_r) <= D(y.vr_r)
  BY <1>4, <1>5
<1> QED
  BY <1>1, <1>9, <1>10 DEF Later, Arrived, D

(* The reordering timer moves VR(MS) past what is missing, up to VR(X).    *)
LEMMA TimerKeeps ==
  ASSUME NEW x, NEW y, NEW z, Numbers(x, y), Numbers(x, z), Order(x, y),
         Within(y.window, y.vr_r), y.reordering,
         z.vr_r = y.vr_r, z.vr_h = y.vr_h, z.window = y.window,
         z.vr_ms = FirstFree(y.window, y.vr_x),
         z.reordering <=> Dist(y.vr_r, y.vr_h) > Dist(y.vr_r, z.vr_ms),
         z.reordering => z.vr_x = y.vr_h
  PROVE  Order(x, z) /\ Later(x, y, z)
<1> DEFINE D(sn) == Dist(x.vt_a, sn)
<1>1. /\ x.vt_a \in SNs /\ x.vt_s \in SNs /\ DOMAIN y.window \subseteq SNs
      /\ y.vr_r \in SNs /\ y.vr_x \in SNs /\ y.vr_ms \in SNs /\ y.vr_h \in SNs /\ z.vr_ms \in SNs
  BY DEF Numbers
<1>2. /\ D(y.vr_h) <= D(x.vt_s) /\ D(x.vt_s) <= Window
      /\ \A sn \in DOMAIN x.window : D(sn) < D(x.vt_s)
      /\ \A sn \in DOMAIN y.window : D(y.vr_r) < D(sn) /\ D(sn) < D(y.vr_h)
      /\ D(y.vr_r) < D(y.vr_x) /\ D(y.vr_x) <= D(y.vr_h)
  BY DEF Order
<1>3. \A m \in SNs : D(m) \in Int
  BY <1>1, Distances
<1>4. D(y.vr_x) <= D(z.vr_ms) /\ D(z.vr_ms) <= D(y.vr_h)
  <2> DEFINE a == x.vt_a
             h == y.vr_h
             n == y.vr_x
             m == z.vr_ms
             got == DOMAIN y.window
  <2>1. \A b \in SNs : Dist(n, b) < Dist(n, m) => b \in got
    BY <1>1, FirstFreeType
  <2>2. h \notin got
    BY <1>1, <1>2, <1>3
  <2>3. a \in SNs /\ n \in SNs /\ m \in SNs /\ h \in SNs /\ Dist(a, n) <= Dist(a, h)
    BY <1>1, <1>2
  <2> HIDE DEF a, h, n, m, got
  <2>4. Dist(a, n) <= Dist(a, m) /\ Dist(a, m) <= Dist(a, h)
    BY <2>1, <2>2, <2>3, Run
  <2> QED
    BY <2>4 DEF a, h, n, m
<1>5. D(y.vr_r) <= D(z.vr_ms) /\ D(y.vr_r) <= D(y.vr_h)
  BY <1>1, <1>2, <1>3, <1>4
<1>6. Dist(y.vr_r, y.vr_h) = D(y.vr_h) - D(y.vr_r) /\ Dist(y.vr_r, z.vr_ms) = D(z.vr_ms) - D(y.vr_r)
  BY <1>1, <1>5, DistVia
<1>7. z.reordering => D(y.vr_r) < D(z.vr_x) /\ D(z.vr_x) <= D(z.vr_h)
  <2>1. ASSUME Dist(y.vr_r, y.vr_h) > Dist(y.vr_r, z.vr_ms)
        PROVE  D(y.vr_r) < D(y.vr_h) /\ D(y.vr_h) <= D(y.vr_h)
    <3> HIDE DEF D
    <3> QED
      BY <1>1, <1>3, <1>5, <1>6, <2>1
  <2> QED
    BY <2>1, Zenon
<1> HIDE DEF D
<1>8. Order(x, z)
  BY <1>2, <1>4, <1>5, <1>7, Zenon DEF Order, D
<1>9. D(y.vr_r) <= D(y.vr_r)
  BY <1>1, <1>3
<1> QED
  BY <1>8, <1>9 DEF Later, Arrived, D

LEMMA LaterKept ==
  ASSUME NEW x, NEW y, NEW z, Later(x, y, z), Kept(x, y)
  PROVE  Kept(x, z)
BY Zenon DEF Later, Kept

LEMMA LaterAsks ==
  ASSUME NEW x, NEW y, NEW z, Numbers(x, y), Numbers(x, z), Later(x, y, z),
         NEW ack, NEW nacks, NEW b \in SNs, Asks(x, y, ack, nacks, b)
  PROVE  Asks(x, z, ack, nacks, b)
<1> DEFINE D(sn) == Dist(x.vt_a, sn)
<1>1. D(b) <= D(y.vr_r) /\ D(y.vr_r) <= D(z.vr_r)
  BY DEF Asks, Later
<1>2. D(b) \in Int /\ D(y.vr_r) \in Int /\ D(z.vr_r) \in Int
  BY Distances DEF Numbers
<1>3. D(b) <= D(z.vr_r)
  <2> HIDE DEF D
  <2> QED
    BY <1>1, <1>2
<1> QED
  BY <1>3, Zenon DEF Asks

LEMMA LaterReport ==
  ASSUME NEW x, NEW y, NEW z, Numbers(x, y), Numbers(x, z), Later(x, y, z),
         NEW st, NEW b \in SNs, ReportOK(x, y, st, b)
  PROVE  ReportOK(x, z, st, b)
<1>1. Asks(x, z, st.ack_sn, st.nacks, b)
  BY LaterAsks DEF ReportOK
<1>2. Truthful(x, z, x.vt_a, st.ack_sn, st.nacks)
  BY Zenon DEF ReportOK, Truthful, Later
<1> QED
  BY <1>1, <1>2 DEF ReportOK

LEMMA LaterWork ==
  ASSUME NEW x, NEW y, NEW z, Numbers(x, y), Numbers(x, z), Later(x, y, z),
         NEW k, NEW b \in SNs, WorkOK(x, y, k, b)
  PROVE  WorkOK(x, z, k, b)
<1>1. Asks(x, z, k.ack_sn, k.nacks, b)
  BY LaterAsks DEF WorkOK
<1>2. Truthful(x, z, k.i, k.ack_sn, k.nacks)
  BY Zenon DEF WorkOK, Truthful, Later
<1> QED
  BY <1>1, <1>2, Zenon DEF WorkOK

(* The status that the receiver builds has VR(R) as its base.              *)
LEMMA BuiltReport ==
  ASSUME NEW x, Numbers(x, rx), Order(x, rx), Kept(x, rx), RxOK(rx), NEW u \in Uptos
  PROVE  ReportOK(x, rx, Status(u), rx.vr_r) /\ ~Arrived(x, rx, rx.vr_r)
<1> DEFINE D(sn) == Dist(x.vt_a, sn)
           st   == Status(u)
           base == rx.vr_r
<1>1. /\ x.vt_a \in SNs /\ x.vt_s \in SNs /\ DOMAIN rx.window \subseteq SNs
      /\ base \in SNs /\ rx.vr_ms \in SNs /\ rx.vr_h \in SNs
  BY DEF Numbers
<1>2. /\ st \in Reports
      /\ Dist(base, st.ack_sn) <= Dist(base, rx.vr_ms)
      /\ \A n \in st.nacks : n \notin DOMAIN rx.window /\ Dist(base, n) < Dist(base, st.ack_sn)
      /\ \A b \in SNs : Dist(base, b) < Dist(base, st.ack_sn) /\ b \notin st.nacks
                          => b \in DOMAIN rx.window
  BY StatusIs
<1> HIDE DEF st
<1>3. st.ack_sn \in SNs /\ st.nacks \subseteq SNs
  BY <1>2 DEF Reports
<1>4. /\ D(base) <= D(rx.vr_ms) /\ D(rx.vr_ms) <= D(rx.vr_h) /\ D(rx.vr_h) <= D(x.vt_s)
      /\ \A sn \in DOMAIN rx.window : D(base) < D(sn)
  BY DEF Order
<1>5. \A m \in SNs : D(m) \in Int /\ 0 <= D(m) /\ D(m) < MOD
  BY <1>1, Distances
<1>6. \A m, n \in SNs : D(m) = D(n) => m = n
  BY <1>1, Distances
<1>7. \A n \in SNs : Dist(base, n) = IF D(base) <= D(n) THEN D(n) - D(base)
                                     ELSE (D(n) - D(base)) + MOD
  BY <1>1, Distances
<1>8. ~Arrived(x, rx, base)
  <2>1. ~(D(base) < D(base))
    BY <1>1, <1>5
  <2> QED
    BY <1>4, <2>1 DEF Arrived
<1> HIDE DEF D
<1>9. D(base) <= D(st.ack_sn) /\ D(st.ack_sn) <= D(rx.vr_ms) /\ D(st.ack_sn) <= D(x.vt_s)
  BY <1>1, <1>2, <1>3, <1>4, <1>5, <1>7, Constants
<1>10. \A n \in st.nacks : D(base) <= D(n) /\ D(n) < D(st.ack_sn)
  <2> TAKE n \in st.nacks
  <2>1. n \in SNs /\ Dist(base, n) < Dist(base, st.ack_sn)
    BY <1>2, <1>3
  <2> QED
    BY <1>1, <1>3, <1>5, <1>7, <1>9, <2>1, Constants
<1>11. (base = st.ack_sn /\ st.nacks = {}) \/ (base \in st.nacks /\ D(base) < D(st.ack_sn))
  <2>1. CASE base = st.ack_sn
    <3>1. \A n \in st.nacks : FALSE
      BY <1>3, <1>5, <1>10, <2>1
    <3> QED
      BY <2>1, <3>1
  <2>2. CASE base # st.ack_sn
    <3>1. D(base) < D(st.ack_sn)
      BY <1>1, <1>3, <1>5, <1>6, <1>9, <2>2
    <3>2. Dist(base, base) = 0 /\ Dist(base, base) < Dist(base, st.ack_sn)
      BY <1>1, <1>3, <1>5, <1>7, <3>1
    <3>3. base \notin DOMAIN rx.window
      BY <1>8 DEF Arrived
    <3> QED
      BY <1>1, <1>2, <3>1, <3>2, <3>3
  <2> QED
    BY <2>1, <2>2
<1>12. Held(x, base)
  <2>1. D(base) <= D(x.vt_s)
    BY <1>1, <1>4, <1>5
  <2>2. CASE D(base) = D(x.vt_s)
    BY <1>1, <1>6, <2>2 DEF Held
  <2>3. CASE D(base) # D(x.vt_s)
    <3>1. D(base) < D(x.vt_s)
      BY <1>1, <1>5, <2>1, <2>3
    <3> QED
      BY <1>1, <1>8, <3>1 DEF Kept, Held, D
  <2> QED
    BY <2>2, <2>3
<1>13. D(base) <= D(base)
  BY <1>1, <1>5
<1>14. Asks(x, rx, st.ack_sn, st.nacks, base)
  BY <1>9, <1>10, <1>11, <1>12, <1>13 DEF Asks, D
<1>15. \A n \in SNs : D(n) < D(st.ack_sn) /\ n \notin st.nacks => Arrived(x, rx, n)
  <2> SUFFICES ASSUME NEW n \in SNs, D(n) < D(st.ack_sn), n \notin st.nacks
               PROVE  Arrived(x, rx, n)
    OBVIOUS
  <2>1. CASE D(n) < D(base)
    BY <2>1 DEF Arrived, D
  <2>2. CASE ~(D(n) < D(base))
    <3>1. Dist(base, n) < Dist(base, st.ack_sn)
      BY <1>1, <1>3, <1>5, <1>7, <1>9, <2>2
    <3> QED
      BY <1>2, <3>1 DEF Arrived
  <2> QED
    BY <2>1, <2>2
<1>16. Truthful(x, rx, x.vt_a, st.ack_sn, st.nacks)
  BY <1>15 DEF Truthful, D
<1> QED
  BY <1>8, <1>14, <1>16 DEF ReportOK, st

-----------------------------------------------------------------------------
(* The sender's steps.                                                     *)
SameTx(x, w) == w.vt_a = x.vt_a /\ w.vt_s = x.vt_s /\ DOMAIN w.window = DOMAIN x.window

LEMMA SameOrder ==
  ASSUME NEW x, NEW w, SameTx(x, w), NEW y
  PROVE  /\ Order(x, y) => Order(w, y)
         /\ Kept(x, y) => Kept(w, y)
         /\ \A pdus : Recent(x, pdus) => Recent(w, pdus)
         /\ \A st, b : ReportOK(x, y, st, b) => ReportOK(w, y, st, b)
         /\ \A k, b : WorkOK(x, y, k, b) => WorkOK(w, y, k, b)
         /\ \A k, b, c : Apart(x, k, b, c) => Apart(w, k, b, c)
<1>1. Order(x, y) => Order(w, y)
  BY DEF SameTx, Order
<1>2. \A n : Arrived(x, y, n) <=> Arrived(w, y, n)
  BY DEF SameTx, Arrived
<1>3. Kept(x, y) => Kept(w, y)
  BY <1>2 DEF SameTx, Kept
<1>4. \A pdus : Recent(x, pdus) => Recent(w, pdus)
  BY DEF SameTx, Recent
<1>5. \A ack, nacks, b : Asks(x, y, ack, nacks, b) => Asks(w, y, ack, nacks, b)
  BY DEF SameTx, Asks, Held
<1>6. \A i, ack, nacks : Truthful(x, y, i, ack, nacks) => Truthful(w, y, i, ack, nacks)
  BY <1>2 DEF SameTx, Truthful
<1>7. \A st, b : ReportOK(x, y, st, b) => ReportOK(w, y, st, b)
  BY <1>5, <1>6 DEF SameTx, ReportOK
<1>8. \A k, b : WorkOK(x, y, k, b) => WorkOK(w, y, k, b)
  BY <1>5, <1>6 DEF SameTx, WorkOK
<1>9. \A k, b, c : Apart(x, k, b, c) => Apart(w, k, b, c)
  BY DEF SameTx, Apart
<1> QED
  BY <1>1, <1>3, <1>4, <1>7, <1>8, <1>9

(* A new PDU takes the number VT(S).                                       *)
Numbered(x, w) ==
  /\ w.vt_a = x.vt_a /\ w.vt_s = Next1(x.vt_s)
  /\ DOMAIN w.window = DOMAIN x.window \cup {x.vt_s}

LEMMA NumberedIs ==
  ASSUME NEW x, NEW w, NEW y, Numbers(x, y), Dist(x.vt_a, x.vt_s) < Window, Numbered(x, w)
  PROVE  /\ w.vt_s \in SNs
         /\ Dist(x.vt_a, w.vt_s) = Dist(x.vt_a, x.vt_s) + 1
         /\ \A n \in SNs : Dist(x.vt_a, n) < Dist(x.vt_a, x.vt_s) =>
                             Dist(x.vt_a, n) < Dist(x.vt_a, w.vt_s)
         /\ \A n \in SNs : Dist(x.vt_a, n) <= Dist(x.vt_a, x.vt_s) =>
                             Dist(x.vt_a, n) <= Dist(x.vt_a, w.vt_s)
<1>1. x.vt_a \in SNs /\ x.vt_s \in SNs
  BY DEF Numbers
<1>2. Dist(x.vt_a, x.vt_s) \in Int /\ \A n \in SNs : Dist(x.vt_a, n) \in Int
  BY <1>1, Distances
<1>3. Dist(x.vt_a, x.vt_s) + 1 < MOD
  BY <1>2, Constants
<1>4. w.vt_s \in SNs /\ Dist(x.vt_a, w.vt_s) = Dist(x.vt_a, x.vt_s) + 1
  BY <1>1, <1>3, DistNext DEF Numbered
<1> QED
  BY <1>2, <1>4

LEMMA NumberedKeeps ==
  ASSUME NEW x, NEW w, NEW y, Numbers(x, y), Dist(x.vt_a, x.vt_s) < Window, Numbered(x, w)
  PROVE  /\ Order(x, y) => Order(w, y)
         /\ Kept(x, y) => Kept(w, y)
         /\ \A st \in Reports : \A b : ReportOK(x, y, st, b) => ReportOK(w, y, st, b)
         /\ \A k, b : k.ack_sn \in SNs /\ WorkOK(x, y, k, b) => WorkOK(w, y, k, b)
         /\ \A k, b, c : Apart(x, k, b, c) => Apart(w, k, b, c)
<1> DEFINE D(n) == Dist(x.vt_a, n)
<1>1. /\ x.vt_a \in SNs /\ x.vt_s \in SNs /\ DOMAIN x.window \subseteq SNs
      /\ y.vr_h \in SNs
  BY DEF Numbers
<1>2. /\ w.vt_s \in SNs /\ D(w.vt_s) = D(x.vt_s) + 1
      /\ \A n \in SNs : D(n) < D(x.vt_s) => D(n) < D(w.vt_s)
      /\ \A n \in SNs : D(n) <= D(x.vt_s) => D(n) <= D(w.vt_s)
  BY NumberedIs
<1>3. w.vt_a = x.vt_a /\ DOMAIN w.window = DOMAIN x.window \cup {x.vt_s}
  BY DEF Numbered
<1>4. \A n \in SNs : D(n) \in Int
  BY <1>1, Distances
<1>5. \A m, n \in SNs : D(m) = D(n) => m = n
  BY <1>1, Distances
<1>6. D(x.vt_s) < Window
  OBVIOUS
<1> HIDE DEF D
<1>7. D(w.vt_s) <= Window /\ D(x.vt_s) < D(w.vt_s)
  BY <1>1, <1>2, <1>4, <1>6, Constants
<1>8. ASSUME Order(x, y)
      PROVE  Order(w, y)
  <2>1. /\ D(y.vr_r) <= D(y.vr_ms) /\ D(y.vr_ms) <= D(y.vr_h) /\ D(y.vr_h) <= D(x.vt_s)
        /\ \A sn \in DOMAIN x.window : D(sn) < D(x.vt_s)
        /\ \A sn \in DOMAIN y.window : D(y.vr_r) < D(sn) /\ D(sn) < D(y.vr_h)
        /\ y.reordering => D(y.vr_r) < D(y.vr_x) /\ D(y.vr_x) <= D(y.vr_h)
    BY <1>8 DEF Order, D
  <2>2. D(y.vr_h) <= D(w.vt_s)
    BY <1>1, <1>2, <2>1
  <2>3. \A sn \in DOMAIN w.window : D(sn) < D(w.vt_s)
    BY <1>1, <1>2, <1>3, <1>7, <2>1
  <2> QED
    BY <1>3, <1>7, <2>1, <2>2, <2>3, Zenon DEF Order, D
<1>9. \A n : Arrived(x, y, n) <=> Arrived(w, y, n)
  BY <1>3 DEF Arrived
<1>10. ASSUME Kept(x, y)
       PROVE  Kept(w, y)
  <2> SUFFICES ASSUME NEW n \in SNs, D(n) < D(w.vt_s)
               PROVE  Arrived(w, y, n) \/ n \in DOMAIN w.window
    BY <1>3 DEF Kept, D
  <2>1. D(n) < D(x.vt_s) \/ n = x.vt_s
    BY <1>1, <1>2, <1>4, <1>5
  <2> QED
    BY <1>3, <1>9, <1>10, <2>1 DEF Kept, D
<1>11. ASSUME NEW ack \in SNs, NEW nacks, NEW b, Asks(x, y, ack, nacks, b)
       PROVE  Asks(w, y, ack, nacks, b)
  <2>1. D(ack) <= D(w.vt_s)
    BY <1>2, <1>11 DEF Asks, D
  <2>2. Held(w, b)
    BY <1>3, <1>11 DEF Asks, Held
  <2> QED
    BY <1>3, <1>11, <2>1, <2>2, Zenon DEF Asks, D
<1>12. \A i, ack, nacks : Truthful(x, y, i, ack, nacks) => Truthful(w, y, i, ack, nacks)
  BY <1>3, <1>9 DEF Truthful
<1>13. \A st \in Reports : \A b : ReportOK(x, y, st, b) => ReportOK(w, y, st, b)
  <2>1. \A st \in Reports : st.ack_sn \in SNs
    BY DEF Reports
  <2> QED
    BY <1>3, <1>11, <1>12, <2>1 DEF ReportOK
<1>14. \A k, b : k.ack_sn \in SNs /\ WorkOK(x, y, k, b) => WorkOK(w, y, k, b)
  BY <1>3, <1>11, <1>12 DEF WorkOK
<1>15. \A k, b, c : Apart(x, k, b, c) => Apart(w, k, b, c)
  BY <1>3 DEF Apart
<1> QED
  BY <1>8, <1>10, <1>13, <1>14, <1>15

(* The PDUs on the air when the sender takes a new number, none of them a  *)
(* straggler.                                                              *)
LEMMA SentIsRecent ==
  ASSUME NEW x, NEW y, Numbers(x, y), Order(x, y), NEW n \in DOMAIN x.window
  PROVE  Dist(n, x.vt_s) \in 1 .. Window
<1> DEFINE D(m) == Dist(x.vt_a, m)
<1>1. x.vt_a \in SNs /\ x.vt_s \in SNs /\ n \in SNs
  BY DEF Numbers
<1>2. D(n) < D(x.vt_s) /\ D(x.vt_s) <= Window
  BY DEF Order
<1>3. D(n) \in Int /\ 0 <= D(n) /\ D(x.vt_s) \in Int
  BY <1>1, Distances
<1>4. Dist(n, x.vt_s) = D(x.vt_s) - D(n)
  <2>1. D(n) <= D(x.vt_s)
    BY <1>2, <1>3
  <2> QED
    BY <1>1, <2>1, DistVia
<1> HIDE DEF D
<1> QED
  BY <1>2, <1>3, <1>4, Constants

(* The window without a number that has arrived.                           *)
Forgets(x, w, i) ==
  w.vt_a = x.vt_a /\ w.vt_s = x.vt_s /\ DOMAIN w.window = DOMAIN x.window \ {i}

LEMMA ForgetsKeeps ==
  ASSUME NEW x, NEW w, NEW y, NEW i, Forgets(x, w, i), Arrived(x, y, i)
  PROVE  /\ Order(x, y) => Order(w, y)
         /\ Kept(x, y) => Kept(w, y)
         /\ \A pdus : Recent(x, pdus) => Recent(w, pdus)
         /\ \A ack, nacks, b : b # i /\ Asks(x, y, ack, nacks, b) => Asks(w, y, ack, nacks, b)
         /\ \A j, ack, nacks : Truthful(x, y, j, ack, nacks) => Truthful(w, y, j, ack, nacks)
<1>1. Order(x, y) => Order(w, y)
  BY DEF Forgets, Order
<1>2. \A n : Arrived(x, y, n) <=> Arrived(w, y, n)
  BY DEF Forgets, Arrived
<1>3. Kept(x, y) => Kept(w, y)
  BY <1>2 DEF Forgets, Kept
<1>4. \A pdus : Recent(x, pdus) => Recent(w, pdus)
  BY DEF Forgets, Recent
<1>5. \A ack, nacks, b : b # i /\ Asks(x, y, ack, nacks, b) => Asks(w, y, ack, nacks, b)
  BY DEF Forgets, Asks, Held
<1>6. \A j, ack, nacks : Truthful(x, y, j, ack, nacks) => Truthful(w, y, j, ack, nacks)
  BY <1>2 DEF Forgets, Truthful
<1> QED
  BY <1>1, <1>3, <1>4, <1>5, <1>6

(* VT(A) moves past a number that has arrived.                             *)
Advances(x, w) ==
  w.vt_a = Next1(x.vt_a) /\ w.vt_s = x.vt_s /\ DOMAIN w.window = DOMAIN x.window

LEMMA Shift ==
  ASSUME NEW a \in SNs
  PROVE  /\ Next1(a) \in SNs
         /\ \A n \in SNs : n # a => Dist(Next1(a), n) = Dist(a, n) - 1 /\ Dist(a, n) > 0
         /\ Dist(Next1(a), a) = MOD - 1
<1>1. ASSUME NEW n \in SNs, n # a
      PROVE  Dist(Next1(a), n) = Dist(a, n) - 1 /\ Dist(a, n) > 0
  <2>1. Dist(Next1(a), n) = Dist(a, n) - 1
    BY <1>1, DistNext
  <2>2. Dist(a, n) # 0 /\ Dist(a, n) \in Int /\ 0 <= Dist(a, n)
    BY <1>1, Distances
  <2> QED
    BY <2>1, <2>2
<1> QED
  BY <1>1, DistNext

LEMMA AdvancesKeeps ==
  ASSUME NEW x, NEW w, NEW y, Numbers(x, y), Order(x, y), Advances(x, w),
         Arrived(x, y, x.vt_a), x.vt_a \notin DOMAIN x.window
  PROVE  /\ Order(w, y)
         /\ Kept(x, y) => Kept(w, y)
         /\ \A pdus : Recent(x, pdus) => Recent(w, pdus)
         /\ \A ack \in SNs, nacks \in SUBSET SNs, b \in SNs :
              b # x.vt_a /\ Asks(x, y, ack, nacks, b) => Asks(w, y, ack, nacks, b)
         /\ \A j \in SNs, ack \in SNs : \A nacks :
              Dist(x.vt_a, j) <= 1 /\ ack # x.vt_a /\ Truthful(x, y, j, ack, nacks)
                => Truthful(w, y, w.vt_a, ack, nacks)
<1> DEFINE a == x.vt_a
           D(n) == Dist(a, n)
           E(n) == Dist(w.vt_a, n)
<1>1. /\ a \in SNs /\ x.vt_s \in SNs /\ DOMAIN x.window \subseteq SNs
      /\ y.vr_r \in SNs /\ y.vr_x \in SNs /\ y.vr_ms \in SNs /\ y.vr_h \in SNs
      /\ DOMAIN y.window \subseteq SNs
  BY DEF Numbers
<1>2. /\ w.vt_a \in SNs
      /\ \A n \in SNs : n # a => E(n) = D(n) - 1 /\ D(n) > 0
      /\ E(a) = MOD - 1
  <2>1. w.vt_a = Next1(a)
    BY DEF Advances
  <2> HIDE DEF a
  <2> QED
    BY <1>1, <2>1, Shift
<1>3. w.vt_s = x.vt_s /\ DOMAIN w.window = DOMAIN x.window
  BY DEF Advances
<1>4. \A n \in SNs : D(n) \in Int /\ 0 <= D(n) /\ D(n) < MOD
  BY <1>1, Distances
<1>5. D(a) = 0
  BY <1>1, Distances
<1>6. /\ D(y.vr_r) <= D(y.vr_ms) /\ D(y.vr_ms) <= D(y.vr_h) /\ D(y.vr_h) <= D(x.vt_s)
      /\ D(x.vt_s) <= Window
      /\ \A sn \in DOMAIN x.window : D(sn) < D(x.vt_s)
      /\ \A sn \in DOMAIN y.window : D(y.vr_r) < D(sn) /\ D(sn) < D(y.vr_h)
      /\ y.reordering => D(y.vr_r) < D(y.vr_x) /\ D(y.vr_x) <= D(y.vr_h)
  BY DEF Order
<1>7. D(a) < D(y.vr_r) \/ a \in DOMAIN y.window
  BY DEF Arrived
<1> HIDE DEF D, E
<1>8. D(y.vr_r) > 0
  BY <1>1, <1>4, <1>5, <1>6, <1>7
<1>9. D(y.vr_ms) > 0 /\ D(y.vr_h) > 0 /\ D(x.vt_s) > 0
  BY <1>1, <1>4, <1>6, <1>8
<1>10. y.vr_r # a /\ y.vr_ms # a /\ y.vr_h # a /\ x.vt_s # a
  BY <1>5, <1>8, <1>9
<1>11. \A sn \in DOMAIN y.window : sn \in SNs /\ sn # a
  BY <1>1, <1>4, <1>5, <1>6, <1>8
<1>12. \A sn \in DOMAIN x.window : sn \in SNs /\ sn # a
  BY <1>1
<1>13. Order(w, y)
  <2>1. E(y.vr_r) <= E(y.vr_ms) /\ E(y.vr_ms) <= E(y.vr_h) /\ E(y.vr_h) <= E(x.vt_s)
        /\ E(x.vt_s) <= Window
    <3>1. /\ E(y.vr_r) = D(y.vr_r) - 1 /\ E(y.vr_ms) = D(y.vr_ms) - 1
          /\ E(y.vr_h) = D(y.vr_h) - 1 /\ E(x.vt_s) = D(x.vt_s) - 1
      BY <1>1, <1>2, <1>10
    <3> QED
      BY <1>1, <1>4, <1>6, <3>1, Constants
  <2>2. \A sn \in DOMAIN x.window : E(sn) < E(x.vt_s)
    <3> TAKE sn \in DOMAIN x.window
    <3>1. E(sn) = D(sn) - 1 /\ E(x.vt_s) = D(x.vt_s) - 1 /\ D(sn) < D(x.vt_s) /\ sn \in SNs
      BY <1>1, <1>2, <1>6, <1>10, <1>12
    <3> QED
      BY <1>1, <1>4, <3>1
  <2>3. \A sn \in DOMAIN y.window : E(y.vr_r) < E(sn) /\ E(sn) < E(y.vr_h)
    <3> TAKE sn \in DOMAIN y.window
    <3>1. /\ E(sn) = D(sn) - 1 /\ E(y.vr_r) = D(y.vr_r) - 1 /\ E(y.vr_h) = D(y.vr_h) - 1
          /\ D(y.vr_r) < D(sn) /\ D(sn) < D(y.vr_h) /\ sn \in SNs
      BY <1>1, <1>2, <1>6, <1>10, <1>11
    <3> QED
      BY <1>1, <1>4, <3>1
  <2>4. y.reordering => E(y.vr_r) < E(y.vr_x) /\ E(y.vr_x) <= E(y.vr_h)
    <3>1. ASSUME D(y.vr_r) < D(y.vr_x), D(y.vr_x) <= D(y.vr_h)
          PROVE  E(y.vr_r) < E(y.vr_x) /\ E(y.vr_x) <= E(y.vr_h)
      <4>1. y.vr_x # a
        BY <1>1, <1>4, <1>5, <1>8, <3>1
      <4>2. /\ E(y.vr_x) = D(y.vr_x) - 1 /\ E(y.vr_r) = D(y.vr_r) - 1
            /\ E(y.vr_h) = D(y.vr_h) - 1
        BY <1>1, <1>2, <1>10, <4>1
      <4> QED
        BY <1>1, <1>4, <3>1, <4>2
    <3> QED
      BY <1>6, <3>1, Zenon
  <2> QED
    BY <1>3, <2>1, <2>2, <2>3, <2>4, Zenon DEF Order, E
<1>14. \A n \in SNs : n # a /\ Arrived(x, y, n) => Arrived(w, y, n)
  <2> SUFFICES ASSUME NEW n \in SNs, n # a, Arrived(x, y, n)
               PROVE  Arrived(w, y, n)
    OBVIOUS
  <2>1. CASE D(n) < D(y.vr_r)
    <3>1. E(n) < E(y.vr_r)
      BY <1>1, <1>2, <1>4, <1>10, <2>1
    <3> QED
      BY <3>1 DEF Arrived, E
  <2>2. CASE n \in DOMAIN y.window
    BY <2>2 DEF Arrived
  <2> QED
    BY <2>1, <2>2 DEF Arrived, D
<1>15. ASSUME NEW m \in SNs, m # a, NEW n \in SNs, E(n) < E(m)
       PROVE  n # a /\ D(n) < D(m) /\ D(n) >= 1
  <2>1. E(m) = D(m) - 1 /\ D(m) < MOD /\ D(m) \in Int
    BY <1>2, <1>4, <1>15
  <2>2. n # a
    BY <1>2, <1>15, <2>1, Constants
  <2> QED
    BY <1>2, <1>4, <1>15, <2>1, <2>2
<1>16. ASSUME Kept(x, y)
       PROVE  Kept(w, y)
  <2> SUFFICES ASSUME NEW n \in SNs, E(n) < E(x.vt_s)
               PROVE  Arrived(w, y, n) \/ n \in DOMAIN w.window
    BY <1>3 DEF Kept, E
  <2>1. n # a /\ D(n) < D(x.vt_s)
    BY <1>1, <1>10, <1>15
  <2> QED
    BY <1>3, <1>14, <1>16, <2>1 DEF Kept, D
<1>17. \A pdus : Recent(x, pdus) => Recent(w, pdus)
  BY <1>3 DEF Recent
<1>18. ASSUME NEW ack \in SNs, NEW nacks \in SUBSET SNs, NEW b \in SNs, b # a,
              Asks(x, y, ack, nacks, b)
       PROVE  Asks(w, y, ack, nacks, b)
  <2>1. /\ D(b) <= D(y.vr_r) /\ D(b) <= D(ack) /\ D(ack) <= D(x.vt_s)
        /\ (b = ack /\ nacks = {}) \/ (b \in nacks /\ D(b) < D(ack))
        /\ \A sn \in nacks : D(b) <= D(sn)
        /\ Held(x, b)
    BY <1>18 DEF Asks, D
  <2>2. D(b) > 0 /\ E(b) = D(b) - 1
    BY <1>2, <1>18
  <2>3. ack # a /\ \A sn \in nacks : sn \in SNs /\ sn # a
    BY <1>4, <1>5, <2>1, <2>2
  <2>4. E(ack) = D(ack) - 1 /\ \A sn \in nacks : E(sn) = D(sn) - 1
    BY <1>2, <2>3
  <2>5. E(y.vr_r) = D(y.vr_r) - 1 /\ E(x.vt_s) = D(x.vt_s) - 1
    BY <1>1, <1>2, <1>10
  <2>6. /\ E(b) <= E(y.vr_r) /\ E(b) <= E(ack) /\ E(ack) <= E(x.vt_s)
        /\ D(b) < D(ack) => E(b) < E(ack)
    BY <1>1, <1>4, <2>1, <2>2, <2>4, <2>5
  <2>7. \A sn \in nacks : E(b) <= E(sn)
    BY <1>4, <2>1, <2>2, <2>3, <2>4
  <2>8. Held(w, b)
    BY <1>3, <2>1 DEF Held
  <2> QED
    BY <1>3, <2>1, <2>6, <2>7, <2>8, Zenon DEF Asks, E
<1>19. ASSUME NEW j \in SNs, NEW ack \in SNs, NEW nacks,
              D(j) <= 1, ack # a, Truthful(x, y, j, ack, nacks)
       PROVE  Truthful(w, y, w.vt_a, ack, nacks)
  <2> SUFFICES ASSUME NEW n \in SNs, E(n) < E(ack), n \notin nacks
               PROVE  Arrived(w, y, n)
    BY DEF Truthful, E
  <2>1. n # a /\ D(n) < D(ack) /\ D(n) >= 1
    BY <1>15, <1>19
  <2>2. D(j) <= D(n)
    BY <1>4, <1>19, <2>1
  <2>3. Arrived(x, y, n)
    BY <1>19, <2>1, <2>2 DEF Truthful, D
  <2> QED
    BY <1>14, <2>1, <2>3
<1> QED
  BY <1>13, <1>16, <1>17, <1>18, <1>19 DEF D

-----------------------------------------------------------------------------
(* The invariant: a status that is on the air and one that is worked off   *)
(* have bases, the second not behind the first.                            *)
StatusInv ==
  \E b, c \in SNs :
    /\ report # <<>> => ReportOK(tx, rx, report[1], c)
    /\ ctrl.pc = "control" => WorkOK(tx, rx, ctrl, b)
    /\ report # <<>> /\ ctrl.pc = "control" => Apart(tx, ctrl, b, c)

WindowInv == Order(tx, rx) /\ Kept(tx, rx) /\ Recent(tx, air) /\ StatusInv

LEMMA NumbersAre ==
  ASSUME NEW w \in Nat, NEW x, NEW y, TxOK(w, x), RxOK(y)
  PROVE  Numbers(x, y)
<1>1. /\ x.vt_a \in SNs /\ x.vt_s \in SNs /\ x.window \in Windows(w)
      /\ y.vr_r \in SNs /\ y.vr_x \in SNs /\ y.vr_ms \in SNs /\ y.vr_h \in SNs
      /\ y.window \in Maps(SNs, Data)
  BY TxFields, RxFields DEF TxOK, RxOK
<1> QED
  BY <1>1, WindowIs, MapsDef DEF Numbers

LEMMA NumbersNow ==
  ASSUME TypeInv
  PROVE  Numbers(tx, rx)
BY NumbersAre, WrittenIs DEF TypeInv

LEMMA NumbersNext ==
  ASSUME TypeInv, TypeInv', written' = written \/ written' = written + 1
  PROVE  Numbers(tx', rx') /\ Numbers(tx, rx')
<1>1. written \in Nat /\ written' \in Nat
  BY WrittenIs DEF TypeInv
<1>2. TxOK(written, tx) /\ TxOK(written', tx') /\ RxOK(rx')
  BY DEF TypeInv
<1> QED
  BY <1>1, <1>2, NumbersAre

LEMMA SameKeeps ==
  ASSUME NEW x, NEW y, NEW z, Numbers(x, y), SameNumbers(y, z)
  PROVE  (Order(x, y) => Order(x, z)) /\ Later(x, y, z) /\ Numbers(x, z)
<1>1. Order(x, y) => Order(x, z)
  BY Zenon DEF Order, SameNumbers
<1>2. Dist(x.vt_a, y.vr_r) \in Int
  BY Distances DEF Numbers
<1>3. Dist(x.vt_a, y.vr_r) <= Dist(x.vt_a, z.vr_r)
  BY <1>2 DEF SameNumbers
<1> QED
  BY <1>1, <1>3, Zenon DEF SameNumbers, Later, Arrived, Numbers

LEMMA InitWindowInv ==
  ASSUME Init
  PROVE  WindowInv
<1>1. TypeInv
  BY InitTypeInv
<1>2. /\ tx.vt_a = 0 /\ tx.vt_s = 0 /\ tx.window = <<>> /\ report = <<>> /\ ctrl = Idle /\ air = <<>>
      /\ rx.vr_r = 0 /\ rx.vr_ms = 0 /\ rx.vr_h = 0 /\ rx.window = <<>> /\ ~rx.reordering
  BY DEF Init
<1>3. Dist(0, 0) = 0 /\ 0 \in SNs /\ 0 <= Window
  BY DistIs, Constants
<1>4. DOMAIN <<>> = {} /\ DOMAIN air = {}
  BY <1>2
<1>5. Order(tx, rx)
  BY <1>2, <1>3, <1>4 DEF Order
<1>6. Kept(tx, rx)
  BY <1>2, <1>3, DistIs DEF Kept
<1>7. Recent(tx, air)
  BY <1>4 DEF Recent
<1>8. StatusInv
  BY <1>2, <1>3 DEF StatusInv, Idle
<1> QED
  BY <1>5, <1>6, <1>7, <1>8 DEF WindowInv

(* A step of the receiver, or of neither side's numbers.                   *)
LEMMA ReceiverStep ==
  ASSUME WindowInv, Numbers(tx, rx), Numbers(tx, rx'), SameTx(tx, tx'),
         Order(tx, rx'), Later(tx, rx, rx'), Recent(tx, air'),
         report' = report \/ report' = <<>>,
         ctrl' = ctrl \/ ctrl'.pc # "control"
  PROVE  WindowInv'
<1>1. Order(tx, rx) /\ Kept(tx, rx) /\ StatusInv
  BY DEF WindowInv
<1>2. Kept(tx, rx')
  BY <1>1, LaterKept
<1>3. Order(tx', rx') /\ Kept(tx', rx') /\ Recent(tx', air')
  BY <1>2, SameOrder
<1>4. PICK b \in SNs : \E c \in SNs :
        /\ report # <<>> => ReportOK(tx, rx, report[1], c)
        /\ ctrl.pc = "control" => WorkOK(tx, rx, ctrl, b)
        /\ report # <<>> /\ ctrl.pc = "control" => Apart(tx, ctrl, b, c)
  BY <1>1 DEF StatusInv
<1>5. PICK c \in SNs :
        /\ report # <<>> => ReportOK(tx, rx, report[1], c)
        /\ ctrl.pc = "control" => WorkOK(tx, rx, ctrl, b)
        /\ report # <<>> /\ ctrl.pc = "control" => Apart(tx, ctrl, b, c)
  BY <1>4
<1>6. report # <<>> => ReportOK(tx', rx', report[1], c)
  <2>1. report # <<>> => ReportOK(tx, rx', report[1], c)
    BY <1>5, LaterReport
  <2> QED
    BY <2>1, SameOrder
<1>7. ctrl.pc = "control" => WorkOK(tx', rx', ctrl, b)
  <2>1. ctrl.pc = "control" => WorkOK(tx, rx', ctrl, b)
    BY <1>5, LaterWork
  <2> QED
    BY <2>1, SameOrder
<1>8. report # <<>> /\ ctrl.pc = "control" => Apart(tx', ctrl, b, c)
  BY <1>5, SameOrder
<1>9. /\ report' # <<>> => report' = report /\ report # <<>>
      /\ ctrl'.pc = "control" => ctrl' = ctrl /\ ctrl.pc = "control"
  OBVIOUS
<1>10. /\ report' # <<>> => ReportOK(tx', rx', report'[1], c)
       /\ ctrl'.pc = "control" => WorkOK(tx', rx', ctrl', b)
       /\ report' # <<>> /\ ctrl'.pc = "control" => Apart(tx', ctrl', b, c)
  BY <1>6, <1>7, <1>8, <1>9, Zenon
<1>11. StatusInv'
  BY <1>10 DEF StatusInv
<1> QED
  BY <1>3, <1>11 DEF WindowInv

LEMMA QuietStep ==
  ASSUME TypeInv, WindowInv, SameTx(tx, tx'), SameNumbers(rx, rx'), Recent(tx, air'),
         report' = report \/ report' = <<>>,
         ctrl' = ctrl \/ ctrl'.pc # "control"
  PROVE  WindowInv'
<1>1. Numbers(tx, rx)
  BY NumbersNow
<1>2. Order(tx, rx') /\ Later(tx, rx, rx') /\ Numbers(tx, rx')
  BY <1>1, SameKeeps DEF WindowInv
<1> QED
  BY <1>1, <1>2, ReceiverStep

LEMMA OneMore ==
  ASSUME NEW x, NEW pdus \in Seq(Sent), Recent(x, pdus), NEW p \in Sent,
         Dist(p.sn, x.vt_s) \in 1 .. Window
  PROVE  Recent(x, Append(pdus, p))
<1> DEFINE s == Append(pdus, p)
<1>1. \A i \in DOMAIN s : (i \in DOMAIN pdus /\ s[i] = pdus[i]) \/ s[i] = p
  OBVIOUS
<1> HIDE DEF s
<1> QED
  BY <1>1 DEF Recent, s

LEMMA WindowRead ==
  ASSUME ~ahead', TypeInv, WindowInv, NEW g \in Nat, NEW fits, read_pdu(g, fits)
  PROVE  WindowInv'
<1>1. ctrl' = ctrl /\ rx' = rx /\ report' = report /\ written' = written
  BY DEF read_pdu, pdcp
<1>2. tx'.vt_a = tx.vt_a /\ (Resent \/ SentNew)
  BY ReadEffect
<1>3. Numbers(tx, rx) /\ Order(tx, rx) /\ Recent(tx, air) /\ Kept(tx, rx) /\ StatusInv
  BY NumbersNow DEF WindowInv
<1>4. air \in Seq(Sent)
  BY DEF TypeInv
<1>5. CASE Resent
  <2>1. SameTx(tx, tx') /\ SameNumbers(rx, rx')
    BY <1>1, <1>2, <1>5 DEF Resent, SameTx, SameNumbers
  <2>2. Recent(tx, air')
    <3>1. CASE air' = air
      BY <1>3, <3>1
    <3>2. CASE \E p \in Sent : air' = Append(air, p) /\ p.sn \in DOMAIN tx.window
      <4>1. PICK p \in Sent : air' = Append(air, p) /\ p.sn \in DOMAIN tx.window
        BY <3>2
      <4>2. Dist(p.sn, tx.vt_s) \in 1 .. Window
        BY <1>3, <4>1, SentIsRecent
      <4>3. Recent(tx, Append(air, p))
        BY <1>3, <1>4, <4>2, OneMore
      <4> QED
        BY <4>1, <4>3
    <3> QED
      BY <1>5, <3>1, <3>2 DEF Resent
  <2> QED
    BY <1>1, <2>1, <2>2, QuietStep
<1>6. CASE SentNew
  <2>1. /\ NoStraggler /\ tx'.vt_s = Next1(tx.vt_s)
        /\ DOMAIN tx'.window = (DOMAIN tx.window \ SameSlot(tx)) \cup {tx.vt_s}
    BY <1>6 DEF SentNew
  <2>2. Dist(tx.vt_a, tx.vt_s) < Window
    <3>1. ~(tx'.vt_s # tx.vt_s /\ Dist(tx.vt_a, tx.vt_s) >= Window)
      BY DEF read_pdu
    <3>2. tx.vt_s \in SNs /\ Dist(tx.vt_a, tx.vt_s) \in Int
      BY <1>3, Distances DEF Numbers
    <3>3. Next1(tx.vt_s) # tx.vt_s
      BY <3>2, DistIs, DistNext, Constants
    <3> QED
      BY <2>1, <3>1, <3>2, <3>3, Constants
  <2>3. PICK p \in Sent : air' = Append(air, p) /\ p.sn = tx.vt_s
    BY <1>6 DEF SentNew
  <2>4. tx.vt_a \in SNs /\ tx.vt_s \in SNs /\ DOMAIN tx.window \subseteq SNs
    BY <1>3 DEF Numbers
  <2>5. SameSlot(tx) = {}
    <3> SUFFICES ASSUME NEW r \in DOMAIN tx.window, r % Window = tx.vt_s % Window
                 PROVE  FALSE
      BY DEF SameSlot
    <3> DEFINE D(n) == Dist(tx.vt_a, n)
    <3>1. r \in SNs /\ D(r) < D(tx.vt_s)
      BY <1>3, <2>4 DEF Order
    <3>2. D(r) \in Int /\ 0 <= D(r) /\ D(tx.vt_s) \in Int
      BY <2>4, <3>1, Distances
    <3>3. Dist(r, tx.vt_s) = D(tx.vt_s) - D(r)
      <4>1. D(r) <= D(tx.vt_s)
        BY <3>1, <3>2
      <4> QED
        BY <2>4, <3>1, <4>1, DistVia
    <3>4. D(tx.vt_s) < Window
      BY <2>2
    <3> HIDE DEF D
    <3>5. Dist(r, tx.vt_s) < Window
      BY <3>2, <3>3, <3>4, Constants
    <3>6. r = tx.vt_s
      BY <2>4, <3>1, <3>5, OwnSlots
    <3> QED
      BY <3>1, <3>2, <3>6
  <2>6. Numbered(tx, tx')
    BY <1>2, <2>1, <2>5 DEF Numbered
  <2>7. Order(tx', rx) /\ Kept(tx', rx)
    BY <1>3, <2>2, <2>6, NumberedKeeps
  <2>8. Recent(tx', air')
    <3>1. tx'.vt_s \in SNs /\ Dist(tx.vt_a, tx'.vt_s) = Dist(tx.vt_a, tx.vt_s) + 1
      BY <1>3, <2>2, <2>6, NumberedIs
    <3> DEFINE D(n) == Dist(tx.vt_a, n)
               s    == tx'.vt_s
    <3>2. \A n \in SNs : D(n) <= D(tx.vt_s) => Dist(n, s) = (D(tx.vt_s) + 1) - D(n)
      <4> SUFFICES ASSUME NEW n \in SNs, D(n) <= D(tx.vt_s)
                   PROVE  Dist(n, s) = (D(tx.vt_s) + 1) - D(n)
        OBVIOUS
      <4>1. D(n) \in Int /\ D(tx.vt_s) \in Int /\ D(s) = D(tx.vt_s) + 1
        BY <2>4, <3>1, Distances
      <4>2. D(n) <= D(s)
        BY <4>1
      <4>3. Dist(n, s) = D(s) - D(n)
        <5> HIDE DEF s
        <5> QED
          BY <2>4, <3>1, <4>2, DistVia DEF s
      <4> QED
        BY <4>1, <4>3
    <3>3. D(tx.vt_s) < Window /\ \A n \in SNs : D(n) \in Int /\ 0 <= D(n)
      BY <2>2, <2>4, Distances
    <3>4. \A n \in DOMAIN tx.window : D(n) < D(tx.vt_s) /\ n \in SNs
      BY <1>3, <2>4 DEF Order
    <3> HIDE DEF D
    <3>5. \A n \in DOMAIN tx.window : Dist(n, s) \in 1 .. Window
      <4> TAKE n \in DOMAIN tx.window
      <4>1. D(n) < D(tx.vt_s) /\ n \in SNs /\ D(n) \in Int /\ 0 <= D(n) /\ D(tx.vt_s) \in Int
        BY <2>4, <3>3, <3>4
      <4>2. Dist(n, s) = (D(tx.vt_s) + 1) - D(n)
        BY <3>2, <4>1
      <4> QED
        BY <3>3, <4>1, <4>2, Constants
    <3>6. Dist(tx.vt_s, s) \in 1 .. Window
      <4>1. D(tx.vt_s) \in Int /\ Dist(tx.vt_s, s) = (D(tx.vt_s) + 1) - D(tx.vt_s)
        BY <2>4, <3>2, <3>3
      <4> QED
        BY <4>1, Constants
    <3>7. Recent(tx', air)
      BY <2>1, <3>5 DEF NoStraggler, Recent
    <3>8. Dist(p.sn, tx'.vt_s) \in 1 .. Window
      BY <2>3, <3>6
    <3>9. Recent(tx', Append(air, p))
      BY <1>4, <3>7, <3>8, OneMore
    <3> QED
      BY <2>3, <3>9
  <2>9. PICK b \in SNs : \E c \in SNs :
          /\ report # <<>> => ReportOK(tx, rx, report[1], c)
          /\ ctrl.pc = "control" => WorkOK(tx, rx, ctrl, b)
          /\ report # <<>> /\ ctrl.pc = "control" => Apart(tx, ctrl, b, c)
    BY <1>3 DEF StatusInv
  <2>10. PICK c \in SNs :
          /\ report # <<>> => ReportOK(tx, rx, report[1], c)
          /\ ctrl.pc = "control" => WorkOK(tx, rx, ctrl, b)
          /\ report # <<>> /\ ctrl.pc = "control" => Apart(tx, ctrl, b, c)
    BY <2>9
  <2>11. report # <<>> => ReportOK(tx', rx, report[1], c)
    <3>1. report # <<>> => report[1] \in Reports
      BY DEF TypeInv
    <3> QED
      BY <1>3, <2>2, <2>6, <2>10, <3>1, NumberedKeeps
  <2>12. ctrl.pc = "control" => WorkOK(tx', rx, ctrl, b)
    <3>1. ctrl.pc = "control" => ctrl.ack_sn \in SNs
      BY CtrlIs DEF TypeInv, Controls
    <3> QED
      BY <1>3, <2>2, <2>6, <2>10, <3>1, NumberedKeeps
  <2>13. report # <<>> /\ ctrl.pc = "control" => Apart(tx', ctrl, b, c)
    BY <1>3, <2>2, <2>6, <2>10, NumberedKeeps
  <2>14. StatusInv'
    BY <1>1, <2>11, <2>12, <2>13 DEF StatusInv
  <2> QED
    BY <1>1, <2>7, <2>8, <2>14 DEF WindowInv
<1> QED
  BY <1>2, <1>5, <1>6

(* The sender starts on a status: its base is that of the report.          *)
LEMMA WindowStatus ==
  ASSUME TypeInv, WindowInv, ReceiveStatus
  PROVE  WindowInv'
<1> DEFINE st    == Head(report)
           valid == Dist(tx.vt_a, st.ack_sn) <= Window /\ Dist(st.ack_sn, tx.vt_s) <= Window
<1>1. ctrl = Idle /\ report # <<>> /\ report' = <<>> /\ rx' = rx /\ air' = air
  BY DEF ReceiveStatus
<1>2. Numbers(tx, rx) /\ Order(tx, rx) /\ Recent(tx, air) /\ Kept(tx, rx) /\ StatusInv
  BY NumbersNow DEF WindowInv
<1>3. written \in Nat /\ tx \in TxStates(written)
  BY WrittenIs DEF TypeInv, TxOK
<1>4. CASE ~valid
  <2>1. ctrl' = ctrl /\ tx' = tx
    BY <1>4 DEF ReceiveStatus
  <2> QED
    BY <1>1, <1>2, <2>1, QuietStep DEF SameTx, SameNumbers
<1>5. CASE valid
  <2>1. /\ ctrl' = [pc |-> "control", ack_sn |-> st.ack_sn, nacks |-> st.nacks,
                    i |-> tx.vt_a, vt_s |-> tx.vt_s, update |-> TRUE, notify |-> {}]
        /\ tx'.vt_a = tx.vt_a /\ tx'.vt_s = tx.vt_s /\ tx'.window = tx.window
    BY <1>3, <1>5 DEF ReceiveStatus, TxStates
  <2>2. SameTx(tx, tx')
    BY <2>1 DEF SameTx
  <2>3. PICK c \in SNs : ReportOK(tx, rx, report[1], c)
    BY <1>1, <1>2 DEF StatusInv
  <2>4. st = report[1] /\ st \in Reports
    BY <1>1 DEF TypeInv
  <2>5. /\ ctrl'.ack_sn = st.ack_sn /\ ctrl'.nacks = st.nacks /\ ctrl'.i = tx.vt_a
        /\ ctrl'.vt_s = tx.vt_s /\ ctrl'.update = TRUE
    BY <2>1
  <2> HIDE DEF st
  <2>6. WorkOK(tx, rx, ctrl', c)
    <3>1. Asks(tx, rx, st.ack_sn, st.nacks, c) /\ Truthful(tx, rx, tx.vt_a, st.ack_sn, st.nacks)
      BY <2>3, <2>4 DEF ReportOK
    <3>2. Dist(tx.vt_a, st.ack_sn) <= Dist(tx.vt_a, tx.vt_s)
      BY <3>1 DEF Asks
    <3>3. Dist(tx.vt_a, tx.vt_a) <= Dist(tx.vt_a, st.ack_sn)
      <4>1. st.ack_sn \in SNs
        BY <2>4 DEF Reports
      <4> QED
        BY <1>2, <4>1, Distances DEF Numbers
    <3> QED
      BY <2>5, <3>1, <3>2, <3>3, Zenon DEF WorkOK
  <2>7. WorkOK(tx', rx, ctrl', c)
    BY <2>2, <2>6, SameOrder
  <2>8. Order(tx', rx) /\ Kept(tx', rx) /\ Recent(tx', air)
    BY <1>2, <2>2, SameOrder
  <2>9. StatusInv'
    BY <1>1, <2>7 DEF StatusInv
  <2> QED
    BY <1>1, <2>8, <2>9 DEF WindowInv
<1> QED
  BY <1>4, <1>5

(* The sender goes on to the next number of a status.                      *)
LEMMA WorkIs ==
  ASSUME TypeInv, WindowInv, MoreToCheck
  PROVE  /\ ctrl.pc = "control" /\ ctrl \in Controls(written)
         /\ ctrl.i \in SNs /\ ctrl.ack_sn \in SNs /\ ctrl.nacks \in SUBSET SNs /\ ctrl.vt_s \in SNs
         /\ Dist(tx.vt_a, ctrl.i) < Dist(tx.vt_a, ctrl.ack_sn)
         /\ Next1(ctrl.i) \in SNs
         /\ Dist(tx.vt_a, Next1(ctrl.i)) = Dist(tx.vt_a, ctrl.i) + 1
         /\ Dist(tx.vt_a, Next1(ctrl.i)) <= Dist(tx.vt_a, ctrl.ack_sn)
         /\ \E b, c \in SNs :
              /\ WorkOK(tx, rx, ctrl, b)
              /\ report # <<>> => ReportOK(tx, rx, report[1], c) /\ Apart(tx, ctrl, b, c)
<1>1. ctrl.pc = "control" /\ Dist(tx.vt_a, ctrl.i) < Dist(tx.vt_a, ctrl.ack_sn)
  BY DEF MoreToCheck
<1>2. ctrl \in Controls(written)
  BY <1>1, CtrlIs DEF TypeInv
<1>3. ctrl.i \in SNs /\ ctrl.ack_sn \in SNs /\ ctrl.nacks \in SUBSET SNs /\ ctrl.vt_s \in SNs
  BY <1>2 DEF Controls
<1>4. tx.vt_a \in SNs
  BY NumbersNow DEF Numbers
<1> DEFINE m == Dist(tx.vt_a, ctrl.i)
           n == Dist(tx.vt_a, ctrl.ack_sn)
<1>5. m \in Int /\ n \in Int /\ n < MOD /\ MOD \in Int
  BY <1>3, <1>4, Distances, Constants
<1>6. m + 1 < MOD /\ m + 1 <= n
  BY <1>1, <1>5
<1>7. Next1(ctrl.i) \in SNs /\ Dist(tx.vt_a, Next1(ctrl.i)) = m + 1
  BY <1>3, <1>4, <1>6, DistNext
<1>8. \E b, c \in SNs :
        /\ report # <<>> => ReportOK(tx, rx, report[1], c)
        /\ ctrl.pc = "control" => WorkOK(tx, rx, ctrl, b)
        /\ report # <<>> /\ ctrl.pc = "control" => Apart(tx, ctrl, b, c)
  BY DEF WindowInv, StatusInv
<1>9. \E b, c \in SNs :
        /\ WorkOK(tx, rx, ctrl, b)
        /\ report # <<>> => ReportOK(tx, rx, report[1], c) /\ Apart(tx, ctrl, b, c)
  BY <1>1, <1>8
<1> QED
  BY <1>1, <1>2, <1>3, <1>6, <1>7, <1>9

LEMMA WindowNack ==
  ASSUME TypeInv, WindowInv, Nack
  PROVE  WindowInv'
<1> DEFINE D(n) == Dist(tx.vt_a, n)
<1>1. /\ MoreToCheck /\ ctrl.i \in ctrl.nacks
      /\ ctrl' = [ctrl EXCEPT !.update = FALSE, !.i = Next1(ctrl.i)]
      /\ tx' = tx \/ tx' = retransmit_pdu(tx, ctrl.i)
      /\ rx' = rx /\ air' = air /\ report' = report
  BY DEF Nack, radio
<1>2. /\ ctrl.pc = "control" /\ ctrl \in Controls(written)
      /\ ctrl.i \in SNs /\ ctrl.ack_sn \in SNs /\ ctrl.nacks \in SUBSET SNs /\ ctrl.vt_s \in SNs
      /\ D(ctrl.i) < D(ctrl.ack_sn)
      /\ Next1(ctrl.i) \in SNs
      /\ D(Next1(ctrl.i)) = D(ctrl.i) + 1
      /\ D(Next1(ctrl.i)) <= D(ctrl.ack_sn)
  BY <1>1, WorkIs
<1>3. \E b, c \in SNs :
        /\ WorkOK(tx, rx, ctrl, b)
        /\ report # <<>> => ReportOK(tx, rx, report[1], c) /\ Apart(tx, ctrl, b, c)
  BY <1>1, WorkIs
<1>4. PICK b \in SNs : \E c \in SNs :
        /\ WorkOK(tx, rx, ctrl, b)
        /\ report # <<>> => ReportOK(tx, rx, report[1], c) /\ Apart(tx, ctrl, b, c)
  BY <1>3
<1>5. PICK c \in SNs :
        /\ WorkOK(tx, rx, ctrl, b)
        /\ report # <<>> => ReportOK(tx, rx, report[1], c) /\ Apart(tx, ctrl, b, c)
  BY <1>4
<1>6. SameTx(tx, tx')
  <2>1. written \in Nat /\ TxOK(written, tx)
    BY WrittenIs DEF TypeInv
  <2>2. Frame(tx, retransmit_pdu(tx, ctrl.i))
    BY <2>1, RetransmitOK
  <2> QED
    BY <1>1, <2>2 DEF Frame, SameTx
<1>7. /\ ctrl'.ack_sn = ctrl.ack_sn /\ ctrl'.nacks = ctrl.nacks /\ ctrl'.vt_s = ctrl.vt_s
      /\ ctrl'.i = Next1(ctrl.i) /\ ctrl'.update = FALSE /\ ctrl'.pc = "control"
  BY <1>1, <1>2 DEF Controls
<1>8. tx.vt_a \in SNs /\ \A n \in SNs : D(n) \in Int /\ 0 <= D(n)
  BY NumbersNow, Distances DEF Numbers
<1>9. \A m, n \in SNs : D(m) = D(n) => m = n
  BY <1>8, Distances
<1>10. D(tx.vt_a) = 0
  BY <1>8, Distances
<1>11. /\ Asks(tx, rx, ctrl.ack_sn, ctrl.nacks, b) /\ Truthful(tx, rx, ctrl.i, ctrl.ack_sn, ctrl.nacks)
       /\ D(ctrl.ack_sn) <= D(ctrl.vt_s)
       /\ IF ctrl.update THEN ctrl.i = tx.vt_a ELSE b = tx.vt_a
  BY <1>5, Zenon DEF WorkOK
<1>12. D(b) <= D(ctrl.i)
  BY <1>1, <1>11 DEF Asks
<1> HIDE DEF D
<1>13. b = tx.vt_a
  <2>1. CASE ctrl.i = tx.vt_a
    <3>1. D(b) = D(tx.vt_a)
      BY <1>8, <1>10, <1>12, <2>1
    <3> QED
      BY <1>8, <1>9, <3>1
  <2> QED
    BY <1>11, <2>1, Zenon
<1>14. Truthful(tx, rx, Next1(ctrl.i), ctrl.ack_sn, ctrl.nacks)
  <2>1. \A n \in SNs : D(Next1(ctrl.i)) <= D(n) => D(ctrl.i) <= D(n)
    BY <1>2, <1>8
  <2> QED
    BY <1>11, <2>1, Zenon DEF Truthful, D
<1>15. WorkOK(tx, rx, ctrl', b)
  BY <1>2, <1>7, <1>11, <1>13, <1>14, Zenon DEF WorkOK, D
<1>16. Apart(tx, ctrl, b, c) => Apart(tx, ctrl', b, c)
  <2>1. D(Next1(ctrl.i)) <= D(c) => D(ctrl.i) <= D(c)
    BY <1>2, <1>8
  <2> QED
    BY <1>7, <2>1, Zenon DEF Apart, D
<1>17. /\ report' # <<>> => ReportOK(tx', rx', report'[1], c)
       /\ ctrl'.pc = "control" => WorkOK(tx', rx', ctrl', b)
       /\ report' # <<>> /\ ctrl'.pc = "control" => Apart(tx', ctrl', b, c)
  BY <1>1, <1>5, <1>6, <1>15, <1>16, SameOrder
<1>18. StatusInv'
  BY <1>17 DEF StatusInv
<1>19. Order(tx', rx') /\ Kept(tx', rx') /\ Recent(tx', air')
  BY <1>1, <1>6, SameOrder DEF WindowInv
<1> QED
  BY <1>18, <1>19 DEF WindowInv

LEMMA WindowAck ==
  ASSUME TypeInv, WindowInv, Ack
  PROVE  WindowInv'
<1> DEFINE D(n) == Dist(tx.vt_a, n)
           x == [tx EXCEPT !.window = Without(@, {ctrl.i})]
<1>1. /\ MoreToCheck /\ ctrl.i \notin ctrl.nacks
      /\ rx' = rx /\ air' = air /\ report' = report
  BY DEF Ack, radio
<1>2. /\ ctrl.pc = "control" /\ ctrl \in Controls(written)
      /\ ctrl.i \in SNs /\ ctrl.ack_sn \in SNs /\ ctrl.nacks \in SUBSET SNs /\ ctrl.vt_s \in SNs
      /\ D(ctrl.i) < D(ctrl.ack_sn)
      /\ Next1(ctrl.i) \in SNs
      /\ D(Next1(ctrl.i)) = D(ctrl.i) + 1
      /\ D(Next1(ctrl.i)) <= D(ctrl.ack_sn)
  BY <1>1, WorkIs
<1>3. \E b, c \in SNs :
        /\ WorkOK(tx, rx, ctrl, b)
        /\ report # <<>> => ReportOK(tx, rx, report[1], c) /\ Apart(tx, ctrl, b, c)
  BY <1>1, WorkIs
<1>4. PICK b \in SNs : \E c \in SNs :
        /\ WorkOK(tx, rx, ctrl, b)
        /\ report # <<>> => ReportOK(tx, rx, report[1], c) /\ Apart(tx, ctrl, b, c)
  BY <1>3
<1>5. PICK c \in SNs :
        /\ WorkOK(tx, rx, ctrl, b)
        /\ report # <<>> => ReportOK(tx, rx, report[1], c) /\ Apart(tx, ctrl, b, c)
  BY <1>4
<1>6. written \in Nat /\ tx \in TxStates(written)
  BY WrittenIs DEF TypeInv, TxOK
<1>7. /\ tx'.vt_s = tx.vt_s /\ DOMAIN tx'.window = DOMAIN tx.window \ {ctrl.i}
      /\ tx'.vt_a = IF ctrl.update THEN Next1(tx.vt_a) ELSE tx.vt_a
  BY <1>6 DEF Ack, TxStates, Without
<1>8. /\ ctrl'.ack_sn = ctrl.ack_sn /\ ctrl'.nacks = ctrl.nacks /\ ctrl'.vt_s = ctrl.vt_s
      /\ ctrl'.i = Next1(ctrl.i) /\ ctrl'.pc = "control"
  BY <1>2 DEF Ack, Controls
<1>9. ctrl'.update = ctrl.update
  BY <1>2, Zenon DEF Ack, Controls
<1>10. Forgets(tx, x, ctrl.i)
  BY <1>6 DEF Forgets, TxStates, Without
<1> HIDE DEF x
<1>11. Numbers(tx, rx) /\ Order(tx, rx) /\ Recent(tx, air) /\ Kept(tx, rx)
  BY NumbersNow DEF WindowInv
<1>12. /\ tx.vt_a \in SNs /\ tx.vt_s \in SNs /\ DOMAIN tx.window \subseteq SNs
  BY <1>11 DEF Numbers
<1>13. \A n \in SNs : D(n) \in Int /\ 0 <= D(n)
  BY <1>12, Distances
<1>14. \A m, n \in SNs : D(m) = D(n) => m = n
  BY <1>12, Distances
<1>15. D(tx.vt_a) = 0
  BY <1>12, Distances
<1>16. /\ Asks(tx, rx, ctrl.ack_sn, ctrl.nacks, b) /\ Truthful(tx, rx, ctrl.i, ctrl.ack_sn, ctrl.nacks)
       /\ D(ctrl.ack_sn) <= D(ctrl.vt_s)
       /\ IF ctrl.update THEN ctrl.i = tx.vt_a ELSE b = tx.vt_a
  BY <1>5, Zenon DEF WorkOK
<1>17. Arrived(tx, rx, ctrl.i)
  <2>1. D(ctrl.i) <= D(ctrl.i)
    BY <1>2, <1>13
  <2> QED
    BY <1>1, <1>2, <1>16, <2>1 DEF Truthful
<1>18. b # ctrl.i
  <2>1. (b = ctrl.ack_sn /\ ctrl.nacks = {}) \/ (b \in ctrl.nacks /\ D(b) < D(ctrl.ack_sn))
    BY <1>16 DEF Asks
  <2>2. ctrl.i # ctrl.ack_sn
    BY <1>2, <1>13
  <2> QED
    BY <1>1, <2>1, <2>2
<1>19. report # <<>> => c # ctrl.i
  <2> SUFFICES ASSUME report # <<>>, c = ctrl.i PROVE FALSE
    OBVIOUS
  <2>1. ~(c \notin ctrl.nacks /\ D(ctrl.i) <= D(c) /\ D(c) < D(ctrl.ack_sn))
    BY <1>5 DEF Apart
  <2> QED
    BY <1>1, <1>2, <1>13, <2>1
<1>20. report # <<>> => report[1].ack_sn \in SNs /\ report[1].nacks \in SUBSET SNs
  <2>1. report # <<>> => report[1] \in Reports
    BY DEF TypeInv
  <2> QED
    BY <2>1 DEF Reports
<1> HIDE DEF D
<1>21. /\ Order(x, rx) /\ Kept(x, rx) /\ Recent(x, air)
       /\ Asks(x, rx, ctrl.ack_sn, ctrl.nacks, b) /\ Truthful(x, rx, ctrl.i, ctrl.ack_sn, ctrl.nacks)
       /\ report # <<>> => /\ Asks(x, rx, report[1].ack_sn, report[1].nacks, c)
                           /\ Truthful(x, rx, tx.vt_a, report[1].ack_sn, report[1].nacks)
  <2>1. report # <<>> => /\ Asks(tx, rx, report[1].ack_sn, report[1].nacks, c)
                         /\ Truthful(tx, rx, tx.vt_a, report[1].ack_sn, report[1].nacks)
    BY <1>5 DEF ReportOK
  <2> QED
    BY <1>10, <1>11, <1>16, <1>17, <1>18, <1>19, <2>1, ForgetsKeeps
<1>22. x.vt_a = tx.vt_a /\ x.vt_s = tx.vt_s /\ DOMAIN x.window = DOMAIN tx.window \ {ctrl.i}
  BY <1>10 DEF Forgets
<1>23. report # <<>> =>
         /\ D(b) <= D(c)
         /\ ~(c \notin ctrl.nacks /\ D(ctrl.i) <= D(c) /\ D(c) < D(ctrl.ack_sn))
  BY <1>5 DEF Apart, D
<1>24. CASE ~ctrl.update
  <2>1. SameTx(x, tx') /\ b = tx.vt_a /\ tx'.vt_a = tx.vt_a
    BY <1>7, <1>16, <1>22, <1>24, Zenon DEF SameTx
  <2>2. Truthful(x, rx, Next1(ctrl.i), ctrl.ack_sn, ctrl.nacks)
    <3>1. \A n \in SNs : D(Next1(ctrl.i)) <= D(n) => D(ctrl.i) <= D(n)
      BY <1>2, <1>13 DEF D
    <3> QED
      BY <1>21, <1>22, <3>1, Zenon DEF Truthful, D
  <2>3. WorkOK(x, rx, ctrl', b)
    BY <1>2, <1>8, <1>9, <1>16, <1>21, <1>22, <1>24, <2>1, <2>2, Zenon DEF WorkOK, D
  <2>4. report # <<>> => ReportOK(x, rx, report[1], c) /\ Apart(x, ctrl', b, c)
    <3>1. D(Next1(ctrl.i)) <= D(c) => D(ctrl.i) <= D(c)
      BY <1>2, <1>13 DEF D
    <3> QED
      BY <1>8, <1>21, <1>22, <1>23, <3>1, Zenon DEF ReportOK, Apart, D
  <2>5. /\ report' # <<>> => ReportOK(tx', rx', report'[1], c)
        /\ ctrl'.pc = "control" => WorkOK(tx', rx', ctrl', b)
        /\ report' # <<>> /\ ctrl'.pc = "control" => Apart(tx', ctrl', b, c)
    BY <1>1, <2>1, <2>3, <2>4, SameOrder
  <2>6. StatusInv'
    BY <2>5 DEF StatusInv
  <2>7. Order(tx', rx') /\ Kept(tx', rx') /\ Recent(tx', air')
    BY <1>1, <1>21, <2>1, SameOrder
  <2> QED
    BY <2>6, <2>7 DEF WindowInv
<1>25. CASE ctrl.update
  <2> DEFINE E(n) == Dist(tx'.vt_a, n)
  <2>1. ctrl.i = tx.vt_a /\ tx'.vt_a = Next1(tx.vt_a)
    BY <1>7, <1>16, <1>25, Zenon
  <2>2. Numbers(x, rx)
    BY <1>11, <1>22 DEF Numbers
  <2>3. Advances(x, tx') /\ Arrived(x, rx, x.vt_a) /\ x.vt_a \notin DOMAIN x.window
    BY <1>7, <1>17, <1>22, <2>1 DEF Advances, Arrived
  <2>4. /\ Order(tx', rx) /\ Kept(tx', rx) /\ Recent(tx', air)
        /\ \A ack \in SNs, nacks \in SUBSET SNs, a \in SNs :
             a # x.vt_a /\ Asks(x, rx, ack, nacks, a) => Asks(tx', rx, ack, nacks, a)
        /\ \A j \in SNs, ack \in SNs : \A nacks :
             Dist(x.vt_a, j) <= 1 /\ ack # x.vt_a /\ Truthful(x, rx, j, ack, nacks)
               => Truthful(tx', rx, tx'.vt_a, ack, nacks)
    BY <1>21, <2>2, <2>3, AdvancesKeeps
  <2>5. D(tx.vt_a) <= 1 /\ ctrl.ack_sn # tx.vt_a
    BY <1>2, <1>13, <1>15, <2>1 DEF D
  <2>6. /\ Asks(tx', rx, ctrl.ack_sn, ctrl.nacks, b)
        /\ Truthful(tx', rx, tx'.vt_a, ctrl.ack_sn, ctrl.nacks)
    BY <1>2, <1>12, <1>18, <1>21, <1>22, <2>1, <2>4, <2>5 DEF D
  <2>7. /\ tx'.vt_a \in SNs
        /\ \A n \in SNs : n # tx.vt_a => E(n) = D(n) - 1 /\ D(n) > 0
        /\ E(tx'.vt_a) = 0
    <3>1. tx'.vt_a \in SNs /\ \A n \in SNs : n # tx.vt_a => E(n) = D(n) - 1 /\ D(n) > 0
      BY <1>12, <2>1, Shift DEF D
    <3> QED
      BY <3>1, Distances
  <2>8. \A n \in SNs : E(n) \in Int /\ 0 <= E(n)
    BY <2>7, Distances
  <2> HIDE DEF E
  <2>9. E(ctrl.ack_sn) <= E(ctrl.vt_s)
    <3>1. ctrl.vt_s # tx.vt_a
      BY <1>2, <1>13, <1>15, <1>16, <2>1 DEF D
    <3>2. E(ctrl.ack_sn) = D(ctrl.ack_sn) - 1 /\ E(ctrl.vt_s) = D(ctrl.vt_s) - 1
      BY <1>2, <2>5, <2>7, <3>1
    <3> QED
      BY <1>2, <1>13, <1>16, <3>2 DEF D
  <2>10. WorkOK(tx', rx, ctrl', b)
    <3>1. E(tx'.vt_a) <= E(ctrl.ack_sn)
      BY <1>2, <2>7, <2>8
    <3> QED
      BY <1>8, <1>9, <1>25, <2>1, <2>6, <2>9, <3>1, Zenon DEF WorkOK, E
  <2>11. ASSUME report # <<>>
         PROVE  ReportOK(tx', rx, report[1], c) /\ Apart(tx', ctrl', b, c)
    <3>1. /\ Asks(x, rx, report[1].ack_sn, report[1].nacks, c)
          /\ Truthful(x, rx, tx.vt_a, report[1].ack_sn, report[1].nacks)
          /\ c # tx.vt_a /\ b # tx.vt_a
      BY <1>18, <1>19, <1>21, <2>1, <2>11
    <3>2. D(c) > 0 /\ E(c) = D(c) - 1 /\ E(b) = D(b) - 1
      BY <2>7, <3>1
    <3>3. report[1].ack_sn # tx.vt_a
      <4>1. D(c) <= D(report[1].ack_sn)
        BY <1>22, <3>1 DEF Asks, D
      <4> QED
        BY <1>13, <1>15, <1>20, <2>11, <3>2, <4>1
    <3>4. /\ Asks(tx', rx, report[1].ack_sn, report[1].nacks, c)
          /\ Truthful(tx', rx, tx'.vt_a, report[1].ack_sn, report[1].nacks)
      BY <1>12, <1>20, <1>22, <2>4, <2>5, <2>11, <3>1, <3>3 DEF D
    <3>5. E(b) <= E(c)
      BY <1>13, <1>23, <2>11, <3>2
    <3>6. E(ctrl.ack_sn) = D(ctrl.ack_sn) - 1
      BY <1>2, <2>5, <2>7
    <3>7. ~(c \notin ctrl.nacks /\ E(c) < E(ctrl.ack_sn))
      <4>1. E(c) < E(ctrl.ack_sn) => D(c) < D(ctrl.ack_sn)
        BY <1>2, <1>13, <3>2, <3>6
      <4>2. D(ctrl.i) <= D(c)
        BY <1>13, <1>15, <2>1
      <4> QED
        BY <1>23, <2>11, <4>1, <4>2
    <3> QED
      BY <1>8, <3>4, <3>5, <3>7, Zenon DEF ReportOK, Apart, E
  <2>12. StatusInv'
    BY <1>1, <2>10, <2>11 DEF StatusInv
  <2> QED
    BY <1>1, <2>4, <2>12 DEF WindowInv
<1> QED
  BY <1>24, <1>25

(* Data PDUs arrive: the receiver takes one or only moves VR(H).           *)
LEMMA WindowReceive ==
  ASSUME TypeInv, WindowInv, NEW i \in 1 .. 2, ReceiveData(i)
  PROVE  WindowInv'
<1> DEFINE p == air[i].sn
<1>1. tx' = tx /\ ctrl' = ctrl /\ report' = report /\ written' = written
  BY DEF ReceiveData
<1>2. TypeInv'
  BY TypeReceive
<1>3. Numbers(tx, rx) /\ Numbers(tx, rx')
  BY <1>1, <1>2, NumbersNow, NumbersNext
<1>4. Order(tx, rx) /\ Recent(tx, air)
  BY DEF WindowInv
<1>5. /\ i \in DOMAIN air /\ air[i] \in Sent
      /\ \A j \in DOMAIN air' : \E k \in DOMAIN air : air'[j].sn = air[k].sn
  BY Received
<1>6. p \in SNs /\ Dist(p, tx.vt_s) \in 1 .. Window
  BY <1>4, <1>5 DEF Sent, Recent
<1>7. Recent(tx, air')
  BY <1>4, <1>5 DEF Recent
<1>8. SameNumbers(rx, rx') \/ Takes(rx, p, rx') \/ Raises(rx, p, rx')
  BY ReceiveEffect
<1> HIDE DEF p
<1>9. Order(tx, rx') /\ Later(tx, rx, rx')
  <2>1. CASE SameNumbers(rx, rx')
    BY <1>3, <1>4, <2>1, SameKeeps
  <2>2. CASE Takes(rx, p, rx')
    BY <1>3, <1>4, <1>6, <2>2, TakesKeeps
  <2>3. CASE Raises(rx, p, rx')
    BY <1>3, <1>4, <1>6, <2>3, RaisesKeeps
  <2> QED
    BY <1>8, <2>1, <2>2, <2>3
<1>10. SameTx(tx, tx')
  BY <1>1 DEF SameTx
<1> QED
  BY <1>1, <1>3, <1>7, <1>9, <1>10, ReceiverStep

LEMMA WindowReorderingTimer ==
  ASSUME TypeInv, WindowInv, ReorderingTimerExpires
  PROVE  WindowInv'
<1> DEFINE ms   == FirstFree(rx.window, rx.vr_x)
           more == Dist(rx.vr_r, rx.vr_h) > Dist(rx.vr_r, ms)
           status == rx.do_status \/ rx.poll_received
           x    == IF more THEN rx.vr_h ELSE rx.vr_x
<1>1. /\ rx.reordering
      /\ rx' = [rx EXCEPT !.vr_ms = ms, !.do_status = status, !.reordering = more, !.vr_x = x]
      /\ tx' = tx /\ ctrl' = ctrl /\ air' = air /\ report' = report /\ written' = written
  BY DEF ReorderingTimerExpires, radio, pdcp
<1>2. TypeInv'
  BY TypeReorderingTimer
<1>3. Numbers(tx, rx) /\ Numbers(tx, rx')
  BY <1>1, <1>2, NumbersNow, NumbersNext
<1>4. Order(tx, rx) /\ Recent(tx, air)
  BY DEF WindowInv
<1>5. rx \in RxStates /\ Within(rx.window, rx.vr_r)
  BY DEF TypeInv, RxOK
<1>6. more => x = rx.vr_h
  OBVIOUS
<1>7. more <=> Dist(rx.vr_r, rx.vr_h) > Dist(rx.vr_r, ms)
  OBVIOUS
<1>8. ms = FirstFree(rx.window, rx.vr_x)
  OBVIOUS
<1> HIDE DEF ms, more, status, x
<1>9. /\ rx'.vr_r = rx.vr_r /\ rx'.vr_h = rx.vr_h /\ rx'.window = rx.window
      /\ rx'.vr_ms = ms /\ rx'.vr_x = x
  BY <1>1, <1>5 DEF RxStates
<1>10. rx'.reordering = more
  BY <1>1, <1>5 DEF RxStates
<1>11. rx'.reordering <=> Dist(rx.vr_r, rx.vr_h) > Dist(rx.vr_r, rx'.vr_ms)
  BY <1>7, <1>9, <1>10, Zenon
<1>12. rx'.reordering => rx'.vr_x = rx.vr_h
  BY <1>6, <1>9, <1>10, Zenon
<1>13. rx'.vr_ms = FirstFree(rx.window, rx.vr_x)
  BY <1>8, <1>9
<1>14. Order(tx, rx') /\ Later(tx, rx, rx')
  BY <1>1, <1>3, <1>4, <1>5, <1>9, <1>11, <1>12, <1>13, TimerKeeps, Zenon
<1>15. SameTx(tx, tx') /\ Recent(tx, air')
  BY <1>1, <1>4 DEF SameTx
<1> QED
  BY <1>1, <1>3, <1>14, <1>15, ReceiverStep

(* A status is built: nothing that is worked off acknowledges its base.    *)
LEMMA WindowBuildStatus ==
  ASSUME TypeInv, WindowInv, NEW u \in Uptos, build_status_pdu(u)
  PROVE  WindowInv'
<1> DEFINE D(n) == Dist(tx.vt_a, n)
           c == rx.vr_r
<1>1. /\ rx' = [rx EXCEPT !.do_status = FALSE, !.poll_received = FALSE, !.prohibit = TRUE]
      /\ report = <<>> /\ report' = <<Status(u)>>
      /\ tx' = tx /\ ctrl' = ctrl /\ air' = air
  BY DEF build_status_pdu, pdcp
<1>2. Numbers(tx, rx) /\ Order(tx, rx) /\ Recent(tx, air) /\ Kept(tx, rx) /\ StatusInv
  BY NumbersNow DEF WindowInv
<1>3. rx \in RxStates /\ RxOK(rx)
  BY DEF TypeInv, RxOK
<1>4. SameNumbers(rx, rx')
  BY <1>1, <1>3 DEF RxStates, SameNumbers
<1>5. Order(tx, rx') /\ Later(tx, rx, rx') /\ Numbers(tx, rx')
  BY <1>2, <1>4, SameKeeps
<1>6. Kept(tx, rx')
  BY <1>2, <1>5, LaterKept
<1>7. c \in SNs
  BY <1>2 DEF Numbers
<1>8. ReportOK(tx, rx, Status(u), c) /\ ~Arrived(tx, rx, c)
  BY <1>2, <1>3, BuiltReport
<1> DEFINE st == Status(u)
<1>9. report'[1] = st
  BY <1>1
<1> HIDE DEF st, c
<1>10. ReportOK(tx, rx', st, c)
  BY <1>2, <1>5, <1>7, <1>8, LaterReport DEF st
<1>11. PICK b \in SNs : ctrl.pc = "control" => WorkOK(tx, rx, ctrl, b)
  BY <1>2 DEF StatusInv
<1>12. ctrl.pc = "control" => WorkOK(tx, rx', ctrl, b)
  BY <1>2, <1>5, <1>11, LaterWork
<1>13. ASSUME ctrl.pc = "control" PROVE Apart(tx, ctrl, b, c)
  <2>1. D(b) <= D(c)
    BY <1>11, <1>13 DEF WorkOK, Asks, c
  <2>2. ~(c \notin ctrl.nacks /\ D(ctrl.i) <= D(c) /\ D(c) < D(ctrl.ack_sn))
    BY <1>7, <1>8, <1>11, <1>13, Zenon DEF WorkOK, Truthful
  <2> QED
    BY <2>1, <2>2 DEF Apart
<1>14. /\ report' # <<>> => ReportOK(tx', rx', report'[1], c)
       /\ ctrl'.pc = "control" => WorkOK(tx', rx', ctrl', b)
       /\ report' # <<>> /\ ctrl'.pc = "control" => Apart(tx', ctrl', b, c)
  BY <1>1, <1>9, <1>10, <1>12, <1>13
<1>15. StatusInv'
  BY <1>7, <1>14 DEF StatusInv
<1> QED
  BY <1>1, <1>2, <1>5, <1>6, <1>15 DEF WindowInv

(* The other steps leave the numbers and the windows alone.                *)
LEMMA WindowQueue ==
  ASSUME TypeInv, WindowInv, write_sdu \/ \E s \in Discards : discard_sdu(s)
  PROVE  WindowInv'
<1>1. written \in Nat /\ tx \in TxStates(written)
  BY WrittenIs DEF TypeInv, TxOK
<1>2. rx' = rx /\ air' = air /\ report' = report /\ (ctrl' = ctrl \/ ctrl'.pc # "control")
  BY DEF write_sdu, discard_sdu, radio, Idle
<1>3. tx' = tx \/ \E queue : tx' = [tx EXCEPT !.queue = queue]
  BY DEF write_sdu, discard_sdu
<1>4. SameTx(tx, tx')
  <2>1. CASE tx' = tx
    BY <2>1 DEF SameTx
  <2>2. CASE \E queue : tx' = [tx EXCEPT !.queue = queue]
    BY <1>1, <2>2 DEF TxStates, SameTx
  <2> QED
    BY <1>3, <2>1, <2>2
<1>5. SameNumbers(rx, rx') /\ Recent(tx, air')
  BY <1>2 DEF SameNumbers, WindowInv
<1> QED
  BY <1>2, <1>4, <1>5, QuietStep

LEMMA WindowTimers ==
  ASSUME TypeInv, WindowInv,
         NotifyDelivery \/ PollTimerExpires \/ timer_expired \/ StatusProhibitExpires
  PROVE  WindowInv'
<1>1. written \in Nat /\ TxOK(written, tx) /\ tx \in TxStates(written) /\ rx \in RxStates
  BY WrittenIs DEF TypeInv, TxOK, RxOK
<1>2. air' = air /\ report' = report
  BY DEF NotifyDelivery, PollTimerExpires, timer_expired, StatusProhibitExpires, radio
<1>3. ctrl' = ctrl \/ ctrl'.pc # "control"
  BY DEF NotifyDelivery, PollTimerExpires, timer_expired, StatusProhibitExpires, Idle
<1>4. SameTx(tx, tx')
  <2>1. \/ tx' = tx \/ tx' = retransmit_pdu(tx, tx.vt_a)
        \/ tx' = [tx EXCEPT !.poll_timer = "expired"]
    BY DEF NotifyDelivery, PollTimerExpires, timer_expired, StatusProhibitExpires
  <2>2. Frame(tx, retransmit_pdu(tx, tx.vt_a))
    BY <1>1, RetransmitOK
  <2>3. CASE tx' = [tx EXCEPT !.poll_timer = "expired"]
    BY <1>1, <2>3 DEF TxStates, SameTx
  <2> QED
    BY <2>1, <2>2, <2>3 DEF Frame, SameTx
<1>5. SameNumbers(rx, rx')
  <2>1. rx' = rx \/ rx' = [rx EXCEPT !.prohibit = FALSE]
    BY DEF NotifyDelivery, PollTimerExpires, timer_expired, StatusProhibitExpires
  <2> QED
    BY <1>1, <2>1 DEF RxStates, SameNumbers
<1>6. Recent(tx, air')
  BY <1>2 DEF WindowInv
<1> QED
  BY <1>2, <1>3, <1>4, <1>5, <1>6, QuietStep

LEMMA WindowLose ==
  ASSUME TypeInv, WindowInv, LoseStatus \/ \E i \in 1 .. InFlight : LoseData(i)
  PROVE  WindowInv'
<1>1. /\ tx' = tx /\ ctrl' = ctrl /\ rx' = rx /\ (report' = report \/ report' = <<>>)
  BY DEF LoseStatus, LoseData
<1>2. Recent(tx, air)
  BY DEF WindowInv
<1>3. Recent(tx, air')
  <2>1. CASE LoseStatus
    BY <1>2, <2>1 DEF LoseStatus
  <2>2. CASE \E i \in 1 .. InFlight : LoseData(i)
    <3>1. PICK i \in DOMAIN air : air' = RemoveAt(air, i)
      BY <2>2 DEF LoseData
    <3>2. \A j \in DOMAIN air' : \E k \in DOMAIN air : air'[j] = air[k]
      BY <3>1, RemovedFromAir DEF TypeInv
    <3> QED
      BY <1>2, <3>2 DEF Recent
  <2> QED
    BY <2>1, <2>2
<1>4. SameTx(tx, tx') /\ SameNumbers(rx, rx')
  BY <1>1 DEF SameTx, SameNumbers
<1> QED
  BY <1>1, <1>3, <1>4, QuietStep

LEMMA NextWindowInv ==
  ASSUME ~ahead', TypeInv, WindowInv, [Next]_vars
  PROVE  WindowInv'
<1>1. CASE write_sdu \/ \E s \in Discards : discard_sdu(s)
  BY <1>1, WindowQueue
<1>2. CASE \E g \in Grants, fits \in Fits : read_pdu(g, fits)
  <2>1. Grants \subseteq Nat
    BY ConstantsAssumption DEF Grants
  <2> QED
    BY <1>2, <2>1, WindowRead
<1>3. CASE ReceiveStatus
  BY <1>3, WindowStatus
<1>4. CASE Nack
  BY <1>4, WindowNack
<1>5. CASE Ack
  BY <1>5, WindowAck
<1>6. CASE NotifyDelivery \/ PollTimerExpires \/ timer_expired \/ StatusProhibitExpires
  BY <1>6, WindowTimers
<1>7. CASE \E i \in 1 .. 2 : ReceiveData(i)
  BY <1>7, WindowReceive
<1>8. CASE ReorderingTimerExpires
  BY <1>8, WindowReorderingTimer
<1>9. CASE \E u \in Uptos : build_status_pdu(u)
  BY <1>9, WindowBuildStatus
<1>10. CASE LoseStatus \/ \E i \in 1 .. InFlight : LoseData(i)
  BY <1>10, WindowLose
<1>11. CASE UNCHANGED vars
  <2>1. tx' = tx /\ ctrl' = ctrl /\ rx' = rx /\ air' = air /\ report' = report
    BY <1>11 DEF vars, radio
  <2>2. SameTx(tx, tx') /\ SameNumbers(rx, rx') /\ Recent(tx, air')
    BY <2>1 DEF SameTx, SameNumbers, WindowInv
  <2> QED
    BY <2>1, <2>2, QuietStep
<1> QED
  BY <1>1, <1>2, <1>3, <1>4, <1>5, <1>6, <1>7, <1>8, <1>9, <1>10, <1>11 DEF Next

LEMMA WindowInvHolds == Spec => [](TypeInv /\ (~ahead => WindowInv))
<1> DEFINE Inv == TypeInv /\ ahead \in BOOLEAN /\ (~ahead => WindowInv)
<1>1. Init => Inv
  <2>1. Init => ahead = FALSE
    BY DEF Init
  <2> QED
    BY <2>1, InitTypeInv, InitWindowInv
<1>2. Inv /\ [Next]_vars => Inv'
  BY NextTypeInv, AheadStays, NextWindowInv
<1>3. Inv => TypeInv /\ (~ahead => WindowInv)
  OBVIOUS
<1> QED
  BY <1>1, <1>2, <1>3, PTL DEF Spec

LEMMA WindowInvKeeps ==
  ASSUME TypeInv, ~ahead => WindowInv
  PROVE  MissingIsKept
<1> SUFFICES ASSUME ~ahead, WindowInv
             PROVE  MissingIsKept
  BY DEF MissingIsKept
<1> DEFINE D(n) == Dist(tx.vt_a, n)
           r == rx.vr_r
           s == tx.vt_s
<1>1. tx.vt_a \in SNs /\ s \in SNs /\ r \in SNs /\ rx.vr_ms \in SNs /\ rx.vr_h \in SNs
  BY NumbersNow DEF Numbers
<1>2. D(r) <= D(rx.vr_ms) /\ D(rx.vr_ms) <= D(rx.vr_h) /\ D(rx.vr_h) <= D(s)
  BY DEF WindowInv, Order
<1>3. \A n \in SNs : D(n) \in Int /\ 0 <= D(n) /\ D(n) < MOD
  BY <1>1, Distances
<1>4. Kept(tx, rx)
  BY DEF WindowInv
<1> HIDE DEF r, s
<1>5. D(r) <= D(s)
  <2> HIDE DEF D
  <2> QED
    BY <1>1, <1>2, <1>3
<1>6. Dist(r, s) = D(s) - D(r)
  BY <1>1, <1>5, DistVia
<1>7. ASSUME NEW k \in 0 .. Dist(r, s) - 1
      PROVE  LET sn == (r + k) % MOD IN sn \in DOMAIN rx.window \/ sn \in DOMAIN tx.window
  <2> DEFINE sn == (r + k) % MOD
  <2>1. k \in Nat /\ k < D(s) - D(r) /\ MOD \in Int
    BY <1>1, <1>3, <1>6, Constants
  <2>2. D(r) + k < MOD /\ D(r) + k < D(s) /\ ~(D(r) + k < D(r))
    <3> HIDE DEF D
    <3> QED
      BY <1>1, <1>3, <2>1
  <2>3. sn \in SNs /\ D(sn) = D(r) + k
    BY <1>1, <2>1, <2>2, DistPlus
  <2> HIDE DEF sn
  <2>4. D(sn) < D(s) /\ ~(D(sn) < D(r))
    BY <2>2, <2>3
  <2> QED
    BY <1>4, <2>3, <2>4 DEF Kept, Arrived, r, s, sn
<1> QED
  BY <1>7 DEF MissingIsKept, r, s

LEMMA WindowInvEnds ==
  ASSUME TypeInv, ~ahead => WindowInv
  PROVE  NoProtocolFailure
<1> SUFFICES ASSUME ctrl.pc = "control", ~MoreToCheck, WindowInv
             PROVE  DOMAIN tx.window = {} \/ tx.vt_a \in DOMAIN tx.window
  BY DEF NoProtocolFailure
<1> DEFINE D(n) == Dist(tx.vt_a, n)
<1>1. PICK b \in SNs : WorkOK(tx, rx, ctrl, b)
  BY DEF WindowInv, StatusInv
<1>2. ctrl.i \in SNs /\ ctrl.ack_sn \in SNs /\ ctrl.vt_s \in SNs
  BY CtrlIs DEF TypeInv, Controls
<1>3. tx.vt_a \in SNs /\ tx.vt_s \in SNs /\ DOMAIN tx.window \subseteq SNs
  BY NumbersNow DEF Numbers
<1>4. /\ \A n \in SNs : D(n) \in Int /\ 0 <= D(n)
      /\ \A m, n \in SNs : D(m) = D(n) => m = n
      /\ D(tx.vt_a) = 0
  BY <1>3, Distances
<1>5. D(b) <= D(ctrl.ack_sn) /\ Held(tx, b)
  BY <1>1 DEF WorkOK, Asks
<1>6. IF ctrl.update THEN ctrl.i = tx.vt_a ELSE b = tx.vt_a
  BY <1>1, Zenon DEF WorkOK
<1>7. D(ctrl.ack_sn) <= D(ctrl.vt_s) /\ D(ctrl.i) <= D(ctrl.ack_sn)
  BY <1>1 DEF WorkOK
<1>8. ~(D(ctrl.i) < D(ctrl.ack_sn)) \/ ~(D(ctrl.i) < D(ctrl.vt_s))
  BY DEF MoreToCheck
<1>9. \A sn \in DOMAIN tx.window : D(sn) < D(tx.vt_s)
  BY DEF WindowInv, Order
<1> HIDE DEF D
<1>10. D(ctrl.i) = D(ctrl.ack_sn)
  BY <1>2, <1>4, <1>7, <1>8
<1>11. b = tx.vt_a
  <2>1. CASE ctrl.i = tx.vt_a
    <3>1. D(b) = D(tx.vt_a)
      BY <1>2, <1>4, <1>5, <1>10, <2>1
    <3> QED
      BY <1>3, <1>4, <3>1
  <2> QED
    BY <1>6, <2>1, Zenon
<1>12. CASE tx.vt_a = tx.vt_s
  BY <1>3, <1>4, <1>9, <1>12
<1>13. CASE tx.vt_a \in DOMAIN tx.window
  BY <1>13
<1> QED
  BY <1>5, <1>11, <1>12, <1>13 DEF Held

(* What the receiver misses the sender has: no status, cut off, late or    *)
(* overtaken, lets handle_control_pdu remove a PDU that has not arrived,   *)
(* until read_pdu numbers a PDU at VT(MS) or beyond.                       *)
THEOREM MissingKept == Spec => []MissingIsKept
<1>1. TypeInv /\ (~ahead => WindowInv) => MissingIsKept
  BY WindowInvKeeps
<1> QED
  BY <1>1, WindowInvHolds, PTL

(* handle_control_pdu always finds VT(A) in its window, or the window      *)
(* empty, and reports no protocol failure to RRC, until read_pdu numbers a *)
(* PDU at VT(MS) or beyond.                                                *)
THEOREM NoFailure == Spec => []NoProtocolFailure
<1>1. TypeInv /\ (~ahead => WindowInv) => NoProtocolFailure
  BY WindowInvEnds
<1> QED
  BY <1>1, WindowInvHolds, PTL

=============================================================================
