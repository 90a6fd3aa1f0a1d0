------------------------ MODULE CapsuleAlgebra_proofs ------------------------
(***************************************************************************)
(* What the other proofs need of the group arithmetic and of opening: sums *)
(* over finite sets, congruences, the limbs of limbs.rs, a contribution's  *)
(* fields and what the access masks strip, for every order, limb width and *)
(* number of limbs.                                                        *)
(***************************************************************************)
EXTENDS Opening, FiniteSetTheorems, SequenceTheorems, WellFoundedInduction, TLAPS

----------------------------------------------------------------------------
(* Induction.  A set of naturals has a least element: a statement about    *)
(* all naturals is proved by refuting its least counterexample.            *)

LEMMA NatLeast ==
  ASSUME NEW T, T \subseteq Nat, T # {}
  PROVE  \E n \in T : \A m \in T : n <= m
<1>1. IsWellFoundedOn(OpToRel(<, Nat), Nat)
  BY NatLessThanWellFounded
<1>2. PICK n \in T : \A m \in T : ~(<<m, n>> \in OpToRel(<, Nat))
  BY <1>1, WFMin
<1>3. \A m \in T : ~(m < n)
  BY <1>2 DEF OpToRel
<1> QED BY <1>3

\* A bounded set of naturals has a greatest element, and Max is it.
LEMMA MaxIsGreatest ==
  ASSUME NEW m \in Nat, NEW T, T \subseteq 0 .. m, T # {}
  PROVE  Max(T) \in T /\ \A x \in T : Max(T) >= x
<1> DEFINE U == {k \in 0 .. m : m - k \in T}
<1>1. PICK x \in T : TRUE
  OBVIOUS
<1>2. m - x \in U
  BY <1>1
<1>3. PICK k \in U : \A l \in U : k <= l
  <2>1. U \subseteq Nat /\ U # {}
    BY <1>2
  <2> HIDE DEF U
  <2> QED BY <2>1, NatLeast
<1>4. m - k \in T
  OBVIOUS
<1>5. ASSUME NEW y \in T PROVE m - k >= y
  <2>1. m - y \in U
    BY <1>5
  <2>2. k <= m - y
    BY <1>3, <2>1
  <2> QED BY <2>2
<1> HIDE DEF U
<1>6. \E z \in T : \A y \in T : z >= y
  BY <1>4, <1>5
<1> QED BY <1>6 DEF Max

\* The same for a set that holds 0 and with every number the next one.
LEMMA AllNaturals ==
  ASSUME NEW T, 0 \in T, \A n \in Nat : n \in T => n + 1 \in T
  PROVE  Nat \subseteq T
<1> SUFFICES ASSUME Nat \ T # {} PROVE FALSE
  OBVIOUS
<1>1. PICK n \in Nat \ T : \A m \in Nat \ T : n <= m
  BY NatLeast
<1>2. n - 1 \in Nat /\ n - 1 \in T
  BY <1>1
<1>3. (n - 1) + 1 \in T
  BY <1>2
<1> QED BY <1>1, <1>3

Steps(N, step) == step \in [1 .. N -> [Int -> Int]]

\* h starts with a and goes on by one step after another, up to the N-th.
Solves(h, N, a, step) ==
  h \in [0 .. N -> Int] /\ h[0] = a /\ \A k \in 1 .. N : h[k] = step[k][h[k - 1]]

\* A function defined by recursion up to N exists.
LEMMA Recursion ==
  ASSUME NEW N \in Nat, NEW a \in Int, NEW step, Steps(N, step)
  PROVE  \E h : Solves(h, N, a, step)
<1> USE DEF Steps
<1> DEFINE Upto(n) == \E h : Solves(h, n, a, step)
           T == {n \in Nat : n <= N => Upto(n)}
<1>1. 0 \in T
  <2> DEFINE h == [k \in 0 .. 0 |-> a]
  <2>1. h \in [0 .. 0 -> Int] /\ h[0] = a /\ 1 .. 0 = {}
    OBVIOUS
  <2> HIDE DEF h
  <2>2. Upto(0)
    BY <2>1 DEF Solves
  <2> HIDE DEF Upto
  <2> QED BY <2>2
<1>2. ASSUME NEW n \in Nat, n \in T PROVE n + 1 \in T
  <2> SUFFICES ASSUME n + 1 <= N PROVE Upto(n + 1)
    <3> HIDE DEF Upto
    <3> QED OBVIOUS
  <2>0. PICK h : Solves(h, n, a, step)
    BY <1>2
  <2>1. h \in [0 .. n -> Int] /\ h[0] = a /\ \A k \in 1 .. n : h[k] = step[k][h[k - 1]]
    BY <2>0 DEF Solves
  <2> DEFINE g == [k \in 0 .. n + 1 |-> IF k = n + 1 THEN step[n + 1][h[n]] ELSE h[k]]
  <2>2. h[n] \in Int /\ n + 1 \in 1 .. N
    BY <2>1
  <2>3. step[n + 1][h[n]] \in Int
    BY <2>2
  <2>4. g \in [0 .. n + 1 -> Int]
    BY <2>1, <2>3
  <2>5. g[0] = a
    BY <2>1
  <2>6. ASSUME NEW k \in 1 .. n + 1 PROVE g[k] = step[k][g[k - 1]]
    <3>1. k - 1 \in 0 .. n /\ g[k - 1] = h[k - 1]
      OBVIOUS
    <3>2. CASE k = n + 1
      BY <3>1, <3>2
    <3>3. CASE k # n + 1
      <4>1. k \in 1 .. n
        BY <3>3
      <4>2. g[k] = h[k]
        BY <3>3
      <4>3. h[k] = step[k][h[k - 1]]
        BY <2>1, <4>1
      <4> HIDE DEF g
      <4> QED BY <3>1, <4>2, <4>3
    <3> QED BY <3>2, <3>3
  <2> HIDE DEF g
  <2>7. Solves(g, n + 1, a, step)
    BY <2>4, <2>5, <2>6 DEF Solves
  <2> QED BY <2>7
<1>3. N \in T
  <2> HIDE DEF T
  <2> QED BY <1>1, <1>2, AllNaturals
<1> QED BY <1>3

----------------------------------------------------------------------------
(* Sums over finite sets.                                                  *)

\* The partial sums of f: over any subset of D, in the order of CHOOSE.
PartialSums(D, f, g) ==
  g = [s \in SUBSET D |->
        IF s = {} THEN 0 ELSE LET x == CHOOSE x \in s : TRUE IN f[x] + g[s \ {x}]]

LEMMA PartialSumsExist ==
  ASSUME NEW D, IsFiniteSet(D), NEW f \in [D -> Int]
  PROVE  \E g \in [SUBSET D -> Int] : PartialSums(D, f, g)
<1> DEFINE Some(s) == CHOOSE x \in s : TRUE
           Level(n) == {s \in SUBSET D : Cardinality(s) <= n}
           Upto(n) == \E g \in [Level(n) -> Int] :
             \A s \in Level(n) : g[s] = IF s = {} THEN 0 ELSE f[Some(s)] + g[s \ {Some(s)}]
           T == {n \in Nat : Upto(n)}
<1>1. ASSUME NEW s \in SUBSET D
      PROVE  /\ Cardinality(s) \in Nat
             /\ Cardinality(s) = 0 => s = {}
             /\ s # {} => /\ Some(s) \in D
                          /\ s \ {Some(s)} \in SUBSET D
                          /\ Cardinality(s \ {Some(s)}) = Cardinality(s) - 1
  <2>1. IsFiniteSet(s)
    BY FS_Subset
  <2>2. Cardinality(s) \in Nat /\ (Cardinality(s) = 0 => s = {})
    BY <2>1, FS_CardinalityType, FS_EmptySet
  <2>3. ASSUME s # {}
        PROVE  /\ Some(s) \in D /\ s \ {Some(s)} \in SUBSET D
               /\ Cardinality(s \ {Some(s)}) = Cardinality(s) - 1
    <3>1. Some(s) \in s
      BY <2>3
    <3> QED BY <2>1, <3>1, FS_RemoveElement
  <2> QED BY <2>2, <2>3
<1>a. \A s \in SUBSET D : Cardinality(s) \in Nat /\ (Cardinality(s) = 0 => s = {})
  BY <1>1
<1> HIDE DEF Some
<1>2. 0 \in T
  <2> DEFINE g == [s \in Level(0) |-> 0]
  <2>1. g \in [Level(0) -> Int]
    OBVIOUS
  <2>2. ASSUME NEW s \in Level(0) PROVE s = {}
    <3>1. s \in SUBSET D /\ Cardinality(s) <= 0
      OBVIOUS
    <3> HIDE DEF Level, g
    <3> QED BY <1>a, <3>1
  <2>3. \A s \in Level(0) : g[s] = 0
    OBVIOUS
  <2> HIDE DEF g, Level
  <2>4. Upto(0)
    BY <2>1, <2>2, <2>3
  <2> HIDE DEF Upto
  <2> QED BY <2>4
<1>3. ASSUME NEW n \in Nat, n \in T PROVE n + 1 \in T
  <2>1. PICK g \in [Level(n) -> Int] :
          \A s \in Level(n) : g[s] = IF s = {} THEN 0 ELSE f[Some(s)] + g[s \ {Some(s)}]
    BY <1>3
  <2> DEFINE h == [s \in Level(n + 1) |-> IF s = {} THEN 0 ELSE f[Some(s)] + g[s \ {Some(s)}]]
  <2>2. ASSUME NEW s \in Level(n + 1), s # {}
        PROVE  f[Some(s)] \in Int /\ s \ {Some(s)} \in Level(n) /\ s \ {Some(s)} \in Level(n + 1)
    BY <1>1, <2>2
  <2>3. h \in [Level(n + 1) -> Int]
    <3> SUFFICES ASSUME NEW s \in Level(n + 1)
                 PROVE  (IF s = {} THEN 0 ELSE f[Some(s)] + g[s \ {Some(s)}]) \in Int
      OBVIOUS
    <3> HIDE DEF Level
    <3> QED BY <2>1, <2>2
  <2>4. ASSUME NEW s \in Level(n) PROVE s \in Level(n + 1) /\ h[s] = g[s]
    <3>1. s \in SUBSET D /\ Cardinality(s) <= n
      OBVIOUS
    <3>2. s \in Level(n + 1)
      BY <1>a, <3>1
    <3> HIDE DEF Level
    <3> QED BY <3>2, <2>1
  <2>5. ASSUME NEW s \in Level(n + 1)
        PROVE  h[s] = IF s = {} THEN 0 ELSE f[Some(s)] + h[s \ {Some(s)}]
    <3>1. h[s] = IF s = {} THEN 0 ELSE f[Some(s)] + g[s \ {Some(s)}]
      OBVIOUS
    <3> HIDE DEF h, Level
    <3> QED BY <3>1, <2>2, <2>4
  <2> HIDE DEF h, Level
  <2>6. Upto(n + 1)
    BY <2>3, <2>5
  <2> HIDE DEF Upto
  <2> QED BY <2>6
<1>4. Cardinality(D) \in Nat /\ Cardinality(D) \in T
  <2> HIDE DEF T
  <2> QED BY <1>1, <1>2, <1>3, AllNaturals
<1>5. Level(Cardinality(D)) = SUBSET D
  BY FS_Subset
<1>6. PICK g \in [SUBSET D -> Int] :
        \A s \in SUBSET D : g[s] = IF s = {} THEN 0 ELSE f[Some(s)] + g[s \ {Some(s)}]
  <2> HIDE DEF Level
  <2> QED BY <1>4, <1>5
<1>7. PartialSums(D, f, g)
  BY <1>6 DEF PartialSums, Some
<1> QED BY <1>7

\* The library's sum of a function is its partial sum over the whole domain.
LEMMA SumIsPartial ==
  ASSUME NEW D, IsFiniteSet(D), NEW f \in [D -> Int]
  PROVE  \E g : PartialSums(D, f, g) /\ SumFunction(f) = g[D]
<1>1. SumFunction(f) = (CHOOSE g : PartialSums(D, f, g))[D]
  <2>1. DOMAIN f = D
    OBVIOUS
  <2>2. SumFunction(f) = (CHOOSE g : PartialSums(DOMAIN f, f, g))[DOMAIN f]
    BY DEF SumFunction, SumFunctionOnSet, FoldFunctionOnSet, MapThenFoldSet, PartialSums
  <2> QED BY <2>1, <2>2
<1>2. PartialSums(D, f, CHOOSE g : PartialSums(D, f, g))
  BY PartialSumsExist, Zenon
<1> QED BY <1>1, <1>2

\* The sum does not depend on the order: any element can be added last.
LEMMA PartialSplits ==
  ASSUME NEW D, IsFiniteSet(D), NEW f \in [D -> Int], NEW g, PartialSums(D, f, g),
         NEW s \in SUBSET D
  PROVE  g[s] \in Int /\ \A x \in s : g[s] = f[x] + g[s \ {x}]
<1> DEFINE Splits(u) == g[u] \in Int /\ \A x \in u : g[u] = f[x] + g[u \ {x}]
           T == {n \in Nat : \A u \in SUBSET D : Cardinality(u) <= n => Splits(u)}
<1>1. \A u \in SUBSET D : /\ IsFiniteSet(u) /\ Cardinality(u) \in Nat
                          /\ Cardinality(u) = 0 => u = {}
  BY FS_Subset, FS_CardinalityType, FS_EmptySet
<1>2. \A u \in SUBSET D : \A x \in u : Cardinality(u \ {x}) = Cardinality(u) - 1
  BY <1>1, FS_RemoveElement
<1>3. g[{}] = 0
  <2>1. {} \in SUBSET D
    OBVIOUS
  <2> QED BY <2>1 DEF PartialSums
<1>4. ASSUME NEW u \in SUBSET D, u # {} PROVE \E x \in u : g[u] = f[x] + g[u \ {x}]
  <2> DEFINE c == CHOOSE x \in u : TRUE
  <2>1. c \in u
    BY <1>4
  <2>2. g[u] = f[c] + g[u \ {c}]
    BY <1>4 DEF PartialSums
  <2> QED BY <2>1, <2>2
<1>5. 0 \in T
  <2> SUFFICES ASSUME NEW u \in SUBSET D, Cardinality(u) <= 0 PROVE Splits(u)
    OBVIOUS
  <2>1. u = {}
    BY <1>1
  <2> QED BY <1>3, <2>1
<1>6. ASSUME NEW n \in Nat, n \in T PROVE n + 1 \in T
  <2> SUFFICES ASSUME NEW u \in SUBSET D, Cardinality(u) <= n + 1, u # {} PROVE Splits(u)
    <3>1. Splits({})
      BY <1>3
    <3> HIDE DEF Splits
    <3> QED BY <3>1
  <2>1. PICK c \in u : g[u] = f[c] + g[u \ {c}]
    BY <1>4
  <2>2. ASSUME NEW v \in SUBSET D, Cardinality(v) <= n PROVE Splits(v)
    BY <1>6, <2>2
  <2> HIDE DEF Splits
  <2>3. ASSUME NEW x \in u PROVE Splits(u \ {x})
    <3>1. u \ {x} \in SUBSET D /\ Cardinality(u \ {x}) <= n
      BY <1>1, <1>2
    <3> QED BY <2>2, <3>1
  <2> USE DEF Splits
  <2>4. ASSUME NEW x \in u PROVE f[x] \in Int /\ g[u \ {x}] \in Int
    BY <2>3
  <2>5. g[u] \in Int
    BY <2>1, <2>4
  <2>6. ASSUME NEW x \in u, x # c PROVE g[u] = f[x] + g[u \ {x}]
    <3>1. g[u \ {c}] = f[x] + g[(u \ {c}) \ {x}]
      BY <2>3, <2>6
    <3>2. g[u \ {x}] = f[c] + g[(u \ {x}) \ {c}]
      BY <2>3, <2>6
    <3>3. (u \ {c}) \ {x} = (u \ {x}) \ {c}
      OBVIOUS
    <3>4. g[(u \ {x}) \ {c}] \in Int
      <4>1. u \ {x} \in SUBSET D /\ c \in u \ {x} /\ Cardinality(u \ {x}) <= n
        BY <1>1, <1>2, <2>6
      <4>2. PICK w \in SUBSET D : w = u \ {x}
        BY <4>1
      <4>3. w \ {c} \in SUBSET D /\ Cardinality(w \ {c}) = Cardinality(w) - 1
        BY <1>2, <4>1, <4>2
      <4>4. Cardinality(w \ {c}) <= n
        BY <1>1, <4>1, <4>2, <4>3
      <4> QED BY <2>2, <4>2, <4>3, <4>4
    <3>5. f[c] \in Int /\ f[x] \in Int
      BY <2>4
    <3>6. PICK r \in Int : r = g[(u \ {x}) \ {c}]
      BY <3>4
    <3>7. g[u \ {c}] = f[x] + r /\ g[u \ {x}] = f[c] + r
      BY <3>1, <3>2, <3>3, <3>6
    <3> HIDE DEF Splits
    <3> QED BY <2>1, <3>5, <3>7
  <2> QED BY <2>1, <2>5, <2>6
<1>7. Cardinality(s) \in T
  <2> HIDE DEF T
  <2> QED BY <1>1, <1>5, <1>6, AllNaturals
<1> QED BY <1>1, <1>7

\* A sum over nothing is nothing.
LEMMA SumEmpty ==
  ASSUME NEW f \in [{} -> Int]
  PROVE  SumFunction(f) = 0
<1>1. PICK g : PartialSums({}, f, g) /\ SumFunction(f) = g[{}]
  BY SumIsPartial, FS_EmptySet
<1>2. {} \in SUBSET {}
  OBVIOUS
<1> QED BY <1>1, <1>2 DEF PartialSums

\* A sum of integers is one, and any of them can be taken out of it.
LEMMA SumSplits ==
  ASSUME NEW D, IsFiniteSet(D), NEW f \in [D -> Int]
  PROVE  /\ SumFunction(f) \in Int
         /\ \A x \in D : SumFunction(f) = f[x] + SumFunction([y \in D \ {x} |-> f[y]])
<1>1. PICK g : PartialSums(D, f, g) /\ SumFunction(f) = g[D]
  BY SumIsPartial
<1>2. SumFunction(f) \in Int
  BY <1>1, PartialSplits
<1>3. ASSUME NEW x \in D
      PROVE  SumFunction(f) = f[x] + SumFunction([y \in D \ {x} |-> f[y]])
  <2> DEFINE R == D \ {x}
             e == [y \in R |-> f[y]]
  <2>1. IsFiniteSet(R) /\ e \in [R -> Int] /\ R \in SUBSET D
    BY FS_Subset
  <2> HIDE DEF e
  <2>2. PICK h : PartialSums(R, e, h) /\ SumFunction(e) = h[R]
    BY <2>1, SumIsPartial
  <2>3. ASSUME NEW u \in SUBSET R
        PROVE  h[u] = IF u = {} THEN 0 ELSE LET z == CHOOSE z \in u : TRUE IN f[z] + h[u \ {z}]
    BY <2>2 DEF PartialSums, e
  <2>4. ASSUME NEW u \in SUBSET R
        PROVE  g[u] = IF u = {} THEN 0 ELSE LET z == CHOOSE z \in u : TRUE IN f[z] + g[u \ {z}]
    BY <1>1, <2>1 DEF PartialSums
  <2> DEFINE T == {n \in Nat : \A u \in SUBSET R : Cardinality(u) = n => h[u] = g[u]}
  <2>5. \A u \in SUBSET R : Cardinality(u) \in Nat /\ (Cardinality(u) = 0 => u = {})
    BY <2>1, FS_Subset, FS_CardinalityType, FS_EmptySet
  <2>6. 0 \in T
    <3>1. h[{}] = 0 /\ g[{}] = 0
      BY <2>3, <2>4, {} \in SUBSET R
    <3> QED BY <2>5, <3>1
  <2>7. ASSUME NEW n \in Nat, n \in T PROVE n + 1 \in T
    <3> SUFFICES ASSUME NEW u \in SUBSET R, Cardinality(u) = n + 1 PROVE h[u] = g[u]
      OBVIOUS
    <3> DEFINE c == CHOOSE z \in u : TRUE
    <3>1. u # {}
      BY FS_EmptySet
    <3>2. c \in u
      BY <3>1
    <3>3. Cardinality(u \ {c}) = n
      <4>1. IsFiniteSet(u)
        BY <2>1, FS_Subset
      <4> HIDE DEF c
      <4>2. Cardinality(u \ {c}) = Cardinality(u) - 1
        BY <3>2, <4>1, FS_RemoveElement
      <4> QED BY <4>2
    <3>4. h[u \ {c}] = g[u \ {c}]
      BY <2>7, <3>3
    <3> QED BY <2>3, <2>4, <3>1, <3>4
  <2>8. Cardinality(R) \in Nat /\ Cardinality(R) \in T
    <3> HIDE DEF T
    <3> QED BY <2>5, <2>6, <2>7, AllNaturals
  <2>9. h[R] = g[R]
    BY <2>8
  <2> QED BY <1>1, <2>2, <2>9, PartialSplits DEF e
<1> QED BY <1>2, <1>3

----------------------------------------------------------------------------
(* Division, and congruence modulo the order.                              *)

\* Quotient and remainder are the only ones.
LEMMA DivisionUnique ==
  ASSUME NEW n \in Nat \ {0}, NEW q \in Int, NEW r \in 0 .. n - 1
  PROVE  (n * q + r) \div n = q /\ (n * q + r) % n = r
<1>1. PICK p \in Int : p = n * q
  OBVIOUS
<1>2. /\ (p + r) \div n \in Int /\ (p + r) % n \in 0 .. n - 1
      /\ p + r = n * ((p + r) \div n) + ((p + r) % n)
  OBVIOUS
<1>3. PICK s \in Int : s = (p + r) \div n
  BY <1>2
<1>4. PICK t \in 0 .. n - 1 : t = (p + r) % n
  BY <1>2
<1>5. n * q + r = n * s + t
  BY <1>1, <1>2, <1>3, <1>4
<1>6. n * (q - s) = t - r
  BY <1>5
<1>7. q - s = 0
  <2>1. PICK d \in Int : d = q - s
    OBVIOUS
  <2>2. n * d = t - r /\ -n < t - r /\ t - r < n
    BY <1>6, <2>1
  <2>3. d >= 1 => n * d >= n
    BY <2>1
  <2>4. d <= -1 => n * d <= -n
    BY <2>1
  <2>5. PICK e \in Int : e = n * d
    BY <2>1
  <2> QED BY <2>1, <2>2, <2>3, <2>4, <2>5
<1> QED BY <1>1, <1>3, <1>4, <1>6, <1>7

\* a and b stand for the same scalar.
Same(a, b) == \E q \in Int : a = b + Order * q

LEMMA SameIsEquivalence ==
  ASSUME NEW a \in Int, NEW b \in Int, NEW c \in Int
  PROVE  /\ Same(a, a)
         /\ Same(a, b) => Same(b, a)
         /\ Same(a, b) /\ Same(b, c) => Same(a, c)
<1>1. Order \in Int
  BY AlgebraAssumption
<1>2. Same(a, a)
  <2>1. 0 \in Int /\ a = a + Order * 0
    BY <1>1
  <2> QED BY <2>1 DEF Same
<1>3. ASSUME Same(a, b) PROVE Same(b, a)
  <2>1. PICK q \in Int : a = b + Order * q
    BY <1>3 DEF Same
  <2>2. -q \in Int /\ b = a + Order * (-q)
    BY <1>1, <2>1
  <2> QED BY <2>2 DEF Same
<1>4. ASSUME Same(a, b), Same(b, c) PROVE Same(a, c)
  <2>1. PICK q \in Int : a = b + Order * q
    BY <1>4 DEF Same
  <2>2. PICK r \in Int : b = c + Order * r
    BY <1>4 DEF Same
  <2>3. q + r \in Int /\ a = c + Order * (q + r)
    BY <1>1, <2>1, <2>2
  <2> QED BY <2>3 DEF Same
<1> QED BY <1>2, <1>3, <1>4

\* Congruence goes through sums, differences and products.
LEMMA SameArithmetic ==
  ASSUME NEW a \in Int, NEW b \in Int, NEW c \in Int, NEW d \in Int, Same(a, b), Same(c, d)
  PROVE  Same(a + c, b + d) /\ Same(a - c, b - d) /\ Same(a * c, b * d)
<1>1. Order \in Int
  BY AlgebraAssumption
<1>2. PICK q \in Int : a = b + Order * q
  BY DEF Same
<1>3. PICK r \in Int : c = d + Order * r
  BY DEF Same
<1>4. q + r \in Int /\ a + c = b + d + Order * (q + r)
  BY <1>1, <1>2, <1>3
<1>5. q - r \in Int /\ a - c = b - d + Order * (q - r)
  BY <1>1, <1>2, <1>3
<1>6. b * r + q * d + Order * q * r \in Int /\ a * c = b * d + Order * (b * r + q * d + Order * q * r)
  BY <1>1, <1>2, <1>3
<1> QED BY <1>4, <1>5, <1>6 DEF Same

\* Reducing modulo the order changes nothing, and leaves one representative.
LEMMA SameReduces ==
  ASSUME NEW a \in Int, NEW b \in Int
  PROVE  /\ a % Order \in Scalars /\ Same(a % Order, a)
         /\ a \in Scalars => a % Order = a
         /\ Same(a, b) <=> a % Order = b % Order
<1>1. Order \in Nat \ {0}
  BY AlgebraAssumption
<1>2. \A x \in Int : /\ x % Order \in 0 .. Order - 1 /\ x \div Order \in Int
                     /\ x = Order * (x \div Order) + (x % Order)
  BY <1>1
<1>3. ASSUME NEW x \in Int PROVE Same(x % Order, x) /\ Same(x, x % Order)
  <2>1. PICK q \in Int : q = x \div Order
    BY <1>2
  <2>2. PICK r \in Int : r = x % Order
    BY <1>2
  <2>3. x = r + Order * q /\ -q \in Int /\ r = x + Order * (-q)
    BY <1>1, <1>2, <2>1, <2>2
  <2> QED BY <2>1, <2>2, <2>3 DEF Same
<1>4. ASSUME NEW x \in 0 .. Order - 1 PROVE x % Order = x
  <2>1. (Order * 0 + x) % Order = x
    BY <1>1, DivisionUnique
  <2>2. Order * 0 + x = x
    BY <1>1
  <2> QED BY <2>1, <2>2
<1>5. ASSUME Same(a, b) PROVE a % Order = b % Order
  <2>1. PICK q \in Int : a = b + Order * q
    BY <1>5 DEF Same
  <2>2. PICK s \in Int : s = b \div Order
    BY <1>2
  <2>3. PICK r \in 0 .. Order - 1 : r = b % Order
    BY <1>2
  <2>4. b = Order * s + r
    BY <1>2, <2>2, <2>3
  <2>5. a = Order * (s + q) + r
    BY <1>1, <2>1, <2>4
  <2>6. s + q \in Int
    OBVIOUS
  <2>7. (Order * (s + q) + r) % Order = r
    BY <1>1, <2>6, DivisionUnique
  <2> QED BY <2>3, <2>5, <2>7
<1>6. ASSUME a % Order = b % Order PROVE Same(a, b)
  <2>1. a % Order \in Int
    BY <1>2
  <2> QED BY <1>3, <1>6, <2>1, SameIsEquivalence
<1> QED BY <1>1, <1>2, <1>3, <1>4, <1>5, <1>6 DEF Scalars

\* The group operations, up to congruence.
LEMMA SameOperations ==
  ASSUME NEW a \in Int, NEW b \in Int
  PROVE  /\ Plus(a, b) \in Scalars /\ Minus(a, b) \in Scalars /\ Times(a, b) \in Scalars
         /\ Same(Plus(a, b), a + b) /\ Same(Minus(a, b), a - b) /\ Same(Times(a, b), a * b)
<1>1. a + b \in Int /\ a - b \in Int /\ a * b \in Int
  OBVIOUS
<1> QED BY <1>1, SameReduces DEF Plus, Minus, Times

\* What the operations make of congruent operands.
LEMMA SameThrough ==
  ASSUME NEW a \in Int, NEW b \in Int, NEW c \in Int, NEW d \in Int, Same(a, b), Same(c, d)
  PROVE  /\ Plus(a, c) \in Int /\ Same(Plus(a, c), b + d)
         /\ Minus(a, c) \in Int /\ Same(Minus(a, c), b - d)
         /\ Times(a, c) \in Int /\ Same(Times(a, c), b * d)
<1>1. Scalars \subseteq Int
  BY AlgebraAssumption DEF Scalars
<1>2. /\ a + c \in Int /\ b + d \in Int /\ a - c \in Int /\ b - d \in Int
      /\ a * c \in Int /\ b * d \in Int
  OBVIOUS
<1>3. Plus(a, c) \in Int /\ Minus(a, c) \in Int /\ Times(a, c) \in Int
  BY <1>1, SameOperations
<1>4. Same(Plus(a, c), a + c) /\ Same(Minus(a, c), a - c) /\ Same(Times(a, c), a * c)
  BY SameOperations
<1>5. Same(a + c, b + d) /\ Same(a - c, b - d) /\ Same(a * c, b * d)
  BY SameArithmetic
<1>6. Same(Plus(a, c), b + d)
  BY <1>2, <1>3, <1>4, <1>5, SameIsEquivalence
<1>7. Same(Minus(a, c), b - d)
  BY <1>2, <1>3, <1>4, <1>5, SameIsEquivalence
<1>8. Same(Times(a, c), b * d)
  BY <1>2, <1>3, <1>4, <1>5, SameIsEquivalence
<1> QED BY <1>3, <1>6, <1>7, <1>8

\* Congruent scalars are equal.
LEMMA SameScalars ==
  ASSUME NEW a \in Scalars, NEW b \in Scalars, Same(a, b)
  PROVE  a = b
<1>1. a \in Int /\ b \in Int
  BY AlgebraAssumption DEF Scalars
<1>2. a % Order = b % Order /\ a % Order = a /\ b % Order = b
  BY <1>1, SameReduces
<1> QED BY <1>2

\* No product of scalars vanishes unless one of them does.
LEMMA NoZeroDivisors ==
  ASSUME NEW a \in Scalars, NEW b \in Scalars, Times(a, b) = 0
  PROVE  a = 0 \/ b = 0
<1> SUFFICES ASSUME a # 0, b # 0 PROVE FALSE
  OBVIOUS
<1>0. Order \in Nat \ {0, 1} /\ 0 % Order = 0 /\ a \in 1 .. Order - 1 /\ b \in 1 .. Order - 1
  <2>1. Order \in Nat \ {0, 1}
    BY AlgebraAssumption
  <2>2. 0 % Order = 0
    BY <2>1, SameReduces DEF Scalars
  <2> QED BY <2>1, <2>2 DEF Scalars
<1> DEFINE T == {n \in 1 .. Order - 1 : Same(n * b, 0)}
<1>1. a \in T
  BY <1>0, SameReduces DEF Times
<1>2. PICK n \in T : \A m \in T : n <= m
  <2>1. T \subseteq Nat
    BY <1>0
  <2> HIDE DEF T
  <2> QED BY <1>1, <2>1, NatLeast
<1>3. CASE n = 1
  <2>1. Same(b, 0)
    BY <1>0, <1>2, <1>3
  <2>2. b % Order = 0
    BY <1>0, <2>1, SameReduces
  <2> QED BY <1>0, <2>2, SameReduces DEF Scalars
<1>4. CASE n # 1
  <2>1. n \in 2 .. Order - 1 /\ Same(n * b, 0)
    BY <1>2, <1>4
  <2>2. PICK q \in Int : q = Order \div n
    BY <1>0, <2>1
  <2>3. PICK r \in 0 .. n - 1 : r = Order % n
    BY <1>0, <2>1
  <2>4. Order = n * q + r
    BY <1>0, <2>1, <2>2, <2>3
  <2>5. r # 0
    BY <2>1, <2>3, PrimeOrder
  <2>6. PICK p \in Int : n * b = Order * p
    <3>1. PICK p \in Int : n * b = 0 + Order * p
      BY <2>1 DEF Same
    <3> QED BY <1>0, <3>1
  <2>7. r * b = Order * b - q * (n * b)
    BY <1>0, <2>1, <2>4
  <2>8. q * (n * b) = Order * (q * p)
    BY <1>0, <2>6
  <2>9. r * b = 0 + Order * (b - q * p)
    BY <1>0, <2>7, <2>8
  <2>10. b - q * p \in Int
    BY <1>0
  <2>11. r \in T
    <3>1. Same(r * b, 0)
      BY <2>9, <2>10 DEF Same
    <3>2. r \in 1 .. Order - 1
      BY <1>0, <2>1, <2>5
    <3> QED BY <3>1, <3>2
  <2> QED BY <1>2, <2>3, <2>11
<1> QED BY <1>3, <1>4

LEMMA ScalarNumbers ==
  /\ Order \in Nat \ {0, 1} /\ LimbModulus \in Nat \ {0, 1} /\ LimbCount \in Nat \ {0}
  /\ Scalars \subseteq Int /\ 0 \in Scalars /\ Order - 1 \in Scalars
  /\ IsFiniteSet(Limbs)
<1>1. Order \in Nat \ {0, 1} /\ LimbModulus \in Nat \ {0, 1} /\ LimbCount \in Nat \ {0}
  BY AlgebraAssumption
<1>2. IsFiniteSet(1 .. LimbCount)
  BY <1>1, FS_Interval
<1> QED BY <1>1, <1>2 DEF Scalars, Limbs

\* A multiple that two scalars agree on is of nothing: the order is prime.
LEMMA Cancel ==
  ASSUME NEW c \in Scalars, NEW d \in Scalars, c # d, NEW x \in Int, Same(c * x, d * x)
  PROVE  Same(x, 0)
<1>1. c \in Int /\ d \in Int /\ c * x \in Int /\ d * x \in Int /\ 0 \in Int
  BY ScalarNumbers
<1>2. Same((c - d) * x, 0)
  <2>1. Same(d * x, d * x)
    BY <1>1, SameIsEquivalence
  <2>2. Same(c * x - d * x, d * x - d * x)
    BY <1>1, <2>1, SameArithmetic
  <2>3. c * x - d * x = (c - d) * x /\ d * x - d * x = 0
    BY <1>1
  <2> QED BY <2>2, <2>3
<1> DEFINE e == (c - d) % Order
           y == x % Order
<1>3. e \in Scalars /\ y \in Scalars /\ e \in Int /\ y \in Int /\ Same(e, c - d) /\ Same(y, x)
  <2>1. c - d \in Int
    BY <1>1
  <2>2. e \in Scalars /\ Same(e, c - d)
    BY <2>1, SameReduces
  <2>3. y \in Scalars /\ Same(y, x)
    BY SameReduces
  <2> HIDE DEF e, y
  <2> QED BY <2>2, <2>3, ScalarNumbers
<1> HIDE DEF e, y
<1>4. Same(e * y, (c - d) * x)
  BY <1>1, <1>3, SameArithmetic
<1>5. Same(e * y, 0)
  BY <1>1, <1>2, <1>3, <1>4, SameIsEquivalence
<1>6. Times(e, y) = 0
  <2>1. 0 % Order = 0
    BY SameReduces, ScalarNumbers
  <2>2. (e * y) % Order = 0 % Order
    BY <1>3, <1>5, SameReduces
  <2> QED BY <2>1, <2>2 DEF Times
<1>7. e = 0 \/ y = 0
  BY <1>3, <1>6, NoZeroDivisors
<1>8. e # 0
  <2> SUFFICES ASSUME e = 0 PROVE FALSE
    OBVIOUS
  <2>1. Same(c - d, 0)
    BY <1>1, <1>3, SameIsEquivalence
  <2>2. PICK q \in Int : c - d = 0 + Order * q
    BY <2>1 DEF Same
  <2>3. -Order < c - d /\ c - d < Order /\ c - d # 0
    BY <1>1, ScalarNumbers DEF Scalars
  <2>4. PICK p \in Int : p = Order * q
    BY ScalarNumbers
  <2>5. q >= 1 => Order * q >= Order
    BY ScalarNumbers
  <2>6. q <= -1 => Order * q <= -Order
    BY ScalarNumbers
  <2>7. q = 0 => Order * q = 0
    BY ScalarNumbers
  <2> QED BY <1>1, <2>2, <2>3, <2>4, <2>5, <2>6, <2>7, ScalarNumbers
<1>9. y = 0
  BY <1>7, <1>8
<1> QED BY <1>1, <1>3, <1>9, SameIsEquivalence

\* Multiplication by a scalar other than zero is injective, so it reaches 1.
LEMMA InverseExists ==
  ASSUME NEW a \in Scalars, a # 0
  PROVE  /\ \E b \in Scalars : Times(a, b) = 1
         /\ \A b, c \in Scalars : Times(a, b) = Times(a, c) => b = c
<1> DEFINE f == [x \in Scalars |-> Times(a, x)]
<1>1. Scalars \subseteq Int /\ a \in Int /\ 0 \in Scalars /\ 0 \in Int
  BY ScalarNumbers
<1>2. f \in [Scalars -> Scalars]
  BY <1>1, SameOperations
<1>3. ASSUME NEW x \in Scalars, NEW y \in Scalars, f[x] = f[y] PROVE x = y
  <2>1. x \in Int /\ y \in Int /\ Times(a, x) = Times(a, y)
    BY <1>1, <1>3
  <2>2. PICK p \in Int, q \in Int : p = x * a /\ q = y * a /\ p = a * x /\ q = a * y
    BY <1>1, <2>1
  <2>3. PICK t \in Int : t = Times(a, x) /\ Same(t, p) /\ Same(t, q)
    BY <1>1, <2>1, <2>2, SameOperations, ScalarNumbers
  <2>4. Same(p, q)
    <3>1. Same(p, t)
      BY <2>3, SameIsEquivalence
    <3> QED BY <2>3, <3>1, SameIsEquivalence
  <2>5. x # y => Same(a, 0)
    BY <1>1, <2>2, <2>4, Cancel
  <2>6. ~Same(a, 0)
    BY <1>1, SameScalars
  <2> QED BY <2>5, <2>6
<1>4. IsFiniteSet(Scalars)
  BY ScalarNumbers, FS_Interval DEF Scalars
<1>5. f \in Injection(Scalars, Scalars)
  <2> HIDE DEF f
  <2> QED BY <1>2, <1>3 DEF Injection, IsInjective
<1>6. f \in Surjection(Scalars, Scalars)
  <2> HIDE DEF f
  <2> QED BY <1>4, <1>5, FS_Injection
<1>7. 1 \in Scalars
  BY ScalarNumbers DEF Scalars
<1>8. \E b \in Scalars : f[b] = 1
  <2> HIDE DEF f
  <2> QED BY <1>6, <1>7 DEF Surjection
<1> QED BY <1>3, <1>8

\* A product of one has no factor zero.
LEMMA FactorsOfOne ==
  ASSUME NEW a \in Scalars, NEW b \in Scalars, Times(a, b) = 1
  PROVE  b # 0
<1>1. a \in Int /\ 0 \in Int /\ 0 \in Scalars /\ Scalars \subseteq Int
  BY ScalarNumbers
<1>2. Times(a, 0) \in Scalars /\ Same(Times(a, 0), a * 0) /\ a * 0 = 0
  <2>1. Times(a, 0) \in Scalars /\ Same(Times(a, 0), a * 0)
    BY <1>1, SameOperations
  <2>2. a * 0 = 0
    BY <1>1
  <2> QED BY <2>1, <2>2
<1>3. Times(a, 0) = 0
  BY <1>1, <1>2, SameScalars
<1> QED BY <1>3

\* Where the order leaves r on division by i, i times the inverse of r times
\* the quotient is -1.
LEMMA InverseByDivision ==
  ASSUME NEW i \in 2 .. Order - 1, NEW b \in Scalars, Times(Order % i, b) = 1
  PROVE  /\ Order % i \in 1 .. i - 1 /\ Order % i \in Scalars
         /\ Times(Order - (Order \div i), b) \in Scalars
         /\ Times(i, Times(Order - (Order \div i), b)) = 1
<1>1. PICK p \in Nat, q \in Nat, r \in Nat :
        /\ p = Order /\ q = p \div i /\ r = p % i /\ p = q * i + r /\ r < i
  <2>1. Order \in Nat /\ i \in Nat /\ i > 0
    BY ScalarNumbers
  <2>2. \A p \in Nat, j \in Nat : j > 0 => p \div j \in Nat /\ p % j \in Nat /\ p % j < j
                                           /\ p = (p \div j) * j + (p % j)
    OBVIOUS
  <2> QED BY <2>1, <2>2
<1>2. r # 0
  BY <1>1, PrimeOrder
<1>3. r \in 1 .. i - 1 /\ r \in Scalars /\ i \in Int /\ b \in Int
  BY <1>1, <1>2, ScalarNumbers DEF Scalars
<1>4. PICK d \in Int, t \in Int, x \in Int, m \in Int :
        /\ d = p - q /\ t = Times(d, b) /\ t \in Scalars /\ x = d * b /\ Same(t, x)
        /\ m = Times(i, t) /\ m \in Scalars
  <2>1. PICK d \in Int : d = p - q
    OBVIOUS
  <2>2. PICK t \in Int, x \in Int : t = Times(d, b) /\ t \in Scalars /\ x = d * b /\ Same(t, x)
    <3>1. Times(d, b) \in Scalars /\ Same(Times(d, b), d * b)
      BY <1>3, SameOperations
    <3>2. d * b \in Int
      BY <1>3
    <3> QED BY <3>1, <3>2, ScalarNumbers
  <2>3. Times(i, t) \in Scalars
    BY <1>3, SameOperations
  <2> QED BY <2>1, <2>2, <2>3, ScalarNumbers
<1>5. PICK s \in Int, z \in Int, o \in Int : s = r * b /\ z = i * x /\ o = 1
  BY <1>3
<1>6. Same(o, s)
  <2>1. Same(Times(r, b), s)
    BY <1>3, <1>5, SameOperations
  <2>2. r = Order % i
    BY <1>1
  <2>3. Times(r, b) = o
    BY <1>5, <2>2
  <2> QED BY <2>1, <2>3
<1>7. Same(m, z)
  <2>1. Same(i, i)
    BY <1>3, SameIsEquivalence
  <2>2. Same(Times(i, t), i * x)
    BY <1>3, <1>4, <2>1, SameThrough
  <2> QED BY <1>4, <1>5, <2>2
\* i * (p - q) = r + p * (i - 1).
<1>8. Same(z, s)
  <2>1. z = s + Order * ((i - 1) * b)
    <3>1. i * (p - q) = r + p * (i - 1)
      BY <1>1, <1>3
    <3>2. PICK e \in Int : e = p - q
      OBVIOUS
    <3>3. z = (i * e) * b
      BY <1>3, <1>4, <1>5, <3>2
    <3>4. PICK c \in Int : c = i - 1
      BY <1>3
    <3>5. i * e = r + p * c
      BY <3>1, <3>2, <3>4
    <3>6. (r + p * c) * b = r * b + p * (c * b)
      BY <1>3
    <3> QED BY <1>1, <1>5, <3>3, <3>4, <3>5, <3>6
  <2>2. (i - 1) * b \in Int
    BY <1>3
  <2> QED BY <2>1, <2>2 DEF Same
<1>9. Same(m, o)
  <2>1. Same(s, o)
    BY <1>6, SameIsEquivalence
  <2>2. Same(m, s)
    BY <1>7, <1>8, SameIsEquivalence
  <2> QED BY <2>1, <2>2, SameIsEquivalence
<1>10. o \in Scalars
  BY <1>5, ScalarNumbers DEF Scalars
<1>11. m = o
  BY <1>4, <1>9, <1>10, SameScalars
<1> QED BY <1>1, <1>3, <1>4, <1>5, <1>11

ByDivision(h) ==
  h = [i \in 1 .. Order - 1 |->
         IF i = 1 THEN 1 ELSE Times(Order - (Order \div i), h[Order % i])]

LEMMA DivisionExists == \E h : ByDivision(h)
<1> DEFINE h == [i \in 1 .. Order - 1 |-> CHOOSE b \in Scalars : Times(i, b) = 1]
<1>1. \A i \in 1 .. Order - 1 : i \in Scalars /\ i # 0
  BY ScalarNumbers DEF Scalars
<1>2. \A i \in 1 .. Order - 1 : h[i] \in Scalars /\ Times(i, h[i]) = 1
  <2>1. ASSUME NEW i \in 1 .. Order - 1 PROVE h[i] \in Scalars /\ Times(i, h[i]) = 1
    <3>1. \E b \in Scalars : Times(i, b) = 1
      BY <1>1, InverseExists
    <3>2. h[i] = CHOOSE b \in Scalars : Times(i, b) = 1
      OBVIOUS
    <3> HIDE DEF h
    <3> QED BY <3>1, <3>2
  <2> HIDE DEF h
  <2> QED BY <2>1
<1>3. h = [i \in 1 .. Order - 1 |-> h[i]]
  OBVIOUS
<1> HIDE DEF h
<1>4. ASSUME NEW i \in 1 .. Order - 1
      PROVE  h[i] = IF i = 1 THEN 1 ELSE Times(Order - (Order \div i), h[Order % i])
  <2>1. CASE i = 1
    <3>1. 1 \in Scalars /\ 1 \in Int /\ Same(Times(1, 1), 1 * 1)
      BY ScalarNumbers, SameOperations DEF Scalars
    <3>2. Times(1, 1) \in Scalars /\ Same(Times(1, 1), 1)
      <4>1. 1 * 1 = 1
        OBVIOUS
      <4> QED BY <3>1, <4>1, SameOperations
    <3>3. Times(1, 1) = 1
      BY <3>1, <3>2, SameScalars
    <3> QED BY <1>1, <1>2, <2>1, <3>1, <3>3, InverseExists
  <2>2. CASE i # 1
    <3>1. i \in 2 .. Order - 1
      BY <2>2, ScalarNumbers
    <3>2. Order % i \in 1 .. Order - 1
      <4>1. PICK r \in Nat : r = Order % i /\ r < i
        <5>1. Order \in Nat /\ i \in Nat /\ i > 0
          BY <3>1, ScalarNumbers
        <5>2. \A p \in Nat, j \in Nat : j > 0 => p % j \in Nat /\ p % j < j
          OBVIOUS
        <5> QED BY <5>1, <5>2
      <4>2. r # 0
        BY <3>1, <4>1, PrimeOrder
      <4> QED BY <3>1, <4>1, <4>2, ScalarNumbers
    <3>3. /\ Times(Order - (Order \div i), h[Order % i]) \in Scalars
          /\ Times(i, Times(Order - (Order \div i), h[Order % i])) = 1
      BY <1>2, <3>1, <3>2, InverseByDivision
    <3>4. h[i] = Times(Order - (Order \div i), h[Order % i])
      BY <1>1, <1>2, <3>3, InverseExists
    <3> QED BY <2>2, <3>4
  <2> QED BY <2>1, <2>2
<1>5. ByDivision(h)
  BY <1>3, <1>4 DEF ByDivision
<1> QED BY <1>5

LEMMA InverseIs ==
  ASSUME NEW a \in Scalars, a # 0
  PROVE  Inverted(a) \in Scalars /\ Inverted(a) # 0 /\ Times(a, Inverted(a)) = 1
<1> DEFINE h == CHOOSE g : ByDivision(g)
<1>1. ByDivision(h)
  BY DivisionExists
<1>2. Inverted(a) = h[a]
  BY DEF Inverted, ByDivision
<1> HIDE DEF h
<1>3. \A i \in 1 .. Order - 1 :
        h[i] = IF i = 1 THEN 1 ELSE Times(Order - (Order \div i), h[Order % i])
  BY <1>1 DEF ByDivision
<1> DEFINE Good(i) == h[i] \in Scalars /\ Times(i, h[i]) = 1
           T == {i \in 1 .. Order - 1 : ~Good(i)}
<1>4. T = {}
  <2>1. SUFFICES ASSUME T # {} PROVE FALSE
    OBVIOUS
  <2>2. PICK i \in T : \A j \in T : i <= j
    <3>1. T \subseteq Nat
      BY ScalarNumbers
    <3> HIDE DEF T
    <3> QED BY <2>1, <3>1, NatLeast
  <2>3. i \in 1 .. Order - 1 /\ ~Good(i)
    OBVIOUS
  <2>4. CASE i = 1
    <3>1. h[1] = 1
      <4> HIDE DEF Good, T
      <4> QED BY <1>3, <2>3, <2>4
    <3>2. 1 \in Scalars /\ 1 \in Int
      BY ScalarNumbers DEF Scalars
    <3>3. Times(1, 1) \in Scalars /\ Same(Times(1, 1), 1)
      <4>1. 1 * 1 = 1
        OBVIOUS
      <4> QED BY <3>2, <4>1, SameOperations
    <3>4. Times(1, 1) = 1
      BY <3>2, <3>3, SameScalars
    <3> QED BY <2>3, <2>4, <3>1, <3>2, <3>4
  <2>5. CASE i # 1
    <3>1. i \in 2 .. Order - 1
      BY <2>3, <2>5, ScalarNumbers
    <3>2. PICK r \in Nat : r = Order % i /\ r < i /\ r \in 1 .. Order - 1
      <4>1. PICK r \in Nat : r = Order % i /\ r < i
        <5>1. Order \in Nat /\ i \in Nat /\ i > 0
          BY <3>1, ScalarNumbers
        <5>2. \A p \in Nat, j \in Nat : j > 0 => p % j \in Nat /\ p % j < j
          OBVIOUS
        <5> QED BY <5>1, <5>2
      <4>2. r # 0
        BY <3>1, <4>1, PrimeOrder
      <4> QED BY <3>1, <4>1, <4>2, ScalarNumbers
    <3>3. Good(r)
      <4>1. i \in Nat /\ ~(i <= r)
        BY <3>1, <3>2
      <4>2. r \notin T
        <5> HIDE DEF T
        <5> QED BY <2>2, <4>1
      <4> HIDE DEF Good
      <4> QED BY <3>2, <4>2
    <3>4. /\ Times(Order - (Order \div i), h[r]) \in Scalars
          /\ Times(i, Times(Order - (Order \div i), h[r])) = 1
      <4>1. h[r] \in Scalars /\ Times(Order % i, h[r]) = 1
        BY <3>2, <3>3
      <4> HIDE DEF Good, T
      <4> QED BY <3>1, <4>1, InverseByDivision
    <3>5. h[i] = Times(Order - (Order \div i), h[r])
      <4> HIDE DEF Good, T
      <4> QED BY <1>3, <2>3, <2>5, <3>2
    <3> QED BY <2>3, <3>4, <3>5
  <2> QED BY <2>4, <2>5
<1>5. a \in 1 .. Order - 1
  BY ScalarNumbers DEF Scalars
<1>6. Good(a)
  <2> HIDE DEF Good
  <2> QED BY <1>4, <1>5
<1>7. h[a] \in Scalars /\ Times(a, h[a]) = 1
  BY <1>6
<1> QED BY <1>2, <1>7, FactorsOfOne

----------------------------------------------------------------------------
(* Sums in the group.                                                      *)

Over(f, u) == [y \in u |-> f[y]]

\* A sum over part of D, and what one of its elements adds.
LEMMA SumOverPart ==
  ASSUME NEW D, IsFiniteSet(D), NEW f \in [D -> Int], NEW u \in SUBSET D
  PROVE  /\ SumFunction(Over(f, u)) \in Int
         /\ u = {} => SumFunction(Over(f, u)) = 0
         /\ \A x \in u : SumFunction(Over(f, u)) = f[x] + SumFunction(Over(f, u \ {x}))
<1>1. IsFiniteSet(u) /\ Over(f, u) \in [u -> Int]
  BY FS_Subset DEF Over
<1>2. SumFunction(Over(f, u)) \in Int
  BY <1>1, SumSplits
<1>3. u = {} => SumFunction(Over(f, u)) = 0
  BY <1>1, SumEmpty
<1>4. ASSUME NEW x \in u PROVE SumFunction(Over(f, u)) = f[x] + SumFunction(Over(f, u \ {x}))
  <2>1. Over(f, u)[x] = f[x] /\ [y \in u \ {x} |-> Over(f, u)[y]] = Over(f, u \ {x})
    BY DEF Over
  <2> DEFINE e == Over(f, u)
  <2> HIDE DEF e
  <2>2. IsFiniteSet(u) /\ e \in [u -> Int]
    BY <1>1 DEF e
  <2>3. SumFunction(e) = e[x] + SumFunction([y \in u \ {x} |-> e[y]])
    BY <2>2, SumSplits
  <2> QED BY <2>1, <2>3 DEF e
<1> QED BY <1>2, <1>3, <1>4

\* Sums are linear: so is their congruence.
LEMMA SumsCombine ==
  ASSUME NEW D, IsFiniteSet(D), NEW f \in [D -> Int], NEW g \in [D -> Int], NEW h \in [D -> Int],
         NEW a \in Int, \A x \in D : Same(f[x], g[x] + a * h[x])
  PROVE  /\ SumFunction(f) \in Int /\ SumFunction(g) \in Int /\ SumFunction(h) \in Int
         /\ Same(SumFunction(f), SumFunction(g) + a * SumFunction(h))
<1> DEFINE F(u) == SumFunction(Over(f, u))
           G(u) == SumFunction(Over(g, u))
           H(u) == SumFunction(Over(h, u))
           Combine(u) == Same(F(u), G(u) + a * H(u))
           T == {n \in Nat : \A u \in SUBSET D : Cardinality(u) = n => Combine(u)}
<1>1. \A u \in SUBSET D : /\ IsFiniteSet(u) /\ Cardinality(u) \in Nat
                          /\ (Cardinality(u) = 0 => u = {})
  BY FS_Subset, FS_CardinalityType, FS_EmptySet
<1>2. \A u \in SUBSET D : F(u) \in Int /\ G(u) \in Int /\ H(u) \in Int
  BY SumOverPart
<1>3. 0 \in T
  <2> SUFFICES ASSUME NEW u \in SUBSET D, Cardinality(u) = 0 PROVE Combine(u)
    OBVIOUS
  <2>1. F(u) = 0 /\ G(u) = 0 /\ H(u) = 0
    BY <1>1, SumOverPart
  <2>2. G(u) + a * H(u) = 0
    BY <2>1
  <2> QED BY <2>1, <2>2, SameIsEquivalence
<1>4. ASSUME NEW n \in Nat, n \in T PROVE n + 1 \in T
  <2> SUFFICES ASSUME NEW u \in SUBSET D, Cardinality(u) = n + 1 PROVE Combine(u)
    OBVIOUS
  <2>1. PICK x \in u : TRUE
    <3>1. Cardinality({}) = 0 /\ Cardinality(u) # 0
      BY FS_EmptySet
    <3>2. u # {}
      BY <3>1
    <3> QED BY <3>2
  <2>2. u \ {x} \in SUBSET D /\ Cardinality(u \ {x}) = n
    <3>1. Cardinality(u \ {x}) = Cardinality(u) - 1
      BY <1>1, FS_RemoveElement
    <3> QED BY <3>1
  <2>3. Combine(u \ {x})
    BY <1>4, <2>2
  <2> HIDE DEF Combine, T, F, G, H
  <2>4. PICK r \in Int, s \in Int, t \in Int : r = F(u \ {x}) /\ s = G(u \ {x}) /\ t = H(u \ {x})
    BY <1>2, <2>2
  <2>5. PICK p \in Int, q \in Int, v \in Int : p = f[x] /\ q = g[x] /\ v = h[x]
    OBVIOUS
  <2>6. F(u) = p + r /\ G(u) = q + s /\ H(u) = v + t
    BY <2>4, <2>5, SumOverPart DEF F, G, H
  <2>7. Same(p, q + a * v) /\ Same(r, s + a * t)
    <3>1. Same(p, q + a * v)
      BY <2>5
    <3> QED BY <2>3, <2>4, <3>1 DEF Combine
  <2>8. q + a * v \in Int /\ s + a * t \in Int
    OBVIOUS
  <2>9. Same(p + r, (q + a * v) + (s + a * t))
    BY <2>7, <2>8, SameArithmetic
  <2>10. (q + a * v) + (s + a * t) = (q + s) + a * (v + t)
    OBVIOUS
  <2> QED BY <2>6, <2>9, <2>10 DEF Combine
<1>5. Cardinality(D) \in Nat /\ Cardinality(D) \in T
  <2> HIDE DEF T
  <2> QED BY <1>1, <1>3, <1>4, AllNaturals
<1>6. Combine(D)
  BY <1>5
<1>7. Over(f, D) = f /\ Over(g, D) = g /\ Over(h, D) = h
  BY DEF Over
<1> QED BY <1>2, <1>6, <1>7

\* A common factor comes out of a sum.
LEMMA SumScales ==
  ASSUME NEW D, IsFiniteSet(D), NEW f \in [D -> Int], NEW h \in [D -> Int],
         NEW a \in Int, \A x \in D : Same(f[x], a * h[x])
  PROVE  /\ SumFunction(f) \in Int /\ SumFunction(h) \in Int
         /\ Same(SumFunction(f), a * SumFunction(h))
<1>1. a - 1 \in Int
  OBVIOUS
<1>2. ASSUME NEW x \in D PROVE Same(f[x], h[x] + (a - 1) * h[x])
  <2>1. PICK y \in Int : y = h[x]
    OBVIOUS
  <2>2. y + (a - 1) * y = a * y
    OBVIOUS
  <2>3. Same(f[x], a * y)
    BY <2>1
  <2> QED BY <2>1, <2>2, <2>3
<1>3. /\ SumFunction(f) \in Int /\ SumFunction(h) \in Int
      /\ Same(SumFunction(f), SumFunction(h) + (a - 1) * SumFunction(h))
  BY <1>1, <1>2, SumsCombine
<1>4. PICK y \in Int : y = SumFunction(h)
  BY <1>3
<1>5. y + (a - 1) * y = a * y
  OBVIOUS
<1> QED BY <1>3, <1>4, <1>5

\* b, one to one, turns the terms g over S into the terms f over T.
Renames(b, g, S, f, T) ==
  /\ b \in [S -> T] /\ g \in [S -> Int] /\ f \in [T -> Int]
  /\ \A x, y \in S : b[x] = b[y] => x = y
  /\ \A t \in T : \E x \in S : b[x] = t
  /\ \A x \in S : g[x] = f[b[x]]

\* A sum does not depend on how its terms are named.
LEMMA SumReindexed ==
  ASSUME NEW S, IsFiniteSet(S), NEW T, IsFiniteSet(T), NEW b, NEW f, NEW g, Renames(b, g, S, f, T)
  PROVE  SumFunction(g) = SumFunction(f)
<1>0. /\ b \in [S -> T] /\ g \in [S -> Int] /\ f \in [T -> Int]
      /\ \A x, y \in S : b[x] = b[y] => x = y
      /\ \A t \in T : \E x \in S : b[x] = t
      /\ \A x \in S : g[x] = f[b[x]]
  BY DEF Renames
<1> DEFINE B(u) == {b[x] : x \in u}
           Agree(u) == SumFunction(Over(g, u)) = SumFunction(Over(f, B(u)))
           N == {n \in Nat : \A u \in SUBSET S : Cardinality(u) = n => Agree(u)}
<1>1. \A u \in SUBSET S : /\ IsFiniteSet(u) /\ Cardinality(u) \in Nat
                          /\ (Cardinality(u) = 0 => u = {})
  BY FS_Subset, FS_CardinalityType, FS_EmptySet
<1>2. 0 \in N
  <2> SUFFICES ASSUME NEW u \in SUBSET S, Cardinality(u) = 0 PROVE Agree(u)
    OBVIOUS
  <2>1. u = {} /\ B(u) = {} /\ B(u) \in SUBSET T
    BY <1>1
  <2> QED BY <1>0, <2>1, SumOverPart
<1>3. ASSUME NEW n \in Nat, n \in N PROVE n + 1 \in N
  <2> SUFFICES ASSUME NEW u \in SUBSET S, Cardinality(u) = n + 1 PROVE Agree(u)
    OBVIOUS
  <2>1. PICK x \in u : TRUE
    <3>1. Cardinality({}) = 0 /\ Cardinality(u) # 0
      BY FS_EmptySet
    <3>2. u # {}
      BY <3>1
    <3> QED BY <3>2
  <2>2. u \ {x} \in SUBSET S /\ Cardinality(u \ {x}) = n
    <3>1. Cardinality(u \ {x}) = Cardinality(u) - 1
      BY <1>1, FS_RemoveElement
    <3> QED BY <3>1
  <2>3. Agree(u \ {x})
    BY <1>3, <2>2
  <2>4. B(u \ {x}) = B(u) \ {b[x]} /\ b[x] \in B(u) /\ B(u) \in SUBSET T
    BY <1>0
  <2>5. SumFunction(Over(g, u)) = g[x] + SumFunction(Over(g, u \ {x}))
    BY <1>0, SumOverPart
  <2>6. SumFunction(Over(f, B(u))) = f[b[x]] + SumFunction(Over(f, B(u) \ {b[x]}))
    <3> HIDE DEF B
    <3> QED BY <1>0, <2>4, SumOverPart
  <2> HIDE DEF B
  <2>7. g[x] = f[b[x]]
    BY <1>0
  <2> QED BY <2>3, <2>4, <2>5, <2>6, <2>7
<1>4. Cardinality(S) \in Nat /\ Cardinality(S) \in N
  <2> HIDE DEF N
  <2> QED BY <1>1, <1>2, <1>3, AllNaturals
<1>5. Agree(S)
  BY <1>4
<1>6. B(S) = T /\ Over(g, S) = g /\ Over(f, T) = f
  BY <1>0 DEF Over
<1> QED BY <1>5, <1>6

\* Induction over the subsets of a finite set, an element at a time.
LEMMA AllSubsets ==
  ASSUME NEW D, IsFiniteSet(D), NEW Q, {} \in Q,
         \A u \in SUBSET D : \A x \in u : u \ {x} \in Q => u \in Q
  PROVE  SUBSET D \subseteq Q
<1> DEFINE T == {n \in Nat : \A u \in SUBSET D : Cardinality(u) = n => u \in Q}
<1>1. \A u \in SUBSET D : /\ IsFiniteSet(u) /\ Cardinality(u) \in Nat
                          /\ (Cardinality(u) = 0 => u = {})
  BY FS_Subset, FS_CardinalityType, FS_EmptySet
<1>2. 0 \in T
  BY <1>1
<1>3. ASSUME NEW n \in Nat, n \in T PROVE n + 1 \in T
  <2> SUFFICES ASSUME NEW u \in SUBSET D, Cardinality(u) = n + 1 PROVE u \in Q
    OBVIOUS
  <2>1. PICK x \in u : TRUE
    <3>1. Cardinality({}) = 0 /\ Cardinality(u) # 0
      BY FS_EmptySet
    <3>2. u # {}
      BY <3>1
    <3> QED BY <3>2
  <2>2. u \ {x} \in SUBSET D /\ Cardinality(u \ {x}) = n
    <3>1. Cardinality(u \ {x}) = Cardinality(u) - 1
      BY <1>1, FS_RemoveElement
    <3> QED BY <3>1
  <2> QED BY <1>3, <2>1, <2>2
<1>4. Nat \subseteq T
  <2> HIDE DEF T
  <2> QED BY <1>2, <1>3, AllNaturals
<1> QED BY <1>1, <1>4

\* The same term, as often as there are elements.
LEMMA SumConstant ==
  ASSUME NEW D, IsFiniteSet(D), NEW a \in Int
  PROVE  Cardinality(D) \in Nat /\ SumFunction([x \in D |-> a]) = Cardinality(D) * a
<1> DEFINE f == [x \in D |-> a]
           Q == {u \in SUBSET D : SumFunction(Over(f, u)) = Cardinality(u) * a}
<1>1. f \in [D -> Int]
  OBVIOUS
<1>2. {} \in Q
  <2>1. SumFunction(Over(f, {})) = 0
    BY <1>1, SumOverPart
  <2> QED BY <2>1, FS_EmptySet
<1>3. ASSUME NEW u \in SUBSET D, NEW x \in u, u \ {x} \in Q PROVE u \in Q
  <2>1. PICK n \in Nat : n = Cardinality(u) /\ Cardinality(u \ {x}) = n - 1
    BY FS_Subset, FS_CardinalityType, FS_RemoveElement
  <2>2. SumFunction(Over(f, u)) = f[x] + SumFunction(Over(f, u \ {x}))
    <3> HIDE DEF f
    <3> QED BY <1>1, SumOverPart
  <2>3. SumFunction(Over(f, u \ {x})) = (n - 1) * a
    BY <1>3, <2>1
  <2>4. f[x] = a
    OBVIOUS
  <2>5. a + (n - 1) * a = n * a
    OBVIOUS
  <2>6. SumFunction(Over(f, u)) = Cardinality(u) * a
    BY <2>1, <2>2, <2>3, <2>4, <2>5
  <2> QED BY <2>6
<1>4. D \in Q
  <2> HIDE DEF Q
  <2> QED BY <1>2, <1>3, AllSubsets
<1>5. Over(f, D) = f
  BY DEF Over
<1> QED BY <1>4, <1>5, FS_CardinalityType

\* Terms within a bound: so many times the bound at most.
LEMMA SumBounded ==
  ASSUME NEW D, IsFiniteSet(D), NEW m \in Nat, NEW f \in [D -> 0 .. m]
  PROVE  Cardinality(D) \in Nat /\ SumFunction(f) \in 0 .. Cardinality(D) * m
<1> DEFINE Q == {u \in SUBSET D : SumFunction(Over(f, u)) \in 0 .. Cardinality(u) * m}
<1>1. f \in [D -> Int]
  OBVIOUS
<1>2. {} \in Q
  <2>1. SumFunction(Over(f, {})) = 0
    BY <1>1, SumOverPart
  <2>2. Cardinality({}) = 0 /\ 0 \in 0 .. 0 * m
    BY FS_EmptySet
  <2> QED BY <2>1, <2>2
<1>3. ASSUME NEW u \in SUBSET D, NEW x \in u, u \ {x} \in Q PROVE u \in Q
  <2>1. PICK n \in Nat : n = Cardinality(u) /\ Cardinality(u \ {x}) = n - 1
    BY FS_Subset, FS_CardinalityType, FS_RemoveElement
  <2>2. PICK a \in Int, b \in Int, s \in Int :
          a = f[x] /\ b = SumFunction(Over(f, u \ {x})) /\ s = SumFunction(Over(f, u)) /\ s = a + b
    BY <1>1, SumOverPart
  <2>3. 0 <= b /\ b <= (n - 1) * m
    BY <1>3, <2>1, <2>2
  <2>4. 0 <= a /\ a <= m
    BY <2>2
  <2>5. (n - 1) * m + m = n * m
    OBVIOUS
  <2>6. PICK c \in Int, d \in Int : c = (n - 1) * m /\ d = n * m /\ c + m = d
    BY <2>5
  <2>7. s \in 0 .. d
    BY <2>2, <2>3, <2>4, <2>6
  <2> QED BY <2>1, <2>2, <2>6, <2>7
<1>4. D \in Q
  <2> HIDE DEF Q
  <2> QED BY <1>2, <1>3, AllSubsets
<1>5. Over(f, D) = f
  BY DEF Over
<1> QED BY <1>4, <1>5, FS_CardinalityType

\* A sum by groups: p tells to which group a term belongs.
LEMMA SumByGroups ==
  ASSUME NEW S, IsFiniteSet(S), NEW T, IsFiniteSet(T), NEW p \in [S -> T], NEW f \in [S -> Int]
  PROVE  LET group(t) == {x \in S : p[x] = t}
             g == [t \in T |-> SumFunction(Over(f, group(t)))]
         IN  g \in [T -> Int] /\ SumFunction(f) = SumFunction(g)
<1> DEFINE part(u, t) == {x \in u : p[x] = t}
           g(u) == [t \in T |-> SumFunction(Over(f, part(u, t)))]
           Q == {u \in SUBSET S : SumFunction(Over(f, u)) = SumFunction(g(u))}
<1>1. ASSUME NEW u \in SUBSET S PROVE g(u) \in [T -> Int]
  <2>1. \A t \in T : SumFunction(Over(f, part(u, t))) \in Int
    BY SumOverPart
  <2> QED BY <2>1
<1>2. {} \in Q
  <2>1. SumFunction(Over(f, {})) = 0
    BY SumOverPart
  <2>2. \A t \in T : part({}, t) = {}
    OBVIOUS
  <2>3. g({}) = [t \in T |-> 0]
    BY <2>1, <2>2
  <2>4. SumFunction([t \in T |-> 0]) = 0
    <3>1. PICK n \in Nat : n = Cardinality(T)
      BY FS_CardinalityType
    <3>2. SumFunction([t \in T |-> 0]) = n * 0
      BY <3>1, SumConstant, 0 \in Int
    <3> QED BY <3>2
  <2> QED BY <2>1, <2>3, <2>4
<1>3. ASSUME NEW u \in SUBSET S, NEW x \in u, u \ {x} \in Q PROVE u \in Q
  <2> DEFINE v == u \ {x}
  <2>1. v \in SUBSET S /\ p[x] \in T
    OBVIOUS
  <2>2. SumFunction(Over(f, u)) = f[x] + SumFunction(Over(f, v))
    BY SumOverPart
  <2>3. \A t \in T : t # p[x] => part(u, t) = part(v, t)
    OBVIOUS
  <2>4. part(u, p[x]) \in SUBSET S /\ x \in part(u, p[x]) /\ part(u, p[x]) \ {x} = part(v, p[x])
    OBVIOUS
  <2>5. g(u)[p[x]] = f[x] + g(v)[p[x]]
    <3> HIDE DEF part, v
    <3>1. SumFunction(Over(f, part(u, p[x]))) = f[x] + SumFunction(Over(f, part(u, p[x]) \ {x}))
      BY <2>4, SumOverPart
    <3> QED BY <2>1, <2>4, <3>1
  <2>6. [t \in T \ {p[x]} |-> g(u)[t]] = [t \in T \ {p[x]} |-> g(v)[t]]
    <3> HIDE DEF part, v
    <3> QED BY <2>3
  <2>7. g(u) \in [T -> Int] /\ g(v) \in [T -> Int]
    BY <1>1
  <2> HIDE DEF g, v
  <2>8. /\ SumFunction(g(u)) = g(u)[p[x]] + SumFunction([t \in T \ {p[x]} |-> g(u)[t]])
        /\ SumFunction(g(v)) = g(v)[p[x]] + SumFunction([t \in T \ {p[x]} |-> g(v)[t]])
        /\ SumFunction([t \in T \ {p[x]} |-> g(v)[t]]) \in Int
    <3> DEFINE a == g(u)
               b == g(v)
               R == T \ {p[x]}
    <3>0. a \in [T -> Int] /\ b \in [T -> Int] /\ p[x] \in T
      BY <2>1, <2>7
    <3> HIDE DEF a, b
    <3>1. IsFiniteSet(R) /\ [t \in R |-> b[t]] \in [R -> Int]
      BY <3>0, FS_Subset
    <3>2. /\ SumFunction(a) = a[p[x]] + SumFunction([t \in R |-> a[t]])
          /\ SumFunction(b) = b[p[x]] + SumFunction([t \in R |-> b[t]])
      <4>1. \A y \in T : SumFunction(a) = a[y] + SumFunction([t \in T \ {y} |-> a[t]])
        BY <3>0, SumSplits
      <4>2. \A y \in T : SumFunction(b) = b[y] + SumFunction([t \in T \ {y} |-> b[t]])
        BY <3>0, SumSplits
      <4> QED BY <3>0, <4>1, <4>2
    <3>3. SumFunction([t \in R |-> b[t]]) \in Int
      BY <3>1, SumSplits
    <3> QED BY <3>2, <3>3 DEF a, b
  <2>9. SumFunction(Over(f, v)) = SumFunction(g(v))
    BY <1>3 DEF v
  <2>10. f[x] \in Int /\ g(v)[p[x]] \in Int
    BY <2>1, <2>7
  <2>11. SumFunction(Over(f, u)) = SumFunction(g(u))
    BY <2>2, <2>5, <2>6, <2>8, <2>9, <2>10
  <2> QED BY <2>11
<1>4. S \in Q
  <2> HIDE DEF Q
  <2> QED BY <1>2, <1>3, AllSubsets
<1>5. Over(f, S) = f
  BY DEF Over
<1> QED BY <1>1, <1>4, <1>5

----------------------------------------------------------------------------
(* Limbs.                                                                  *)

\* Induction up to a bound.
LEMMA AllUpTo ==
  ASSUME NEW N \in Nat, NEW T, 0 \in T, \A k \in 0 .. N - 1 : k \in T => k + 1 \in T
  PROVE  \A k \in 0 .. N : k \in T
<1> DEFINE U == {n \in Nat : n <= N => n \in T}
<1>1. 0 \in U
  OBVIOUS
<1>2. \A n \in Nat : n \in U => n + 1 \in U
  OBVIOUS
<1>3. Nat \subseteq U
  <2> HIDE DEF U
  <2> QED BY <1>1, <1>2, AllNaturals
<1> QED BY <1>3

LEMMA LimbPowers ==
  /\ LimbPower[0] = 1
  /\ \A k \in Limbs : LimbPower[k] = LimbModulus * LimbPower[k - 1]
  /\ \A k \in 0 .. LimbCount : LimbPower[k] \in Nat \ {0}
<1>1. LimbModulus \in Nat \ {0} /\ LimbCount \in Nat
  BY AlgebraAssumption
<1> DEFINE Eq(h) == h = [k \in 0 .. LimbCount |-> IF k = 0 THEN 1 ELSE LimbModulus * h[k - 1]]
           step == [k \in 1 .. LimbCount |-> [x \in Int |-> LimbModulus * x]]
<1>2. \E h : Eq(h)
  <2>1. Steps(LimbCount, step)
    BY <1>1 DEF Steps
  <2> HIDE DEF step
  <2>2. PICK h : Solves(h, LimbCount, 1, step)
    BY <1>1, <2>1, Recursion
  <2> USE DEF Solves
  <2>3. \A k \in 1 .. LimbCount : h[k - 1] \in Int
    BY <1>1, <2>2
  <2>4. \A k \in 1 .. LimbCount : step[k][h[k - 1]] = LimbModulus * h[k - 1]
    BY <2>3 DEF step
  <2>5. Eq(h)
    BY <2>2, <2>4, <1>1
  <2> QED BY <2>5
<1>3. Eq(LimbPower)
  <2>1. LimbPower = CHOOSE h : Eq(h)
    BY DEF LimbPower
  <2> HIDE DEF Eq
  <2> QED BY <1>2, <2>1
<1>4. LimbPower[0] = 1
  BY <1>1, <1>3
<1>5. ASSUME NEW k \in Limbs PROVE LimbPower[k] = LimbModulus * LimbPower[k - 1]
  BY <1>1, <1>3 DEF Limbs
<1> HIDE DEF Eq
<1> DEFINE T == {k \in Nat : LimbPower[k] \in Nat \ {0}}
<1>6. 0 \in T
  BY <1>4
<1>7. ASSUME NEW k \in 0 .. LimbCount - 1, k \in T PROVE k + 1 \in T
  <2>1. LimbPower[k + 1] = LimbModulus * LimbPower[k]
    BY <1>1, <1>5 DEF Limbs
  <2>2. PICK p \in Nat \ {0} : p = LimbPower[k]
    BY <1>7
  <2>3. LimbModulus * p \in Nat \ {0}
    BY <1>1
  <2> QED BY <2>1, <2>2, <2>3
<1>8. \A k \in 0 .. LimbCount : k \in T
  <2> HIDE DEF T
  <2> QED BY <1>1, <1>6, <1>7, AllUpTo
<1> QED BY <1>4, <1>5, <1>8

\* Limbs are the digits of m: each is what is left of a quotient by the power
\* below it, and nothing is left above the last limb of a scalar.
LEMMA LimbsAreDigits ==
  ASSUME NEW m \in Nat
  PROVE  /\ m \div LimbPower[0] = m
         /\ \A k \in 0 .. LimbCount : m \div LimbPower[k] \in Nat
         /\ \A k \in Limbs :
              /\ Decompose(m)[k] \in 0 .. LimbModulus - 1
              /\ m \div LimbPower[k - 1] = LimbModulus * (m \div LimbPower[k]) + Decompose(m)[k]
         /\ m < Order => m \div LimbPower[LimbCount] = 0
<1>1. LimbModulus \in Nat \ {0} /\ LimbCount \in Nat \ {0} /\ Order \in Nat
  BY AlgebraAssumption
<1>2. \A n \in Nat \ {0} : /\ m \div n \in Nat /\ m % n \in 0 .. n - 1
                          /\ m = n * (m \div n) + (m % n)
  OBVIOUS
<1>3. m \div LimbPower[0] = m
  BY LimbPowers
<1>4. \A k \in 0 .. LimbCount : m \div LimbPower[k] \in Nat
  BY <1>2, LimbPowers
<1>5. ASSUME NEW k \in Limbs
      PROVE  /\ Decompose(m)[k] \in 0 .. LimbModulus - 1
             /\ m \div LimbPower[k - 1] = LimbModulus * (m \div LimbPower[k]) + Decompose(m)[k]
  <2>1. k - 1 \in 0 .. LimbCount /\ k \in 0 .. LimbCount
    BY <1>1 DEF Limbs
  <2>2. PICK p \in Nat \ {0} : p = LimbPower[k - 1]
    BY <2>1, LimbPowers
  <2>3. LimbPower[k] = LimbModulus * p
    BY <2>2, LimbPowers
  <2>4. PICK a \in Nat : a = m \div p
    BY <1>2
  <2>5. PICK r \in 0 .. p - 1 : r = m % p
    BY <1>2
  <2>6. m = p * a + r
    BY <1>2, <2>4, <2>5
  <2>7. PICK q \in Nat : q = a \div LimbModulus
    BY <1>1
  <2>8. PICK d \in 0 .. LimbModulus - 1 : d = a % LimbModulus
    BY <1>1
  <2>9. a = LimbModulus * q + d
    BY <1>1, <2>7, <2>8
  <2>10. Decompose(m)[k] = d
    BY <2>2, <2>4, <2>8 DEF Decompose
  <2>11. m = (LimbModulus * p) * q + (p * d + r)
    BY <1>1, <2>6, <2>9
  <2>12. p * d + r \in 0 .. LimbModulus * p - 1
    <3>1. p * d <= p * (LimbModulus - 1)
      BY <1>1
    <3>2. p * (LimbModulus - 1) = LimbModulus * p - p
      BY <1>1
    <3>3. PICK x \in Nat : x = p * d
      OBVIOUS
    <3>4. PICK y \in Nat : y = LimbModulus * p
      BY <1>1
    <3> QED BY <3>1, <3>2, <3>3, <3>4
  <2>13. LimbModulus * p \in Nat \ {0}
    BY <1>1
  <2>14. PICK y \in Nat \ {0} : y = LimbModulus * p
    BY <2>13
  <2>15. (y * q + (p * d + r)) \div y = q
    <3>1. PICK x \in 0 .. y - 1 : x = p * d + r
      BY <2>12, <2>14
    <3>2. q \in Int
      OBVIOUS
    <3>3. (y * q + x) \div y = q
      BY <3>2, DivisionUnique
    <3> QED BY <3>1, <3>3
  <2>16. m \div LimbPower[k] = q
    BY <2>3, <2>11, <2>14, <2>15
  <2> QED BY <2>2, <2>4, <2>8, <2>9, <2>10, <2>16
<1>6. ASSUME m < Order PROVE m \div LimbPower[LimbCount] = 0
  <2>1. PICK p \in Nat \ {0} : p = LimbPower[LimbCount]
    BY <1>1, LimbPowers
  <2>2. m \in 0 .. p - 1
    BY <1>1, <1>6, <2>1, AlgebraAssumption
  <2>3. (p * 0 + m) \div p = 0 /\ p * 0 + m = m
    BY <2>2, DivisionUnique
  <2> QED BY <2>1, <2>3
<1> QED BY <1>3, <1>4, <1>5, <1>6

\* The integer that limbs stand for, as a partial sum per limb.
LEMMA IntegerUnfolds ==
  ASSUME NEW v \in [Limbs -> Int]
  PROVE  \E g : /\ g \in [0 .. LimbCount -> Int] /\ g[0] = 0 /\ g[LimbCount] = Integer(v)
               /\ \A k \in Limbs : g[k] = g[k - 1] + LimbPower[k - 1] * v[k]
<1> DEFINE Eq(g) == g = [k \in 0 .. LimbCount |->
                          IF k = 0 THEN 0 ELSE g[k - 1] + LimbPower[k - 1] * v[k]]
           step == [k \in 1 .. LimbCount |-> [x \in Int |-> x + LimbPower[k - 1] * v[k]]]
<1>1. LimbCount \in Nat
  BY AlgebraAssumption
<1>2. \A k \in 1 .. LimbCount : LimbPower[k - 1] * v[k] \in Int
  <2> SUFFICES ASSUME NEW k \in 1 .. LimbCount PROVE LimbPower[k - 1] * v[k] \in Int
    OBVIOUS
  <2>1. LimbPower[k - 1] \in Int /\ v[k] \in Int
    BY <1>1, LimbPowers, k - 1 \in 0 .. LimbCount DEF Limbs
  <2> QED BY <2>1
<1>3. Steps(LimbCount, step)
  BY <1>1, <1>2 DEF Steps
<1> HIDE DEF step
<1>4. PICK h : Solves(h, LimbCount, 0, step)
  BY <1>1, <1>3, Recursion
<1>5. \A k \in 1 .. LimbCount : step[k][h[k - 1]] = h[k - 1] + LimbPower[k - 1] * v[k]
  <2>1. \A k \in 1 .. LimbCount : h[k - 1] \in Int
    BY <1>1, <1>4 DEF Solves
  <2> QED BY <2>1 DEF step
<1>6. Eq(h)
  BY <1>1, <1>4, <1>5 DEF Solves
<1>7. PICK g : Eq(g) /\ Integer(v) = g[LimbCount]
  <2>1. Integer(v) = (CHOOSE g : Eq(g))[LimbCount]
    BY DEF Integer
  <2>2. Eq(CHOOSE g : Eq(g))
    <3> HIDE DEF Eq
    <3> QED BY <1>6
  <2> HIDE DEF Eq
  <2> QED BY <2>1, <2>2
<1>8. g[0] = 0 /\ \A k \in Limbs : g[k] = g[k - 1] + LimbPower[k - 1] * v[k]
  BY <1>1, <1>7 DEF Limbs
<1>9. ASSUME NEW k \in 0 .. LimbCount PROVE g[k] \in Int
  <2> DEFINE T == {i \in Nat : g[i] \in Int}
  <2>1. 0 \in T
    BY <1>8
  <2>2. ASSUME NEW i \in 0 .. LimbCount - 1, i \in T PROVE i + 1 \in T
    <3>1. g[i + 1] = g[i] + LimbPower[i] * v[i + 1] /\ LimbPower[i] * v[i + 1] \in Int
      <4>1. i + 1 \in 1 .. LimbCount /\ (i + 1) - 1 = i
        BY <1>1
      <4> HIDE DEF Eq, T
      <4> QED BY <1>2, <1>8, <4>1 DEF Limbs
    <3> HIDE DEF Eq
    <3> QED BY <2>2, <3>1
  <2>3. \A i \in 0 .. LimbCount : i \in T
    <3> HIDE DEF T
    <3> QED BY <1>1, <2>1, <2>2, AllUpTo
  <2> QED BY <2>3
<1>10. g \in [0 .. LimbCount -> Int]
  BY <1>7, <1>9
<1> HIDE DEF Eq
<1> QED BY <1>7, <1>8, <1>10

\* Horner's rule, limb by limb from the most significant one.
LEMMA RecomposeUnfolds ==
  ASSUME NEW v \in [Limbs -> Int]
  PROVE  \E h : /\ h \in [0 .. LimbCount -> Int] /\ h[0] = 0 /\ h[LimbCount] = Recompose(v)
               /\ \A k \in Limbs :
                    h[k] = Plus(Times(h[k - 1], LimbModulus % Order), v[LimbCount + 1 - k])
<1> DEFINE Eq(h) == h = [k \in 0 .. LimbCount |->
                          IF k = 0 THEN 0
                          ELSE Plus(Times(h[k - 1], LimbModulus % Order), v[LimbCount + 1 - k])]
           step == [k \in 1 .. LimbCount |->
                     [x \in Int |-> Plus(Times(x, LimbModulus % Order), v[LimbCount + 1 - k])]]
<1>1. LimbCount \in Nat /\ LimbModulus % Order \in Int
  BY AlgebraAssumption
<1>2. \A k \in 1 .. LimbCount : \A x \in Int :
        Plus(Times(x, LimbModulus % Order), v[LimbCount + 1 - k]) \in Int
  <2> SUFFICES ASSUME NEW k \in 1 .. LimbCount, NEW x \in Int
               PROVE  Plus(Times(x, LimbModulus % Order), v[LimbCount + 1 - k]) \in Int
    OBVIOUS
  <2>1. v[LimbCount + 1 - k] \in Int
    BY <1>1, LimbCount + 1 - k \in 1 .. LimbCount DEF Limbs
  <2>2. Scalars \subseteq Int
    BY DEF Scalars
  <2> QED BY <1>1, <2>1, <2>2, SameOperations
<1>3. Steps(LimbCount, step)
  BY <1>1, <1>2 DEF Steps
<1> HIDE DEF step
<1>4. PICK h : Solves(h, LimbCount, 0, step)
  BY <1>1, <1>3, Recursion
<1>5. \A k \in 1 .. LimbCount :
        step[k][h[k - 1]] = Plus(Times(h[k - 1], LimbModulus % Order), v[LimbCount + 1 - k])
  <2>1. \A k \in 1 .. LimbCount : h[k - 1] \in Int
    BY <1>1, <1>4 DEF Solves
  <2> QED BY <2>1 DEF step
<1>6. Eq(h)
  BY <1>1, <1>4, <1>5 DEF Solves
<1>7. PICK g : Eq(g) /\ Recompose(v) = g[LimbCount]
  <2>1. Recompose(v) = (CHOOSE g : Eq(g))[LimbCount]
    BY DEF Recompose
  <2>2. Eq(CHOOSE g : Eq(g))
    <3> HIDE DEF Eq
    <3> QED BY <1>6
  <2> HIDE DEF Eq
  <2> QED BY <2>1, <2>2
<1>8. /\ g[0] = 0
      /\ \A k \in Limbs : g[k] = Plus(Times(g[k - 1], LimbModulus % Order), v[LimbCount + 1 - k])
  BY <1>1, <1>7 DEF Limbs
<1>9. ASSUME NEW k \in 0 .. LimbCount PROVE g[k] \in Int
  <2> DEFINE T == {i \in Nat : g[i] \in Int}
  <2>1. 0 \in T
    BY <1>8
  <2>2. ASSUME NEW i \in 0 .. LimbCount - 1, i \in T PROVE i + 1 \in T
    <3>1. i + 1 \in 1 .. LimbCount /\ (i + 1) - 1 = i /\ g[i] \in Int
      BY <1>1, <2>2
    <3>2. g[i + 1] = Plus(Times(g[i], LimbModulus % Order), v[LimbCount + 1 - (i + 1)])
      <4> HIDE DEF Eq, T
      <4> QED BY <1>8, <3>1 DEF Limbs
    <3>3. g[i + 1] \in Int
      <4> HIDE DEF Eq, T
      <4> QED BY <1>2, <3>1, <3>2
    <3> HIDE DEF Eq
    <3> QED BY <3>3
  <2>3. \A i \in 0 .. LimbCount : i \in T
    <3> HIDE DEF T
    <3> QED BY <1>1, <2>1, <2>2, AllUpTo
  <2> QED BY <2>3
<1>10. g \in [0 .. LimbCount -> Int]
  BY <1>7, <1>9
<1> HIDE DEF Eq
<1> QED BY <1>7, <1>8, <1>10

\* Horner's rule computes the integer modulo the order.
LEMMA RecomposeIsInteger ==
  ASSUME NEW v \in [Limbs -> Int]
  PROVE  /\ Integer(v) \in Int /\ Recompose(v) \in Scalars
         /\ Same(Recompose(v), Integer(v))
<1>1. LimbCount \in Nat \ {0} /\ LimbModulus \in Int /\ LimbModulus % Order \in Int /\ Scalars \subseteq Int
  BY AlgebraAssumption DEF Scalars
<1>2. PICK g : /\ g \in [0 .. LimbCount -> Int] /\ g[0] = 0 /\ g[LimbCount] = Integer(v)
               /\ \A k \in Limbs : g[k] = g[k - 1] + LimbPower[k - 1] * v[k]
  BY IntegerUnfolds
<1>3. PICK h : /\ h \in [0 .. LimbCount -> Int] /\ h[0] = 0 /\ h[LimbCount] = Recompose(v)
               /\ \A k \in Limbs :
                    h[k] = Plus(Times(h[k - 1], LimbModulus % Order), v[LimbCount + 1 - k])
  BY RecomposeUnfolds
<1> DEFINE T == {k \in Nat : Same(h[k] * LimbPower[LimbCount - k] + g[LimbCount - k], Integer(v))}
<1>4. Integer(v) \in Int
  BY <1>1, <1>2
<1>5. 0 \in T
  <2>1. PICK p \in Int : p = LimbPower[LimbCount]
    BY <1>1, LimbPowers
  <2>2. h[0] * p + g[LimbCount] = Integer(v)
    BY <1>2, <1>3, <1>4
  <2>3. Same(Integer(v), Integer(v))
    BY <1>4, SameIsEquivalence
  <2>4. LimbCount - 0 = LimbCount
    BY <1>1
  <2> QED BY <2>1, <2>2, <2>3, <2>4
<1>6. ASSUME NEW k \in 0 .. LimbCount - 1, k \in T PROVE k + 1 \in T
  <2>1. PICK i \in 1 .. LimbCount : i = LimbCount - k
    BY <1>1
  <2>2. i - 1 = LimbCount - (k + 1) /\ i - 1 \in 0 .. LimbCount /\ i \in 0 .. LimbCount
        /\ LimbCount + 1 - (k + 1) = i /\ k + 1 \in Limbs /\ i \in Limbs /\ (k + 1) - 1 = k
    BY <1>1, <2>1 DEF Limbs
  <2>3. PICK p \in Int : p = LimbPower[i - 1]
    BY <2>2, LimbPowers
  <2>4. LimbPower[i] = LimbModulus * p
    BY <2>2, <2>3, LimbPowers
  <2>5. PICK x \in Int : x = v[i]
    BY <2>2
  <2>6. PICK b \in Int : b = g[i - 1]
    BY <1>2, <2>2
  <2>7. g[i] = b + p * x
    BY <1>2, <2>2, <2>3, <2>5, <2>6
  <2>8. PICK a \in Int : a = h[k]
    BY <1>1, <1>3
  <2>9. h[k + 1] = Plus(Times(a, LimbModulus % Order), x)
    BY <1>3, <2>2, <2>5, <2>8
  <2>10. PICK c \in Int : c = h[k + 1]
    <3>1. k + 1 \in 0 .. LimbCount
      BY <1>1
    <3> QED BY <1>3, <3>1
  <2>11. Same(c, a * LimbModulus + x)
    <3>1. Same(LimbModulus % Order, LimbModulus)
      BY <1>1, SameReduces
    <3>2. Same(a * (LimbModulus % Order), a * LimbModulus)
      BY <1>1, <3>1, SameArithmetic, SameIsEquivalence
    <3>3. Same(Times(a, LimbModulus % Order), a * LimbModulus)
      <4>1. Same(Times(a, LimbModulus % Order), a * (LimbModulus % Order))
        BY <1>1, SameOperations
      <4>2. a * (LimbModulus % Order) \in Int /\ a * LimbModulus \in Int
        BY <1>1
      <4>3. Times(a, LimbModulus % Order) \in Int
        BY <1>1, SameOperations
      <4> QED BY <3>2, <4>1, <4>2, <4>3, SameIsEquivalence
    <3>4. PICK y \in Int : y = Times(a, LimbModulus % Order)
      BY <1>1, SameOperations
    <3>5. PICK z \in Int : z = a * LimbModulus
      BY <1>1
    <3>6. Same(x, x)
      BY SameIsEquivalence
    <3>7. Same(y + x, z + x)
      BY <3>3, <3>4, <3>5, <3>6, SameArithmetic
    <3>8. Same(c, y + x)
      BY <2>9, <2>10, <3>4, SameOperations
    <3>9. y + x \in Int /\ z + x \in Int
      OBVIOUS
    <3>10. Same(c, z + x)
      BY <3>7, <3>8, <3>9, SameIsEquivalence
    <3> QED BY <3>5, <3>10
  <2>12. Same(c * p + b, (a * LimbModulus + x) * p + b)
    <3>1. PICK y \in Int : y = a * LimbModulus + x
      BY <1>1
    <3>2. Same(p, p) /\ Same(b, b)
      BY SameIsEquivalence
    <3>3. Same(c * p, y * p)
      BY <2>11, <3>1, <3>2, SameArithmetic
    <3>4. c * p \in Int /\ y * p \in Int
      OBVIOUS
    <3>5. Same(c * p + b, y * p + b)
      BY <3>2, <3>3, <3>4, SameArithmetic
    <3> QED BY <3>1, <3>5
  <2>13. (a * LimbModulus + x) * p + b = a * (LimbModulus * p) + (b + p * x)
    BY <1>1
  <2>14. Same(a * (LimbModulus * p) + (b + p * x), Integer(v))
    BY <1>6, <2>1, <2>4, <2>7, <2>8
  <2>15. Same(c * p + b, Integer(v))
    <3>1. PICK y \in Int : y = (a * LimbModulus + x) * p + b
      BY <1>1
    <3>2. c * p + b \in Int
      OBVIOUS
    <3>3. Same(c * p + b, y) /\ Same(y, Integer(v))
      BY <2>12, <2>13, <2>14, <3>1
    <3> QED BY <1>4, <3>2, <3>3, SameIsEquivalence
  <2> QED BY <2>2, <2>3, <2>6, <2>10, <2>15
<1>7. LimbCount \in T
  <2> HIDE DEF T
  <2> QED BY <1>1, <1>5, <1>6, AllUpTo
<1>8. Recompose(v) \in Scalars
  <2>1. /\ h[LimbCount] = Plus(Times(h[LimbCount - 1], LimbModulus % Order), v[LimbCount + 1 - LimbCount])
        /\ h[LimbCount - 1] \in Int /\ v[LimbCount + 1 - LimbCount] \in Int
    BY <1>1, <1>3 DEF Limbs
  <2>2. Times(h[LimbCount - 1], LimbModulus % Order) \in Int
    BY <1>1, <2>1, SameOperations
  <2> QED BY <1>3, <2>1, <2>2, SameOperations
<1>9. Same(Recompose(v), Integer(v))
  <2>1. PICK r \in Int : r = h[LimbCount]
    BY <1>1, <1>3
  <2>2. LimbPower[LimbCount - LimbCount] = 1 /\ g[LimbCount - LimbCount] = 0
    BY <1>1, <1>2, LimbPowers
  <2>3. r * 1 + 0 = r
    OBVIOUS
  <2> QED BY <1>3, <1>7, <2>1, <2>2, <2>3
<1> QED BY <1>4, <1>8, <1>9

\* Up to the k-th limb, the digits of m are m less its k-th quotient.
LEMMA IntegerOfDigits ==
  ASSUME NEW m \in Scalars
  PROVE  Decompose(m) \in [Limbs -> 0 .. LimbModulus - 1] /\ Integer(Decompose(m)) = m
<1>1. LimbCount \in Nat /\ m \in Nat /\ m < Order
  BY AlgebraAssumption DEF Scalars
<1>2. Decompose(m) \in [Limbs -> 0 .. LimbModulus - 1]
  <2>1. \A k \in Limbs : Decompose(m)[k] \in 0 .. LimbModulus - 1
    BY <1>1, LimbsAreDigits
  <2> QED BY <2>1 DEF Decompose
<1>3. Decompose(m) \in [Limbs -> Int]
  BY <1>2
<1>4. PICK g : /\ g \in [0 .. LimbCount -> Int] /\ g[0] = 0 /\ g[LimbCount] = Integer(Decompose(m))
               /\ \A k \in Limbs : g[k] = g[k - 1] + LimbPower[k - 1] * Decompose(m)[k]
  BY <1>3, IntegerUnfolds
<1> DEFINE T == {k \in Nat : m = LimbPower[k] * (m \div LimbPower[k]) + g[k]}
<1>5. 0 \in T
  <2>1. m \div LimbPower[0] = m /\ LimbPower[0] = 1 /\ g[0] = 0
    BY <1>1, <1>4, LimbPowers, LimbsAreDigits
  <2> QED BY <1>1, <2>1
<1>6. ASSUME NEW k \in 0 .. LimbCount - 1, k \in T PROVE k + 1 \in T
  <2>1. k + 1 \in Limbs /\ (k + 1) - 1 = k /\ k \in 0 .. LimbCount /\ k + 1 \in 0 .. LimbCount
    BY <1>1 DEF Limbs
  <2>2. PICK p \in Int : p = LimbPower[k]
    BY <2>1, LimbPowers
  <2>3. LimbPower[k + 1] = LimbModulus * p
    BY <2>1, <2>2, LimbPowers
  <2>4. PICK q \in Int : q = m \div LimbPower[k + 1]
    BY <1>1, <2>1, LimbsAreDigits
  <2>5. PICK d \in Int : d = Decompose(m)[k + 1]
    BY <1>3, <2>1
  <2>6. m \div LimbPower[k] = LimbModulus * q + d
    BY <1>1, <2>1, <2>4, <2>5, LimbsAreDigits
  <2>7. PICK a \in Int : a = g[k]
    BY <1>4, <2>1
  <2>8. g[k + 1] = a + p * d
    BY <1>4, <2>1, <2>2, <2>5, <2>7
  <2>9. m = p * (LimbModulus * q + d) + a
    BY <1>6, <2>2, <2>6, <2>7
  <2>10. m = (LimbModulus * p) * q + (a + p * d)
    BY <2>9, AlgebraAssumption
  <2> QED BY <2>3, <2>4, <2>8, <2>10
<1>7. LimbCount \in T
  <2> HIDE DEF T
  <2> QED BY <1>1, <1>5, <1>6, AllUpTo
<1>8. m = LimbPower[LimbCount] * 0 + g[LimbCount]
  BY <1>1, <1>7, LimbsAreDigits
<1>9. LimbPower[LimbCount] \in Int /\ g[LimbCount] \in Int
  BY <1>1, <1>4, LimbPowers
<1> QED BY <1>2, <1>4, <1>8, <1>9

\* Recomposing the limbs of a scalar returns it (limbs.rs), for every order,
\* limb width and number of limbs that covers the order.
THEOREM LimbsRoundTrip == \A m \in Scalars : Recompose(Decompose(m)) = m
<1> SUFFICES ASSUME NEW m \in Scalars PROVE Recompose(Decompose(m)) = m
  OBVIOUS
<1>1. Decompose(m) \in [Limbs -> Int] /\ Integer(Decompose(m)) = m
  BY IntegerOfDigits
<1>2. PICK r \in Scalars : r = Recompose(Decompose(m))
  BY <1>1, RecomposeIsInteger
<1>3. Same(r, m) /\ r \in Int /\ m \in Int
  BY <1>1, <1>2, RecomposeIsInteger DEF Scalars
<1>4. r % Order = m % Order /\ r % Order = r /\ m % Order = m
  BY <1>3, SameReduces
<1> QED BY <1>2, <1>4

\* What limbs stand for is linear in them.
LEMMA IntegerAdds ==
  ASSUME NEW u \in [Limbs -> Int], NEW v \in [Limbs -> Int], NEW w \in [Limbs -> Int],
         \A j \in Limbs : w[j] = u[j] + v[j]
  PROVE  Integer(w) = Integer(u) + Integer(v)
<1>1. PICK f : /\ f \in [0 .. LimbCount -> Int] /\ f[0] = 0 /\ f[LimbCount] = Integer(u)
               /\ \A k \in Limbs : f[k] = f[k - 1] + LimbPower[k - 1] * u[k]
  BY IntegerUnfolds
<1>2. PICK g : /\ g \in [0 .. LimbCount -> Int] /\ g[0] = 0 /\ g[LimbCount] = Integer(v)
               /\ \A k \in Limbs : g[k] = g[k - 1] + LimbPower[k - 1] * v[k]
  BY IntegerUnfolds
<1>3. PICK h : /\ h \in [0 .. LimbCount -> Int] /\ h[0] = 0 /\ h[LimbCount] = Integer(w)
               /\ \A k \in Limbs : h[k] = h[k - 1] + LimbPower[k - 1] * w[k]
  BY IntegerUnfolds
<1> DEFINE T == {k \in Nat : h[k] = f[k] + g[k]}
<1>4. LimbCount \in Nat
  BY AlgebraAssumption
<1>5. 0 \in T
  BY <1>1, <1>2, <1>3
<1>6. ASSUME NEW k \in 0 .. LimbCount - 1, k \in T PROVE k + 1 \in T
  <2>1. k + 1 \in Limbs /\ (k + 1) - 1 = k /\ k \in 0 .. LimbCount /\ k + 1 \in 0 .. LimbCount
    BY <1>4 DEF Limbs
  <2>2. PICK p \in Int : p = LimbPower[k]
    BY <2>1, LimbPowers
  <2>3. PICK a \in Int, b \in Int, c \in Int :
          a = u[k + 1] /\ b = v[k + 1] /\ c = w[k + 1] /\ c = a + b
    BY <2>1
  <2>4. PICK x \in Int, y \in Int, z \in Int : x = f[k] /\ y = g[k] /\ z = h[k] /\ z = x + y
    BY <1>1, <1>2, <1>3, <1>6, <2>1
  <2>5. f[k + 1] = x + p * a /\ g[k + 1] = y + p * b /\ h[k + 1] = z + p * c
    BY <1>1, <1>2, <1>3, <2>1, <2>2, <2>3, <2>4
  <2>6. PICK l \in Int, m \in Int, n \in Int : l = p * a /\ m = p * b /\ n = p * c /\ n = l + m
    <3>1. p * (a + b) = p * a + p * b
      OBVIOUS
    <3> QED BY <2>3, <3>1
  <2>7. h[k + 1] = f[k + 1] + g[k + 1]
    <3> HIDE <2>3
    <3> QED BY <2>4, <2>5, <2>6
  <2>8. k + 1 \in Nat
    BY <1>4
  <2> QED BY <2>7, <2>8
<1>7. LimbCount \in T
  <2> HIDE DEF T
  <2>1. \A k \in 0 .. LimbCount : k \in T
    BY <1>4, <1>5, <1>6, AllUpTo
  <2> QED BY <1>4, <2>1
<1> QED BY <1>1, <1>2, <1>3, <1>7

\* The limbs of a sum stand for the sum.
LEMMA IntegerSums ==
  ASSUME NEW D, IsFiniteSet(D), NEW V \in [D -> [Limbs -> Int]]
  PROVE  LET sums == [j \in Limbs |-> SumFunction([h \in D |-> V[h][j]])]
         IN  /\ sums \in [Limbs -> Int]
             /\ Integer(sums) = SumFunction([h \in D |-> Integer(V[h])])
<1> DEFINE column(j) == [h \in D |-> V[h][j]]
           whole == [h \in D |-> Integer(V[h])]
           part(u) == [j \in Limbs |-> SumFunction(Over(column(j), u))]
           Q == {u \in SUBSET D : Integer(part(u)) = SumFunction(Over(whole, u))}
<1>1. \A j \in Limbs : column(j) \in [D -> Int]
  OBVIOUS
<1>2. whole \in [D -> Int]
  <2>1. ASSUME NEW h \in D PROVE Integer(V[h]) \in Int
    <3>1. V[h] \in [Limbs -> Int]
      OBVIOUS
    <3> QED BY <3>1, RecomposeIsInteger
  <2> QED BY <2>1
<1> HIDE DEF column, whole
<1>3. ASSUME NEW u \in SUBSET D PROVE part(u) \in [Limbs -> Int]
  BY <1>1, SumOverPart
<1>4. {} \in Q
  <2>1. \A j \in Limbs : part({})[j] = 0
    BY <1>1, SumOverPart
  <2>2. part({}) \in [Limbs -> Int]
    BY <1>3
  <2> HIDE DEF part
  <2>3. \A j \in Limbs : part({})[j] = part({})[j] + part({})[j]
    BY <2>1
  <2>4. Integer(part({})) = Integer(part({})) + Integer(part({}))
    BY <2>2, <2>3, IntegerAdds
  <2>5. PICK i \in Int : i = Integer(part({}))
    BY <2>2, RecomposeIsInteger
  <2>6. i = i + i
    BY <2>4, <2>5
  <2>7. SumFunction(Over(whole, {})) = 0
    BY <1>2, SumOverPart
  <2>8. i = 0
    BY <2>6
  <2>9. {} \in SUBSET D
    OBVIOUS
  <2> QED BY <2>5, <2>7, <2>8, <2>9
<1>5. ASSUME NEW u \in SUBSET D, NEW x \in u, u \ {x} \in Q PROVE u \in Q
  <2>1. u \ {x} \in SUBSET D /\ x \in D
    OBVIOUS
  <2>2. \A j \in Limbs : part(u)[j] = V[x][j] + part(u \ {x})[j]
    <3> SUFFICES ASSUME NEW j \in Limbs PROVE part(u)[j] = V[x][j] + part(u \ {x})[j]
      OBVIOUS
    <3>1. SumFunction(Over(column(j), u)) = column(j)[x] + SumFunction(Over(column(j), u \ {x}))
      <4> DEFINE a == column(j)
      <4>1. a \in [D -> Int]
        BY <1>1
      <4> HIDE DEF a
      <4>2. \A y \in u : SumFunction(Over(a, u)) = a[y] + SumFunction(Over(a, u \ {y}))
        BY <4>1, SumOverPart
      <4> QED BY <4>2 DEF a
    <3>2. column(j)[x] = V[x][j]
      BY <2>1 DEF column
    <3> QED BY <3>1, <3>2
  <2>3. V[x] \in [Limbs -> Int]
    BY <2>1
  <2>4. part(u) \in [Limbs -> Int] /\ part(u \ {x}) \in [Limbs -> Int]
    BY <1>3, <2>1
  <2>5. Integer(part(u \ {x})) = SumFunction(Over(whole, u \ {x}))
    BY <1>5
  <2> HIDE DEF part
  <2>6. Integer(part(u)) = Integer(V[x]) + Integer(part(u \ {x}))
    BY <2>2, <2>3, <2>4, IntegerAdds
  <2>7. SumFunction(Over(whole, u)) = whole[x] + SumFunction(Over(whole, u \ {x}))
    BY <1>2, SumOverPart
  <2>8. whole[x] = Integer(V[x])
    BY <2>1 DEF whole
  <2>9. Integer(part(u)) = SumFunction(Over(whole, u))
    BY <2>5, <2>6, <2>7, <2>8
  <2> QED BY <2>9
<1>6. D \in Q
  <2> HIDE DEF Q
  <2> QED BY <1>4, <1>5, AllSubsets
<1>7. Over(whole, D) = whole /\ \A j \in Limbs : Over(column(j), D) = column(j)
  BY DEF Over, whole, column
<1>8. part(D) = [j \in Limbs |-> SumFunction(column(j))]
  BY <1>7
<1>9. part(D) \in [Limbs -> Int] /\ Integer(part(D)) = SumFunction(whole)
  BY <1>3, <1>6, <1>7
<1> HIDE DEF part, Q
<1> QED BY <1>8, <1>9 DEF column, whole

----------------------------------------------------------------------------
(* Opening.                                                                *)

\* A contribution is the share of G and of every limb's ephemeral, with a
\* proof of exactly these images.
LEMMA PartialFields ==
  ASSUME NEW core, core.e \in Seq(Int), Len(core.e) = LimbCount, NEW w \in Scalars,
         NEW binding, NEW gate, NEW ctx, NEW entropy
  PROVE  LET p == Partial(core, binding, gate, w, ctx, entropy)
         IN  /\ p.gate = gate /\ p.w_g = w /\ Len(p.masks) = LimbCount
             /\ \A j \in Limbs : p.masks[j] = Times(w, core.e[j])
             /\ p.dleq.statement = [ bases |-> DleqBases(core), images |-> <<p.w_g>> \o p.masks,
                                     binding |-> ContributionBinding(core, binding, gate, ctx) ]
<1> DEFINE p == Partial(core, binding, gate, w, ctx, entropy)
           e == core.e
           bases == DleqBases(core)
           images == Images(w, bases)
<1>1. /\ w \in Int /\ e \in Seq(Int) /\ Len(e) = LimbCount
      /\ LimbCount \in Nat /\ Limbs = 1 .. LimbCount
  BY AlgebraAssumption DEF Limbs, Scalars
<1>2. /\ p.gate = gate /\ p.w_g = Head(images) /\ p.masks = Tail(images)
      /\ p.dleq.statement = [ bases |-> bases, images |-> images,
                              binding |-> ContributionBinding(core, binding, gate, ctx) ]
  BY DEF Partial, Prove
<1>3. bases = <<1>> \o e
  BY DEF DleqBases
<1> HIDE DEF bases, e, p
<1>4. /\ bases \in Seq(Int) /\ Len(bases) = LimbCount + 1 /\ bases[1] = 1
      /\ \A j \in 1 .. LimbCount : bases[j + 1] = e[j]
  BY <1>1, <1>3
<1>5. images = [i \in 1 .. LimbCount + 1 |-> Times(w, bases[i])]
  BY <1>1, <1>4 DEF Images
<1> HIDE DEF images
<1>6. \A i \in 1 .. LimbCount + 1 : Times(w, bases[i]) \in Int
  <2> SUFFICES ASSUME NEW i \in 1 .. LimbCount + 1 PROVE Times(w, bases[i]) \in Int
    OBVIOUS
  <2>1. bases[i] \in Int
    BY <1>1, <1>4
  <2> QED BY <1>1, <2>1, SameIsEquivalence, SameThrough
<1>7. images \in Seq(Int) /\ Len(images) = LimbCount + 1
  BY <1>1, <1>5, <1>6
<1>8. images[1] = Times(w, 1) /\ \A j \in 1 .. LimbCount : images[j + 1] = Times(w, e[j])
  BY <1>1, <1>4, <1>5
<1> HIDE <1>5, <1>6
<1>9. images # <<>> /\ Head(images) = images[1]
  BY <1>7, LimbCount \in Nat, <1>1
<1>10. /\ Tail(images) \in Seq(Int) /\ Len(Tail(images)) = LimbCount
       /\ \A j \in 1 .. LimbCount : Tail(images)[j] = images[j + 1]
  BY <1>1, <1>7
<1>11. images = <<Head(images)>> \o Tail(images)
  BY <1>7, <1>9, HeadTailProperties
<1>12. Times(w, 1) = w
  BY <1>1, SameReduces DEF Times
<1> QED BY <1>1, <1>2, <1>8, <1>9, <1>10, <1>11, <1>12 DEF p, e, bases

\* It verifies for the opening it was made for.
LEMMA PartialVerifiesOwn ==
  ASSUME NEW core, core.e \in Seq(Int), Len(core.e) = LimbCount, NEW w \in Scalars,
         NEW binding, NEW gate, NEW ctx, NEW entropy, MayContribute(core, binding, gate)
  PROVE  PartialVerifies(Partial(core, binding, gate, w, ctx, entropy), core, binding, ctx)
<1> DEFINE p == Partial(core, binding, gate, w, ctx, entropy)
<1>1. /\ p.gate = gate /\ Len(p.masks) = LimbCount
      /\ p.dleq.statement = [ bases |-> DleqBases(core), images |-> <<p.w_g>> \o p.masks,
                              binding |-> ContributionBinding(core, binding, gate, ctx) ]
  BY PartialFields
<1> HIDE DEF p
<1> QED BY <1>1 DEF p, PartialVerifies, ProofVerifies, MayContribute

\* What is left of a limb under a key x: the limb, and what the key lacks of
\* the recipient's key k.
Limb(v, r, w, k, a, d, e, m) ==
  /\ {v, r, w, k, a, d, e, m} \subseteq Int
  /\ Same(d, v + r * (w * k + a)) /\ Same(e, r) /\ Same(m, r * a)

LEMMA LimbStrips ==
  ASSUME NEW v, NEW r, NEW w, NEW k, NEW a, NEW x \in Int, NEW d, NEW e, NEW m,
         Limb(v, r, w, k, a, d, e, m)
  PROVE  Minus(d, Plus(m, Times(e, Times(x, w)))) = Plus(v, Times(r, Times(w, Minus(k, x))))
<1> v \in Int /\ r \in Int /\ w \in Int /\ k \in Int /\ a \in Int /\ d \in Int /\ e \in Int /\ m \in Int
  BY DEF Limb
<1> Same(d, v + r * (w * k + a)) /\ Same(e, r) /\ Same(m, r * a)
  BY DEF Limb
<1>1. Same(r, r) /\ Same(w, w) /\ Same(k, k) /\ Same(v, v) /\ Same(x, x)
  BY SameIsEquivalence
<1>2. Scalars \subseteq Int
  BY DEF Scalars
<1>3. PICK l \in Int, s \in Int, n \in Int : l = v + r * (w * k + a) /\ s = r * a /\ n = x * w
  OBVIOUS
<1>4. PICK o \in Int, u \in Int : o = r * n /\ u = s + o
  OBVIOUS
<1>5. PICK left \in Scalars : left = Minus(d, Plus(m, Times(e, Times(x, w)))) /\ Same(left, l - u)
  <2>1. PICK b \in Int : b = Times(x, w) /\ Same(b, n)
    BY <1>1, <1>3, SameThrough
  <2>2. PICK c \in Int : c = Times(e, b) /\ Same(c, o)
    BY <1>4, <2>1, SameThrough
  <2>3. PICK t \in Int : t = Plus(m, c) /\ Same(t, u)
    <3>1. Same(m, s)
      BY <1>3
    <3> QED BY <1>4, <2>2, <3>1, SameThrough
  <2>4. Same(d, l)
    BY <1>3
  <2>5. Minus(d, t) \in Scalars /\ Same(Minus(d, t), l - u)
    BY <2>3, <2>4, SameThrough, SameOperations
  <2> QED BY <2>1, <2>2, <2>3, <2>5
<1>6. PICK g \in Int, h \in Int, i \in Int : g = k - x /\ h = w * g /\ i = r * h
  OBVIOUS
<1>7. PICK right \in Scalars :
        right = Plus(v, Times(r, Times(w, Minus(k, x)))) /\ Same(right, v + i)
  <2>1. PICK b \in Int : b = Minus(k, x) /\ Same(b, g)
    BY <1>1, <1>6, SameThrough
  <2>2. PICK c \in Int : c = Times(w, b) /\ Same(c, h)
    BY <1>1, <1>6, <2>1, SameThrough
  <2>3. PICK f \in Int : f = Times(r, c) /\ Same(f, i)
    BY <1>1, <1>6, <2>2, SameThrough
  <2>4. Plus(v, f) \in Scalars /\ Same(Plus(v, f), v + i)
    BY <1>1, <2>3, SameThrough, SameOperations
  <2> QED BY <2>1, <2>2, <2>3, <2>4
<1>8. l - u = v + i
  <2>1. PICK y \in Int, z \in Int : y = r * (w * k) /\ z = r * (w * x)
    OBVIOUS
  <2>2. l = v + (y + s)
    BY <1>3, <2>1
  <2>3. o = z
    BY <1>3, <1>4, <2>1
  <2>4. h = w * k - w * x
    BY <1>6
  <2>5. i = y - z
    BY <1>6, <2>1, <2>4
  <2>6. u = s + o
    BY <1>4
  <2> HIDE <1>3, <1>4, <1>6
  <2> QED BY <2>2, <2>3, <2>5, <2>6
<1>9. PICK z \in Int : z = v + i
  OBVIOUS
<1>10. Same(left, z) /\ Same(right, z) /\ left \in Int /\ right \in Int
  BY <1>2, <1>5, <1>7, <1>8, <1>9
<1>11. Same(left, right)
  BY <1>10, SameIsEquivalence
<1> QED BY <1>5, <1>7, <1>11, SameScalars

\* A core that holds the limbs v under the ephemerals r, and the masks that
\* the gates' total a makes of r: whatever order the sums were taken in.
Holds(core, v, r, w, k, a) ==
  /\ core.c \in Scalars /\ Same(Integer(v), core.c)
  /\ \A j \in Limbs : /\ core.d[j] \in Int /\ Same(core.d[j], v[j] + r[j] * (w * k + a))
                       /\ core.e[j] \in Int /\ Same(core.e[j], r[j])
Masked(masks, r, a) == \A j \in Limbs : masks[j] \in Int /\ Same(masks[j], r[j] * a)

\* The recipient's key strips its limbs bare.
LEMMA MasksOpen ==
  ASSUME NEW bound \in Nat, bound <= Order, NEW core, NEW binding, NEW masks,
         NEW v \in [Limbs -> 0 .. bound - 1], NEW r \in [Limbs -> Int],
         NEW w \in Int, binding.recipientWeight = w, NEW k \in Int, NEW a \in Int,
         Holds(core, v, r, w, k, a), Masked(masks, r, a)
  PROVE  OpenWithAccessMasks(core, binding, k, masks, bound) = core.c
<1> DEFINE weighted == Times(k, w)
           limb == [j \in Limbs |->
                     RecoverBounded(Minus(core.d[j], Plus(masks[j], Times(core.e[j], weighted))), bound)]
           missing == \E j \in Limbs : limb[j] = Failed
           m == Recompose([j \in Limbs |-> IF limb[j] = Failed THEN 0 ELSE limb[j]])
<1>1. OpenWithAccessMasks(core, binding, k, masks, bound)
        = IF missing \/ m # core.c THEN Failed ELSE m
  BY DEF OpenWithAccessMasks
<1>2. v \in [Limbs -> Int] /\ Order \in Int
  BY AlgebraAssumption
<1>3. ASSUME NEW j \in Limbs PROVE limb[j] = v[j] /\ v[j] # Failed
  <2>1. PICK n \in 0 .. bound - 1, s \in Int, d \in Int, e \in Int, mask \in Int :
          n = v[j] /\ s = r[j] /\ d = core.d[j] /\ e = core.e[j] /\ mask = masks[j]
    BY DEF Holds, Masked
  <2>2. Same(d, n + s * (w * k + a)) /\ Same(e, s) /\ Same(mask, s * a)
    BY <2>1 DEF Holds, Masked
  <2>3. n \in Int /\ n \in Scalars
    BY <1>2 DEF Scalars
  <2>4. Minus(d, Plus(mask, Times(e, weighted))) = Plus(n, Times(s, Times(w, Minus(k, k))))
    <3> HIDE DEF limb, missing, m
    <3>1. Limb(n, s, w, k, a, d, e, mask)
      BY <2>2, <2>3 DEF Limb
    <3>2. Minus(d, Plus(mask, Times(e, Times(k, w)))) = Plus(n, Times(s, Times(w, Minus(k, k))))
      BY <3>1, LimbStrips
    <3> QED BY <3>2
  <2>5. 0 % Order = 0 /\ n % Order = n
    <3>1. 0 \in Scalars
      BY AlgebraAssumption DEF Scalars
    <3> QED BY <2>3, <3>1, SameReduces
  <2>6. k - k = 0 /\ w * 0 = 0 /\ s * 0 = 0 /\ n + 0 = n
    BY <2>3
  <2>7. Plus(n, Times(s, Times(w, Minus(k, k)))) = n
    BY <2>5, <2>6 DEF Plus, Times, Minus
  <2>8. limb[j] = RecoverBounded(n, bound)
    BY <2>1, <2>4, <2>7
  <2> HIDE DEF limb
  <2> QED BY <2>1, <2>8 DEF RecoverBounded, Failed
<1>4. [j \in Limbs |-> IF limb[j] = Failed THEN 0 ELSE limb[j]] = v
  <2> HIDE DEF limb
  <2> QED BY <1>2, <1>3
<1>5. m = core.c
  <2>1. m = Recompose(v)
    BY <1>4
  <2> HIDE DEF m
  <2>2. m \in Scalars /\ Integer(v) \in Int /\ Same(m, Integer(v))
    BY <1>2, <2>1, RecomposeIsInteger
  <2>3. core.c \in Scalars /\ Same(Integer(v), core.c)
    BY DEF Holds
  <2>4. PICK c \in Int, i \in Int, n \in Int : c = core.c /\ i = Integer(v) /\ n = m
    BY <2>2, <2>3 DEF Scalars
  <2>5. Same(n, c)
    BY <2>2, <2>3, <2>4, SameIsEquivalence
  <2> QED BY <2>2, <2>3, <2>4, <2>5, SameScalars
<1> HIDE DEF limb, m
<1> QED BY <1>1, <1>3, <1>5

\* A key x that leaves a limb at or above the bound opens nothing.
LEMMA MissedFails ==
  ASSUME NEW bound \in Nat, NEW core, NEW binding, NEW masks,
         NEW v \in [Limbs -> Int], NEW r \in [Limbs -> Int],
         NEW w \in Int, binding.recipientWeight = w, NEW k \in Int, NEW a \in Int,
         Holds(core, v, r, w, k, a), Masked(masks, r, a), NEW x \in Int, NEW j \in Limbs,
         Plus(v[j], Times(r[j], Times(w, Minus(k, x)))) >= bound
  PROVE  OpenWithAccessMasks(core, binding, x, masks, bound) = Failed
<1> DEFINE weighted == Times(x, w)
           limb == [i \in Limbs |->
                     RecoverBounded(Minus(core.d[i], Plus(masks[i], Times(core.e[i], weighted))), bound)]
           missing == \E i \in Limbs : limb[i] = Failed
           m == Recompose([i \in Limbs |-> IF limb[i] = Failed THEN 0 ELSE limb[i]])
<1>1. OpenWithAccessMasks(core, binding, x, masks, bound)
        = IF missing \/ m # core.c THEN Failed ELSE m
  BY DEF OpenWithAccessMasks
<1>2. PICK n \in Int, s \in Int, d \in Int, e \in Int, mask \in Int :
        /\ n = v[j] /\ s = r[j] /\ d = core.d[j] /\ e = core.e[j] /\ mask = masks[j]
        /\ Same(d, n + s * (w * k + a)) /\ Same(e, s) /\ Same(mask, s * a)
  BY DEF Holds, Masked
<1>3. Minus(d, Plus(mask, Times(e, weighted))) = Plus(n, Times(s, Times(w, Minus(k, x))))
  <2>1. Limb(n, s, w, k, a, d, e, mask)
    BY <1>2 DEF Limb
  <2>2. Minus(d, Plus(mask, Times(e, Times(x, w)))) = Plus(n, Times(s, Times(w, Minus(k, x))))
    BY <2>1, LimbStrips
  <2> QED BY <2>2
<1>4. PICK p \in Int : p = Plus(n, Times(s, Times(w, Minus(k, x))))
  <2>0. Scalars \subseteq Int
    BY DEF Scalars
  <2>1. PICK b \in Int : b = Minus(k, x)
    BY <2>0, SameOperations
  <2>2. PICK c \in Int : c = Times(w, b)
    BY <2>0, SameOperations
  <2>3. PICK z \in Int : z = Times(s, c)
    BY <2>0, SameOperations
  <2>4. Plus(n, z) \in Int
    BY <2>0, SameOperations
  <2> QED BY <2>1, <2>2, <2>3, <2>4
<1>5. p >= bound
  BY <1>2, <1>4
<1>6. limb[j] = Failed
  <2>1. limb[j] = RecoverBounded(p, bound)
    BY <1>2, <1>3, <1>4
  <2> HIDE DEF limb
  <2> QED BY <1>5, <2>1 DEF RecoverBounded
<1> HIDE DEF limb, m
<1> QED BY <1>1, <1>6

\* What a seal under a roster holds.
LEMMA SealHolds ==
  ASSUME NEW secret \in Scalars, NEW nonces \in [Limbs -> Scalars], NEW k \in Int, NEW gates,
         RecipientWeight(k, gates) \in Int, WeightedAccessSum(k, gates) \in Int
  PROVE  LET core == SealCore(secret, nonces, OpeningBinding(k, gates))
         IN  /\ Holds(core, Decompose(secret), nonces, RecipientWeight(k, gates), k,
                      WeightedAccessSum(k, gates))
             /\ core.c = secret /\ core.e = nonces
             /\ core.e \in Seq(Int) /\ Len(core.e) = LimbCount
<1> DEFINE core == SealCore(secret, nonces, OpeningBinding(k, gates))
           digits == Decompose(secret)
<1>1. PICK w \in Int, a \in Int : w = RecipientWeight(k, gates) /\ a = WeightedAccessSum(k, gates)
  OBVIOUS
<1>2. PICK y \in Int : y = OpeningBinding(k, gates).yStar /\ Same(y, w * k + a)
  <2>1. OpeningBinding(k, gates).yStar = Plus(Times(w, k), a)
    BY <1>1 DEF OpeningBinding
  <2>2. PICK b \in Int : b = w * k
    OBVIOUS
  <2>3. Same(w, w) /\ Same(k, k) /\ Same(a, a)
    BY SameIsEquivalence
  <2>4. PICK c \in Int : c = Times(w, k) /\ Same(c, b)
    BY <2>2, <2>3, SameThrough
  <2>5. Plus(c, a) \in Int /\ Same(Plus(c, a), b + a)
    BY <2>3, <2>4, SameThrough
  <2> QED BY <2>1, <2>2, <2>4, <2>5
<1>3. /\ core.c = secret /\ core.e = [j \in Limbs |-> nonces[j]]
      /\ \A j \in Limbs : core.d[j] = Plus(digits[j], Times(nonces[j], y))
  BY <1>2 DEF SealCore
<1>4. core.e = nonces /\ Scalars \subseteq Int /\ Limbs = 1 .. LimbCount /\ LimbCount \in Nat
  BY <1>3, AlgebraAssumption DEF Scalars, Limbs
<1>5. digits \in [Limbs -> Int] /\ Integer(digits) = secret
  <2>1. digits \in [Limbs -> 0 .. LimbModulus - 1] /\ Integer(digits) = secret
    BY IntegerOfDigits
  <2> HIDE DEF digits
  <2> QED BY <2>1
<1> HIDE DEF core, digits
<1>6. Same(Integer(digits), core.c)
  BY <1>3, <1>4, <1>5, SameIsEquivalence
<1>7. ASSUME NEW j \in Limbs
      PROVE  /\ core.d[j] \in Int /\ Same(core.d[j], digits[j] + nonces[j] * (w * k + a))
             /\ core.e[j] \in Int /\ Same(core.e[j], nonces[j])
  <2>1. PICK n \in Int, s \in Int : n = digits[j] /\ s = nonces[j]
    BY <1>4, <1>5
  <2>2. PICK b \in Int : b = w * k + a
    OBVIOUS
  <2>3. Same(s, s) /\ Same(n, n) /\ Same(y, b)
    BY <1>2, <2>2, SameIsEquivalence
  <2>4. PICK q \in Int : q = s * b
    OBVIOUS
  <2>5. PICK c \in Int : c = Times(s, y) /\ Same(c, q)
    BY <2>3, <2>4, SameThrough
  <2>6. Plus(n, c) \in Int /\ Same(Plus(n, c), n + q)
    BY <2>3, <2>5, SameThrough
  <2> QED BY <1>3, <1>4, <2>1, <2>2, <2>3, <2>4, <2>5, <2>6
<1>8. core.e \in Seq(Int) /\ Len(core.e) = LimbCount
  <2>1. \A j \in 1 .. LimbCount : nonces[j] \in Int
    BY <1>4
  <2> QED BY <1>4, <2>1
<1> QED BY <1>1, <1>3, <1>4, <1>6, <1>7, <1>8 DEF Holds, core, digits

----------------------------------------------------------------------------
(* Sums of cores.                                                          *)

\* Cores that hold the limbs V[h] under the ephemerals R[h], for one key.
PiecesHold(n, cores, V, R, w, k, a) ==
  /\ V \in [1 .. n -> [Limbs -> 0 .. LimbModulus - 1]] /\ R \in [1 .. n -> [Limbs -> Int]]
  /\ w \in Int /\ k \in Int /\ a \in Int
  /\ \A h \in 1 .. n : /\ Holds(cores[h], V[h], R[h], w, k, a)
                       /\ cores[h].c = Integer(V[h]) /\ cores[h].e = R[h]

\* Limb by limb, their total; and the core that has the sums of their points.
Total(n, V) == [j \in Limbs |-> SumFunction([h \in 1 .. n |-> V[h][j]])]
SumsTo(n, cores, core) ==
  /\ core.c = SumFunction([h \in 1 .. n |-> cores[h].c]) % Order
  /\ \A j \in Limbs : /\ core.e[j] = SumFunction([h \in 1 .. n |-> cores[h].e[j]]) % Order
                      /\ core.d[j] = SumFunction([h \in 1 .. n |-> cores[h].d[j]]) % Order

\* What is left of a sum modulo the order.
LEMMA SumReduces ==
  ASSUME NEW D, IsFiniteSet(D), NEW f \in [D -> Int]
  PROVE  /\ SumFunction(f) \in Int /\ SumFunction(f) % Order \in Int
         /\ Same(SumFunction(f) % Order, SumFunction(f))
<1>1. PICK x \in Int : x = SumFunction(f)
  BY SumSplits
<1>2. x % Order \in Scalars /\ Same(x % Order, x)
  BY SameReduces
<1> QED BY <1>1, <1>2 DEF Scalars

\* The totals of the digits, and those of the ephemerals.
LEMMA TotalTypes ==
  ASSUME NEW n \in Nat, NEW cores, NEW V, NEW R, NEW w, NEW k, NEW a,
         PiecesHold(n, cores, V, R, w, k, a), n # 0
  PROVE  /\ IsFiniteSet(1 .. n)
         /\ Total(n, V) \in [Limbs -> 0 .. n * LimbModulus - 1]
         /\ \A j \in Limbs : [h \in 1 .. n |-> R[h][j]] \in [1 .. n -> Int]
         /\ Total(n, R) \in [Limbs -> Int]
<1>1. IsFiniteSet(1 .. n) /\ Cardinality(1 .. n) = n
  <2>1. n \in Int /\ 1 \in Int
    OBVIOUS
  <2>2. IsFiniteSet(1 .. n) /\ Cardinality(1 .. n) = IF 1 > n THEN 0 ELSE n - 1 + 1
    BY <2>1, FS_Interval
  <2> QED BY <2>2
<1>2. \A h \in 1 .. n : V[h] \in [Limbs -> 0 .. LimbModulus - 1] /\ R[h] \in [Limbs -> Int]
  BY DEF PiecesHold
<1>3. ASSUME NEW j \in Limbs PROVE Total(n, V)[j] \in 0 .. n * LimbModulus - 1
  <2> DEFINE f == [h \in 1 .. n |-> V[h][j]]
  <2>1. PICK m \in Nat : LimbModulus = m + 1
    BY AlgebraAssumption
  <2>2. f \in [1 .. n -> 0 .. m]
    BY <1>2, <2>1
  <2>3. Total(n, V)[j] = SumFunction(f)
    BY DEF Total
  <2> HIDE DEF f
  <2>4. SumFunction(f) \in 0 .. n * m
    BY <1>1, <2>2, SumBounded
  <2>5. n * LimbModulus = n * m + n
    BY <2>1
  <2>6. PICK c \in Int, d \in Int : c = n * m /\ d = n * LimbModulus /\ d = c + n
    BY <2>1, <2>5
  <2> QED BY <2>3, <2>4, <2>6
<1>4. \A j \in Limbs : [h \in 1 .. n |-> R[h][j]] \in [1 .. n -> Int]
  BY <1>2
<1>5. Total(n, R) \in [Limbs -> Int]
  <2>1. \A j \in Limbs : SumFunction([h \in 1 .. n |-> R[h][j]]) \in Int
    BY <1>1, <1>4, SumReduces
  <2> QED BY <2>1 DEF Total
<1>6. Total(n, V) \in [Limbs -> 0 .. n * LimbModulus - 1]
  BY <1>3 DEF Total
<1> QED BY <1>1, <1>4, <1>5, <1>6

\* The summed core holds the total of the limbs.
LEMMA SumHolds ==
  ASSUME NEW n \in Nat, NEW cores, NEW core, NEW V, NEW R, NEW w, NEW k, NEW a,
         PiecesHold(n, cores, V, R, w, k, a), n # 0, SumsTo(n, cores, core)
  PROVE  Holds(core, Total(n, V), Total(n, R), w, k, a)
<1> DEFINE v == Total(n, V)
           s == Total(n, R)
<1>1. /\ IsFiniteSet(1 .. n) /\ s \in [Limbs -> Int]
      /\ \A j \in Limbs : [h \in 1 .. n |-> R[h][j]] \in [1 .. n -> Int]
  BY TotalTypes
<1>2. /\ w \in Int /\ k \in Int /\ a \in Int
      /\ V \in [1 .. n -> [Limbs -> Int]]
      /\ \A h \in 1 .. n : /\ Holds(cores[h], V[h], R[h], w, k, a)
                           /\ cores[h].c = Integer(V[h]) /\ cores[h].e = R[h]
  BY DEF PiecesHold
<1>3. core.c \in Scalars /\ Same(Integer(v), core.c)
  <2> DEFINE f == [h \in 1 .. n |-> cores[h].c]
             whole == [h \in 1 .. n |-> Integer(V[h])]
  <2>2. f = whole
    BY <1>2
  <2>3. f \in [1 .. n -> Int]
    BY <1>2 DEF Scalars, Holds
  <2>4. core.c = SumFunction(f) % Order
    BY DEF SumsTo
  <2>5. v = [j \in Limbs |-> SumFunction([h \in 1 .. n |-> V[h][j]])]
    BY DEF Total
  <2> HIDE DEF f, v
  <2>6. Integer(v) = SumFunction(whole)
    BY <1>1, <1>2, <2>5, IntegerSums
  <2> HIDE DEF whole
  <2>7. PICK y \in Int : y = SumFunction(f)
    BY <1>1, <2>3, SumReduces
  <2>8. y % Order \in Scalars /\ Same(y % Order, y)
    BY SameReduces
  <2>9. y % Order \in Int
    BY <2>8 DEF Scalars
  <2>10. Same(y, y % Order)
    BY <2>8, <2>9, SameIsEquivalence
  <2> QED BY <2>2, <2>4, <2>6, <2>7, <2>8, <2>10
<1>4. ASSUME NEW j \in Limbs
      PROVE  /\ core.d[j] \in Int /\ Same(core.d[j], v[j] + s[j] * (w * k + a))
             /\ core.e[j] \in Int /\ Same(core.e[j], s[j])
  <2> DEFINE d == [h \in 1 .. n |-> cores[h].d[j]]
             e == [h \in 1 .. n |-> cores[h].e[j]]
             g == [h \in 1 .. n |-> V[h][j]]
             t == [h \in 1 .. n |-> R[h][j]]
  <2>1. core.d[j] = SumFunction(d) % Order /\ core.e[j] = SumFunction(e) % Order
    BY DEF SumsTo
  <2>2. e = t
    BY <1>2
  <2>3. PICK b \in Int : b = w * k + a
    BY <1>2
  <2>4. ASSUME NEW h \in 1 .. n
        PROVE  d[h] \in Int /\ g[h] \in Int /\ Same(d[h], g[h] + b * t[h])
    <3>1. cores[h].d[j] \in Int /\ Same(cores[h].d[j], V[h][j] + R[h][j] * (w * k + a))
      BY <1>2 DEF Holds
    <3>2. PICK z \in Int : z = t[h] /\ z = R[h][j]
      BY <1>1
    <3>3. z * b = b * z
      OBVIOUS
    <3>4. V[h][j] \in Int
      BY <1>2
    <3> QED BY <2>3, <3>1, <3>2, <3>3, <3>4
  <2>5. d \in [1 .. n -> Int] /\ g \in [1 .. n -> Int] /\ t \in [1 .. n -> Int]
    BY <1>1, <2>4
  <2>6. v[j] = SumFunction(g) /\ s[j] = SumFunction(t)
    BY DEF Total
  <2> HIDE DEF d, e, g, t, v, s
  <2>7. /\ SumFunction(d) \in Int /\ SumFunction(g) \in Int /\ SumFunction(t) \in Int
        /\ Same(SumFunction(d), SumFunction(g) + b * SumFunction(t))
    BY <1>1, <2>4, <2>5, SumsCombine
  <2>8. PICK p \in Int, y \in Int, q \in Int :
          p = SumFunction(d) /\ y = SumFunction(g) /\ q = SumFunction(t) /\ Same(p, y + b * q)
    BY <2>7
  <2>9. PICK m \in Int, o \in Int : m = p % Order /\ Same(m, p) /\ o = q % Order /\ Same(o, q)
    BY SameReduces DEF Scalars
  <2>10. PICK l \in Int : l = y + b * q /\ l = y + q * b
    <3>1. b * q = q * b
      OBVIOUS
    <3> QED BY <3>1
  <2>11. Same(m, l)
    BY <2>8, <2>9, <2>10, SameIsEquivalence
  <2> QED BY <2>1, <2>2, <2>3, <2>6, <2>8, <2>9, <2>10, <2>11
<1> QED BY <1>3, <1>4 DEF Holds

\* The masks of the pieces add up to those of the sum.
LEMMA SumMasked ==
  ASSUME NEW n \in Nat, NEW cores, NEW V, NEW R, NEW w, NEW k, NEW a,
         PiecesHold(n, cores, V, R, w, k, a), n # 0, NEW M, NEW masks,
         \A h \in 1 .. n : Masked(M[h], R[h], a),
         \A j \in Limbs : masks[j] = SumFunction([h \in 1 .. n |-> M[h][j]]) % Order
  PROVE  Masked(masks, Total(n, R), a)
<1> DEFINE s == Total(n, R)
<1>1. a \in Int
  BY DEF PiecesHold
<1>2. ASSUME NEW j \in Limbs PROVE masks[j] \in Int /\ Same(masks[j], s[j] * a)
  <2> DEFINE f == [h \in 1 .. n |-> M[h][j]]
             t == [h \in 1 .. n |-> R[h][j]]
  <2>1. masks[j] = SumFunction(f) % Order
    OBVIOUS
  <2>2. IsFiniteSet(1 .. n) /\ t \in [1 .. n -> Int]
    BY TotalTypes
  <2>3. ASSUME NEW h \in 1 .. n PROVE f[h] \in Int /\ Same(f[h], a * t[h])
    <3>1. PICK z \in Int : z = t[h] /\ z = R[h][j]
      BY <2>2
    <3>2. M[h][j] \in Int /\ Same(M[h][j], z * a)
      BY <3>1 DEF Masked
    <3>3. z * a = a * z
      BY <1>1
    <3> QED BY <3>1, <3>2, <3>3
  <2>4. f \in [1 .. n -> Int]
    BY <2>3
  <2>6. s[j] = SumFunction(t)
    BY DEF Total
  <2> HIDE DEF f, t, s
  <2>7. SumFunction(f) \in Int /\ SumFunction(t) \in Int /\ Same(SumFunction(f), a * SumFunction(t))
    BY <1>1, <2>2, <2>3, <2>4, SumScales
  <2>8. PICK x \in Int, y \in Int : x = SumFunction(f) /\ y = SumFunction(t) /\ Same(x, a * y)
    BY <2>7
  <2>9. PICK m \in Int : m = x % Order /\ Same(m, x)
    BY SameReduces DEF Scalars
  <2>10. PICK q \in Int : q = a * y /\ q = y * a
    <3>1. a * y = y * a
      BY <1>1
    <3> QED BY <1>1, <3>1
  <2>11. Same(m, q)
    BY <2>8, <2>9, <2>10, SameIsEquivalence
  <2> QED BY <2>1, <2>6, <2>8, <2>9, <2>10, <2>11
<1> QED BY <1>2 DEF Masked

----------------------------------------------------------------------------
(* Concatenation.                                                          *)

\* f holds the concatenations of the first sequences of s, up to n of them.
Flattens(f, s, n, S) ==
  /\ f \in [1 .. n -> Seq(S)]
  /\ f[1] = s[1]
  /\ \A k \in 1 .. n - 1 : f[k + 1] = f[k] \o s[k + 1]

LEMMA FlatteningExists ==
  ASSUME NEW S, NEW s \in Seq(Seq(S)), s # <<>>
  PROVE  \E f : Flattens(f, s, Len(s), S)
<1> DEFINE Upto(n) == \E f : Flattens(f, s, n, S)
           T == {k \in Nat : k + 1 <= Len(s) => Upto(k + 1)}
<1>0. Len(s) \in Nat \ {0} /\ \A i \in 1 .. Len(s) : s[i] \in Seq(S)
  OBVIOUS
<1>1. 0 \in T
  <2> SUFFICES Upto(1)
    OBVIOUS
  <2> DEFINE f == [i \in 1 .. 1 |-> s[1]]
  <2>1. f \in [1 .. 1 -> Seq(S)]
    BY <1>0
  <2>2. f[1] = s[1] /\ 1 .. 1 - 1 = {}
    OBVIOUS
  <2> HIDE DEF f
  <2>3. Flattens(f, s, 1, S)
    BY <2>1, <2>2 DEF Flattens
  <2> QED BY <2>3
<1>2. ASSUME NEW k \in Nat, k \in T PROVE k + 1 \in T
  <2> SUFFICES ASSUME (k + 1) + 1 <= Len(s) PROVE Upto((k + 1) + 1)
    <3> HIDE DEF Upto
    <3> QED OBVIOUS
  <2>1. Upto(k + 1)
    <3> HIDE DEF Upto
    <3> QED BY <1>0, <1>2
  <2>2. PICK n \in Nat : n = k + 1
    OBVIOUS
  <2>3. PICK g : Flattens(g, s, n, S)
    BY <2>1, <2>2
  <2>4. n >= 1 /\ n + 1 <= Len(s)
    BY <2>2
  <2>5. /\ g \in [1 .. n -> Seq(S)] /\ g[1] = s[1]
        /\ \A i \in 1 .. n - 1 : g[i + 1] = g[i] \o s[i + 1]
    BY <2>3 DEF Flattens
  <2> DEFINE f == [i \in 1 .. n + 1 |-> IF i = n + 1 THEN g[n] \o s[n + 1] ELSE g[i]]
  <2>6. g[n] \o s[n + 1] \in Seq(S)
    <3>1. g[n] \in Seq(S) /\ s[n + 1] \in Seq(S)
      BY <1>0, <2>4, <2>5
    <3> QED BY <3>1
  <2>7. f \in [1 .. n + 1 -> Seq(S)]
    BY <2>5, <2>6
  <2>8. f[1] = s[1]
    BY <2>4, <2>5
  <2>9. ASSUME NEW i \in 1 .. n PROVE f[i + 1] = f[i] \o s[i + 1]
    <3>1. f[i] = g[i]
      BY <2>4
    <3>2. CASE i = n
      <4>1. f[n + 1] = g[n] \o s[n + 1]
        <5>1. n + 1 \in 1 .. n + 1
          BY <2>4
        <5> QED BY <5>1
      <4> QED BY <3>1, <3>2, <4>1
    <3>3. CASE i # n
      <4>1. i \in 1 .. n - 1 /\ f[i + 1] = g[i + 1]
        BY <2>4, <3>3
      <4> HIDE DEF f
      <4> QED BY <2>5, <3>1, <4>1
    <3> QED BY <3>2, <3>3
  <2> HIDE DEF f
  <2>10. Flattens(f, s, n + 1, S)
    <3>1. (n + 1) - 1 = n
      OBVIOUS
    <3> QED BY <2>7, <2>8, <2>9, <3>1 DEF Flattens
  <2> QED BY <2>2, <2>10
<1>3. Len(s) - 1 \in T
  <2>1. Nat \subseteq T
    <3> HIDE DEF T
    <3> QED BY <1>1, <1>2, AllNaturals
  <2> HIDE DEF T
  <2> QED BY <1>0, <2>1
<1>4. (Len(s) - 1) + 1 = Len(s)
  BY <1>0
<1> HIDE DEF Upto
<1>5. Upto(Len(s))
  BY <1>0, <1>3, <1>4
<1> QED BY <1>5 DEF Upto

\* FlattenSeq is the last of them.
LEMMA FlattenIsLast ==
  ASSUME NEW S, NEW s \in Seq(Seq(S)), s # <<>>
  PROVE  \E f : Flattens(f, s, Len(s), S) /\ FlattenSeq(s) = f[Len(s)]
<1> DEFINE n == Len(s)
           Eq(f) == f = [i \in 1 .. n |-> IF i = 1 THEN s[i] ELSE f[i - 1] \o s[i]]
           f == CHOOSE g : Eq(g)
<1>1. n \in Nat \ {0} /\ \A i \in 1 .. n : s[i] \in Seq(S)
  OBVIOUS
<1>2. FlattenSeq(s) = f[n]
  BY <1>1 DEF FlattenSeq
<1> HIDE DEF n
<1>3. PICK g : Flattens(g, s, n, S)
  BY FlatteningExists DEF n
<1>4. g \in [1 .. n -> Seq(S)] /\ g[1] = s[1] /\ \A k \in 1 .. n - 1 : g[k + 1] = g[k] \o s[k + 1]
  BY <1>3 DEF Flattens
<1>5. Eq(g)
  <2>1. ASSUME NEW i \in 1 .. n PROVE g[i] = IF i = 1 THEN s[i] ELSE g[i - 1] \o s[i]
    <3>1. CASE i = 1
      BY <1>4, <3>1
    <3>2. CASE i # 1
      <4>1. i - 1 \in 1 .. n - 1 /\ (i - 1) + 1 = i
        BY <1>1, <3>2
      <4> QED BY <1>4, <3>2, <4>1
    <3> QED BY <3>1, <3>2
  <2> QED BY <1>4, <2>1
<1>6. Eq(f)
  <2> HIDE DEF Eq
  <2> QED BY <1>5
<1> HIDE DEF f
<1>7. \A i \in 1 .. n : f[i] = IF i = 1 THEN s[i] ELSE f[i - 1] \o s[i]
  BY <1>6
<1>8. DOMAIN f = 1 .. n /\ f = [i \in 1 .. n |-> f[i]]
  BY <1>6
<1> HIDE DEF Eq
<1>9. f[1] = s[1]
  BY <1>1, <1>7
<1>10. ASSUME NEW k \in 1 .. n - 1 PROVE f[k + 1] = f[k] \o s[k + 1]
  <2>1. k + 1 \in 1 .. n /\ k + 1 # 1 /\ (k + 1) - 1 = k
    BY <1>1
  <2> QED BY <1>7, <2>1
<1>11. \A i \in 1 .. n : f[i] \in Seq(S)
  <2> DEFINE T == {k \in Nat : k + 1 <= n => f[k + 1] \in Seq(S)}
  <2>1. 0 \in T
    BY <1>1, <1>9
  <2>2. ASSUME NEW k \in Nat, k \in T PROVE k + 1 \in T
    <3> SUFFICES ASSUME (k + 1) + 1 <= n PROVE f[(k + 1) + 1] \in Seq(S)
      OBVIOUS
    <3>1. PICK m \in 1 .. n - 1 : m = k + 1
      BY <1>1
    <3>2. f[m] \in Seq(S)
      BY <1>1, <2>2, <3>1
    <3>3. f[m + 1] = f[m] \o s[m + 1] /\ s[m + 1] \in Seq(S)
      <4>1. m + 1 \in 1 .. n
        BY <1>1
      <4> QED BY <1>1, <1>10, <4>1
    <3> QED BY <3>1, <3>2, <3>3
  <2>3. Nat \subseteq T
    <3> HIDE DEF T
    <3> QED BY <2>1, <2>2, AllNaturals
  <2>4. ASSUME NEW i \in 1 .. n PROVE f[i] \in Seq(S)
    <3>1. i - 1 \in Nat /\ (i - 1) + 1 = i /\ i <= n
      BY <1>1
    <3> QED BY <2>3, <3>1
  <2> QED BY <2>4
<1>12. f \in [1 .. n -> Seq(S)]
  BY <1>8, <1>11
<1>13. Flattens(f, s, n, S)
  BY <1>9, <1>10, <1>12 DEF Flattens
<1> QED BY <1>2, <1>13 DEF n

\* Concatenating sequences over S gives one over S.
LEMMA FlattenTyped ==
  ASSUME NEW S, NEW s \in Seq(Seq(S))
  PROVE  FlattenSeq(s) \in Seq(S)
<1>1. CASE s = <<>>
  <2>1. Len(s) = 0
    BY <1>1
  <2>2. FlattenSeq(s) = s
    BY <2>1 DEF FlattenSeq
  <2>3. <<>> \in Seq(S)
    OBVIOUS
  <2> QED BY <1>1, <2>2, <2>3
<1>2. CASE s # <<>>
  <2>0. PICK n \in Nat : n = Len(s)
    OBVIOUS
  <2>1. PICK f : Flattens(f, s, n, S) /\ FlattenSeq(s) = f[n]
    BY <1>2, <2>0, FlattenIsLast
  <2>2. n \in 1 .. n
    BY <1>2, <2>0
  <2>3. f \in [1 .. n -> Seq(S)]
    BY <2>1 DEF Flattens
  <2> QED BY <2>1, <2>2, <2>3
<1> QED BY <1>1, <1>2

\* Where the elements of a concatenation come from.
PlacesOf(s, m) == UNION {{h} \X DOMAIN s[h] : h \in 1 .. m}
LaidOut(at, t, s, m) ==
  /\ at \in [DOMAIN t -> PlacesOf(s, m)]
  /\ \A k, l \in DOMAIN t : at[k] = at[l] => k = l
  /\ \A p \in PlacesOf(s, m) : \E k \in DOMAIN t : at[k] = p
  /\ \A k \in DOMAIN t : t[k] = s[at[k][1]][at[k][2]]

\* One more sequence.
LEMMA LaysOneMore ==
  ASSUME NEW S, NEW s \in Seq(Seq(S)), NEW m \in Nat, m + 1 <= Len(s), NEW t \in Seq(S),
         NEW at, LaidOut(at, t, s, m)
  PROVE  \E by : LaidOut(by, t \o s[m + 1], s, m + 1)
<1> DEFINE v == s[m + 1]
           u == t \o v
           by == [k \in 1 .. Len(u) |-> IF k <= Len(t) THEN at[k] ELSE <<m + 1, k - Len(t)>>]
<1>1. v \in Seq(S) /\ m + 1 \in 1 .. Len(s)
  BY SMT
<1>2. PICK a \in Nat, b \in Nat : a = Len(t) /\ b = Len(v)
  BY <1>1
<1>3. /\ u \in Seq(S) /\ Len(u) = a + b /\ DOMAIN u = 1 .. a + b /\ DOMAIN t = 1 .. a /\ DOMAIN v = 1 .. b
      /\ \A k \in 1 .. a + b : u[k] = IF k <= a THEN t[k] ELSE v[k - a]
  BY <1>1, <1>2
<1>4. /\ at \in [1 .. a -> PlacesOf(s, m)]
      /\ \A k, l \in 1 .. a : at[k] = at[l] => k = l
      /\ \A p \in PlacesOf(s, m) : \E k \in 1 .. a : at[k] = p
      /\ \A k \in 1 .. a : t[k] = s[at[k][1]][at[k][2]]
  BY <1>3 DEF LaidOut
<1>5. by = [k \in 1 .. a + b |-> IF k <= a THEN at[k] ELSE <<m + 1, k - a>>]
  BY <1>2, <1>3
<1>6. \A p : p \in PlacesOf(s, m + 1) <=> p \in PlacesOf(s, m) \/ p \in {m + 1} \X (1 .. b)
  <2>1. \A h \in 1 .. m : h \in 1 .. m + 1
    OBVIOUS
  <2>2. \A h \in 1 .. m + 1 : h \in 1 .. m \/ h = m + 1
    OBVIOUS
  <2>3. m + 1 \in 1 .. m + 1 /\ DOMAIN s[m + 1] = 1 .. b
    BY <1>3
  <2> QED BY <2>1, <2>2, <2>3, Zenon DEF PlacesOf
<1>7. \A p \in PlacesOf(s, m) : p[1] # m + 1
  <2> SUFFICES ASSUME NEW h \in 1 .. m, NEW p \in {h} \X DOMAIN s[h] PROVE p[1] # m + 1
    BY DEF PlacesOf
  <2> QED OBVIOUS
<1> HIDE DEF by, u, v
<1>8. \A k \in 1 .. a : k \in 1 .. a + b /\ by[k] = at[k] /\ by[k] \in PlacesOf(s, m)
  BY <1>4, <1>5
<1>9. \A k \in 1 .. a + b : k \notin 1 .. a => by[k] = <<m + 1, k - a>> /\ k - a \in 1 .. b
  BY <1>5
<1>10. by \in [1 .. a + b -> PlacesOf(s, m + 1)]
  <2>1. ASSUME NEW k \in 1 .. a + b PROVE by[k] \in PlacesOf(s, m + 1)
    <3>1. CASE k \in 1 .. a
      BY <1>6, <1>8, <3>1
    <3>2. CASE k \notin 1 .. a
      BY <1>6, <1>9, <3>2
    <3> QED BY <3>1, <3>2
  <2> QED BY <1>5, <2>1
<1>11. ASSUME NEW k \in 1 .. a + b, NEW l \in 1 .. a + b, by[k] = by[l] PROVE k = l
  <2>1. CASE k \in 1 .. a /\ l \in 1 .. a
    BY <1>4, <1>8, <1>11, <2>1
  <2>2. CASE k \notin 1 .. a /\ l \notin 1 .. a
    <3>1. k - a = l - a
      BY <1>9, <1>11, <2>2
    <3> QED BY <3>1
  <2>3. CASE k \in 1 .. a /\ l \notin 1 .. a
    BY <1>7, <1>8, <1>9, <1>11, <2>3
  <2>4. CASE k \notin 1 .. a /\ l \in 1 .. a
    BY <1>7, <1>8, <1>9, <1>11, <2>4
  <2> QED BY <2>1, <2>2, <2>3, <2>4
<1>12. ASSUME NEW p \in PlacesOf(s, m + 1) PROVE \E k \in 1 .. a + b : by[k] = p
  <2>1. CASE p \in PlacesOf(s, m)
    BY <1>4, <1>8, <2>1
  <2>2. CASE p \in {m + 1} \X (1 .. b)
    <3>1. PICK j \in 1 .. b : p = <<m + 1, j>>
      BY <2>2
    <3>2. a + j \in 1 .. a + b /\ a + j \notin 1 .. a /\ (a + j) - a = j
      OBVIOUS
    <3>3. by[a + j] = <<m + 1, j>>
      BY <1>9, <3>2
    <3> QED BY <3>1, <3>2, <3>3
  <2> QED BY <1>6, <1>12, <2>1, <2>2
<1>13. ASSUME NEW k \in 1 .. a + b PROVE u[k] = s[by[k][1]][by[k][2]]
  <2>1. CASE k \in 1 .. a
    BY <1>3, <1>4, <1>8, <2>1, SMTT(60)
  <2>2. CASE k \notin 1 .. a
    <3>1. by[k][1] = m + 1 /\ by[k][2] = k - a
      BY <1>9, <2>2
    <3>2. u[k] = v[k - a]
      BY <1>3, <2>2
    <3> QED BY <3>1, <3>2 DEF v
  <2> QED BY <2>1, <2>2
<1>14. LaidOut(by, u, s, m + 1)
  BY <1>3, <1>10, <1>11, <1>12, <1>13 DEF LaidOut
<1> QED BY <1>14 DEF u, v

\* A concatenation holds every element once for each place.
LEMMA FlattenLays ==
  ASSUME NEW S, NEW s \in Seq(Seq(S))
  PROVE  \E at : LaidOut(at, FlattenSeq(s), s, Len(s))
<1>1. CASE s = <<>>
  <2>1. Len(s) = 0
    BY <1>1
  <2>2. FlattenSeq(s) = <<>>
    BY <1>1, <2>1 DEF FlattenSeq
  <2>3. PlacesOf(s, 0) = {}
    BY DEF PlacesOf
  <2>4. LaidOut(<<>>, <<>>, s, 0)
    BY <2>3 DEF LaidOut
  <2> QED BY <2>1, <2>2, <2>4
<1>2. CASE s # <<>>
  <2>0. PICK n \in Nat \ {0} : n = Len(s)
    BY <1>2
  <2>1. PICK f : Flattens(f, s, n, S) /\ FlattenSeq(s) = f[n]
    BY <1>2, <2>0, FlattenIsLast
  <2>2. /\ f \in [1 .. n -> Seq(S)] /\ f[1] = s[1] /\ s[1] \in Seq(S)
        /\ \A k \in 1 .. n - 1 : f[k + 1] = f[k] \o s[k + 1]
    <3>1. f \in [1 .. n -> Seq(S)] /\ f[1] = s[1]
      BY <2>1 DEF Flattens
    <3>2. s[1] \in Seq(S)
      BY <2>0
    <3>3. \A k \in 1 .. n - 1 : f[k + 1] = f[k] \o s[k + 1]
      BY <2>1 DEF Flattens
    <3> QED BY <3>1, <3>2, <3>3
  <2> DEFINE At(m) == \E at : LaidOut(at, f[m], s, m)
             T == {k \in Nat : k + 1 <= n => At(k + 1)}
  <2>3. 0 \in T
    <3> SUFFICES At(1)
      OBVIOUS
    <3>1. PlacesOf(s, 0) = {} /\ 0 + 1 = 1 /\ 0 \in Nat
      BY DEF PlacesOf
    <3>2. LaidOut(<<>>, <<>>, s, 0) /\ <<>> \in Seq(S)
      BY <3>1 DEF LaidOut
    <3>3. \E by : LaidOut(by, <<>> \o s[0 + 1], s, 0 + 1)
      <4>1. 0 + 1 <= Len(s)
        BY <2>0
      <4> QED BY <3>1, <3>2, <4>1, LaysOneMore
    <3>4. <<>> \o s[0 + 1] = f[1]
      BY <2>2
    <3> QED BY <3>1, <3>3, <3>4
  <2>4. ASSUME NEW k \in Nat, k \in T PROVE k + 1 \in T
    <3> SUFFICES ASSUME (k + 1) + 1 <= n PROVE At((k + 1) + 1)
      <4> HIDE DEF At
      <4> QED OBVIOUS
    <3>1. PICK m \in 1 .. n - 1 : m = k + 1
      OBVIOUS
    <3>2. At(m)
      <4> HIDE DEF At
      <4> QED BY <2>4, <3>1
    <3>3. PICK at : LaidOut(at, f[m], s, m)
      BY <3>2
    <3>4. f[m] \in Seq(S) /\ m + 1 <= Len(s) /\ m \in Nat /\ f[m + 1] = f[m] \o s[m + 1]
      <4>1. m \in 1 .. n /\ m + 1 <= Len(s) /\ m \in Nat
        BY <2>0
      <4> QED BY <2>2, <4>1
    <3>5. \E by : LaidOut(by, f[m] \o s[m + 1], s, m + 1)
      BY <3>3, <3>4, LaysOneMore
    <3> QED BY <3>1, <3>4, <3>5
  <2> HIDE DEF At
  <2>5. Nat \subseteq T
    <3> HIDE DEF T
    <3> QED BY <2>3, <2>4, AllNaturals
  <2>6. n - 1 \in Nat /\ (n - 1) + 1 = n
    BY <2>0
  <2>7. At(n)
    BY <2>5, <2>6
  <2> QED BY <2>0, <2>1, <2>7 DEF At
<1> QED BY <1>1, <1>2
=============================================================================
