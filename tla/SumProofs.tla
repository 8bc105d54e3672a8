----------------------------- MODULE SumProofs -----------------------------
(***************************************************************************)
(* Sums over finite sets.  The voting power of a group of validators is    *)
(* MapThenSumSet of the community modules, a fold that takes the elements  *)
(* in an order of its own; here are the facts the other proofs need: the   *)
(* order does not matter, and powers of disjoint groups add up.            *)
(***************************************************************************)
EXTENDS FiniteSetsExt, FiniteSetTheorems, TLAPS

SumOver(f, S) == MapThenSumSet(LAMBDA v : f[v], S)

Pick(s) == CHOOSE x \in s : TRUE

(* The equation of MapThenFoldSet's recursive function, on the sets D. *)
Solves(g, f, D) ==
  g = [s \in D |-> IF s = {} THEN 0 ELSE f[Pick(s)] + g[s \ {Pick(s)}]]

LEMMA SumIsSolution ==
  ASSUME NEW f, NEW S
  PROVE  SumOver(f, S) = (CHOOSE g : Solves(g, f, SUBSET S))[S]
BY DEF SumOver, MapThenSumSet, MapThenFoldSet, Solves, Pick

LEMMA PickIn == ASSUME NEW s, s # {} PROVE Pick(s) \in s
BY DEF Pick

-----------------------------------------------------------------------------
(* Numbers are well ordered: a non-empty set of them has a first one.  The *)
(* inductions below take the first counterexample.                         *)
Less == {p \in Nat \X Nat : p[1] < p[2]}

LEMMA LessIsLessThan == OpToRel(<, Nat) = Less
  BY Zenon DEF OpToRel, Less

LEMMA FirstNumber ==
  ASSUME NEW S \in SUBSET Nat, S # {}
  PROVE  \E m \in S : \A n \in S : m <= n
<1>1. IsWellFoundedOn(Less, Nat)
  BY LessIsLessThan, NatLessThanWellFounded, Zenon
<1>2. PICK m \in S : \A n \in S : ~ (<<n, m>> \in Less)
  BY <1>1, WFMin, Zenon
<1>3. ASSUME NEW n \in S PROVE m <= n
  <2>1. n \in Nat /\ m \in Nat /\ ~ (<<n, m>> \in Less)
    BY <1>2
  <2>2. ~ (n < m)
    BY <2>1 DEF Less
  <2>3. QED
    BY <2>1, <2>2
<1>4. QED
  BY <1>3

(* A bounded set of numbers has a last one. *)
LEMMA LastNumber ==
  ASSUME NEW m \in Nat, NEW S \in SUBSET (0 .. m), S # {}
  PROVE  \E x \in S : \A y \in S : y <= x
<1> DEFINE D == {k \in Nat : m - k \in S}
<1>1. \E k \in Nat : k \in D
  <2>1. PICK x \in S : TRUE
    BY Zenon
  <2>2. m - x \in Nat /\ m - (m - x) = x
    OBVIOUS
  <2>3. QED
    BY <2>1, <2>2
<1>2. D \in SUBSET Nat /\ D # {}
  BY <1>1, Zenon
<1>3. PICK k \in D : \A j \in D : k <= j
  <2> HIDE DEF D
  <2>1. QED
    BY <1>2, FirstNumber
<1>4. ASSUME NEW y \in S PROVE y <= m - k
  <2>1. m - y \in Nat /\ m - (m - y) = y
    OBVIOUS
  <2>2. m - y \in D
    BY <2>1
  <2>3. k <= m - y
    BY <1>3, <2>2
  <2>4. QED
    BY <1>3, <2>1, <2>3
<1>5. QED
  BY <1>3, <1>4

(* What holds for 0 and passes from each number to the next holds for all. *)
LEMMA Induction ==
  ASSUME NEW S \in SUBSET Nat, 0 \in S, \A n \in Nat : n \in S => n + 1 \in S
  PROVE  S = Nat
<1>1. SUFFICES ASSUME Nat \ S # {} PROVE FALSE
  OBVIOUS
<1>2. PICK m \in Nat \ S : \A n \in Nat \ S : m <= n
  BY <1>1, FirstNumber
<1>3. m # 0 /\ m - 1 \in Nat /\ ~(m <= m - 1)
  BY <1>2
<1>4. m - 1 \in S
  BY <1>2, <1>3
<1>5. QED
  BY <1>2, <1>3, <1>4

-----------------------------------------------------------------------------
(* The sets with at most n elements. *)
UpTo(S, n) == {s \in SUBSET S : Cardinality(s) <= n}

LEMMA Smaller ==
  ASSUME NEW S, IsFiniteSet(S), NEW x \in S
  PROVE  /\ IsFiniteSet(S \ {x}) /\ Cardinality(S \ {x}) = Cardinality(S) - 1
         /\ Cardinality(S) \in Nat /\ Cardinality(S) > 0
<1>1. IsFiniteSet(S \ {x}) /\ Cardinality(S \ {x}) = Cardinality(S) - 1
  BY FS_RemoveElement
<1>2. Cardinality(S) \in Nat /\ Cardinality(S \ {x}) \in Nat
  BY <1>1, FS_CardinalityType
<1>3. QED
  BY <1>1, <1>2

(* The recursion has a solution on the sets with at most n elements. *)
LEMMA SolvedUpTo ==
  ASSUME NEW f, NEW S, IsFiniteSet(S), NEW n \in Nat
  PROVE  \E g : Solves(g, f, UpTo(S, n))
<1> DEFINE T == {k \in Nat : \E g : Solves(g, f, UpTo(S, k))}
<1>1. 0 \in T
  <2> DEFINE g == [s \in UpTo(S, 0) |-> 0]
  <2>1. ASSUME NEW s \in UpTo(S, 0) PROVE s = {}
    <3>1. IsFiniteSet(s) /\ Cardinality(s) <= 0
      BY FS_Subset DEF UpTo
    <3>2. Cardinality(s) \in Nat
      BY <3>1, FS_CardinalityType
    <3>3. QED
      BY <3>1, <3>2, FS_EmptySet
  <2>2. Solves(g, f, UpTo(S, 0))
    BY <2>1 DEF Solves
  <2>3. QED
    BY <2>2
<1>2. ASSUME NEW k \in Nat, k \in T PROVE k + 1 \in T
  <2>1. PICK g : Solves(g, f, UpTo(S, k))
    BY <1>2
  <2> DEFINE h == [s \in UpTo(S, k + 1) |->
                     IF s = {} THEN 0 ELSE f[Pick(s)] + g[s \ {Pick(s)}]]
  <2>2. ASSUME NEW s \in UpTo(S, k + 1), s # {} PROVE h[s \ {Pick(s)}] = g[s \ {Pick(s)}]
    <3> DEFINE t == s \ {Pick(s)}
    <3>1. Pick(s) \in s /\ IsFiniteSet(s) /\ Cardinality(s) <= k + 1
      BY <2>2, PickIn, FS_Subset DEF UpTo
    <3>2. IsFiniteSet(t) /\ Cardinality(t) = Cardinality(s) - 1 /\ Cardinality(s) \in Nat
      BY <3>1, Smaller
    <3>3. t \in SUBSET S /\ Cardinality(t) <= k /\ Cardinality(t) <= k + 1
      BY <3>1, <3>2 DEF UpTo
    <3>4. t \in UpTo(S, k) /\ t \in UpTo(S, k + 1)
      BY <3>3 DEF UpTo
    <3> HIDE DEF t
    <3>5. g[t] = IF t = {} THEN 0 ELSE f[Pick(t)] + g[t \ {Pick(t)}]
      BY <2>1, <3>4 DEF Solves
    <3>6. h[t] = g[t]
      BY <3>4, <3>5
    <3>7. QED
      BY <3>6 DEF t
  <2>3. Solves(h, f, UpTo(S, k + 1))
    BY <2>2 DEF Solves
  <2>4. QED
    BY <2>3
<1>3. T = Nat
  <2> HIDE DEF T
  <2>1. T \in SUBSET Nat
    BY DEF T
  <2>2. QED
    BY <1>1, <1>2, <2>1, Induction
<1>4. QED
  BY <1>3

LEMMA Solved ==
  ASSUME NEW f, NEW S, IsFiniteSet(S)
  PROVE  Solves(CHOOSE g : Solves(g, f, SUBSET S), f, SUBSET S)
<1>1. Cardinality(S) \in Nat
  BY FS_CardinalityType
<1>2. UpTo(S, Cardinality(S)) = SUBSET S
  <2>1. \A s \in SUBSET S : Cardinality(s) <= Cardinality(S)
    BY FS_Subset
  <2>2. QED
    BY <2>1, Zenon DEF UpTo
<1>3. \E g : Solves(g, f, UpTo(S, Cardinality(S)))
  BY <1>1, SolvedUpTo
<1>4. \E g : Solves(g, f, SUBSET S)
  BY <1>2, <1>3
<1>5. QED
  BY <1>4

LEMMA SumEmpty == ASSUME NEW f PROVE SumOver(f, {}) = 0
<1>1. IsFiniteSet({})
  BY FS_EmptySet
<1>2. QED
  BY <1>1, Solved, SumIsSolution DEF Solves

(* The solution for a set gives the sums of all its subsets. *)
LEMMA SumOfSubset ==
  ASSUME NEW f, NEW S, IsFiniteSet(S), NEW g, Solves(g, f, SUBSET S), NEW t \in SUBSET S
  PROVE  g[t] = SumOver(f, t)
<1> DEFINE h == CHOOSE k : Solves(k, f, SUBSET t)
<1>1. IsFiniteSet(t) /\ Solves(h, f, SUBSET t)
  BY FS_Subset, Solved
<1> HIDE DEF h
<1> DEFINE T == {n \in Nat : \A s \in SUBSET t : Cardinality(s) = n => g[s] = h[s]}
<1>2. 0 \in T
  <2>1. ASSUME NEW s \in SUBSET t, Cardinality(s) = 0 PROVE g[s] = h[s]
    <3>1. s = {}
      BY <1>1, <2>1, FS_Subset, FS_EmptySet
    <3>2. {} \in SUBSET S /\ {} \in SUBSET t
      OBVIOUS
    <3>3. g[{}] = 0
      BY <3>2 DEF Solves
    <3>4. h[{}] = 0
      BY <1>1, <3>2 DEF Solves
    <3>5. QED
      BY <3>1, <3>3, <3>4
  <2>2. QED
    BY <2>1
<1>3. ASSUME NEW n \in Nat, n \in T PROVE n + 1 \in T
  <2>1. ASSUME NEW s \in SUBSET t, Cardinality(s) = n + 1 PROVE g[s] = h[s]
    <3> DEFINE r == s \ {Pick(s)}
    <3>1. s # {} /\ IsFiniteSet(s)
      BY <1>1, <2>1, FS_Subset, FS_EmptySet
    <3>2. Pick(s) \in s
      BY <3>1, PickIn
    <3>3. Cardinality(r) = n /\ r \in SUBSET t
      BY <2>1, <3>1, <3>2, Smaller
    <3>4. g[r] = h[r]
      BY <1>3, <3>3
    <3> HIDE DEF r
    <3>5. s \in SUBSET S
      OBVIOUS
    <3>6. g[s] = f[Pick(s)] + g[r]
      BY <3>1, <3>5 DEF Solves, r
    <3>7. h[s] = f[Pick(s)] + h[r]
      BY <1>1, <3>1 DEF Solves, r
    <3>8. QED
      BY <3>4, <3>6, <3>7
  <2>2. QED
    BY <2>1
<1>4. T = Nat
  <2> HIDE DEF T
  <2>1. T \in SUBSET Nat
    BY DEF T
  <2>2. QED
    BY <1>2, <1>3, <2>1, Induction
<1>5. Cardinality(t) \in T
  BY <1>1, <1>4, FS_CardinalityType
<1>6. g[t] = h[t]
  BY <1>5
<1>7. QED
  BY <1>6, SumIsSolution DEF h

(* One turn of the fold. *)
LEMMA SumPick ==
  ASSUME NEW f, NEW S, IsFiniteSet(S), S # {}
  PROVE  SumOver(f, S) = f[Pick(S)] + SumOver(f, S \ {Pick(S)})
<1> DEFINE g == CHOOSE k : Solves(k, f, SUBSET S)
<1>1. Solves(g, f, SUBSET S)
  BY Solved
<1> HIDE DEF g
<1>2. g[S] = f[Pick(S)] + g[S \ {Pick(S)}]
  BY <1>1 DEF Solves
<1>3. S \in SUBSET S /\ S \ {Pick(S)} \in SUBSET S
  OBVIOUS
<1>4. g[S] = SumOver(f, S)
  BY <1>1, <1>3, SumOfSubset
<1>5. g[S \ {Pick(S)}] = SumOver(f, S \ {Pick(S)})
  BY <1>1, <1>3, SumOfSubset, ZenonT(60)
<1>6. QED
  BY <1>2, <1>4, <1>5

-----------------------------------------------------------------------------
(* What the sums of natural numbers are like. *)

LEMMA SumType ==
  ASSUME NEW S, IsFiniteSet(S), NEW f, \A x \in S : f[x] \in Nat
  PROVE  SumOver(f, S) \in Nat
<1> DEFINE T == {n \in Nat : \A s \in SUBSET S : Cardinality(s) = n => SumOver(f, s) \in Nat}
<1>1. 0 \in T
  <2>1. ASSUME NEW s \in SUBSET S, Cardinality(s) = 0 PROVE SumOver(f, s) \in Nat
    <3>1. s = {}
      BY <2>1, FS_Subset, FS_EmptySet
    <3>2. QED
      BY <3>1, SumEmpty
  <2>2. QED
    BY <2>1
<1>2. ASSUME NEW n \in Nat, n \in T PROVE n + 1 \in T
  <2>1. ASSUME NEW s \in SUBSET S, Cardinality(s) = n + 1 PROVE SumOver(f, s) \in Nat
    <3>1. s # {} /\ IsFiniteSet(s)
      BY <2>1, FS_Subset, FS_EmptySet
    <3>2. Pick(s) \in s /\ f[Pick(s)] \in Nat
      BY <3>1, PickIn
    <3>3. Cardinality(s \ {Pick(s)}) = n
      BY <2>1, <3>1, <3>2, Smaller
    <3>4. SumOver(f, s \ {Pick(s)}) \in Nat
      BY <1>2, <3>3
    <3>5. QED
      BY <3>1, <3>2, <3>4, SumPick
  <2>2. QED
    BY <2>1
<1>3. T = Nat
  <2> HIDE DEF T
  <2>1. T \in SUBSET Nat
    BY DEF T
  <2>2. QED
    BY <1>1, <1>2, <2>1, Induction
<1>4. Cardinality(S) \in T
  BY <1>3, FS_CardinalityType
<1>5. QED
  BY <1>4

(* Any element may be taken out first. *)
LEMMA SumRemove ==
  ASSUME NEW S, IsFiniteSet(S), NEW f, \A x \in S : f[x] \in Nat, NEW y \in S
  PROVE  SumOver(f, S) = f[y] + SumOver(f, S \ {y})
<1> DEFINE Any(s) == \A x \in s : SumOver(f, s) = f[x] + SumOver(f, s \ {x})
<1> DEFINE T == {n \in Nat : \A s \in SUBSET S : Cardinality(s) = n => Any(s)}
<1>1. 0 \in T
  <2>1. ASSUME NEW s \in SUBSET S, Cardinality(s) = 0 PROVE s = {}
    BY <2>1, FS_Subset, FS_EmptySet
  <2>2. QED
    BY <2>1
<1>2. ASSUME NEW n \in Nat, n \in T PROVE n + 1 \in T
  <2>1. ASSUME NEW s \in SUBSET S, Cardinality(s) = n + 1, NEW x \in s
        PROVE  SumOver(f, s) = f[x] + SumOver(f, s \ {x})
    <3> DEFINE p == Pick(s)
               both == s \ {x, p}
    <3>1. IsFiniteSet(s) /\ p \in s
      BY FS_Subset, PickIn
    <3>2. SumOver(f, s) = f[p] + SumOver(f, s \ {p})
      BY <3>1, SumPick
    <3>3. CASE x = p
      BY <3>2, <3>3
    <3>4. CASE x # p
      <4>1. Cardinality(s \ {p}) = n /\ Cardinality(s \ {x}) = n
        BY <2>1, <3>1, Smaller
      <4>2. /\ s \ {p} \in SUBSET S /\ x \in s \ {p} /\ (s \ {p}) \ {x} = both
            /\ s \ {x} \in SUBSET S /\ p \in s \ {x} /\ (s \ {x}) \ {p} = both
        BY <3>1, <3>4
      <4>3. Any(s \ {p}) /\ Any(s \ {x})
        BY <1>2, <4>1, <4>2
      <4> HIDE DEF p, both
      <4>4. SumOver(f, s \ {p}) = f[x] + SumOver(f, both)
        BY <4>2, <4>3
      <4>5. SumOver(f, s \ {x}) = f[p] + SumOver(f, both)
        BY <4>2, <4>3
      <4>6. IsFiniteSet(both) /\ both \in SUBSET S
        BY <3>1, FS_Subset DEF both
      <4>7. SumOver(f, both) \in Nat /\ f[x] \in Nat /\ f[p] \in Nat
        BY <3>1, <4>6, SumType
      <4>8. QED
        BY <3>2, <4>4, <4>5, <4>7
    <3>5. QED
      BY <3>3, <3>4
  <2>2. QED
    BY <2>1
<1>3. T = Nat
  <2> HIDE DEF T
  <2>1. T \in SUBSET Nat
    BY DEF T
  <2>2. QED
    BY <1>1, <1>2, <2>1, Induction
<1>4. Cardinality(S) \in T
  BY <1>3, FS_CardinalityType
<1>5. QED
  BY <1>4

(* A new element adds its number. *)
LEMMA SumAdd ==
  ASSUME NEW S, IsFiniteSet(S), NEW f, NEW y, y \notin S, \A x \in S \cup {y} : f[x] \in Nat
  PROVE  SumOver(f, S \cup {y}) = SumOver(f, S) + f[y]
<1>1. IsFiniteSet(S \cup {y}) /\ (S \cup {y}) \ {y} = S
  BY FS_AddElement
<1>2. SumOver(f, S \cup {y}) = f[y] + SumOver(f, (S \cup {y}) \ {y})
  BY <1>1, SumRemove
<1>3. SumOver(f, S) \in Nat /\ f[y] \in Nat
  BY SumType
<1>4. QED
  BY <1>1, <1>2, <1>3

(* Sums of disjoint sets add up. *)
THEOREM SumUnion ==
  ASSUME NEW S, IsFiniteSet(S), NEW R, IsFiniteSet(R), S \cap R = {},
         NEW f, \A x \in S \cup R : f[x] \in Nat
  PROVE  SumOver(f, S \cup R) = SumOver(f, S) + SumOver(f, R)
<1> DEFINE T == {n \in Nat : \A s \in SUBSET R : Cardinality(s) = n =>
                   SumOver(f, S \cup s) = SumOver(f, S) + SumOver(f, s)}
<1>0. SumOver(f, S) \in Nat
  BY SumType
<1>1. 0 \in T
  <2>1. ASSUME NEW s \in SUBSET R, Cardinality(s) = 0
        PROVE  SumOver(f, S \cup s) = SumOver(f, S) + SumOver(f, s)
    <3>1. s = {} /\ S \cup {} = S
      BY <2>1, FS_Subset, FS_EmptySet
    <3>2. QED
      BY <1>0, <3>1, SumEmpty
  <2>2. QED
    BY <2>1
<1>2. ASSUME NEW n \in Nat, n \in T PROVE n + 1 \in T
  <2>1. ASSUME NEW s \in SUBSET R, Cardinality(s) = n + 1
        PROVE  SumOver(f, S \cup s) = SumOver(f, S) + SumOver(f, s)
    <3>1. s # {} /\ IsFiniteSet(s)
      BY <2>1, FS_Subset, FS_EmptySet
    <3>2. PICK y \in s : TRUE
      BY <3>1
    <3> DEFINE t == s \ {y}
    <3>3. Cardinality(t) = n /\ t \in SUBSET R /\ IsFiniteSet(t)
      BY <2>1, <3>1, Smaller
    <3>4. SumOver(f, S \cup t) = SumOver(f, S) + SumOver(f, t)
      BY <1>2, <3>3
    <3>5. /\ y \notin t /\ y \notin S \cup t /\ IsFiniteSet(S \cup t)
          /\ t \cup {y} = s /\ (S \cup t) \cup {y} = S \cup s
      <4>1. IsFiniteSet(S \cup t)
        BY <3>3, FS_Union
      <4>2. QED
        BY <4>1
    <3> HIDE DEF t
    <3>6. (\A x \in t \cup {y} : f[x] \in Nat) /\ \A x \in (S \cup t) \cup {y} : f[x] \in Nat
      BY <3>3
    <3>7. SumOver(f, s) = SumOver(f, t) + f[y]
      BY <3>3, <3>5, <3>6, SumAdd
    <3>8. SumOver(f, S \cup s) = SumOver(f, S \cup t) + f[y]
      <4>1. SumOver(f, (S \cup t) \cup {y}) = SumOver(f, S \cup t) + f[y]
        BY <3>5, <3>6, SumAdd
      <4>2. QED
        BY <3>5, <4>1, Zenon
    <3>9. SumOver(f, t) \in Nat /\ f[y] \in Nat
      BY <3>3, <3>6, SumType
    <3>10. QED
      BY <1>0, <3>4, <3>7, <3>8, <3>9
  <2>2. QED
    BY <2>1
<1>3. T = Nat
  <2> HIDE DEF T
  <2>1. T \in SUBSET Nat
    BY DEF T
  <2>2. QED
    BY <1>1, <1>2, <2>1, Induction
<1>4. Cardinality(R) \in T
  BY <1>3, FS_CardinalityType
<1>5. QED
  BY <1>4

(* A part has no more than the whole. *)
THEOREM SumMonotone ==
  ASSUME NEW S, IsFiniteSet(S), NEW R \in SUBSET S, NEW f, \A x \in S : f[x] \in Nat
  PROVE  SumOver(f, R) <= SumOver(f, S)
<1>1. IsFiniteSet(R) /\ IsFiniteSet(S \ R) /\ R \cup (S \ R) = S /\ R \cap (S \ R) = {}
  <2>1. IsFiniteSet(R) /\ IsFiniteSet(S \ R)
    BY FS_Subset
  <2>2. QED
    BY <2>1
<1>2. SumOver(f, R \cup (S \ R)) = SumOver(f, R) + SumOver(f, S \ R)
  BY <1>1, SumUnion
<1>3. SumOver(f, R) \in Nat /\ SumOver(f, S \ R) \in Nat
  BY <1>1, SumType
<1>4. SumOver(f, S) = SumOver(f, R) + SumOver(f, S \ R)
  BY <1>1, <1>2, Zenon
<1>5. QED
  BY <1>3, <1>4
=============================================================================
