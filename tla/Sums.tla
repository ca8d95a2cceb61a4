-------------------------------- MODULE Sums --------------------------------
(***************************************************************************)
(* Sums of the values of a function over a finite set: the totals that the   *)
(* ledgers in Redis keep beside what they are the totals of.                 *)
(*                                                                          *)
(* SumFunction is a fold of the community modules.  What it computes is shown *)
(* by induction over sets, in the form of the least-element principle: a      *)
(* family of finite sets that is not empty has a smallest member.            *)
(***************************************************************************)
EXTENDS FiniteSetTheorems, TLAPS

LEMMA LeastNumber ==
  ASSUME NEW B, B \subseteq Nat, B # {}
  PROVE  \E n \in B : \A m \in B : n <= m
<1> DEFINE R == OpToRel(<, Nat)
<1>1. IsWellFoundedOn(R, Nat)
  BY NatLessThanWellFounded
<1> HIDE DEF R
<1>2. PICK n \in B : \A m \in B : ~(<<m, n>> \in R)
  BY <1>1, WFMin
<1>3. \A m \in B : m < n => <<m, n>> \in R
  BY DEF R, OpToRel
<1>4. \A m \in B : ~(m < n)
  BY <1>2, <1>3
<1>5. \A m \in B : m \in Nat /\ n \in Nat
  OBVIOUS
<1>6. \A m \in B : n <= m
  BY <1>4, <1>5
<1> QED
  BY <1>6

\* To show something of all subsets of S, consider a smallest one it fails for.
LEMMA SmallestSubset ==
  ASSUME NEW S, IsFiniteSet(S), NEW Bad, Bad \subseteq SUBSET S, Bad # {}
  PROVE  \E T \in Bad : \A x \in T : T \ {x} \notin Bad
<1>1. IsWellFoundedOn(StrictSubsetOrdering(S), SUBSET S)
  BY FS_StrictSubsetOrderingWellFounded, FS_FiniteSubsetsOfFinite
<1>2. PICK T \in Bad : \A U \in Bad : ~(<<U, T>> \in StrictSubsetOrdering(S))
  BY <1>1, WFMin
<1>3. \A x \in T : <<T \ {x}, T>> \in StrictSubsetOrdering(S)
  BY DEF StrictSubsetOrdering
<1> QED
  BY <1>2, <1>3

-----------------------------------------------------------------------------
(* The fold is well defined.                                                *)

Picked(T) == CHOOSE x \in T : TRUE

\* g has the sum of f over T for each set T of its domain.
Adds(g, f, sets) ==
  g = [T \in sets |-> IF T = {} THEN 0 ELSE f[Picked(T)] + g[T \ {Picked(T)}]]

Partial(f, S) == CHOOSE g : Adds(g, f, SUBSET S)

LEMMA SumIsPartial ==
  ASSUME NEW f, NEW S
  PROVE  SumFunctionOnSet(f, S) = Partial(f, S)[S]
BY DEF Partial, Adds, Picked, SumFunctionOnSet, FoldFunctionOnSet, MapThenFoldSet

LEMMA PickedIn == ASSUME NEW T, T # {} PROVE Picked(T) \in T
BY DEF Picked

\* By induction on the size of the sets.
LEMMA PartialExists ==
  ASSUME NEW S, IsFiniteSet(S), NEW f
  PROVE  \E g : Adds(g, f, SUBSET S)
<1> DEFINE Upto(n) == {T \in SUBSET S : Cardinality(T) <= n}
           Good(n) == \E g : Adds(g, f, Upto(n))
           B == {n \in Nat : ~Good(n)}
<1>1. \A T \in SUBSET S : IsFiniteSet(T) /\ Cardinality(T) \in Nat
  BY FS_Subset, FS_CardinalityType
<1>2. \A T \in SUBSET S : T # {} =>
        /\ T \ {Picked(T)} \in SUBSET S
        /\ Cardinality(T \ {Picked(T)}) = Cardinality(T) - 1
  BY <1>1, PickedIn, FS_RemoveElement
<1>3. Good(0)
  <2>1. Upto(0) = {{}}
    BY <1>1, FS_EmptySet
  <2>2. Adds([T \in {{}} |-> 0], f, {{}})
    BY DEF Adds
  <2> QED
    BY <2>1, <2>2
<1>4. ASSUME NEW n \in Nat, Good(n)
      PROVE  Good(n + 1)
  <2>1. PICK g : Adds(g, f, Upto(n))
    BY <1>4
  <2> DEFINE h == [T \in Upto(n + 1) |->
                     IF T = {} THEN 0 ELSE f[Picked(T)] + g[T \ {Picked(T)}]]
  <2>2. \A T \in Upto(n) : h[T] = g[T]
    <3>1. \A T \in Upto(n) : T \in Upto(n + 1)
      BY <1>1
    <3> QED
      BY <2>1, <3>1 DEF Adds
  <2>3. \A T \in Upto(n + 1) : T # {} => T \ {Picked(T)} \in Upto(n)
    BY <1>1, <1>2
  <2>4. Adds(h, f, Upto(n + 1))
    <3> HIDE DEF Upto
    <3> QED
      BY <2>2, <2>3 DEF Adds
  <2> QED
    BY <2>4
<1>5. B = {}
  <2> SUFFICES ASSUME B # {} PROVE FALSE
    OBVIOUS
  <2> HIDE DEF Good
  <2>1. PICK n \in B : \A m \in B : n <= m
    BY LeastNumber
  <2>2. n # 0 /\ n \in Nat
    BY <2>1, <1>3
  <2>3. n - 1 \in Nat /\ ~(n <= n - 1)
    BY <2>2
  <2>4. Good(n - 1)
    BY <2>1, <2>3
  <2>5. Good((n - 1) + 1)
    BY <2>3, <2>4, <1>4
  <2> QED
    BY <2>1, <2>2, <2>5
<1>6. Upto(Cardinality(S)) = SUBSET S
  BY FS_Subset
<1>7. Good(Cardinality(S))
  <2> HIDE DEF Good
  <2> QED
    BY <1>1, <1>5
<1> QED
  BY <1>6, <1>7

\* Two such functions agree, also when one is defined on more sets.
LEMMA PartialsAgree ==
  ASSUME NEW S, NEW R, NEW f, NEW g, NEW h,
         IsFiniteSet(S), R \subseteq S, Adds(g, f, SUBSET S), Adds(h, f, SUBSET R)
  PROVE  g[R] = h[R]
<1> DEFINE Bad == {T \in SUBSET R : g[T] # h[T]}
<1> SUFFICES ASSUME Bad # {} PROVE FALSE
  OBVIOUS
<1>1. IsFiniteSet(R)
  BY FS_Subset
<1>2. PICK T \in Bad : \A x \in T : T \ {x} \notin Bad
  BY <1>1, SmallestSubset
<1>3. T \in SUBSET S /\ T \in SUBSET R
  BY <1>2
<1>4. T # {} => Picked(T) \in T
  BY PickedIn
<1>5. T # {} => g[T \ {Picked(T)}] = h[T \ {Picked(T)}]
  BY <1>2, <1>4
<1>6. g[T] = h[T]
  BY <1>3, <1>5 DEF Adds
<1> QED
  BY <1>2, <1>6

LEMMA SumDefinition ==
  ASSUME NEW S, IsFiniteSet(S), NEW f
  PROVE  SumFunctionOnSet(f, S)
           = IF S = {} THEN 0 ELSE f[Picked(S)] + SumFunctionOnSet(f, S \ {Picked(S)})
<1> DEFINE R == S \ {Picked(S)}
           g == Partial(f, S)
           h == Partial(f, R)
<1>1. Adds(g, f, SUBSET S)
  BY PartialExists DEF Partial
<1>2. Adds(h, f, SUBSET R)
  BY FS_Subset, PartialExists DEF Partial
<1>3. g[R] = h[R]
  <2>1. ASSUME NEW Q, NEW p, NEW q, Q \subseteq S, Adds(p, f, SUBSET S), Adds(q, f, SUBSET Q)
        PROVE  p[Q] = q[Q]
    BY <2>1, PartialsAgree
  <2> QED
    BY <1>1, <1>2, <2>1
<1>4. g[S] = IF S = {} THEN 0 ELSE f[Picked(S)] + g[R]
  BY <1>1 DEF Adds
<1> QED
  BY <1>3, <1>4, SumIsPartial

-----------------------------------------------------------------------------
(* What sums are.                                                           *)

LEMMA SumEmpty == ASSUME NEW f PROVE SumFunctionOnSet(f, {}) = 0
BY SumDefinition, FS_EmptySet

LEMMA SumInt ==
  ASSUME NEW S, IsFiniteSet(S), NEW f, \A x \in S : f[x] \in Int
  PROVE  SumFunctionOnSet(f, S) \in Int
<1> DEFINE Bad == {T \in SUBSET S : SumFunctionOnSet(f, T) \notin Int}
<1> SUFFICES ASSUME Bad # {} PROVE FALSE
  OBVIOUS
<1>1. PICK T \in Bad : \A x \in T : T \ {x} \notin Bad
  BY SmallestSubset
<1>2. IsFiniteSet(T) /\ (T # {} => Picked(T) \in T)
  BY <1>1, FS_Subset, PickedIn
<1>3. T # {} => SumFunctionOnSet(f, T \ {Picked(T)}) \in Int
  BY <1>1, <1>2
<1>4. SumFunctionOnSet(f, T)
        = IF T = {} THEN 0 ELSE f[Picked(T)] + SumFunctionOnSet(f, T \ {Picked(T)})
  BY <1>2, SumDefinition
<1>5. T # {} => f[Picked(T)] \in Int
  BY <1>1, <1>2
<1>6. SumFunctionOnSet(f, T) \in Int
  BY <1>3, <1>4, <1>5
<1> QED
  BY <1>1, <1>6

\* Any element may be taken out first.
LEMMA SumRemove ==
  ASSUME NEW S, IsFiniteSet(S), NEW f, \A x \in S : f[x] \in Int, NEW e \in S
  PROVE  SumFunctionOnSet(f, S) = f[e] + SumFunctionOnSet(f, S \ {e})
<1> DEFINE Total(T) == SumFunctionOnSet(f, T)
           Bad == {T \in SUBSET S : \E x \in T : Total(T) # f[x] + Total(T \ {x})}
<1> SUFFICES ASSUME Bad # {} PROVE FALSE
  OBVIOUS
<1>1. PICK T \in Bad : \A x \in T : T \ {x} \notin Bad
  BY SmallestSubset
<1>2. PICK x \in T : Total(T) # f[x] + Total(T \ {x})
  BY <1>1
<1> DEFINE p == Picked(T)
           rest == (T \ {p}) \ {x}
<1>3. IsFiniteSet(T) /\ p \in T
  BY <1>1, <1>2, FS_Subset, PickedIn
<1>4. Total(T) = f[p] + Total(T \ {p})
  BY <1>2, <1>3, SumDefinition
<1>5. x # p
  BY <1>2, <1>4
<1>6. rest \in SUBSET T /\ rest = (T \ {x}) \ {p} /\ x \in T \ {p} /\ p \in T \ {x}
  BY <1>3, <1>5
<1>7. Total(T \ {p}) = f[x] + Total(rest)
  BY <1>1, <1>3, <1>6
<1>8. Total(T \ {x}) = f[p] + Total(rest)
  BY <1>1, <1>2, <1>6
<1>9. Total(rest) \in Int
  <2>1. IsFiniteSet(rest) /\ rest \subseteq S
    BY <1>1, <1>3, <1>6, FS_Subset
  <2> QED
    BY <2>1, SumInt
<1>10. f[x] \in Int /\ f[p] \in Int
  BY <1>1, <1>2, <1>3
<1> HIDE DEF Total, rest, p
<1> QED
  BY <1>2, <1>4, <1>7, <1>8, <1>9, <1>10

\* The sum depends on the values in S only.
LEMMA SumSame ==
  ASSUME NEW S, NEW f, NEW g, IsFiniteSet(S), \A x \in S : f[x] = g[x]
  PROVE  SumFunctionOnSet(f, S) = SumFunctionOnSet(g, S)
<1> DEFINE Bad == {T \in SUBSET S : SumFunctionOnSet(f, T) # SumFunctionOnSet(g, T)}
<1> SUFFICES ASSUME Bad # {} PROVE FALSE
  OBVIOUS
<1>1. PICK T \in Bad : \A x \in T : T \ {x} \notin Bad
  BY SmallestSubset
<1>2. IsFiniteSet(T) /\ (T # {} => Picked(T) \in T)
  BY <1>1, FS_Subset, PickedIn
<1>3. T # {} => /\ f[Picked(T)] = g[Picked(T)]
                /\ SumFunctionOnSet(f, T \ {Picked(T)}) = SumFunctionOnSet(g, T \ {Picked(T)})
  BY <1>1, <1>2
<1>4. \A k : SumFunctionOnSet(k, T)
               = IF T = {} THEN 0 ELSE k[Picked(T)] + SumFunctionOnSet(k, T \ {Picked(T)})
  BY <1>2, SumDefinition
<1>5. SumFunctionOnSet(f, T) = SumFunctionOnSet(g, T)
  BY <1>3, <1>4
<1> QED
  BY <1>1, <1>5

\* Sums are added value by value.
LEMMA SumPlus ==
  ASSUME NEW S, NEW f, NEW g, NEW h, IsFiniteSet(S),
         \A x \in S : f[x] \in Int /\ g[x] \in Int /\ h[x] = f[x] + g[x]
  PROVE  SumFunctionOnSet(h, S) = SumFunctionOnSet(f, S) + SumFunctionOnSet(g, S)
<1> DEFINE Total(k, T) == SumFunctionOnSet(k, T)
           Bad == {T \in SUBSET S : Total(h, T) # Total(f, T) + Total(g, T)}
<1> SUFFICES ASSUME Bad # {} PROVE FALSE
  OBVIOUS
<1>1. PICK T \in Bad : \A x \in T : T \ {x} \notin Bad
  BY SmallestSubset
<1>2. T # {}
  <2>1. \A k : SumFunctionOnSet(k, {}) = 0
    BY SumEmpty
  <2>2. SumFunctionOnSet(h, {}) = SumFunctionOnSet(f, {}) + SumFunctionOnSet(g, {})
    BY <2>1
  <2> QED
    BY <1>1, <2>2
<1> DEFINE p == Picked(T)
           R == T \ {p}
<1>3. IsFiniteSet(T) /\ p \in T /\ R \subseteq S /\ IsFiniteSet(R)
  BY <1>1, <1>2, FS_Subset, PickedIn
<1>4. Total(h, R) = Total(f, R) + Total(g, R)
  BY <1>1, <1>3
<1>5. \A k : Total(k, T) = k[p] + Total(k, R)
  BY <1>2, <1>3, SumDefinition
<1>6. Total(f, R) \in Int /\ Total(g, R) \in Int
  BY <1>3, SumInt
<1>7. f[p] \in Int /\ g[p] \in Int /\ h[p] = f[p] + g[p]
  BY <1>1, <1>3
<1> HIDE DEF Total, p, R
<1>8. Total(h, T) = Total(f, T) + Total(g, T)
  BY <1>4, <1>5, <1>6, <1>7
<1> QED
  BY <1>1, <1>8

LEMMA SumZero ==
  ASSUME NEW S, NEW f, IsFiniteSet(S), \A x \in S : f[x] = 0
  PROVE  SumFunctionOnSet(f, S) = 0
<1> DEFINE t == SumFunctionOnSet(f, S)
<1>1. t = t + t
  BY SumPlus
<1>2. t \in Int
  BY SumInt
<1> HIDE DEF t
<1>3. t = 0
  BY <1>1, <1>2
<1> QED
  BY <1>3 DEF t

\* One value changes: so does the sum.
LEMMA SumChange ==
  ASSUME NEW S, NEW f, NEW g, NEW e \in S, IsFiniteSet(S),
         \A x \in S : f[x] \in Int /\ g[x] \in Int, \A x \in S \ {e} : f[x] = g[x]
  PROVE  SumFunctionOnSet(g, S) = SumFunctionOnSet(f, S) + g[e] - f[e]
<1> DEFINE R == S \ {e}
<1>1. IsFiniteSet(R) /\ R \subseteq S
  BY FS_Subset
<1>2. SumFunctionOnSet(f, R) = SumFunctionOnSet(g, R)
  BY <1>1, SumSame
<1>3. SumFunctionOnSet(f, R) \in Int
  BY <1>1, SumInt
<1>4. SumFunctionOnSet(f, S) = f[e] + SumFunctionOnSet(f, R)
  BY SumRemove
<1>5. SumFunctionOnSet(g, S) = g[e] + SumFunctionOnSet(g, R)
  BY SumRemove
<1> QED
  BY <1>2, <1>3, <1>4, <1>5

\* Zeros may be left out.
LEMMA SumOutside ==
  ASSUME NEW S, NEW R, NEW f, IsFiniteSet(S), R \subseteq S,
         \A x \in S : f[x] \in Int, \A x \in S \ R : f[x] = 0
  PROVE  SumFunctionOnSet(f, S) = SumFunctionOnSet(f, R)
<1> DEFINE Bad == {T \in SUBSET S :
                     R \subseteq T /\ SumFunctionOnSet(f, T) # SumFunctionOnSet(f, R)}
<1> SUFFICES ASSUME Bad # {} PROVE FALSE
  OBVIOUS
<1>1. PICK T \in Bad : \A x \in T : T \ {x} \notin Bad
  <2>1. Bad \subseteq SUBSET S
    OBVIOUS
  <2> HIDE DEF Bad
  <2> QED
    BY <2>1, SmallestSubset
<1>2. PICK x \in T : x \notin R
  BY <1>1
<1>3. SumFunctionOnSet(f, T \ {x}) = SumFunctionOnSet(f, R)
  BY <1>1, <1>2
<1>4. SumFunctionOnSet(f, T) = f[x] + SumFunctionOnSet(f, T \ {x})
  BY <1>1, <1>2, FS_Subset, SumRemove
<1>5. f[x] = 0 /\ SumFunctionOnSet(f, R) \in Int
  BY <1>1, <1>2, FS_Subset, SumInt
<1> QED
  BY <1>1, <1>3, <1>4, <1>5

LEMMA SumNat ==
  ASSUME NEW S, NEW f, IsFiniteSet(S), \A x \in S : f[x] \in Nat
  PROVE  /\ SumFunctionOnSet(f, S) \in Nat
         /\ \A e \in S : f[e] <= SumFunctionOnSet(f, S)
<1> DEFINE Bad == {T \in SUBSET S : SumFunctionOnSet(f, T) \notin Nat}
<1>1. ASSUME Bad # {} PROVE FALSE
  <2>1. PICK T \in Bad : \A x \in T : T \ {x} \notin Bad
    BY <1>1, SmallestSubset
  <2>2. IsFiniteSet(T) /\ T # {}
    <3>1. SumFunctionOnSet(f, {}) \in Nat
      BY SumEmpty
    <3>2. T \subseteq S
      BY <2>1
    <3> QED
      BY <2>1, <3>1, <3>2, FS_Subset
  <2>3. Picked(T) \in T
    BY <2>2, PickedIn
  <2>4. SumFunctionOnSet(f, T \ {Picked(T)}) \in Nat
    BY <2>1, <2>3
  <2>5. SumFunctionOnSet(f, T) = f[Picked(T)] + SumFunctionOnSet(f, T \ {Picked(T)})
    BY <2>2, SumDefinition
  <2>6. f[Picked(T)] \in Nat
    BY <2>1, <2>3
  <2>7. SumFunctionOnSet(f, T) \in Nat
    BY <2>4, <2>5, <2>6
  <2> QED
    BY <2>1, <2>7
<1>2. \A T \in SUBSET S : SumFunctionOnSet(f, T) \in Nat
  BY <1>1
<1>3. ASSUME NEW e \in S PROVE f[e] <= SumFunctionOnSet(f, S)
  <2>1. SumFunctionOnSet(f, S) = f[e] + SumFunctionOnSet(f, S \ {e})
    BY SumRemove
  <2>2. SumFunctionOnSet(f, S \ {e}) \in Nat /\ f[e] \in Nat
    BY <1>2
  <2> QED
    BY <2>1, <2>2
<1> QED
  BY <1>2, <1>3

\* Sums are multiplied value by value.
LEMMA SumScale ==
  ASSUME NEW S, NEW f, NEW h, NEW c \in Int, IsFiniteSet(S),
         \A x \in S : f[x] \in Int /\ h[x] = c * f[x]
  PROVE  SumFunctionOnSet(h, S) = c * SumFunctionOnSet(f, S)
<1> DEFINE Total(k, T) == SumFunctionOnSet(k, T)
           Bad == {T \in SUBSET S : Total(h, T) # c * Total(f, T)}
<1> SUFFICES ASSUME Bad # {} PROVE FALSE
  OBVIOUS
<1>1. PICK T \in Bad : \A x \in T : T \ {x} \notin Bad
  BY SmallestSubset
<1>2. T # {}
  <2>1. \A k : SumFunctionOnSet(k, {}) = 0
    BY SumEmpty
  <2>2. SumFunctionOnSet(h, {}) = c * SumFunctionOnSet(f, {})
    BY <2>1
  <2> QED
    BY <1>1, <2>2
<1> DEFINE p == Picked(T)
           R == T \ {p}
<1>3. IsFiniteSet(T) /\ p \in T /\ R \subseteq S /\ IsFiniteSet(R)
  BY <1>1, <1>2, FS_Subset, PickedIn
<1>4. Total(h, R) = c * Total(f, R)
  BY <1>1, <1>3
<1>5. \A k : Total(k, T) = k[p] + Total(k, R)
  BY <1>2, <1>3, SumDefinition
<1>6. Total(f, R) \in Int
  BY <1>3, SumInt
<1>7. f[p] \in Int /\ h[p] = c * f[p]
  BY <1>1, <1>3
<1> HIDE DEF Total, p, R
<1>8. c * f[p] + c * Total(f, R) = c * (f[p] + Total(f, R))
  BY <1>6, <1>7
<1>9. Total(h, T) = c * Total(f, T)
  BY <1>4, <1>5, <1>7, <1>8
<1> QED
  BY <1>1, <1>9

\* A bound on every value bounds the sum.
LEMMA SumBounds ==
  ASSUME NEW S, NEW f, NEW c \in Int, IsFiniteSet(S),
         \A x \in S : f[x] \in Int /\ -c <= f[x] /\ f[x] <= c
  PROVE  /\ -(c * Cardinality(S)) <= SumFunctionOnSet(f, S)
         /\ SumFunctionOnSet(f, S) <= c * Cardinality(S)
<1> DEFINE Total(T) == SumFunctionOnSet(f, T)
           Within(t, n) == -(c * n) <= t /\ t <= c * n
           Bad == {T \in SUBSET S : ~Within(Total(T), Cardinality(T))}
<1> SUFFICES ASSUME Bad # {} PROVE FALSE
  BY FS_Subset
<1>1. PICK T \in Bad : \A x \in T : T \ {x} \notin Bad
  BY SmallestSubset
<1>2. T # {}
  <2>1. SumFunctionOnSet(f, {}) = 0 /\ Cardinality({}) = 0
    BY SumEmpty, FS_EmptySet
  <2>2. Within(SumFunctionOnSet(f, {}), Cardinality({}))
    BY <2>1
  <2> QED
    BY <1>1, <2>2
<1> DEFINE p == Picked(T)
           R == T \ {p}
<1>3. IsFiniteSet(T) /\ p \in T /\ R \subseteq S /\ IsFiniteSet(R)
  BY <1>1, <1>2, FS_Subset, PickedIn
<1>4. Within(Total(R), Cardinality(R))
  BY <1>1, <1>3
<1>5. Total(T) = f[p] + Total(R)
  BY <1>2, <1>3, SumDefinition
<1>6. Total(R) \in Int
  BY <1>3, SumInt
<1>7. Cardinality(T) = Cardinality(R) + 1 /\ Cardinality(R) \in Nat
  BY <1>3, FS_RemoveElement, FS_CardinalityType
<1>8. f[p] \in Int /\ -c <= f[p] /\ f[p] <= c
  BY <1>1, <1>3
<1> HIDE DEF Total, p, R
<1>9. c * Cardinality(T) = c * Cardinality(R) + c /\ c * Cardinality(R) \in Int
  <2>1. \A n \in Nat : c * (n + 1) = c * n + c /\ c * n \in Int
    OBVIOUS
  <2> QED
    BY <1>7, <2>1
<1>10. Within(Total(T), Cardinality(T))
  BY <1>4, <1>5, <1>6, <1>8, <1>9
<1> QED
  BY <1>1, <1>10

LEMMA SumOfAll ==
  ASSUME NEW f PROVE SumFunction(f) = SumFunctionOnSet(f, DOMAIN f)
BY DEF SumFunction
=============================================================================
