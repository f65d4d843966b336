---------------------------- MODULE SumTheorems ----------------------------
(***************************************************************************)
(* Sums over finite sets, for the theorems about rows, coins and weights.  *)
(* MapThenSumSet is defined by recursion over the subsets of its set: the  *)
(* recursion is shown to define a function, and its value not to depend on *)
(* the order in which the elements are taken.                              *)
(***************************************************************************)
EXTENDS Integers, FiniteSets, FiniteSetsExt,
        FiniteSetTheorems, WellFoundedInduction, TLAPS

(***************************************************************************)
(* The element that the fold of the community modules takes next.          *)
(***************************************************************************)
Pick(T) == CHOOSE x \in T : TRUE

(***************************************************************************)
(* g is the recursive function behind MapThenSumSet: the sum of f over each *)
(* subset of S, taken apart by Pick.                                       *)
(***************************************************************************)
IsSum(g, f, S) ==
  g = [T \in SUBSET S |-> IF T = {} THEN 0 ELSE f[Pick(T)] + g[T \ {Pick(T)}]]

(***************************************************************************)
(* A set that is not empty contains its pick.                              *)
(***************************************************************************)
LEMMA PickIn == ASSUME NEW T, T # {} PROVE Pick(T) \in T
BY DEF Pick

(***************************************************************************)
(* Among subsets of a finite set there is a minimal one: the induction on  *)
(* finite sets, in the form that the provers can use.                      *)
(***************************************************************************)
LEMMA MinimalSet ==
  ASSUME NEW S, IsFiniteSet(S), NEW Bad, Bad \subseteq SUBSET S, Bad # {}
  PROVE  \E T \in Bad : \A U \in SUBSET T : U # T => U \notin Bad
<1>1. Bad \subseteq FiniteSubsetsOf(S)
  BY FS_FiniteSubsetsOfFinite
<1>2. PICK T \in Bad : \A U \in Bad : <<U, T>> \notin StrictSubsetOrdering(S)
  BY <1>1, FS_StrictSubsetOrderingWellFounded, WFMin
<1>3. \A U \in SUBSET T : U # T => U \notin Bad
  BY <1>2 DEF StrictSubsetOrdering
<1> QED
  BY <1>3

(***************************************************************************)
(* There is one sum at most, and the sum over a set extends those over its *)
(* subsets.                                                                *)
(***************************************************************************)
LEMMA SumsAgree ==
  ASSUME NEW S, IsFiniteSet(S), NEW f, NEW U \in SUBSET S,
         NEW g, IsSum(g, f, S), NEW h, IsSum(h, f, U)
  PROVE  \A T \in SUBSET U : g[T] = h[T]
<1> DEFINE Bad == {T \in SUBSET U : g[T] # h[T]}
<1> SUFFICES ASSUME Bad # {} PROVE FALSE
  OBVIOUS
<1>1. PICK T \in Bad : \A V \in SUBSET T : V # T => V \notin Bad
  <2>1. Bad \subseteq SUBSET S
    OBVIOUS
  <2> HIDE DEF Bad
  <2> QED
    BY <2>1, MinimalSet
<1>2. T # {}
  BY <1>1 DEF IsSum
<1>3. Pick(T) \in T
  BY <1>2, PickIn
<1>4. g[T \ {Pick(T)}] = h[T \ {Pick(T)}]
  BY <1>1, <1>3
<1>5. g[T] = h[T]
  BY <1>1, <1>2, <1>4 DEF IsSum
<1> QED
  BY <1>1, <1>5

(***************************************************************************)
(* There is one: a smallest set without a sum would get one from the sums  *)
(* over its proper subsets.                                                *)
(***************************************************************************)
LEMMA SumExists ==
  ASSUME NEW S, IsFiniteSet(S), NEW f
  PROVE  \E g : IsSum(g, f, S)
<1> DEFINE Bad == {T \in SUBSET S : ~\E g : IsSum(g, f, T)}
<1> SUFFICES ASSUME Bad # {} PROVE FALSE
  OBVIOUS
<1>1. PICK T \in Bad : \A V \in SUBSET T : V # T => V \notin Bad
  <2>1. Bad \subseteq SUBSET S
    OBVIOUS
  <2> HIDE DEF Bad
  <2> QED
    BY <2>1, MinimalSet
<1> DEFINE G(V) == CHOOSE g : IsSum(g, f, V)
<1>2. \A V \in SUBSET T : V # T => IsSum(G(V), f, V)
  BY <1>1
<1> DEFINE below(V) == f[Pick(V)] + G(V \ {Pick(V)})[V \ {Pick(V)}]
           g == [V \in SUBSET T |-> IF V = {} THEN 0 ELSE below(V)]
<1>3. ASSUME NEW V \in SUBSET T, V # T
      PROVE  g[V] = G(V)[V]
  <2>1. CASE V = {}
    <3>1. IsSum(G(V), f, V)
      BY <1>2, <1>3
    <3> HIDE DEF G
    <3>2. G(V)[V] = 0
      BY <2>1, <3>1 DEF IsSum
    <3>3. g[V] = 0
      BY <2>1
    <3> QED
      BY <3>2, <3>3
  <2>2. CASE V # {}
    <3> DEFINE W == V \ {Pick(V)}
    <3>1. W \in SUBSET V /\ W # V /\ W \in SUBSET T /\ W # T
      BY <2>2, <1>3, PickIn
    <3>2. IsSum(G(V), f, V) /\ IsSum(G(W), f, W)
      BY <1>2, <1>3, <3>1
    <3>3. IsFiniteSet(V)
      BY <1>1, FS_Subset
    <3> HIDE DEF G, W
    <3>4. G(V)[W] = G(W)[W]
      BY <3>1, <3>2, <3>3, SumsAgree
    <3>5. G(V)[V] = f[Pick(V)] + G(V)[W]
      BY <2>2, <3>2 DEF IsSum, W
    <3>6. g[V] = f[Pick(V)] + G(W)[W]
      BY <2>2 DEF W
    <3> QED
      BY <3>4, <3>5, <3>6
  <2> QED
    BY <2>1, <2>2
<1>4. ASSUME NEW V \in SUBSET T, V # {}
      PROVE  g[V] = f[Pick(V)] + g[V \ {Pick(V)}]
  <2> DEFINE W == V \ {Pick(V)}
  <2>1. W \in SUBSET T /\ W # T
    BY <1>4, PickIn
  <2>2. g[W] = G(W)[W]
    BY <2>1, <1>3
  <2> QED
    BY <2>2, <1>4
<1>5. IsSum(g, f, T)
  <2>1. g = [V \in SUBSET T |->
               IF V = {} THEN 0 ELSE f[Pick(V)] + g[V \ {Pick(V)}]]
    <3>1. \A V \in SUBSET T :
            g[V] = IF V = {} THEN 0 ELSE f[Pick(V)] + g[V \ {Pick(V)}]
      <4>1. g[{}] = 0
        OBVIOUS
      <4> HIDE DEF g
      <4> QED
        BY <1>4, <4>1
    <3>2. g = [V \in SUBSET T |-> g[V]]
      OBVIOUS
    <3> HIDE DEF g
    <3> QED
      BY <3>1, <3>2
  <2> QED
    BY <2>1 DEF IsSum
<1> QED
  BY <1>1, <1>5

(***************************************************************************)
(* The sum of a function over a finite set, as the modules write it.       *)
(***************************************************************************)
Total(f, S) == MapThenSumSet(LAMBDA i : f[i], S)

(***************************************************************************)
(* The fold computes the sum.                                              *)
(***************************************************************************)
LEMMA TotalIsSum ==
  ASSUME NEW S, IsFiniteSet(S), NEW f, NEW g, IsSum(g, f, S)
  PROVE  Total(f, S) = g[S]
<1> DEFINE sum[T \in SUBSET S] == IF T = {} THEN 0 ELSE
               LET x == CHOOSE x \in T : TRUE IN f[x] + sum[T \ {x}]
<1>1. Total(f, S) = sum[S]
  BY DEF Total, MapThenSumSet, MapThenFoldSet
<1>2. sum = [T \in SUBSET S |-> IF T = {} THEN 0 ELSE
               LET x == CHOOSE x \in T : TRUE IN f[x] + sum[T \ {x}]]
  <2>1. g = [T \in SUBSET S |-> IF T = {} THEN 0 ELSE
               LET x == CHOOSE x \in T : TRUE IN f[x] + g[T \ {x}]]
    BY DEF IsSum, Pick
  <2> QED
    BY <2>1
<1> HIDE DEF sum
<1>3. IsSum(sum, f, S)
  BY <1>2 DEF IsSum, Pick
<1> QED
  BY <1>1, <1>3, SumsAgree

(***************************************************************************)
(* Nothing adds up to 0.                                                   *)
(***************************************************************************)
LEMMA TotalEmpty == ASSUME NEW f PROVE Total(f, {}) = 0
<1>1. PICK g : IsSum(g, f, {})
  BY SumExists, FS_EmptySet
<1>2. g[{}] = 0
  BY <1>1 DEF IsSum
<1> QED
  BY <1>1, <1>2, TotalIsSum, FS_EmptySet

(***************************************************************************)
(* The step of the recursion.                                              *)
(***************************************************************************)
LEMMA TotalPick ==
  ASSUME NEW S, IsFiniteSet(S), NEW f, S # {}
  PROVE  Total(f, S) = f[Pick(S)] + Total(f, S \ {Pick(S)})
<1> DEFINE U == S \ {Pick(S)}
<1>0. IsFiniteSet(U)
  BY FS_Subset
<1>1. PICK g : IsSum(g, f, S)
  BY SumExists
<1>2. PICK h : IsSum(h, f, U)
  BY <1>0, SumExists
<1>3. g[U] = h[U]
  BY <1>1, <1>2, SumsAgree
<1>4. g[S] = f[Pick(S)] + g[U]
  BY <1>1 DEF IsSum
<1>5. Total(f, S) = g[S] /\ Total(f, U) = h[U]
  BY <1>0, <1>1, <1>2, TotalIsSum
<1> QED
  BY <1>3, <1>4, <1>5

(***************************************************************************)
(* The sum depends on the values in the set only.                          *)
(***************************************************************************)
LEMMA TotalAgrees ==
  ASSUME NEW S, IsFiniteSet(S), NEW f, NEW h, \A x \in S : f[x] = h[x]
  PROVE  Total(f, S) = Total(h, S)
<1> DEFINE Bad == {T \in SUBSET S : Total(f, T) # Total(h, T)}
<1> SUFFICES ASSUME Bad # {} PROVE FALSE
  OBVIOUS
<1>1. PICK T \in Bad : \A V \in SUBSET T : V # T => V \notin Bad
  <2>1. Bad \subseteq SUBSET S
    OBVIOUS
  <2> HIDE DEF Bad
  <2> QED
    BY <2>1, MinimalSet
<1>2. T # {} /\ IsFiniteSet(T)
  BY <1>1, TotalEmpty, FS_Subset
<1>3. Pick(T) \in T
  BY <1>2, PickIn
<1>4. Total(f, T \ {Pick(T)}) = Total(h, T \ {Pick(T)})
  BY <1>1, <1>3
<1>5. f[Pick(T)] = h[Pick(T)]
  BY <1>3
<1> QED
  BY <1>1, <1>2, <1>4, <1>5, TotalPick

(***************************************************************************)
(* Integers add up to an integer.                                          *)
(***************************************************************************)
LEMMA TotalInt ==
  ASSUME NEW S, IsFiniteSet(S), NEW f, \A x \in S : f[x] \in Int
  PROVE  Total(f, S) \in Int
<1> DEFINE Bad == {T \in SUBSET S : Total(f, T) \notin Int}
<1> SUFFICES ASSUME Bad # {} PROVE FALSE
  OBVIOUS
<1>1. PICK T \in Bad : \A V \in SUBSET T : V # T => V \notin Bad
  <2>1. Bad \subseteq SUBSET S
    OBVIOUS
  <2> HIDE DEF Bad
  <2> QED
    BY <2>1, MinimalSet
<1>2. T # {} /\ IsFiniteSet(T)
  <2>1. Total(f, {}) \in Int
    BY TotalEmpty
  <2> QED
    BY <1>1, <2>1, FS_Subset
<1>3. Pick(T) \in T
  BY <1>2, PickIn
<1>4. Total(f, T \ {Pick(T)}) \in Int /\ f[Pick(T)] \in Int
  BY <1>1, <1>3
<1>5. Total(f, T) = f[Pick(T)] + Total(f, T \ {Pick(T)})
  BY <1>2, TotalPick
<1> QED
  BY <1>1, <1>4, <1>5

(***************************************************************************)
(* Any element may be taken out first: the choice of Pick makes no         *)
(* difference.                                                             *)
(***************************************************************************)
LEMMA TotalRemove ==
  ASSUME NEW S, IsFiniteSet(S), NEW f, \A x \in S : f[x] \in Int, NEW x \in S
  PROVE  Total(f, S) = f[x] + Total(f, S \ {x})
<1> DEFINE Bad == {T \in SUBSET S : \E y \in T :
                     Total(f, T) # f[y] + Total(f, T \ {y})}
<1> SUFFICES ASSUME Bad # {} PROVE FALSE
  OBVIOUS
<1>1. PICK T \in Bad : \A V \in SUBSET T : V # T => V \notin Bad
  <2>1. Bad \subseteq SUBSET S
    OBVIOUS
  <2> HIDE DEF Bad
  <2> QED
    BY <2>1, MinimalSet
<1>2. PICK y \in T : Total(f, T) # f[y] + Total(f, T \ {y})
  BY <1>1
<1> DEFINE p == Pick(T)
<1>3. IsFiniteSet(T) /\ p \in T
  BY <1>1, <1>2, PickIn, FS_Subset
<1>4. Total(f, T) = f[p] + Total(f, T \ {p})
  BY <1>2, <1>3, TotalPick
<1>5. p # y
  BY <1>2, <1>4
<1> HIDE DEF p
<1>6. T \ {p} \notin Bad /\ T \ {y} \notin Bad
  BY <1>1, <1>2, <1>3
<1>7. Total(f, T \ {p}) = f[y] + Total(f, (T \ {p}) \ {y})
  BY <1>1, <1>2, <1>5, <1>6
<1>8. Total(f, T \ {y}) = f[p] + Total(f, (T \ {y}) \ {p})
  BY <1>1, <1>3, <1>5, <1>6
<1>9. (T \ {p}) \ {y} = (T \ {y}) \ {p}
  OBVIOUS
<1>10. Total(f, (T \ {y}) \ {p}) \in Int
  <2>1. IsFiniteSet((T \ {y}) \ {p})
    BY <1>3, FS_Subset
  <2> QED
    BY <1>1, <2>1, TotalInt
<1>11. f[p] \in Int /\ f[y] \in Int
  BY <1>1, <1>2, <1>3
<1>12. PICK r \in Int : r = Total(f, (T \ {y}) \ {p})
  BY <1>10
<1>13. Total(f, T \ {p}) = f[y] + r
  BY <1>7, <1>9, <1>12
<1>14. Total(f, T \ {y}) = f[p] + r
  BY <1>8, <1>12
<1>15. Total(f, T) = f[p] + (f[y] + r)
  BY <1>4, <1>13
<1>16. f[p] + (f[y] + r) = f[y] + (f[p] + r)
  BY <1>11, <1>12
<1> QED
  BY <1>2, <1>14, <1>15, <1>16

(***************************************************************************)
(* One element more.                                                       *)
(***************************************************************************)
LEMMA TotalInsert ==
  ASSUME NEW S, IsFiniteSet(S), NEW f, NEW x, x \notin S,
         f[x] \in Int, \A y \in S : f[y] \in Int
  PROVE  Total(f, S \union {x}) = f[x] + Total(f, S)
<1> DEFINE T == S \union {x}
<1>1. IsFiniteSet(T)
  BY FS_AddElement
<1>2. T \ {x} = S
  OBVIOUS
<1>3. \A y \in T : f[y] \in Int
  OBVIOUS
<1> HIDE DEF T
<1>4. x \in T
  BY DEF T
<1>5. Total(f, T) = f[x] + Total(f, T \ {x})
  BY <1>1, <1>3, <1>4, TotalRemove
<1> QED
  BY <1>2, <1>5 DEF T

(***************************************************************************)
(* Another value for one element.                                          *)
(***************************************************************************)
LEMMA TotalReplace ==
  ASSUME NEW S, IsFiniteSet(S), NEW f, NEW h, NEW x \in S,
         \A y \in S : f[y] \in Int, h[x] \in Int,
         \A y \in S \ {x} : h[y] = f[y]
  PROVE  Total(h, S) = Total(f, S) - f[x] + h[x]
<1>1. IsFiniteSet(S \ {x})
  BY FS_Subset
<1>2. Total(h, S \ {x}) = Total(f, S \ {x})
  BY <1>1, TotalAgrees
<1>3. \A y \in S : h[y] \in Int
  OBVIOUS
<1>4. /\ Total(f, S) = f[x] + Total(f, S \ {x})
      /\ Total(h, S) = h[x] + Total(h, S \ {x})
  BY <1>3, TotalRemove
<1>5. Total(f, S \ {x}) \in Int
  BY <1>1, TotalInt
<1> QED
  BY <1>2, <1>4, <1>5

(***************************************************************************)
(* What is 0 adds nothing.                                                 *)
(***************************************************************************)
LEMMA TotalSupport ==
  ASSUME NEW S, IsFiniteSet(S), NEW f, \A x \in S : f[x] \in Int,
         NEW U \in SUBSET S, \A x \in S \ U : f[x] = 0
  PROVE  Total(f, S) = Total(f, U)
<1> DEFINE Bad == {T \in SUBSET (S \ U) : Total(f, U \union T) # Total(f, U)}
<1>1. Bad = {} => Total(f, S) = Total(f, U)
  <2>1. U \union (S \ U) = S
    OBVIOUS
  <2>2. Bad = {} => Total(f, U \union (S \ U)) = Total(f, U)
    OBVIOUS
  <2> QED
    BY <2>1, <2>2
<1>2. SUFFICES ASSUME Bad # {} PROVE FALSE
  BY <1>1
<1>3. PICK T \in Bad : \A V \in SUBSET T : V # T => V \notin Bad
  <2>1. Bad \subseteq SUBSET (S \ U) /\ IsFiniteSet(S \ U)
    BY FS_Subset
  <2> HIDE DEF Bad
  <2> QED
    BY <1>2, <2>1, MinimalSet
<1>4. T # {}
  <2>1. U \union {} = U
    OBVIOUS
  <2> QED
    BY <1>3, <2>1
<1> DEFINE x == Pick(T)
           V == U \union (T \ {x})
<1>5. x \in T /\ x \notin V /\ V \union {x} = U \union T /\ V \subseteq S
  BY <1>3, <1>4, PickIn
<1>6. Total(f, V) = Total(f, U)
  BY <1>3, <1>5
<1>7. IsFiniteSet(V) /\ f[x] = 0 /\ \A y \in V : f[y] \in Int
  BY <1>3, <1>5, FS_Subset
<1>8. Total(f, U \union T) # Total(f, U)
  BY <1>3
<1> HIDE DEF x, V, Bad
<1>9. Total(f, V \union {x}) = f[x] + Total(f, V)
  BY <1>5, <1>7, TotalInsert
<1>10. Total(f, V) \in Int
  BY <1>7, TotalInt
<1>11. f[x] + Total(f, V) = Total(f, V)
  BY <1>7, <1>10
<1>12. Total(f, U \union T) = Total(f, V)
  BY <1>5, <1>9, <1>11
<1> QED
  BY <1>6, <1>8, <1>12

(***************************************************************************)
(* Two parts of a set have two sums.                                       *)
(***************************************************************************)
LEMMA TotalSplit ==
  ASSUME NEW S, IsFiniteSet(S), NEW f, \A x \in S : f[x] \in Int, NEW U \in SUBSET S
  PROVE  Total(f, S) = Total(f, U) + Total(f, S \ U)
<1> DEFINE Bad == {T \in SUBSET S : Total(f, S) # Total(f, T) + Total(f, S \ T)}
<1> SUFFICES ASSUME Bad # {} PROVE FALSE
  OBVIOUS
<1>1. PICK T \in Bad : \A V \in SUBSET T : V # T => V \notin Bad
  <2>1. Bad \subseteq SUBSET S
    OBVIOUS
  <2> HIDE DEF Bad
  <2> QED
    BY <2>1, MinimalSet
<1>2. T # {}
  <2>1. S \ {} = S /\ Total(f, S) \in Int
    BY TotalInt
  <2>2. Total(f, S) = Total(f, {}) + Total(f, S \ {})
    BY <2>1, TotalEmpty
  <2> QED
    BY <1>1, <2>2
<1> DEFINE p == Pick(T)
           V == T \ {p}
<1>3. /\ p \in T /\ p \in S \ V /\ V \subseteq S /\ (S \ V) \ {p} = S \ T
      /\ V \subseteq T /\ V # T
  BY <1>1, <1>2, PickIn
<1>4. IsFiniteSet(T) /\ IsFiniteSet(V) /\ IsFiniteSet(S \ V) /\ IsFiniteSet(S \ T)
  BY <1>1, FS_Subset
<1>5. Total(f, S) = Total(f, V) + Total(f, S \ V)
  BY <1>1, <1>3
<1>6. Total(f, T) = f[p] + Total(f, V)
  BY <1>1, <1>3, <1>4, TotalRemove
<1> HIDE DEF p, V
<1>7. Total(f, S \ V) = f[p] + Total(f, S \ T)
  <2>1. Total(f, S \ V) = f[p] + Total(f, (S \ V) \ {p})
    BY <1>3, <1>4, TotalRemove
  <2> QED
    BY <1>3, <2>1
<1>8. f[p] \in Int /\ Total(f, V) \in Int /\ Total(f, S \ T) \in Int
  BY <1>1, <1>3, <1>4, TotalInt
<1>9. Total(f, S) = Total(f, T) + Total(f, S \ T)
  BY <1>5, <1>6, <1>7, <1>8
<1> QED
  BY <1>1, <1>9

(***************************************************************************)
(* Naturals add up to a natural.                                           *)
(***************************************************************************)
LEMMA TotalNat ==
  ASSUME NEW S, IsFiniteSet(S), NEW f, \A x \in S : f[x] \in Nat
  PROVE  Total(f, S) \in Nat
<1> DEFINE Bad == {T \in SUBSET S : Total(f, T) \notin Nat}
<1> SUFFICES ASSUME Bad # {} PROVE FALSE
  OBVIOUS
<1>1. PICK T \in Bad : \A V \in SUBSET T : V # T => V \notin Bad
  <2>1. Bad \subseteq SUBSET S
    OBVIOUS
  <2> HIDE DEF Bad
  <2> QED
    BY <2>1, MinimalSet
<1>2. T # {} /\ IsFiniteSet(T)
  <2>1. Total(f, {}) \in Nat
    BY TotalEmpty
  <2> QED
    BY <1>1, <2>1, FS_Subset
<1>3. Pick(T) \in T
  BY <1>2, PickIn
<1>4. Total(f, T \ {Pick(T)}) \in Nat /\ f[Pick(T)] \in Nat
  BY <1>1, <1>3
<1>5. Total(f, T) = f[Pick(T)] + Total(f, T \ {Pick(T)})
  BY <1>2, TotalPick
<1> QED
  BY <1>1, <1>4, <1>5

(***************************************************************************)
(* Where every element counts for no more, so does the sum.                *)
(***************************************************************************)
LEMMA TotalAtMost ==
  ASSUME NEW S, IsFiniteSet(S), NEW f, NEW h,
         \A x \in S : f[x] \in Int /\ h[x] \in Int /\ h[x] <= f[x]
  PROVE  Total(h, S) <= Total(f, S)
<1> DEFINE Bad == {T \in SUBSET S : ~(Total(h, T) <= Total(f, T))}
<1> SUFFICES ASSUME Bad # {} PROVE FALSE
  OBVIOUS
<1>1. PICK T \in Bad : \A V \in SUBSET T : V # T => V \notin Bad
  <2>1. Bad \subseteq SUBSET S
    OBVIOUS
  <2> HIDE DEF Bad
  <2> QED
    BY <2>1, MinimalSet
<1>2. T # {} /\ IsFiniteSet(T)
  <2>1. Total(h, {}) <= Total(f, {})
    BY TotalEmpty
  <2> QED
    BY <1>1, <2>1, FS_Subset
<1> DEFINE x == Pick(T)
           U == T \ {x}
<1>3. x \in T
  BY <1>2, PickIn
<1>4. Total(h, U) <= Total(f, U)
  BY <1>1, <1>3
<1>5. IsFiniteSet(U)
  BY <1>2, FS_Subset
<1>6. Total(h, U) \in Int /\ Total(f, U) \in Int
  BY <1>1, <1>5, TotalInt
<1>7. f[x] \in Int /\ h[x] \in Int /\ h[x] <= f[x]
  BY <1>1, <1>3
<1>8. Total(h, T) = h[x] + Total(h, U) /\ Total(f, T) = f[x] + Total(f, U)
  BY <1>2, TotalPick
<1> HIDE DEF x, U
<1>9. Total(h, T) <= Total(f, T)
  BY <1>4, <1>6, <1>7, <1>8
<1> QED
  BY <1>1, <1>9

(***************************************************************************)
(* The same amount more for every element.                                 *)
(***************************************************************************)
LEMMA TotalShift ==
  ASSUME NEW S, IsFiniteSet(S), NEW f, NEW h, NEW k \in Int,
         \A x \in S : f[x] \in Int /\ h[x] = f[x] + k
  PROVE  Total(h, S) = Total(f, S) + Cardinality(S) * k
<1> DEFINE Bad == {T \in SUBSET S : Total(h, T) # Total(f, T) + Cardinality(T) * k}
<1> SUFFICES ASSUME Bad # {} PROVE FALSE
  OBVIOUS
<1>1. PICK T \in Bad : \A V \in SUBSET T : V # T => V \notin Bad
  <2>1. Bad \subseteq SUBSET S
    OBVIOUS
  <2> HIDE DEF Bad
  <2> QED
    BY <2>1, MinimalSet
<1>2. T # {} /\ IsFiniteSet(T)
  <2>1. Total(h, {}) = Total(f, {}) + Cardinality({}) * k
    BY TotalEmpty, FS_EmptySet
  <2> QED
    BY <1>1, <2>1, FS_Subset
<1> DEFINE p == Pick(T)
           V == T \ {p}
<1>3. p \in T /\ V \subseteq T /\ V # T /\ V \subseteq S
  BY <1>1, <1>2, PickIn
<1>4. Total(h, V) = Total(f, V) + Cardinality(V) * k
  BY <1>1, <1>3
<1>5. Total(f, T) = f[p] + Total(f, V) /\ Total(h, T) = h[p] + Total(h, V)
  BY <1>2, TotalPick
<1>6. IsFiniteSet(V) /\ Cardinality(V) \in Nat /\ Cardinality(T) = Cardinality(V) + 1
  <2>1. IsFiniteSet(V) /\ Cardinality(V) = Cardinality(T) - 1
    BY <1>2, <1>3, FS_RemoveElement
  <2>2. Cardinality(V) \in Nat /\ Cardinality(T) \in Nat
    BY <1>2, <2>1, FS_CardinalityType
  <2> QED
    BY <2>1, <2>2
<1>7. f[p] \in Int /\ h[p] = f[p] + k /\ Total(f, V) \in Int
  BY <1>1, <1>3, <1>6, TotalInt
<1>8. PICK n \in Nat, F \in Int : n = Cardinality(V) /\ F = Total(f, V)
  BY <1>6, <1>7
<1>9. (n + 1) * k = n * k + k /\ n * k \in Int
  OBVIOUS
<1> HIDE DEF p, V
<1>10. Total(h, T) = (f[p] + k) + (F + n * k)
  BY <1>4, <1>5, <1>7, <1>8
<1>11. Total(f, T) + Cardinality(T) * k = (f[p] + F) + (n * k + k)
  BY <1>5, <1>6, <1>8, <1>9
<1>12. (f[p] + k) + (F + n * k) = (f[p] + F) + (n * k + k)
  <2>1. PICK m \in Int : m = n * k
    BY <1>9
  <2>2. PICK d \in Int : d = f[p]
    BY <1>7
  <2>3. (d + k) + (F + m) = (d + F) + (m + k)
    OBVIOUS
  <2> QED
    BY <2>1, <2>2, <2>3
<1> QED
  BY <1>1, <1>10, <1>11, <1>12
=============================================================================
