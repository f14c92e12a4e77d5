---------------------------- MODULE FunctionSums ----------------------------
(***************************************************************************)
(* Sums of a function over a finite set: what SumFunctionOnSet of the      *)
(* community modules gives when an element is added or removed, and when   *)
(* the function is changed at one point.  It is a recursive function; that *)
(* it obeys its equation, and does not depend on the order in which it     *)
(* takes the elements, is shown by taking a smallest set for which it does *)
(* not.                                                                    *)
(***************************************************************************)
EXTENDS Integers, FiniteSets, Functions, FiniteSetTheorems, WellFoundedInduction, TLAPS

\* The element of S that the sum takes first.
First(S) == CHOOSE x \in S : TRUE

\* it maps each subset of S to the sum of f over it.
SumsUp(f, S, it) ==
  it = [T \in SUBSET S |-> IF T = {} THEN 0 ELSE f[First(T)] + it[T \ {First(T)}]]

\* What SumFunctionOnSet is: one of the functions that sum up the subsets of S.
LEMMA SumIsChosen ==
  ASSUME NEW f, NEW S
  PROVE  SumFunctionOnSet(f, S) = (CHOOSE it : SumsUp(f, S, it))[S]
BY DEF SumFunctionOnSet, FoldFunctionOnSet, MapThenFoldSet, SumsUp, First

\* Among any subsets of a finite set there is a smallest.
LEMMA SmallestSubset ==
  ASSUME NEW S, IsFiniteSet(S), NEW W, W \subseteq SUBSET S, W # {}
  PROVE  \E T \in W : \A U \in W : U \subseteq T => U = T
<1>1. IsWellFoundedOn(StrictSubsetOrdering(S), SUBSET S)
  BY FS_StrictSubsetOrderingWellFounded, FS_FiniteSubsetsOfFinite
<1> DEFINE R == StrictSubsetOrdering(S)
<1>2. IsWellFoundedOn(R, SUBSET S)
  BY <1>1
<1> HIDE DEF R
<1>3. \E T \in W : \A U \in W : ~(<<U, T>> \in R)
  BY <1>2, WFMin
<1>4. PICK T \in W : \A U \in W : ~(<<U, T>> \in R)
  BY <1>3
<1>5. ASSUME NEW U \in W, U \subseteq T PROVE U = T
  <2>1. <<U, T>> \notin R
    BY <1>4
  <2>2. U \in SUBSET S /\ T \in SUBSET S
    OBVIOUS
  <2>3. QED
    BY <2>1, <2>2, <1>5 DEF R, StrictSubsetOrdering
<1>6. QED
  BY <1>5

\* The sum takes an element of the set.
LEMMA FirstIsIn == ASSUME NEW T, T # {} PROVE First(T) \in T
BY DEF First

\* Two sums agree where both are defined.
LEMMA SumsAgree ==
  ASSUME NEW S, IsFiniteSet(S), NEW f, NEW V \in SUBSET S,
         NEW i, SumsUp(f, S, i), NEW j, SumsUp(f, V, j)
  PROVE  i[V] = j[V]
<1> DEFINE W == {T \in SUBSET V : i[T] # j[T]}
<1>1. SUFFICES ASSUME W # {} PROVE FALSE
  <2>1. W = {} => V \notin W
    OBVIOUS
  <2>2. QED
    BY <2>1
<1>2. IsFiniteSet(V)
  BY FS_Subset
<1>3. PICK T \in W : \A U \in W : U \subseteq T => U = T
  <2>1. W \subseteq SUBSET V
    OBVIOUS
  <2> HIDE DEF W
  <2>2. QED
    BY <1>1, <1>2, <2>1, SmallestSubset
<1>4. /\ i[T] = IF T = {} THEN 0 ELSE f[First(T)] + i[T \ {First(T)}]
      /\ j[T] = IF T = {} THEN 0 ELSE f[First(T)] + j[T \ {First(T)}]
  BY DEF SumsUp
<1>5. T # {} => T \ {First(T)} \in SUBSET V /\ T \ {First(T)} # T
  BY FirstIsIn
<1>6. T # {} => i[T \ {First(T)}] = j[T \ {First(T)}]
  BY <1>3, <1>5
<1>7. QED
  BY <1>4, <1>6

\* There is a sum over each finite set: a smallest set without one would have one.
LEMMA SumsExist ==
  ASSUME NEW S, IsFiniteSet(S), NEW f
  PROVE  \E it : SumsUp(f, S, it)
<1> DEFINE W == {T \in SUBSET S : ~\E it : SumsUp(f, T, it)}
<1>1. SUFFICES ASSUME W # {} PROVE FALSE
  <2>1. W = {} => S \notin W
    OBVIOUS
  <2>2. QED
    BY <2>1
<1>2. PICK T \in W : \A U \in W : U \subseteq T => U = T
  <2>1. W \subseteq SUBSET S
    OBVIOUS
  <2> HIDE DEF W
  <2>2. QED
    BY <1>1, <2>1, SmallestSubset
<1> DEFINE Chosen(U) == CHOOSE it : SumsUp(f, U, it)
           Sum(U) == Chosen(U)[U]
           it == [U \in SUBSET T |->
                    IF U = {} THEN 0 ELSE f[First(U)] + Sum(U \ {First(U)})]
<1>3. ASSUME NEW U \in SUBSET T, U # T PROVE SumsUp(f, U, Chosen(U)) /\ IsFiniteSet(U)
  <2>1. U \notin W /\ U \in SUBSET S
    BY <1>2, <1>3
  <2>2. \E g : SumsUp(f, U, g)
    BY <2>1
  <2>3. IsFiniteSet(U)
    BY <2>1, FS_Subset
  <2>4. QED
    BY <2>2, <2>3
<1>4. ASSUME NEW U \in SUBSET T, U # T
      PROVE  Sum(U) = IF U = {} THEN 0 ELSE f[First(U)] + Sum(U \ {First(U)})
  <2> DEFINE V == U \ {First(U)}
             c == Chosen(U)
             d == Chosen(V)
  <2>1. SumsUp(f, U, c) /\ IsFiniteSet(U)
    BY <1>3, <1>4
  <2>2. SumsUp(f, V, d)
    <3>1. V \in SUBSET T /\ V # T
      BY <1>4
    <3>2. QED
      BY <3>1, <1>3
  <2> HIDE DEF Chosen
  <2>3. c[U] = IF U = {} THEN 0 ELSE f[First(U)] + c[V]
    BY <2>1 DEF SumsUp
  <2> HIDE DEF c, d, V
  <2>4. c[V] = d[V]
    BY <2>1, <2>2, SumsAgree DEF V
  <2>5. c[U] = IF U = {} THEN 0 ELSE f[First(U)] + d[V]
    BY <2>3, <2>4
  <2>6. QED
    BY <2>5 DEF c, d, V
<1>5. SumsUp(f, T, it)
  <2> HIDE DEF Chosen, Sum
  <2>1. ASSUME NEW U \in SUBSET T, U # {}
        PROVE  it[U] = f[First(U)] + it[U \ {First(U)}]
    <3>1. U \ {First(U)} \in SUBSET T /\ U \ {First(U)} # T
      BY <2>1, FirstIsIn
    <3>2. it[U \ {First(U)}] = Sum(U \ {First(U)})
      BY <1>4, <3>1
    <3>3. it[U] = f[First(U)] + Sum(U \ {First(U)})
      BY <2>1
    <3>4. QED
      BY <3>2, <3>3
  <2>2. it[{}] = 0
    OBVIOUS
  <2>3. it = [U \in SUBSET T |-> it[U]]
    OBVIOUS
  <2> HIDE DEF it
  <2>4. \A U \in SUBSET T : it[U] = IF U = {} THEN 0 ELSE f[First(U)] + it[U \ {First(U)}]
    BY <2>1, <2>2
  <2>5. QED
    BY <2>3, <2>4 DEF SumsUp
<1>6. QED
  BY <1>5, <1>2

\* The equation of the sum: one element, and the sum of the others.
LEMMA SumTakesOne ==
  ASSUME NEW S, IsFiniteSet(S), NEW f
  PROVE  SumFunctionOnSet(f, S) =
           IF S = {} THEN 0 ELSE f[First(S)] + SumFunctionOnSet(f, S \ {First(S)})
<1> DEFINE V == S \ {First(S)}
           c == CHOOSE it : SumsUp(f, S, it)
           d == CHOOSE it : SumsUp(f, V, it)
<1>1. SumsUp(f, S, c) /\ SumsUp(f, V, d)
  <2>1. IsFiniteSet(V)
    BY FS_Subset
  <2>2. QED
    BY <2>1, SumsExist
<1>2. SumFunctionOnSet(f, S) = c[S] /\ SumFunctionOnSet(f, V) = d[V]
  BY SumIsChosen
<1> HIDE DEF c, d
<1>3. c[S] = IF S = {} THEN 0 ELSE f[First(S)] + c[V]
  BY <1>1 DEF SumsUp
<1>4. c[V] = d[V]
  BY <1>1, SumsAgree
<1>5. QED
  BY <1>2, <1>3, <1>4

\* The sum over the empty set is zero.
LEMMA SumOfNone == ASSUME NEW f PROVE SumFunctionOnSet(f, {}) = 0
BY SumTakesOne, FS_EmptySet

\* A sum of integers is an integer.
LEMMA SumIsInt ==
  ASSUME NEW S, IsFiniteSet(S), NEW f, \A x \in S : f[x] \in Int
  PROVE  SumFunctionOnSet(f, S) \in Int
<1> DEFINE W == {T \in SUBSET S : SumFunctionOnSet(f, T) \notin Int}
<1>1. SUFFICES ASSUME W # {} PROVE FALSE
  <2>1. W = {} => S \notin W
    OBVIOUS
  <2>2. QED
    BY <2>1
<1>2. PICK T \in W : \A U \in W : U \subseteq T => U = T
  <2>1. W \subseteq SUBSET S
    OBVIOUS
  <2> HIDE DEF W
  <2>2. QED
    BY <1>1, <2>1, SmallestSubset
<1>3. SumFunctionOnSet(f, T) =
        IF T = {} THEN 0 ELSE f[First(T)] + SumFunctionOnSet(f, T \ {First(T)})
  BY FS_Subset, SumTakesOne
<1>4. T # {} => First(T) \in S /\ T \ {First(T)} \notin W
  BY <1>2, FirstIsIn
<1>5. T # {} => SumFunctionOnSet(f, T \ {First(T)}) \in Int
  BY <1>4
<1>6. QED
  BY <1>3, <1>4, <1>5

\* Any element may be taken out first.
LEMMA SumTakesAny ==
  ASSUME NEW S, IsFiniteSet(S), NEW f, \A x \in S : f[x] \in Int, NEW e \in S
  PROVE  SumFunctionOnSet(f, S) = f[e] + SumFunctionOnSet(f, S \ {e})
<1> DEFINE Sum(T) == SumFunctionOnSet(f, T)
           W == {T \in SUBSET S : \E x \in T : Sum(T) # f[x] + Sum(T \ {x})}
<1>1. SUFFICES ASSUME W # {} PROVE FALSE
  <2>1. W = {} => S \notin W
    OBVIOUS
  <2>2. QED
    BY <2>1
<1>2. PICK T \in W : \A U \in W : U \subseteq T => U = T
  <2>1. W \subseteq SUBSET S
    OBVIOUS
  <2> HIDE DEF W
  <2>2. QED
    BY <1>1, <2>1, SmallestSubset
<1>3. PICK x \in T : Sum(T) # f[x] + Sum(T \ {x})
  OBVIOUS
<1> DEFINE y == First(T)
<1>4. y \in T /\ IsFiniteSet(T) /\ T \in SUBSET S
  BY FirstIsIn, FS_Subset
<1>5. Sum(T) = f[y] + Sum(T \ {y})
  BY <1>4, SumTakesOne
<1>6. x # y
  BY <1>3, <1>5
<1>7. ASSUME NEW z \in T, NEW u \in T, u # z
      PROVE  Sum(T \ {z}) = f[u] + Sum((T \ {z}) \ {u})
  <2>1. T \ {z} \notin W /\ T \ {z} \in SUBSET S /\ u \in T \ {z}
    BY <1>2, <1>7
  <2> HIDE DEF Sum
  <2>2. QED
    BY <2>1
<1>8. (T \ {x}) \ {y} = (T \ {y}) \ {x}
  OBVIOUS
<1>9. \A U \in SUBSET S : Sum(U) \in Int
  <2>1. ASSUME NEW U \in SUBSET S PROVE Sum(U) \in Int
    BY FS_Subset, SumIsInt
  <2>2. QED
    BY <2>1
<1> HIDE DEF Sum, y
<1>10. Sum(T \ {x}) = f[y] + Sum((T \ {x}) \ {y}) /\ Sum(T \ {y}) = f[x] + Sum((T \ {x}) \ {y})
  BY <1>4, <1>6, <1>7, <1>8
<1>11. f[x] \in Int /\ f[y] \in Int /\ Sum((T \ {x}) \ {y}) \in Int
  <2>1. x \in S /\ y \in S /\ (T \ {x}) \ {y} \in SUBSET S
    BY <1>4
  <2>2. QED
    BY <2>1, <1>9
<1>12. QED
  BY <1>3, <1>5, <1>10, <1>11

\* An element joins the set.
LEMMA SumAdds ==
  ASSUME NEW S, IsFiniteSet(S), NEW e, e \notin S, NEW f, \A x \in S \cup {e} : f[x] \in Int
  PROVE  SumFunctionOnSet(f, S \cup {e}) = SumFunctionOnSet(f, S) + f[e]
<1>1. IsFiniteSet(S \cup {e}) /\ (S \cup {e}) \ {e} = S
  BY FS_AddElement
<1>2. SumFunctionOnSet(f, S \cup {e}) = f[e] + SumFunctionOnSet(f, S)
  BY <1>1, SumTakesAny
<1>3. QED
  BY <1>2, SumIsInt

\* An element leaves the set.
LEMMA SumLoses ==
  ASSUME NEW S, IsFiniteSet(S), NEW e \in S, NEW f, \A x \in S : f[x] \in Int
  PROVE  SumFunctionOnSet(f, S \ {e}) = SumFunctionOnSet(f, S) - f[e]
<1>1. SumFunctionOnSet(f, S) = f[e] + SumFunctionOnSet(f, S \ {e})
  BY SumTakesAny
<1>2. SumFunctionOnSet(f, S \ {e}) \in Int
  BY FS_Subset, SumIsInt
<1>3. QED
  BY <1>1, <1>2

\* The sum depends on the values of the function on the set only.
LEMMA SumsSame ==
  ASSUME NEW S, IsFiniteSet(S), NEW f, NEW g, \A x \in S : f[x] = g[x]
  PROVE  SumFunctionOnSet(f, S) = SumFunctionOnSet(g, S)
<1> DEFINE W == {T \in SUBSET S : SumFunctionOnSet(f, T) # SumFunctionOnSet(g, T)}
<1>1. SUFFICES ASSUME W # {} PROVE FALSE
  <2>1. W = {} => S \notin W
    OBVIOUS
  <2>2. QED
    BY <2>1
<1>2. PICK T \in W : \A U \in W : U \subseteq T => U = T
  <2>1. W \subseteq SUBSET S
    OBVIOUS
  <2> HIDE DEF W
  <2>2. QED
    BY <1>1, <2>1, SmallestSubset
<1>3. /\ SumFunctionOnSet(f, T) =
           IF T = {} THEN 0 ELSE f[First(T)] + SumFunctionOnSet(f, T \ {First(T)})
      /\ SumFunctionOnSet(g, T) =
           IF T = {} THEN 0 ELSE g[First(T)] + SumFunctionOnSet(g, T \ {First(T)})
  BY FS_Subset, SumTakesOne
<1>4. T # {} => First(T) \in S /\ T \ {First(T)} \notin W
  BY <1>2, FirstIsIn
<1>5. T # {} => SumFunctionOnSet(f, T \ {First(T)}) = SumFunctionOnSet(g, T \ {First(T)})
  BY <1>4
<1>6. QED
  BY <1>3, <1>4, <1>5

\* A sum of zeros is zero.
LEMMA SumOfZeros ==
  ASSUME NEW S, IsFiniteSet(S), NEW f, \A x \in S : f[x] = 0
  PROVE  SumFunctionOnSet(f, S) = 0
<1> DEFINE W == {T \in SUBSET S : SumFunctionOnSet(f, T) # 0}
<1>1. SUFFICES ASSUME W # {} PROVE FALSE
  <2>1. W = {} => S \notin W
    OBVIOUS
  <2>2. QED
    BY <2>1
<1>2. PICK T \in W : \A U \in W : U \subseteq T => U = T
  <2>1. W \subseteq SUBSET S
    OBVIOUS
  <2> HIDE DEF W
  <2>2. QED
    BY <1>1, <2>1, SmallestSubset
<1>3. SumFunctionOnSet(f, T) =
        IF T = {} THEN 0 ELSE f[First(T)] + SumFunctionOnSet(f, T \ {First(T)})
  BY FS_Subset, SumTakesOne
<1>4. T # {} => First(T) \in S /\ T \ {First(T)} \notin W
  BY <1>2, FirstIsIn
<1>5. T # {} => SumFunctionOnSet(f, T \ {First(T)}) = 0
  BY <1>4
<1>6. QED
  BY <1>3, <1>4, <1>5
=============================================================================
