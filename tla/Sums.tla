-------------------------------- MODULE Sums --------------------------------
(***************************************************************************)
(* What SumFunctionOnSet(f, S) of the community modules adds up, for the   *)
(* books of the contracts: sums of integers over a finite set.  It is a    *)
(* recursive function on the subsets of S, chosen by its equation.  The    *)
(* lemmas show that a solution exists, that it does not depend on the      *)
(* order of the summands, and how the sum changes with them.               *)
(***************************************************************************)
EXTENDS Integers, Functions, FiniteSetTheorems, WellFoundedInduction, TLAPS

-----------------------------------------------------------------------------
\* Induction over the numbers in a set, from the least one that is not in it.
LEMMA NumbersInduction ==
    ASSUME NEW P, 0 \in P, \A n \in Nat : n \in P => n + 1 \in P
    PROVE  \A n \in Nat : n \in P
<1> DEFINE Bad == Nat \ P
           less == OpToRel(<, Nat)
<1>1. \A x, y \in Nat : y < x => <<y, x>> \in less
  BY DEF OpToRel
<1>2. IsWellFoundedOn(less, Nat)
  BY NatLessThanWellFounded
<1> HIDE DEF less
<1>3. ASSUME Bad # {}  PROVE FALSE
  <2>1. Bad \subseteq Nat
    OBVIOUS
  <2> HIDE DEF Bad
  <2>2. PICK x \in Bad : \A y \in Bad : ~ (<<y, x>> \in less)
    BY <1>2, <1>3, <2>1, WFMin
  <2>3. x \in Nat /\ x # 0 /\ x \notin P
    BY <2>1, <2>2 DEF Bad
  <2>4. x - 1 \in Nat /\ x - 1 < x
    BY <2>3
  <2>5. x - 1 \notin Bad
    BY <1>1, <2>2, <2>3, <2>4
  <2>6. x - 1 \in P
    BY <2>4, <2>5 DEF Bad
  <2> QED
    BY <2>3, <2>4, <2>6
<1> QED
  BY <1>3

\* Induction over the subsets of a finite set, one element at a time.
LEMMA SubsetInduction ==
    ASSUME NEW S, IsFiniteSet(S), NEW P, {} \in P,
           \A T \in SUBSET S : T # {} /\ (\A x \in T : T \ {x} \in P) => T \in P
    PROVE  \A T \in SUBSET S : T \in P
<1> DEFINE N == {n \in Nat : \A T \in SUBSET S : Cardinality(T) = n => T \in P}
<1>1. \A T \in SUBSET S : IsFiniteSet(T) /\ Cardinality(T) \in Nat
  BY FS_Subset, FS_CardinalityType
<1>2. 0 \in N
  BY <1>1, FS_EmptySet
<1>3. ASSUME NEW n \in Nat, n \in N  PROVE n + 1 \in N
  <2> SUFFICES ASSUME NEW T \in SUBSET S, Cardinality(T) = n + 1  PROVE T \in P
    OBVIOUS
  <2>1. T # {}
    <3>1. Cardinality({}) = 0
      BY FS_EmptySet
    <3>2. n + 1 # 0
      BY <1>3
    <3> QED
      BY <3>1, <3>2
  <2>2. ASSUME NEW x \in T  PROVE T \ {x} \in P
    <3>1. Cardinality(T \ {x}) = n /\ T \ {x} \in SUBSET S
      BY <1>1, FS_RemoveElement
    <3> QED
      BY <1>3, <3>1
  <2> QED
    BY <2>1, <2>2
<1> HIDE DEF N
<1>4. \A n \in Nat : n \in N
  BY <1>2, <1>3, NumbersInduction
<1> QED
  BY <1>1, <1>4 DEF N

-----------------------------------------------------------------------------
Pick(T) == CHOOSE x \in T : TRUE

\* The equation of a sum: nothing, or what was picked and the sum of the rest.
OneMore(f, g, T) == IF T = {} THEN 0 ELSE f[Pick(T)] + g[T \ {Pick(T)}]

AddsUp(f, S, g) == g = [T \in SUBSET S |-> OneMore(f, g, T)]

LEMMA SumUnfolds ==
    ASSUME NEW f, NEW S
    PROVE  SumFunctionOnSet(f, S) = (CHOOSE g : AddsUp(f, S, g))[S]
BY Zenon DEF SumFunctionOnSet, FoldFunctionOnSet, MapThenFoldSet, AddsUp, OneMore, Pick

LEMMA PickIsMember == ASSUME NEW T, T # {}  PROVE Pick(T) \in T
BY DEF Pick

\* The equation has a solution: functions that solve it for ever larger sets.
LEMMA SolutionExists ==
    ASSUME NEW f, NEW S, IsFiniteSet(S)
    PROVE  \E g : AddsUp(f, S, g)
<1> DEFINE Solves(g, n) ==
              \A T \in SUBSET S : Cardinality(T) <= n => g[T] = OneMore(f, g, T)
           N == {n \in Nat : \E g : Solves(g, n)}
<1>1. \A T \in SUBSET S : /\ IsFiniteSet(T) /\ Cardinality(T) \in Nat
                          /\ Cardinality(T) <= Cardinality(S)
  BY FS_Subset, FS_CardinalityType
<1>2. \A T \in SUBSET S : \A x \in T : Cardinality(T \ {x}) = Cardinality(T) - 1
  BY <1>1, FS_RemoveElement
<1>3. ASSUME NEW n \in Nat, NEW g, Solves(g, n)
      PROVE  \E h : /\ h = [T \in SUBSET S |-> OneMore(f, g, T)]
                    /\ \A T \in SUBSET S : Cardinality(T) <= n => h[T] = g[T]
                    /\ Solves(h, n + 1)
  <2> DEFINE h == [T \in SUBSET S |-> OneMore(f, g, T)]
  <2>1. \A T \in SUBSET S : h[T] = OneMore(f, g, T)
    OBVIOUS
  <2>2. \A T \in SUBSET S : Cardinality(T) <= n => h[T] = g[T]
    BY <1>3, <2>1
  <2> HIDE DEF h
  <2>3. ASSUME NEW T \in SUBSET S, Cardinality(T) <= n + 1
        PROVE  OneMore(f, g, T) = OneMore(f, h, T)
    <3>1. CASE T = {}
      BY <3>1 DEF OneMore
    <3>2. CASE T # {}
      <4>1. Pick(T) \in T /\ T \ {Pick(T)} \in SUBSET S
        BY <3>2, PickIsMember
      <4>2. Cardinality(T \ {Pick(T)}) <= n
        BY <1>1, <1>2, <2>3, <4>1
      <4>3. h[T \ {Pick(T)}] = g[T \ {Pick(T)}]
        BY <2>2, <4>1, <4>2
      <4> QED
        BY <4>3 DEF OneMore
    <3> QED
      BY <3>1, <3>2
  <2>4. Solves(h, n + 1)
    BY <2>1, <2>3
  <2> QED
    BY <2>2, <2>4 DEF h
<1>4. 0 \in N
  <2>1. Solves([T \in SUBSET S |-> 0], 0)
    BY <1>1, FS_EmptySet DEF OneMore
  <2> QED
    BY <2>1
<1>5. ASSUME NEW n \in Nat, n \in N  PROVE n + 1 \in N
  BY <1>3, <1>5
<1>6. Cardinality(S) \in N
  <2> HIDE DEF N
  <2> QED
    BY <1>1, <1>4, <1>5, NumbersInduction
<1>7. PICK g : Solves(g, Cardinality(S))
  BY <1>6
<1>8. PICK h : /\ h = [T \in SUBSET S |-> OneMore(f, g, T)]
               /\ \A T \in SUBSET S : Cardinality(T) <= Cardinality(S) => h[T] = g[T]
  <2>1. Cardinality(S) \in Nat
    BY <1>1
  <2> HIDE DEF N
  <2> QED
    BY ZenonT(40), <1>3, <1>7, <2>1
<1>9. \A T \in SUBSET S : h[T] = g[T]
  BY <1>1, <1>8
<1>10. \A T \in SUBSET S : OneMore(f, g, T) = OneMore(f, h, T)
  <2> TAKE T \in SUBSET S
  <2>1. CASE T = {}
    BY <2>1 DEF OneMore
  <2>2. CASE T # {}
    <3>1. T \ {Pick(T)} \in SUBSET S
      OBVIOUS
    <3>2. h[T \ {Pick(T)}] = g[T \ {Pick(T)}]
      BY <1>9, <3>1
    <3> QED
      BY <3>2 DEF OneMore
  <2> QED
    BY <2>1, <2>2
<1>11. AddsUp(f, S, h)
  BY <1>8, <1>10 DEF AddsUp
<1> QED
  BY <1>11

\* Solutions agree on the sets they have in common.
LEMMA SolutionsAgree ==
    ASSUME NEW f, NEW S, NEW R \in SUBSET S, IsFiniteSet(S),
           NEW g, AddsUp(f, S, g), NEW h, AddsUp(f, R, h)
    PROVE  \A T \in SUBSET R : g[T] = h[T]
<1> DEFINE P == {T \in SUBSET R : g[T] = h[T]}
<1>1. \A T \in SUBSET R : g[T] = OneMore(f, g, T) /\ h[T] = OneMore(f, h, T)
  BY DEF AddsUp
<1>2. {} \in P
  BY <1>1 DEF OneMore
<1>3. ASSUME NEW T \in SUBSET R, T # {}, \A x \in T : T \ {x} \in P  PROVE T \in P
  <2>1. T \ {Pick(T)} \in P
    BY <1>3, PickIsMember
  <2>2. g[T \ {Pick(T)}] = h[T \ {Pick(T)}]
    BY <2>1
  <2> QED
    BY <1>1, <2>2 DEF OneMore
<1>4. IsFiniteSet(R)
  BY FS_Subset
<1> HIDE DEF P
<1>5. \A T \in SUBSET R : T \in P
  BY <1>2, <1>3, <1>4, SubsetInduction
<1> QED
  BY <1>5 DEF P

-----------------------------------------------------------------------------
LEMMA SumOfNothing == \A f : SumFunctionOnSet(f, {}) = 0
<1> TAKE f
<1> DEFINE g == CHOOSE h : AddsUp(f, {}, h)
<1>1. AddsUp(f, {}, g)
  BY FS_EmptySet, SolutionExists
<1> HIDE DEF g
<1>2. g[{}] = 0
  BY <1>1 DEF AddsUp, OneMore
<1> QED
  BY <1>2, SumUnfolds DEF g

LEMMA SumPicks ==
    ASSUME NEW f, NEW S, IsFiniteSet(S), S # {}
    PROVE  SumFunctionOnSet(f, S) = f[Pick(S)] + SumFunctionOnSet(f, S \ {Pick(S)})
<1> DEFINE R == S \ {Pick(S)}
           g == CHOOSE k : AddsUp(f, S, k)
           h == CHOOSE k : AddsUp(f, R, k)
<1>1. IsFiniteSet(R) /\ R \in SUBSET S
  BY FS_Subset
<1>2. AddsUp(f, S, g)
  BY SolutionExists
<1>3. AddsUp(f, R, h)
  <2> HIDE DEF R
  <2> QED
    BY <1>1, SolutionExists
<1>4. SumFunctionOnSet(f, S) = g[S] /\ SumFunctionOnSet(f, R) = h[R]
  BY SumUnfolds
<1> HIDE DEF g, h
<1>5. g[S] = f[Pick(S)] + g[R]
  BY <1>2 DEF AddsUp, OneMore
<1>6. g[R] = h[R]
  <2> HIDE DEF R
  <2> QED
    BY <1>1, <1>2, <1>3, SolutionsAgree
<1> QED
  BY <1>4, <1>5, <1>6

\* A sum of integers is one.
LEMMA SumIsInt ==
    ASSUME NEW f, NEW S, IsFiniteSet(S), \A x \in S : f[x] \in Int
    PROVE  SumFunctionOnSet(f, S) \in Int
<1> DEFINE P == {T \in SUBSET S : SumFunctionOnSet(f, T) \in Int}
<1>1. {} \in P
  BY SumOfNothing
<1>2. ASSUME NEW T \in SUBSET S, T # {}, \A x \in T : T \ {x} \in P  PROVE T \in P
  <2>1. IsFiniteSet(T)
    BY FS_Subset
  <2>2. Pick(T) \in T /\ SumFunctionOnSet(f, T \ {Pick(T)}) \in Int
    BY <1>2, PickIsMember
  <2>3. SumFunctionOnSet(f, T) = f[Pick(T)] + SumFunctionOnSet(f, T \ {Pick(T)})
    BY <1>2, <2>1, SumPicks
  <2> QED
    BY <2>2, <2>3
<1> HIDE DEF P
<1>3. \A T \in SUBSET S : T \in P
  BY <1>1, <1>2, SubsetInduction
<1> QED
  BY <1>3 DEF P

\* Any summand may be taken out first.
LEMMA SumTakesOut ==
    ASSUME NEW f, NEW S, IsFiniteSet(S), \A x \in S : f[x] \in Int, NEW x \in S
    PROVE  SumFunctionOnSet(f, S) = f[x] + SumFunctionOnSet(f, S \ {x})
<1> DEFINE Sum(T) == SumFunctionOnSet(f, T)
           P == {T \in SUBSET S : \A y \in T : Sum(T) = f[y] + Sum(T \ {y})}
<1>1. \A T \in SUBSET S : IsFiniteSet(T) /\ Sum(T) \in Int
  BY FS_Subset, SumIsInt
<1>2. \A T \in SUBSET S : T # {} => Sum(T) = f[Pick(T)] + Sum(T \ {Pick(T)})
  BY <1>1, SumPicks
<1> HIDE DEF Sum
<1>3. {} \in P
  OBVIOUS
<1>4. ASSUME NEW T \in SUBSET S, T # {}, \A y \in T : T \ {y} \in P  PROVE T \in P
  <2> SUFFICES ASSUME NEW y \in T, y # Pick(T)
               PROVE  Sum(T) = f[y] + Sum(T \ {y})
    BY <1>2, <1>4
  <2> DEFINE p == Pick(T)
             Rest == T \ {p, y}
  <2>1. p \in T /\ p # y
    BY <1>4, PickIsMember
  <2>2. (T \ {p}) \ {y} = Rest /\ (T \ {y}) \ {p} = Rest
    OBVIOUS
  <2>3. Sum(T) = f[p] + Sum(T \ {p})
    BY <1>2, <1>4
  <2> HIDE DEF p
  <2>4. Sum(T \ {p}) = f[y] + Sum(Rest)
    BY <1>4, <2>1, <2>2
  <2>5. Sum(T \ {y}) = f[p] + Sum(Rest)
    BY <1>4, <2>1, <2>2
  <2>6. f[p] \in Int /\ f[y] \in Int /\ Sum(Rest) \in Int
    BY <1>1, <2>1
  <2> QED
    BY <2>3, <2>4, <2>5, <2>6
<1> HIDE DEF P
<1>5. \A T \in SUBSET S : T \in P
  BY <1>3, <1>4, SubsetInduction
<1> QED
  BY <1>5 DEF P, Sum

-----------------------------------------------------------------------------
\* Equal summands, equal sums.
LEMMA SumOfEquals ==
    ASSUME NEW f, NEW g, NEW S, IsFiniteSet(S), \A x \in S : f[x] = g[x]
    PROVE  SumFunctionOnSet(f, S) = SumFunctionOnSet(g, S)
<1> DEFINE P == {T \in SUBSET S : SumFunctionOnSet(f, T) = SumFunctionOnSet(g, T)}
<1>1. {} \in P
  BY SumOfNothing
<1>2. ASSUME NEW T \in SUBSET S, T # {}, \A x \in T : T \ {x} \in P  PROVE T \in P
  <2>1. IsFiniteSet(T)
    BY FS_Subset
  <2>2. /\ Pick(T) \in T
        /\ SumFunctionOnSet(f, T \ {Pick(T)}) = SumFunctionOnSet(g, T \ {Pick(T)})
    BY <1>2, PickIsMember
  <2>3. f[Pick(T)] = g[Pick(T)]
    BY <2>2
  <2>4. /\ SumFunctionOnSet(f, T) = f[Pick(T)] + SumFunctionOnSet(f, T \ {Pick(T)})
        /\ SumFunctionOnSet(g, T) = g[Pick(T)] + SumFunctionOnSet(g, T \ {Pick(T)})
    BY <1>2, <2>1, SumPicks
  <2> QED
    BY <2>2, <2>3, <2>4
<1> HIDE DEF P
<1>3. \A T \in SUBSET S : T \in P
  BY <1>1, <1>2, SubsetInduction
<1> QED
  BY <1>3 DEF P

\* One summand changes, and the sum by as much.
LEMMA SumChanges ==
    ASSUME NEW f, NEW g, NEW S, IsFiniteSet(S), NEW x \in S,
           \A y \in S : f[y] \in Int /\ g[y] \in Int,
           \A y \in S \ {x} : g[y] = f[y]
    PROVE  /\ SumFunctionOnSet(g, S) = SumFunctionOnSet(f, S) + (g[x] - f[x])
           /\ SumFunctionOnSet(f, S) \in Int
<1>1. IsFiniteSet(S \ {x})
  BY FS_Subset
<1>2. SumFunctionOnSet(f, S \ {x}) = SumFunctionOnSet(g, S \ {x})
  BY <1>1, SumOfEquals
<1>3. SumFunctionOnSet(f, S \ {x}) \in Int /\ SumFunctionOnSet(f, S) \in Int
  BY <1>1, SumIsInt
<1>4. /\ SumFunctionOnSet(f, S) = f[x] + SumFunctionOnSet(f, S \ {x})
      /\ SumFunctionOnSet(g, S) = g[x] + SumFunctionOnSet(g, S \ {x})
  BY SumTakesOut
<1> QED
  BY <1>2, <1>3, <1>4

\* Two summands change.
LEMMA SumChangesTwice ==
    ASSUME NEW f, NEW g, NEW S, IsFiniteSet(S), NEW x \in S, NEW z \in S, x # z,
           \A y \in S : f[y] \in Int /\ g[y] \in Int,
           \A y \in S \ {x, z} : g[y] = f[y]
    PROVE  SumFunctionOnSet(g, S) = SumFunctionOnSet(f, S) + (g[x] - f[x]) + (g[z] - f[z])
<1> DEFINE h == [y \in S |-> IF y = x THEN g[x] ELSE f[y]]
<1>1. /\ \A y \in S : h[y] \in Int
      /\ h[x] = g[x] /\ h[z] = f[z]
      /\ \A y \in S \ {x} : h[y] = f[y]
      /\ \A y \in S \ {z} : g[y] = h[y]
  OBVIOUS
<1> HIDE DEF h
<1>2. /\ SumFunctionOnSet(h, S) = SumFunctionOnSet(f, S) + (h[x] - f[x])
      /\ SumFunctionOnSet(f, S) \in Int
  BY <1>1, SumChanges
<1>3. SumFunctionOnSet(g, S) = SumFunctionOnSet(h, S) + (g[z] - h[z])
  BY <1>1, SumChanges
<1> QED
  BY <1>1, <1>2, <1>3

LEMMA SumOfZeros ==
    ASSUME NEW f, NEW S, IsFiniteSet(S), \A x \in S : f[x] = 0
    PROVE  SumFunctionOnSet(f, S) = 0
<1> DEFINE P == {T \in SUBSET S : SumFunctionOnSet(f, T) = 0}
<1>1. {} \in P
  BY SumOfNothing
<1>2. ASSUME NEW T \in SUBSET S, T # {}, \A x \in T : T \ {x} \in P  PROVE T \in P
  <2>1. IsFiniteSet(T)
    BY FS_Subset
  <2>2. Pick(T) \in T /\ SumFunctionOnSet(f, T \ {Pick(T)}) = 0
    BY <1>2, PickIsMember
  <2>3. SumFunctionOnSet(f, T) = f[Pick(T)] + SumFunctionOnSet(f, T \ {Pick(T)})
    BY <1>2, <2>1, SumPicks
  <2> QED
    BY <2>2, <2>3
<1> HIDE DEF P
<1>3. \A T \in SUBSET S : T \in P
  BY <1>1, <1>2, SubsetInduction
<1> QED
  BY <1>3 DEF P

-----------------------------------------------------------------------------
\* A sum of natural numbers is one, and no summand is greater.
LEMMA SumIsNat ==
    ASSUME NEW f, NEW S, IsFiniteSet(S), \A x \in S : f[x] \in Nat
    PROVE  /\ SumFunctionOnSet(f, S) \in Nat
           /\ \A x \in S : f[x] <= SumFunctionOnSet(f, S)
<1> DEFINE P == {T \in SUBSET S : SumFunctionOnSet(f, T) \in Nat}
<1>1. {} \in P
  BY SumOfNothing
<1>2. ASSUME NEW T \in SUBSET S, T # {}, \A x \in T : T \ {x} \in P  PROVE T \in P
  <2>1. IsFiniteSet(T)
    BY FS_Subset
  <2>2. Pick(T) \in T /\ SumFunctionOnSet(f, T \ {Pick(T)}) \in Nat
    BY <1>2, PickIsMember
  <2>3. SumFunctionOnSet(f, T) = f[Pick(T)] + SumFunctionOnSet(f, T \ {Pick(T)})
    BY <1>2, <2>1, SumPicks
  <2> QED
    BY <2>2, <2>3
<1> HIDE DEF P
<1>3. \A T \in SUBSET S : T \in P
  BY <1>1, <1>2, SubsetInduction
<1>4. \A T \in SUBSET S : SumFunctionOnSet(f, T) \in Nat
  BY <1>3 DEF P
<1>5. ASSUME NEW x \in S
      PROVE  f[x] <= SumFunctionOnSet(f, S)
  <2>1. SumFunctionOnSet(f, S) = f[x] + SumFunctionOnSet(f, S \ {x})
    BY SumTakesOut
  <2>2. SumFunctionOnSet(f, S \ {x}) \in Nat /\ f[x] \in Nat
    BY <1>4
  <2> QED
    BY <2>1, <2>2
<1> QED
  BY <1>4, <1>5

\* One summand more.
LEMMA SumAdds ==
    ASSUME NEW f, NEW S, IsFiniteSet(S), NEW x, x \notin S,
           \A y \in S : f[y] \in Int, f[x] \in Int
    PROVE  /\ SumFunctionOnSet(f, S \cup {x}) = SumFunctionOnSet(f, S) + f[x]
           /\ SumFunctionOnSet(f, S) \in Int
<1> DEFINE T == S \cup {x}
<1>1. IsFiniteSet(T) /\ x \in T /\ T \ {x} = S /\ \A y \in T : f[y] \in Int
  BY FS_AddElement
<1> HIDE DEF T
<1>2. SumFunctionOnSet(f, T) = f[x] + SumFunctionOnSet(f, T \ {x})
  BY <1>1, SumTakesOut
<1>3. SumFunctionOnSet(f, S) \in Int /\ f[x] \in Int
  BY SumIsInt
<1>4. SumFunctionOnSet(f, T) = f[x] + SumFunctionOnSet(f, S)
  BY <1>1, <1>2
<1>5. SumFunctionOnSet(f, T) = SumFunctionOnSet(f, S) + f[x]
  BY <1>3, <1>4
<1> QED
  BY <1>3, <1>5 DEF T

\* The sums over two sets that share nothing add up.
LEMMA SumOfDisjoint ==
    ASSUME NEW f, NEW S, NEW R, IsFiniteSet(S), IsFiniteSet(R), S \cap R = {},
           \A y \in S \cup R : f[y] \in Int
    PROVE  /\ SumFunctionOnSet(f, S \cup R) = SumFunctionOnSet(f, S) + SumFunctionOnSet(f, R)
           /\ SumFunctionOnSet(f, S) \in Int
           /\ SumFunctionOnSet(f, R) \in Int
<1> DEFINE P == {T \in SUBSET R : SumFunctionOnSet(f, S \cup T)
                                    = SumFunctionOnSet(f, S) + SumFunctionOnSet(f, T)}
<1>1. SumFunctionOnSet(f, S) \in Int /\ SumFunctionOnSet(f, R) \in Int
  BY SumIsInt
<1>2. {} \in P
  BY <1>1, SumOfNothing
<1>3. ASSUME NEW T \in SUBSET R, T # {}, \A x \in T : T \ {x} \in P  PROVE T \in P
  <2>1. PICK x \in T : TRUE
    BY <1>3
  <2> DEFINE Rest == T \ {x}
             Before == S \cup Rest
  <2>2. /\ IsFiniteSet(Rest) /\ IsFiniteSet(Before)
        /\ x \notin Rest /\ x \notin Before
        /\ Rest \cup {x} = T /\ Before \cup {x} = S \cup T
        /\ f[x] \in Int
        /\ \A y \in Rest : f[y] \in Int
        /\ \A y \in Before : f[y] \in Int
    <3>1. IsFiniteSet(Rest)
      BY FS_Subset
    <3> HIDE DEF Rest
    <3>2. IsFiniteSet(Before)
      BY <3>1, FS_Union
    <3> QED
      BY <2>1, <3>1, <3>2 DEF Rest
  <2>3. SumFunctionOnSet(f, Before)
          = SumFunctionOnSet(f, S) + SumFunctionOnSet(f, Rest)
    BY <1>3, <2>1
  <2> HIDE DEF Rest, Before
  <2>4. /\ SumFunctionOnSet(f, Rest \cup {x}) = SumFunctionOnSet(f, Rest) + f[x]
        /\ SumFunctionOnSet(f, Rest) \in Int
    BY <2>2, SumAdds
  <2>5. SumFunctionOnSet(f, Before \cup {x}) = SumFunctionOnSet(f, Before) + f[x]
    BY <2>2, SumAdds
  <2>6. SumFunctionOnSet(f, Before \cup {x})
          = SumFunctionOnSet(f, S) + SumFunctionOnSet(f, Rest \cup {x})
    BY <1>1, <2>2, <2>3, <2>4, <2>5
  <2>7. SumFunctionOnSet(f, S \cup T) = SumFunctionOnSet(f, S) + SumFunctionOnSet(f, T)
    BY <2>2, <2>6
  <2> QED
    BY <2>7
<1> HIDE DEF P
<1>4. \A T \in SUBSET R : T \in P
  BY <1>2, <1>3, SubsetInduction
<1> QED
  BY <1>1, <1>4 DEF P

\* Two functions added up.
LEMMA SumOfSums ==
    ASSUME NEW f, NEW g, NEW h, NEW S, IsFiniteSet(S),
           \A x \in S : f[x] \in Int /\ g[x] \in Int /\ h[x] = f[x] + g[x]
    PROVE  SumFunctionOnSet(h, S) = SumFunctionOnSet(f, S) + SumFunctionOnSet(g, S)
<1> DEFINE P == {T \in SUBSET S :
                  SumFunctionOnSet(h, T) = SumFunctionOnSet(f, T) + SumFunctionOnSet(g, T)}
<1>1. {} \in P
  <2>1. /\ SumFunctionOnSet(h, {}) = 0 /\ SumFunctionOnSet(f, {}) = 0
        /\ SumFunctionOnSet(g, {}) = 0
    BY SumOfNothing
  <2> QED
    BY <2>1
<1>2. ASSUME NEW T \in SUBSET S, T # {}, \A x \in T : T \ {x} \in P  PROVE T \in P
  <2>1. PICK x \in T : T \ {x} \in P
    BY <1>2
  <2>2. IsFiniteSet(T) /\ IsFiniteSet(T \ {x}) /\ \A y \in S : h[y] \in Int
    BY FS_Subset
  <2>3. SumFunctionOnSet(h, T) = h[x] + SumFunctionOnSet(h, T \ {x})
    BY <2>2, SumTakesOut
  <2>4. SumFunctionOnSet(f, T) = f[x] + SumFunctionOnSet(f, T \ {x})
    BY <2>2, SumTakesOut
  <2>5. SumFunctionOnSet(g, T) = g[x] + SumFunctionOnSet(g, T \ {x})
    BY <2>2, SumTakesOut
  <2>6. SumFunctionOnSet(f, T \ {x}) \in Int
    <3>1. \A y \in T \ {x} : f[y] \in Int
      OBVIOUS
    <3> QED
      BY <2>2, <3>1, SumIsInt
  <2>7. SumFunctionOnSet(g, T \ {x}) \in Int
    <3>1. \A y \in T \ {x} : g[y] \in Int
      OBVIOUS
    <3> QED
      BY <2>2, <3>1, SumIsInt
  <2>8. f[x] \in Int /\ g[x] \in Int /\ h[x] = f[x] + g[x]
    OBVIOUS
  <2> QED
    BY <2>1, <2>3, <2>4, <2>5, <2>6, <2>7, <2>8
<1>3. S \in P
  BY <1>1, <1>2, SubsetInduction, Zenon
<1> QED
  BY <1>3

\* What is zero elsewhere adds up where it is not.
LEMMA SumOfPart ==
    ASSUME NEW f, NEW S, IsFiniteSet(S), NEW R \in SUBSET S, \A x \in S : f[x] \in Int,
           \A x \in S \ R : f[x] = 0
    PROVE  SumFunctionOnSet(f, S) = SumFunctionOnSet(f, R)
<1> DEFINE T == S \ R
<1>1. IsFiniteSet(R) /\ IsFiniteSet(T) /\ R \cap T = {} /\ R \cup T = S
  BY FS_Subset
<1>2. SumFunctionOnSet(f, T) = 0
  BY <1>1, SumOfZeros
<1>3. \A x \in R \cup T : f[x] \in Int
  OBVIOUS
<1> HIDE DEF T
<1>4. /\ SumFunctionOnSet(f, R \cup T) = SumFunctionOnSet(f, R) + SumFunctionOnSet(f, T)
      /\ SumFunctionOnSet(f, R) \in Int
  BY <1>1, <1>3, SumOfDisjoint
<1>5. SumFunctionOnSet(f, R \cup T) = SumFunctionOnSet(f, R)
  BY <1>2, <1>4
<1> QED
  BY <1>1, <1>5, Zenon
=============================================================================
