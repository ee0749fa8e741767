---------------------------- MODULE TournamentProofs ---------------------------
(***************************************************************************)
(* Proofs about tournaments, for any sizes, ratings, histories and         *)
(* requests: the rounds and the arena of SwissTournament, the single       *)
(* elimination, the round robin and the registrations that race for a      *)
(* stored bracket of Bracket.  ServicesProofs composes them.               *)
(***************************************************************************)
EXTENDS SwissTournament, Bracket, Sums, SequenceTheorems

-----------------------------------------------------------------------------
\* The least of some numbers.
LEMMA LeastIsOne ==
    ASSUME NEW S \in SUBSET Nat, S # {}
    PROVE  Min(S) \in S /\ \A n \in S : Min(S) <= n
<1> DEFINE less == OpToRel(<, Nat)
<1>1. \A m, n \in Nat : m < n => <<m, n>> \in less
  BY DEF OpToRel
<1>2. IsWellFoundedOn(less, Nat)
  BY NatLessThanWellFounded
<1> HIDE DEF less
<1>3. PICK n \in S : \A m \in S : ~ (<<m, n>> \in less)
  BY <1>2, WFMin
<1>4. \A m \in S : n <= m
  <2> TAKE m \in S
  <2>1. m \in Nat /\ n \in Nat /\ ~(m < n)
    BY <1>1, <1>3
  <2> QED
    BY <2>1
<1> QED
  BY <1>4 DEF Min

\* A loop that always ends in some set with what it has: the recursive function exists, and
\* all its values are there.
Runs(f, R, start, turn, n) ==
    f \in [0..n -> R] /\ f = [i \in 0..n |-> IF i = 0 THEN start ELSE turn[f[i - 1]]]

LEMMA LoopRuns ==
    ASSUME NEW R, NEW start \in R, NEW turn \in [R -> R], NEW n \in Nat
    PROVE  \E f : Runs(f, R, start, turn, n)
<1> DEFINE N == {m \in Nat : \E f : Runs(f, R, start, turn, m)}
<1>1. 0 \in N
  <2> DEFINE f == [i \in 0..0 |-> start]
  <2>1. f \in [0..0 -> R]
    OBVIOUS
  <2>2. f = [i \in 0..0 |-> IF i = 0 THEN start ELSE turn[f[i - 1]]]
    OBVIOUS
  <2> QED
    BY <2>1, <2>2 DEF Runs
<1>2. ASSUME NEW m \in Nat, m \in N PROVE m + 1 \in N
  <2>1. PICK f : Runs(f, R, start, turn, m)
    BY <1>2
  <2> DEFINE g == [i \in 0..(m + 1) |-> IF i = m + 1 THEN turn[f[m]] ELSE f[i]]
  <2>2. f[m] \in R /\ turn[f[m]] \in R
    BY <2>1 DEF Runs
  <2>3. g \in [0..(m + 1) -> R]
    BY <2>1, <2>2 DEF Runs
  <2>4. \A i \in 0..m : g[i] = f[i]
    OBVIOUS
  <2>5. g[m + 1] = turn[f[m]]
    OBVIOUS
  <2>6. \A i \in 0..m : f[i] = IF i = 0 THEN start ELSE turn[f[i - 1]]
    BY <2>1, Zenon DEF Runs
  <2>7. ASSUME NEW i \in 0..(m + 1) PROVE g[i] = IF i = 0 THEN start ELSE turn[g[i - 1]]
    <3>1. CASE i = 0
      BY <2>4, <2>6, <3>1
    <3>2. CASE i \in 1..m
      <4>1. i - 1 \in 0..m /\ i \in 0..m /\ i # 0
        BY <3>2
      <4> QED
        BY <2>4, <2>6, <4>1
    <3>3. CASE i = m + 1
      <4>1. i # 0 /\ i - 1 = m /\ m \in 0..m
        BY <3>3
      <4> QED
        BY <2>4, <2>5, <3>3, <4>1
    <3> QED
      BY <3>1, <3>2, <3>3
  <2>8. g = [i \in 0..(m + 1) |-> g[i]]
    OBVIOUS
  <2> HIDE DEF g
  <2>9. g = [i \in 0..(m + 1) |-> IF i = 0 THEN start ELSE turn[g[i - 1]]]
    BY <2>7, <2>8
  <2>10. Runs(g, R, start, turn, m + 1)
    BY <2>3, <2>9 DEF Runs
  <2> QED
    BY <2>10
<1> HIDE DEF N
<1>3. \A m \in Nat : m \in N
  BY <1>1, <1>2, NumbersInduction
<1> QED
  BY <1>3 DEF N

\* What is in a list after one more.
LEMMA RangeOfAppend ==
    ASSUME NEW S, NEW s \in Seq(S), NEW e \in S
    PROVE  Range(Append(s, e)) = Range(s) \cup {e}
<1> DEFINE m == Len(s)
           t == Append(s, e)
<1>1. /\ m \in Nat /\ DOMAIN s = 1..m /\ DOMAIN t = 1..(m + 1)
      /\ t[m + 1] = e /\ \A i \in 1..m : t[i] = s[i]
  OBVIOUS
<1> HIDE DEF m, t
<1>2. \A h : h \in Range(t) <=> \E i \in 1..(m + 1) : t[i] = h
  BY <1>1 DEF Range
<1>3. \A h : h \in Range(s) <=> \E i \in 1..m : s[i] = h
  BY <1>1 DEF Range
<1>4. \A h : h \in Range(t) <=> h \in Range(s) \/ h = e
  <2> TAKE h
  <2>1. ASSUME NEW i \in 1..(m + 1), t[i] = h PROVE h \in Range(s) \/ h = e
    <3>1. i \in 1..m \/ i = m + 1
      BY <1>1
    <3> QED
      BY <1>1, <1>3, <2>1, <3>1
  <2>2. ASSUME NEW i \in 1..m, s[i] = h PROVE h \in Range(t)
    <3>1. i \in 1..(m + 1)
      BY <1>1
    <3> QED
      BY <1>1, <1>2, <2>2, <3>1
  <2>3. m + 1 \in 1..(m + 1)
    BY <1>1
  <2> QED
    BY <1>1, <1>2, <1>3, <2>1, <2>2, <2>3
<1> QED
  BY <1>4 DEF t

(***************************************************************************)
(* Swiss tournaments (SwissTournament, first part).  Whatever the order of *)
(* the standings, an attempt pairs each player off with one he may meet    *)
(* (IsPairing), so a published round is whole and no game is played twice; *)
(* the points and floats it gives add up over its pairs (PairsAddUp).      *)
(***************************************************************************)
Player == [score : Nat, balance : Int, opponents : Seq(Entrants), float : Int]

SwissTypeOK ==
    /\ \E n \in Sizes : entrants \in [1..n -> Player]
    /\ round \in Nat
    /\ pairings \subseteq Entrants \X Entrants \X Nat /\ IsFiniteSet(pairings)
    /\ byes \subseteq Nat \X Entrants /\ IsFiniteSet(byes)
    /\ failed \in [even : Nat, odd : Nat]

On(p, g) == p = g[1] \/ p = g[2]

\* In the rounds published so far, up to the current one, everybody has one place; a round
\* with a bye has games.
RoundsWhole ==
    /\ \A g \in pairings : g[1] # g[2] /\ g[3] <= round
    /\ \A g, h \in pairings, p \in Entrants : g[3] = h[3] /\ On(p, g) /\ On(p, h) => g = h
    /\ \A g \in pairings, p \in Entrants : On(p, g) => <<g[3], p>> \notin byes
    /\ \A g \in pairings, p \in Entrants :
         <<g[3], p>> \in byes \/ \E h \in pairings : h[3] = g[3] /\ On(p, h)
    /\ \A b \in byes : \E g \in pairings : g[3] = b[1]

\* Whose game is over remembers it, so that no two meet again.
GamesRemembered ==
    /\ \A g \in pairings : g[3] < round => Met(g[1], g[2]) /\ Met(g[2], g[1])
    /\ \A p, q \in Entrants : Met(p, q) => Met(q, p)
    /\ \A g, h \in pairings : {g[1], g[2]} = {h[1], h[2]} => g = h

SwissInv == SwissTypeOK /\ RoundsWhole /\ GamesRemembered /\ PointsAccounted

\* Pairs that share nobody give c each: as many times c as there are, to twice as many.
LEMMA PairsAddUp ==
    ASSUME NEW S, IsFiniteSet(S), NEW P, IsFiniteSet(P),
           \A g \in P : g[1] \in S /\ g[2] \in S /\ g[1] # g[2],
           \A g, h \in P, p \in S : On(p, g) /\ On(p, h) => g = h,
           NEW f, NEW c \in Int, \A p \in S : f[p] \in Int,
           \A g \in P : f[g[1]] + f[g[2]] = c
    PROVE  /\ SumFunctionOnSet(f, Paired(P)) = c * Cardinality(P)
           /\ Cardinality(Paired(P)) = 2 * Cardinality(P)
           /\ Paired(P) \subseteq S
<1> DEFINE Adds(T) == /\ SumFunctionOnSet(f, Paired(T)) = c * Cardinality(T)
                      /\ Cardinality(Paired(T)) = 2 * Cardinality(T)
           Q == {T \in SUBSET P : Adds(T)}
<1>1. \A T : \A p : p \in Paired(T) <=> \E g \in T : On(p, g)
  BY DEF Paired, On
<1>2. \A T \in SUBSET P : /\ Paired(T) \subseteq S /\ IsFiniteSet(T) /\ IsFiniteSet(Paired(T))
                          /\ Cardinality(T) \in Nat
  <2> SUFFICES ASSUME NEW T \in SUBSET P
               PROVE  /\ Paired(T) \subseteq S /\ IsFiniteSet(T) /\ IsFiniteSet(Paired(T))
                      /\ Cardinality(T) \in Nat
    OBVIOUS
  <2>1. Paired(T) \subseteq S
    BY <1>1 DEF On
  <2> QED
    BY <2>1, FS_Subset, FS_CardinalityType
<1>3. {} \in Q
  <2>1. Paired({}) = {}
    BY <1>1
  <2>2. SumFunctionOnSet(f, Paired({})) = 0
    BY <2>1, SumOfNothing
  <2>3. Cardinality({}) = 0
    BY FS_EmptySet
  <2>4. SumFunctionOnSet(f, Paired({})) = c * Cardinality({})
    <3>1. c * 0 = 0
      OBVIOUS
    <3> QED
      BY <2>2, <2>3, <3>1, Zenon
  <2>5. Cardinality(Paired({})) = 2 * Cardinality({})
    <3>1. 2 * 0 = 0
      OBVIOUS
    <3> QED
      BY <2>1, <2>3, <3>1, Zenon
  <2> QED
    BY <2>4, <2>5
<1>4. ASSUME NEW T \in SUBSET P, T # {}, \A g \in T : T \ {g} \in Q PROVE T \in Q
  <2>1. PICK g \in T : TRUE
    BY <1>4
  <2> DEFINE R == T \ {g}
             U == Paired(R)
  <2>2. R \in SUBSET P /\ Adds(R)
    BY <1>4, <2>1
  <2>3. /\ Cardinality(T) \in Nat /\ Cardinality(R) = Cardinality(T) - 1
        /\ IsFiniteSet(U) /\ U \subseteq S
    BY <1>2, <2>1, <2>2, FS_RemoveElement
  <2>4. g[1] \in S /\ g[2] \in S /\ g[1] # g[2] /\ f[g[1]] + f[g[2]] = c
    BY <1>4, <2>1
  <2>5. g[1] \notin U /\ g[2] \notin U
    <3> SUFFICES ASSUME NEW p \in S, p \in U, On(p, g) PROVE FALSE
      BY <2>4 DEF On
    <3>1. PICK h \in R : On(p, h)
      BY <1>1
    <3> QED
      BY <1>4, <3>1
  <2>6. Paired(T) = (U \cup {g[1]}) \cup {g[2]}
    <3>1. \A p : p \in Paired(T) <=> p \in U \/ On(p, g)
      BY <1>1, <2>1
    <3> HIDE DEF U
    <3> QED
      BY <3>1 DEF On
  <2>7. SumFunctionOnSet(f, U) = c * Cardinality(R) /\ Cardinality(U) = 2 * Cardinality(R)
    BY <2>2
  <2> HIDE DEF U, R
  <2> DEFINE V == U \cup {g[1]}
  <2>8. IsFiniteSet(V) /\ Cardinality(V) = Cardinality(U) + 1 /\ g[2] \notin V /\ V \subseteq S
    BY <2>3, <2>4, <2>5, FS_AddElement
  <2>9. /\ SumFunctionOnSet(f, V) = SumFunctionOnSet(f, U) + f[g[1]]
        /\ SumFunctionOnSet(f, U) \in Int
    <3>1. \A p \in U : f[p] \in Int
      BY <2>3
    <3>2. f[g[1]] \in Int
      BY <2>4
    <3> QED
      BY <2>3, <2>5, <3>1, <3>2, SumAdds
  <2> HIDE DEF V
  <2>10. SumFunctionOnSet(f, V \cup {g[2]}) = SumFunctionOnSet(f, V) + f[g[2]]
    <3>1. \A p \in V : f[p] \in Int
      BY <2>8
    <3>2. f[g[2]] \in Int
      BY <2>4
    <3> QED
      BY <2>8, <3>1, <3>2, SumAdds
  <2>11. Cardinality(V \cup {g[2]}) = Cardinality(V) + 1
    BY <2>8, FS_AddElement
  <2>12. f[g[1]] \in Int /\ f[g[2]] \in Int
    BY <2>4
  <2>13. Paired(T) = V \cup {g[2]}
    BY <2>6 DEF V
  <2>14. SumFunctionOnSet(f, Paired(T)) = c * Cardinality(R) + c
    <3>1. SumFunctionOnSet(f, V) + f[g[2]] = SumFunctionOnSet(f, U) + c
      BY <2>4, <2>9, <2>12
    <3> QED
      BY <2>7, <2>10, <2>13, <3>1
  <2>15. \A k \in Int : c * (k - 1) + c = c * k
    OBVIOUS
  <2>16. SumFunctionOnSet(f, Paired(T)) = c * Cardinality(T)
    BY <2>3, <2>14, <2>15
  <2>17. Cardinality(Paired(T)) = 2 * Cardinality(T)
    BY <2>3, <2>7, <2>8, <2>11, <2>13
  <2> QED
    BY <1>4, <2>16, <2>17
<1> HIDE DEF Q
<1>5. \A T \in SUBSET P : T \in Q
  BY <1>3, <1>4, SubsetInduction, Zenon
<1>6. P \in Q
  BY <1>5
<1>7. Adds(P)
  BY <1>6 DEF Q
<1> QED
  BY <1>2, <1>7

LEMMA EntrantsAre ==
    ASSUME SwissTypeOK
    PROVE  /\ \E n \in Nat : /\ n >= 2 /\ Entrants = 1..n /\ Cardinality(Entrants) = n
                             /\ n \in Sizes /\ entrants \in [1..n -> Player]
           /\ IsFiniteSet(Entrants) /\ Entrants \subseteq Nat
           /\ Cardinality(Entrants) \in Nat /\ Cardinality(Entrants) >= 2
           /\ \A p \in Entrants :
                entrants[p] \in Player /\ Score(p) \in Nat /\ Ratings[p] \in Int
<1>1. PICK n \in Sizes : entrants \in [1..n -> Player]
  BY DEF SwissTypeOK
<1>2. n \in Nat /\ n >= 2 /\ n <= Len(Ratings) /\ Ratings \in Seq(Int)
  BY SwissAssumption
<1>3. Entrants = 1..n
  BY <1>1 DEF Entrants
<1>4. IsFiniteSet(1..n) /\ Cardinality(1..n) = n
  BY <1>2, FS_Interval, 1 \in Int, n \in Int
<1>5. \A p \in 1..n : entrants[p] \in Player /\ Score(p) \in Nat
  BY <1>1 DEF Player, Score
<1>6. \A p \in 1..n : Ratings[p] \in Int
  BY <1>2
<1> QED
  BY <1>1, <1>2, <1>3, <1>4, <1>5, <1>6

\* The standings name everybody, and whoever is last is above nobody.
LEMMA StandingIs ==
    ASSUME SwissTypeOK, NEW s \in Standings
    PROVE  /\ DOMAIN s \subseteq Nat /\ Len(s) \in Nat
           /\ \A i \in DOMAIN s : s[i] \in Entrants
           /\ \A p \in Entrants : \E i \in DOMAIN s : s[i] = p
           /\ \E last \in Entrants : \A p \in Entrants : ~Above(last, p)
<1>1. PICK n \in Nat : n >= 2 /\ Entrants = 1..n /\ Cardinality(Entrants) = n
  BY EntrantsAre
<1>2. /\ s \in [1..n -> 1..n] /\ \A i, j \in 1..n : i # j => s[i] # s[j]
      /\ \A i, j \in DOMAIN s : i < j => ~Above(s[j], s[i])
  BY <1>1 DEF Standings, SetToSeqs
<1>3. IsFiniteSet(1..n)
  BY <1>1, EntrantsAre
<1>4. s \in Injection(1..n, 1..n)
  BY <1>2 DEF Injection, IsInjective
<1>5. s \in Surjection(1..n, 1..n)
  BY <1>3, <1>4, FS_Injection
<1>6. \A p \in 1..n : \E i \in 1..n : s[i] = p
  BY <1>5 DEF Surjection
<1>7. n \in 1..n /\ DOMAIN s = 1..n /\ Len(s) = n /\ s[n] \in 1..n
  BY <1>1, <1>2
<1>8. \A p \in Entrants : ~Above(s[n], p)
  <2> SUFFICES ASSUME NEW p \in 1..n PROVE ~Above(s[n], p)
    BY <1>1
  <2>1. PICK i \in 1..n : s[i] = p
    BY <1>6
  <2>2. CASE i = n
    <3>1. Score(p) \in Nat /\ Ratings[p] \in Int
      BY <1>1, EntrantsAre
    <3> QED
      BY <2>1, <2>2, <3>1 DEF Above
  <2>3. CASE i # n
    <3>1. i < n
      BY <2>3
    <3> QED
      BY <1>2, <1>7, <2>1, <3>1
  <2> QED
    BY <2>2, <2>3
<1>9. s[n] \in Entrants
  BY <1>1, <1>7
<1>10. DOMAIN s \subseteq Nat /\ Len(s) \in Nat
  BY <1>1, <1>7
<1>11. /\ \A i \in DOMAIN s : s[i] \in Entrants
       /\ \A p \in Entrants : \E i \in DOMAIN s : s[i] = p
  <2> HIDE DEF Entrants
  <2> QED
    BY <1>1, <1>2, <1>6, <1>7
<1> QED
  BY <1>8, <1>9, <1>10, <1>11

LEMMA FirstIsOne ==
    ASSUME SwissTypeOK, NEW s \in Standings, NEW some \in SUBSET Entrants, some # {}
    PROVE  First(s, some) \in some
<1> DEFINE I == {i \in DOMAIN s : s[i] \in some}
<1>1. I \in SUBSET Nat /\ I # {}
  BY StandingIs
<1>2. Min(I) \in I
  BY <1>1, LeastIsOne
<1> QED
  BY <1>2 DEF First

LEMMA ByeIsOne ==
    ASSUME SwissTypeOK, NEW s \in Standings
    PROVE  ByeOf(s) \in Entrants
<1>1. \A p \in Entrants : ~HasHadBye(p)
  <2> SUFFICES ASSUME NEW p \in Entrants, HasHadBye(p) PROVE FALSE
    OBVIOUS
  <2>1. entrants[p].opponents = <<>> /\ Len(entrants[p].opponents) > 0
    BY DEF HasHadBye
  <2>2. Len(<<>>) = 0
    OBVIOUS
  <2> QED
    BY <2>1, <2>2
<1> DEFINE may == {p \in Entrants : ~HasHadBye(p)}
           lowest == {p \in may : \A q \in may : ~Above(p, q)}
<1>2. lowest \in SUBSET Entrants
  OBVIOUS
<1>3. lowest # {}
  BY <1>1, StandingIs
<1>4. First(s, lowest) \in lowest
  <2> HIDE DEF lowest
  <2> QED
    BY <1>2, <1>3, FirstIsOne
<1> QED
  BY <1>2, <1>4 DEF ByeOf

\* Pairs of entrants who may meet, each in one of them.
IsPairing(P) ==
    /\ P \subseteq Entrants \X Entrants
    /\ \A g \in P : CanPair(g[1], g[2])
    /\ \A g, h \in P, p \in Entrants : On(p, g) /\ On(p, h) => g = h

\* A group of which some are left and the others are paired.
Matched(r, group) ==
    /\ IsPairing(Range(r.pairs))
    /\ Paired(Range(r.pairs)) = group \ r.left

Groupings(group) ==
    {r \in [pairs : Seq(Entrants \X Entrants), left : SUBSET group] : Matched(r, group)}

LEMMA PairedIs == \A P : \A p : p \in Paired(P) <=> \E g \in P : On(p, g)
BY DEF Paired, On

LEMMA MatchedOff ==
    ASSUME NEW group \in SUBSET Entrants, NEW r \in Groupings(group),
           NEW p \in r.left, NEW q \in r.left, CanPair(p, q)
    PROVE  PairOff(r, p, q) \in Groupings(group)
<1> DEFINE t == PairOff(r, p, q)
           P == Range(r.pairs)
           g == <<p, q>>
<1>1. /\ r \in [pairs : Seq(Entrants \X Entrants), left : SUBSET group]
      /\ IsPairing(P) /\ Paired(P) = group \ r.left
  BY DEF Groupings, Matched
<1>2. p \in group /\ q \in group /\ p \in Entrants /\ q \in Entrants
  BY <1>1
<1>3. Append(r.pairs, g) \in Seq(Entrants \X Entrants)
  BY <1>1, <1>2
<1>4. r.left \ {p, q} \in SUBSET group
  BY <1>1
<1>5. /\ t.pairs = Append(r.pairs, g) /\ t.left = r.left \ {p, q}
      /\ t \in [pairs : Seq(Entrants \X Entrants), left : SUBSET group]
  BY <1>1, <1>3, <1>4 DEF PairOff
<1>6. Range(t.pairs) = P \cup {g}
  <2>1. r.pairs \in Seq(Entrants \X Entrants) /\ g \in Entrants \X Entrants
    BY <1>1, <1>2
  <2> HIDE DEF g
  <2> QED
    BY <1>5, <2>1, RangeOfAppend
<1> HIDE DEF t
<1>7. \A o : o \in Paired(P) <=> \E h \in P : On(o, h)
  BY PairedIs
<1>8. p \notin Paired(P) /\ q \notin Paired(P)
  BY <1>1
<1>9. \A o : On(o, g) <=> o = p \/ o = q
  BY DEF On
<1>10. g \in Entrants \X Entrants /\ CanPair(g[1], g[2])
  BY <1>2
<1> HIDE DEF P, g
<1>11. IsPairing(P \cup {g})
  <2>1. ASSUME NEW h \in P \cup {g}, NEW k \in P \cup {g}, NEW o \in Entrants,
               On(o, h), On(o, k)
        PROVE  h = k
    <3>1. CASE h \in P /\ k \in P
      BY <1>1, <2>1, <3>1 DEF IsPairing
    <3>2. CASE h \in P /\ k = g
      BY <1>7, <1>8, <1>9, <2>1, <3>2
    <3>3. CASE h = g /\ k \in P
      BY <1>7, <1>8, <1>9, <2>1, <3>3
    <3> QED
      BY <2>1, <3>1, <3>2, <3>3
  <2> QED
    BY <1>1, <1>10, <2>1 DEF IsPairing
<1>12. Paired(P \cup {g}) = group \ t.left
  <2>1. \A o : o \in Paired(P \cup {g}) <=> o \in Paired(P) \/ o = p \/ o = q
    BY <1>7, <1>9, PairedIs
  <2> QED
    BY <1>1, <1>2, <1>5, <2>1
<1>13. Matched(t, group)
  BY <1>6, <1>11, <1>12 DEF Matched
<1> QED
  BY <1>5, <1>13 DEF Groupings, t

\* The loops that pair a group end in a pairing of some of it.
LEMMA MatchedAtFirst ==
    ASSUME NEW group \in SUBSET Entrants
    PROVE  [pairs |-> <<>>, left |-> group] \in Groupings(group)
<1> DEFINE r == [pairs |-> <<>>, left |-> group]
<1>1. Range(r.pairs) = {}
  BY DEF Range
<1>2. IsPairing({})
  BY DEF IsPairing
<1>3. Paired({}) = {}
  BY PairedIs
<1>4. Matched(r, group)
  BY <1>1, <1>2, <1>3 DEF Matched
<1>5. r \in [pairs : Seq(Entrants \X Entrants), left : SUBSET group]
  OBVIOUS
<1> QED
  BY <1>4, <1>5 DEF Groupings

\* The loops that pair a group end in a pairing of some of it.
LEMMA GroupMatched ==
    ASSUME SwissTypeOK, NEW s \in Standings, NEW group \in SUBSET Entrants
    PROVE  IsPairing(WithinGroup(s, group)) /\ Paired(WithinGroup(s, group)) \subseteq group
<1> DEFINE n == Len(s)
           start == [pairs |-> <<>>, left |-> group]
           R == Groupings(group)
           Loop(f) == f = [i \in 0..n |-> IF i = 0 THEN start ELSE GroupTurn(s, f[i - 1])]
           after == CHOOSE f : Loop(f)
<1>1. n \in Nat /\ start \in R
  BY StandingIs, MatchedAtFirst
<1> HIDE DEF start
<1>2. WithinGroup(s, group) = Range(after[n].pairs)
  BY Zenon DEF WithinGroup, start
<1>3. \A r \in R : GroupTurn(s, r) \in R
  <2> SUFFICES ASSUME NEW r \in R PROVE GroupTurn(s, r) \in R
    OBVIOUS
  <2> DEFINE p == First(s, r.left)
             fits == {q \in r.left : CanPair(p, q)}
             q == First(s, fits)
  <2>1. r.left \in SUBSET Entrants
    BY DEF Groupings
  <2>2. GroupTurn(s, r) = IF fits = {} THEN r ELSE PairOff(r, p, q)
    BY DEF GroupTurn
  <2>3. CASE fits = {}
    BY <2>2, <2>3
  <2>4. CASE fits # {}
    <3>1. p \in r.left
      BY <2>1, <2>4, FirstIsOne
    <3>2. fits \in SUBSET Entrants
      BY <2>1
    <3>3. q \in fits
      <4> HIDE DEF fits
      <4> QED
        BY <2>4, <3>2, FirstIsOne
    <3>4. q \in r.left /\ CanPair(p, q)
      BY <3>3
    <3> HIDE DEF p, q, fits, R
    <3>5. PairOff(r, p, q) \in Groupings(group)
      <4>1. r \in Groupings(group)
        BY DEF R
      <4> QED
        BY <3>1, <3>4, <4>1, MatchedOff
    <3> QED
      BY <2>2, <2>4, <3>5 DEF R
  <2> QED
    BY <2>3, <2>4
<1>4. \E f : Loop(f) /\ f \in [0..n -> R]
  <2> DEFINE turn == [r \in R |-> GroupTurn(s, r)]
  <2>1. turn \in [R -> R] /\ \A r \in R : turn[r] = GroupTurn(s, r)
    BY <1>3
  <2> HIDE DEF turn, n, R
  <2>2. PICK f : Runs(f, R, start, turn, n)
    BY <1>1, <2>1, LoopRuns
  <2>3. ASSUME NEW i \in 0..n, i # 0 PROVE f[i - 1] \in R
    <3>1. i - 1 \in 0..n
      BY <1>1, <2>3
    <3> QED
      BY <2>2, <3>1 DEF Runs
  <2>4. Loop(f)
    BY <2>1, <2>2, <2>3 DEF Runs
  <2>5. f \in [0..n -> R]
    BY <2>2 DEF Runs
  <2> QED
    BY <2>4, <2>5
<1>5. Loop(after)
  <2> HIDE DEF Loop
  <2> QED
    BY <1>4
<1> HIDE DEF after, n, R
<1>6. after[0] = start /\ \A i \in 1..n : after[i] = GroupTurn(s, after[i - 1])
  <2>1. \A i \in 0..n : after[i] = IF i = 0 THEN start ELSE GroupTurn(s, after[i - 1])
    BY <1>5
  <2>2. 0 \in 0..n /\ \A i \in 1..n : i \in 0..n /\ i # 0
    BY <1>1
  <2> QED
    BY <2>1, <2>2
<1> HIDE DEF Loop
<1> DEFINE N == {i \in Nat : i <= n => after[i] \in R}
<1>7. 0 \in N
  BY <1>1, <1>6
<1>8. ASSUME NEW i \in Nat, i \in N PROVE i + 1 \in N
  <2> SUFFICES ASSUME i + 1 <= n PROVE after[i + 1] \in R
    OBVIOUS
  <2>1. i + 1 \in 1..n /\ i <= n /\ (i + 1) - 1 = i
    BY <1>1
  <2>2. after[i + 1] = GroupTurn(s, after[i])
    BY <1>6, <2>1
  <2> QED
    BY <1>3, <1>8, <2>1, <2>2
<1> HIDE DEF N
<1>9. \A i \in Nat : i \in N
  BY <1>7, <1>8, NumbersInduction
<1>10. after[n] \in R
  BY <1>1, <1>9 DEF N
<1> QED
  BY <1>2, <1>10 DEF R, Groupings, Matched

LEMMA FloatsMatched ==
    ASSUME SwissTypeOK, NEW s \in Standings, NEW group \in SUBSET Entrants
    PROVE  /\ IsPairing(Range(HandleFloaters(s, group).pairs))
           /\ HandleFloaters(s, group).left \subseteq group
           /\ Paired(Range(HandleFloaters(s, group).pairs)) =
                  group \ HandleFloaters(s, group).left
<1> DEFINE n == Len(s)
           start == [pairs |-> <<>>, left |-> group]
           R == Groupings(group)
           Loop(f) == f = [i \in 0..n |-> IF i = 0 THEN start ELSE FloatTurn(s, f[i - 1])]
           after == CHOOSE f : Loop(f)
<1>1. n \in Nat /\ start \in R
  BY StandingIs, MatchedAtFirst
<1> HIDE DEF start
<1>2. HandleFloaters(s, group) = after[n]
  BY Zenon DEF HandleFloaters, start
<1>3. \A r \in R : FloatTurn(s, r) \in R
  <2> SUFFICES ASSUME NEW r \in R PROVE FloatTurn(s, r) \in R
    OBVIOUS
  <2> DEFINE p == First(s, r.left)
             others == r.left \ {p}
             q == First(s, others)
  <2>1. r.left \in SUBSET Entrants /\ IsFiniteSet(r.left)
    <3>1. r.left \in SUBSET Entrants
      BY DEF Groupings
    <3> QED
      BY <3>1, EntrantsAre, FS_Subset
  <2>2. FloatTurn(s, r) = IF Cardinality(r.left) < 2 \/ ~CanPair(p, q)
                          THEN r ELSE PairOff(r, p, q)
    BY DEF FloatTurn
  <2>3. CASE Cardinality(r.left) < 2 \/ ~CanPair(p, q)
    BY <2>2, <2>3
  <2>4. CASE ~(Cardinality(r.left) < 2) /\ CanPair(p, q)
    <3>1. r.left # {}
      <4>1. Cardinality({}) = 0
        BY FS_EmptySet
      <4> QED
        BY <2>4, <4>1
    <3>2. p \in r.left
      BY <2>1, <3>1, FirstIsOne
    <3>3. others # {}
      <4> SUFFICES ASSUME others = {} PROVE FALSE
        OBVIOUS
      <4> HIDE DEF p
      <4>1. r.left = {p}
        BY <3>2
      <4>2. Cardinality({p}) = 1
        BY FS_Singleton
      <4> QED
        BY <2>4, <4>1, <4>2
    <3>4. q \in others
      <4>1. others \in SUBSET Entrants
        BY <2>1
      <4> HIDE DEF others
      <4> QED
        BY <3>3, <4>1, FirstIsOne
    <3>5. q \in r.left
      BY <3>4
    <3> HIDE DEF p, q, R
    <3>6. PairOff(r, p, q) \in Groupings(group)
      <4>1. r \in Groupings(group)
        BY DEF R
      <4> QED
        BY <2>4, <3>2, <3>5, <4>1, MatchedOff
    <3> QED
      BY <2>2, <2>4, <3>6 DEF R
  <2> QED
    BY <2>3, <2>4
<1>4. \E f : Loop(f) /\ f \in [0..n -> R]
  <2> DEFINE turn == [r \in R |-> FloatTurn(s, r)]
  <2>1. turn \in [R -> R] /\ \A r \in R : turn[r] = FloatTurn(s, r)
    BY <1>3
  <2> HIDE DEF turn, n, R
  <2>2. PICK f : Runs(f, R, start, turn, n)
    BY <1>1, <2>1, LoopRuns
  <2>3. ASSUME NEW i \in 0..n, i # 0 PROVE f[i - 1] \in R
    <3>1. i - 1 \in 0..n
      BY <1>1, <2>3
    <3> QED
      BY <2>2, <3>1 DEF Runs
  <2>4. Loop(f)
    BY <2>1, <2>2, <2>3 DEF Runs
  <2>5. f \in [0..n -> R]
    BY <2>2 DEF Runs
  <2> QED
    BY <2>4, <2>5
<1>5. Loop(after)
  <2> HIDE DEF Loop
  <2> QED
    BY <1>4
<1> HIDE DEF after, n, R
<1>6. after[0] = start /\ \A i \in 1..n : after[i] = FloatTurn(s, after[i - 1])
  <2>1. \A i \in 0..n : after[i] = IF i = 0 THEN start ELSE FloatTurn(s, after[i - 1])
    BY <1>5
  <2>2. 0 \in 0..n /\ \A i \in 1..n : i \in 0..n /\ i # 0
    BY <1>1
  <2> QED
    BY <2>1, <2>2
<1> HIDE DEF Loop
<1> DEFINE N == {i \in Nat : i <= n => after[i] \in R}
<1>7. 0 \in N
  BY <1>1, <1>6
<1>8. ASSUME NEW i \in Nat, i \in N PROVE i + 1 \in N
  <2> SUFFICES ASSUME i + 1 <= n PROVE after[i + 1] \in R
    OBVIOUS
  <2>1. i + 1 \in 1..n /\ i <= n /\ (i + 1) - 1 = i
    BY <1>1
  <2>2. after[i + 1] = FloatTurn(s, after[i])
    BY <1>6, <2>1
  <2> QED
    BY <1>3, <1>8, <2>1, <2>2
<1> HIDE DEF N
<1>9. \A i \in Nat : i \in N
  BY <1>7, <1>8, NumbersInduction
<1>10. after[n] \in R
  BY <1>1, <1>9 DEF N
<1> QED
  BY <1>2, <1>10 DEF R, Groupings, Matched

LEMMA GroupsPaired ==
    ASSUME SwissTypeOK, NEW s \in Standings, NEW others \in SUBSET Entrants
    PROVE  IsPairing(InGroups(s, others)) /\ Paired(InGroups(s, others)) \subseteq others
<1> DEFINE scores == {Score(p) : p \in others}
           group(x) == {p \in others : Score(p) = x}
           P(x) == WithinGroup(s, group(x))
           Q == InGroups(s, others)
<1>1. \A g : g \in Q <=> \E x \in scores : g \in P(x)
  BY DEF InGroups
<1>2. \A x : IsPairing(P(x)) /\ Paired(P(x)) \subseteq group(x)
  <2> TAKE x
  <2>1. group(x) \in SUBSET Entrants
    OBVIOUS
  <2> HIDE DEF group
  <2> QED
    BY <2>1, GroupMatched
<1>3. \A x, o : o \in group(x) => o \in others /\ Score(o) = x
  OBVIOUS
<1> HIDE DEF P, group, scores, Q
<1>4. \A x : \A g \in P(x) : \A o : On(o, g) => o \in others /\ Score(o) = x
  BY <1>2, <1>3, PairedIs
<1>5. Q \subseteq Entrants \X Entrants /\ \A g \in Q : CanPair(g[1], g[2])
  BY <1>1, <1>2 DEF IsPairing
<1>6. ASSUME NEW g \in Q, NEW h \in Q, NEW o \in Entrants, On(o, g), On(o, h) PROVE g = h
  <2>1. PICK x \in scores : g \in P(x)
    BY <1>1
  <2>2. PICK y \in scores : h \in P(y)
    BY <1>1
  <2>3. Score(o) = x /\ Score(o) = y
    BY <1>4, <1>6, <2>1, <2>2
  <2>4. h \in P(x)
    BY <2>2, <2>3
  <2> QED
    BY <1>2, <1>6, <2>1, <2>4 DEF IsPairing
<1>7. IsPairing(Q)
  BY <1>5, <1>6 DEF IsPairing
<1>8. Paired(Q) \subseteq others
  BY <1>1, <1>4, PairedIs
<1> QED
  BY <1>7, <1>8 DEF Q

LEMMA PairingsTogether ==
    ASSUME NEW P, NEW Q, IsPairing(P), IsPairing(Q), Paired(P) \cap Paired(Q) = {}
    PROVE  IsPairing(P \cup Q) /\ Paired(P \cup Q) = Paired(P) \cup Paired(Q)
<1>1. \A p : /\ p \in Paired(P) <=> \E g \in P : On(p, g)
             /\ p \in Paired(Q) <=> \E g \in Q : On(p, g)
             /\ p \in Paired(P \cup Q) <=> \E g \in P \cup Q : On(p, g)
  BY PairedIs
<1>2. ASSUME NEW g \in P \cup Q, NEW h \in P \cup Q, NEW o \in Entrants, On(o, g), On(o, h)
      PROVE  g = h
  <2>1. (g \in P /\ h \in P) \/ (g \in Q /\ h \in Q)
    <3>1. ~(o \in Paired(P) /\ o \in Paired(Q))
      OBVIOUS
    <3>2. g \in P => o \in Paired(P)
      BY <1>1, <1>2
    <3>3. h \in P => o \in Paired(P)
      BY <1>1, <1>2
    <3>4. g \in Q => o \in Paired(Q)
      BY <1>1, <1>2
    <3>5. h \in Q => o \in Paired(Q)
      BY <1>1, <1>2
    <3> QED
      BY <3>1, <3>2, <3>3, <3>4, <3>5
  <2>2. CASE g \in P /\ h \in P
    BY <1>2, <2>2 DEF IsPairing
  <2>3. CASE g \in Q /\ h \in Q
    BY <1>2, <2>3 DEF IsPairing
  <2> QED
    BY <2>1, <2>2, <2>3
<1>3. /\ P \cup Q \subseteq Entrants \X Entrants
      /\ \A g \in P \cup Q : CanPair(g[1], g[2])
  BY DEF IsPairing
<1>4. IsPairing(P \cup Q)
  BY <1>2, <1>3 DEF IsPairing
<1>5. Paired(P \cup Q) = Paired(P) \cup Paired(Q)
  BY <1>1
<1> QED
  BY <1>4, <1>5

LEMMA PairingCounts ==
    ASSUME SwissTypeOK, NEW P, IsPairing(P)
    PROVE  /\ IsFiniteSet(P) /\ Cardinality(P) \in Nat
           /\ Cardinality(Paired(P)) = 2 * Cardinality(P)
           /\ Paired(P) \subseteq Entrants
           /\ \A g \in P : g[1] \in Entrants /\ g[2] \in Entrants /\ g[1] # g[2]
<1>1. IsFiniteSet(Entrants)
  BY EntrantsAre
<1>2. IsFiniteSet(Entrants \X Entrants)
  BY <1>1, FS_Product
<1>3. IsFiniteSet(P)
  BY <1>2, FS_Subset DEF IsPairing
<1>4. \A g \in P : g[1] \in Entrants /\ g[2] \in Entrants /\ g[1] # g[2]
  BY DEF IsPairing, CanPair
<1>5. \A g, h \in P, p \in Entrants : On(p, g) /\ On(p, h) => g = h
  BY DEF IsPairing
<1> DEFINE f == [p \in Entrants |-> 0]
<1>6. (\A p \in Entrants : f[p] \in Int) /\ \A g \in P : f[g[1]] + f[g[2]] = 0
  BY <1>4
<1> HIDE DEF f
<1>7. /\ SumFunctionOnSet(f, Paired(P)) = 0 * Cardinality(P)
      /\ Cardinality(Paired(P)) = 2 * Cardinality(P) /\ Paired(P) \subseteq Entrants
  BY <1>1, <1>3, <1>4, <1>5, <1>6, 0 \in Int, PairsAddUp
<1> QED
  BY <1>3, <1>4, <1>7, FS_CardinalityType

\* What an attempt pairs, before it succeeds or fails.
Made(a) == a.grouped \cup Range(a.floated.pairs)

\* An attempt of an odd field has one bye, an even one none; one that succeeds pairs all the
\* others.
LEMMA AttemptPairs ==
    ASSUME SwissTypeOK, NEW s \in Standings, NEW a, a = PairingAttempt(s)
    PROVE  /\ a.bye \in SUBSET Entrants
           /\ IF Odd THEN \E p \in Entrants : a.bye = {p} ELSE a.bye = {}
           /\ IsPairing(Made(a)) /\ IsPairing(Range(a.floated.pairs))
           /\ Succeeds(a) => Paired(Made(a)) = Entrants \ a.bye /\ Made(a) # {}
<1> DEFINE others == Entrants \ a.bye
           rest == others \ Paired(a.grouped)
           P == Range(a.floated.pairs)
           n == Cardinality(Entrants)
<1>1. /\ a.bye = (IF Odd THEN {ByeOf(s)} ELSE {}) /\ a.grouped = InGroups(s, others)
      /\ a.floated = HandleFloaters(s, rest)
  BY DEF PairingAttempt
<1>2. /\ a.bye \in SUBSET Entrants
      /\ IF Odd THEN \E p \in Entrants : a.bye = {p} ELSE a.bye = {}
  BY <1>1, ByeIsOne
<1>3. IsPairing(a.grouped) /\ Paired(a.grouped) \subseteq others
  <2>1. others \in SUBSET Entrants
    OBVIOUS
  <2> HIDE DEF others
  <2> QED
    BY <1>1, <2>1, GroupsPaired
<1>4. IsPairing(P) /\ Paired(P) = rest \ a.floated.left /\ a.floated.left \subseteq rest
  <2>1. rest \in SUBSET Entrants
    OBVIOUS
  <2> HIDE DEF rest
  <2> QED
    BY <1>1, <2>1, FloatsMatched
<1> HIDE DEF P
<1>5. IsPairing(Made(a)) /\ Paired(Made(a)) = Paired(a.grouped) \cup Paired(P)
  <2>1. Paired(a.grouped) \cap Paired(P) = {}
    BY <1>4
  <2> QED
    BY <1>3, <1>4, <2>1, PairingsTogether DEF Made, P
<1>6. Paired(Made(a)) = others \ a.floated.left /\ a.floated.left \subseteq others
  BY <1>3, <1>4, <1>5
<1>7. /\ Cardinality(Made(a)) \in Nat
      /\ Cardinality(Paired(Made(a))) = 2 * Cardinality(Made(a))
      /\ IsFiniteSet(Made(a))
  BY <1>5, PairingCounts
<1>8. n \in Nat /\ n >= 2 /\ IsFiniteSet(Entrants)
  BY EntrantsAre
<1>9. IsFiniteSet(others) /\ IsFiniteSet(a.floated.left) /\ Cardinality(a.floated.left) \in Nat
  <2>1. IsFiniteSet(others)
    BY <1>8, FS_Subset
  <2> HIDE DEF others
  <2> QED
    BY <1>6, <2>1, FS_Subset, FS_CardinalityType
<1>10. \E k \in Nat : Cardinality(others) = 2 * k /\ k > 0
  <2>1. CASE Odd
    <3>1. PICK p \in Entrants : a.bye = {p}
      BY <1>2, <2>1
    <3>2. Cardinality(others) = n - 1
      <4>1. Cardinality(Entrants \ {p}) = Cardinality(Entrants) - 1
        BY <1>8, FS_RemoveElement
      <4> QED
        BY <3>1, <4>1
    <3>3. n % 2 = 1
      BY <2>1 DEF Odd
    <3> HIDE DEF n
    <3>4. n - 1 = 2 * (n \div 2) /\ n \div 2 \in Nat /\ n \div 2 > 0
      BY <1>8, <3>3
    <3> QED
      BY <3>2, <3>4
  <2>2. CASE ~Odd
    <3>1. Cardinality(others) = n
      <4>1. others = Entrants
        BY <1>2, <2>2
      <4> QED
        BY <4>1
    <3>2. n % 2 # 1
      BY <2>2 DEF Odd
    <3> HIDE DEF n
    <3>3. n = 2 * (n \div 2) /\ n \div 2 \in Nat /\ n \div 2 > 0
      BY <1>8, <3>2
    <3> QED
      BY <3>1, <3>3
  <2> QED
    BY <2>1, <2>2
<1>11. Cardinality(Paired(Made(a))) = Cardinality(others) - Cardinality(a.floated.left)
  <2> HIDE DEF others
  <2>1. others \cap a.floated.left = a.floated.left
    BY <1>6
  <2>2. Cardinality(others \ a.floated.left)
          = Cardinality(others) - Cardinality(others \cap a.floated.left)
    BY <1>9, FS_Difference
  <2> QED
    BY <1>6, <2>1, <2>2
<1>12. ASSUME Succeeds(a) PROVE Paired(Made(a)) = others /\ Made(a) # {}
  <2>1. Cardinality(a.floated.left) < 2
    BY <1>12 DEF Succeeds
  <2>2. PICK k \in Nat : Cardinality(others) = 2 * k /\ k > 0
    BY <1>10
  <2> DEFINE x == Cardinality(a.floated.left)
             m == Cardinality(Made(a))
  <2>3. x \in Nat /\ m \in Nat /\ x < 2 /\ 2 * m = 2 * k - x
    BY <1>7, <1>9, <1>11, <2>1, <2>2
  <2> HIDE DEF x, m
  <2>4. x = 0 /\ m = k
    BY <2>3
  <2>5. a.floated.left = {}
    BY <1>9, <2>4, FS_EmptySet DEF x
  <2>6. Made(a) # {}
    <3>1. Cardinality({}) = 0
      BY FS_EmptySet
    <3> QED
      BY <2>2, <2>4, <3>1 DEF m
  <2>7. Paired(Made(a)) = others
    BY <1>6, <2>5
  <2> QED
    BY <2>6, <2>7
<1> QED
  BY <1>2, <1>4, <1>5, <1>12 DEF P

TotalScore == SumFunctionOnSet([p \in Entrants |-> entrants[p].score], Entrants)
TotalFloat == SumFunctionOnSet([p \in Entrants |-> entrants[p].float], Entrants)

EntrantsOK == \E n \in Sizes : entrants \in [1..n -> Player]

\* Floating up and down cancels out over the pairs that float.
LEMMA FloatsCancel ==
    ASSUME SwissTypeOK, NEW P, IsPairing(P), NEW f,
           \A p \in Entrants : f[p] = FloatChange(P, p)
    PROVE  (\A p \in Entrants : f[p] \in Int) /\ SumFunctionOnSet(f, Entrants) = 0
<1>1. \A p, q \in Entrants : Against(p, q) \in Int /\ Against(p, q) + Against(q, p) = 0
  <2> SUFFICES ASSUME NEW p \in Entrants, NEW q \in Entrants
               PROVE  Against(p, q) \in Int /\ Against(p, q) + Against(q, p) = 0
    OBVIOUS
  <2>1. Score(p) \in Nat /\ Score(q) \in Nat
    BY EntrantsAre
  <2> QED
    BY <2>1 DEF Against
<1>2. /\ IsFiniteSet(P) /\ Cardinality(P) \in Nat /\ Paired(P) \subseteq Entrants
      /\ \A g \in P : g[1] \in Entrants /\ g[2] \in Entrants /\ g[1] # g[2]
  BY PairingCounts
<1>3. \A g, h \in P, p \in Entrants : On(p, g) /\ On(p, h) => g = h
  BY DEF IsPairing
<1>4. ASSUME NEW g \in P, NEW p \in Entrants, On(p, g)
      PROVE  f[p] = IF p = g[1] THEN Against(g[1], g[2]) ELSE Against(g[2], g[1])
  <2> DEFINE h == CHOOSE h \in P : p \in {h[1], h[2]}
  <2>1. \E k \in P : p \in {k[1], k[2]}
    BY <1>4 DEF On
  <2>2. h \in P /\ p \in {h[1], h[2]}
    BY <2>1
  <2>3. p \in Paired(P)
    BY <1>4, PairedIs
  <2>4. f[p] = IF p = h[1] THEN Against(h[1], h[2]) ELSE Against(h[2], h[1])
    BY <2>3 DEF FloatChange
  <2> HIDE DEF h
  <2>5. h = g
    BY <1>3, <1>4, <2>2 DEF On
  <2> QED
    BY <2>4, <2>5
<1>5. \A p \in Entrants \ Paired(P) : f[p] = 0
  BY DEF FloatChange
<1>6. ASSUME NEW p \in Entrants PROVE f[p] \in Int
  <2>1. CASE p \in Paired(P)
    <3>1. PICK g \in P : On(p, g)
      BY <2>1, PairedIs
    <3>2. Against(g[1], g[2]) \in Int /\ Against(g[2], g[1]) \in Int
      BY <1>1, <1>2
    <3> QED
      BY <1>4, <3>1, <3>2
  <2>2. CASE p \notin Paired(P)
    BY <1>5, <2>2
  <2> QED
    BY <2>1, <2>2
<1>7. ASSUME NEW g \in P PROVE f[g[1]] + f[g[2]] = 0
  <2>1. f[g[1]] = Against(g[1], g[2]) /\ f[g[2]] = Against(g[2], g[1])
    BY <1>2, <1>4 DEF On
  <2> QED
    BY <1>1, <1>2, <2>1
<1>8. IsFiniteSet(Entrants)
  BY EntrantsAre
<1>9. /\ SumFunctionOnSet(f, Paired(P)) = 0 * Cardinality(P)
      /\ Cardinality(Paired(P)) = 2 * Cardinality(P)
      /\ Paired(P) \subseteq Entrants
  <2>1. IsFiniteSet(P) /\ \A g \in P : g[1] \in Entrants /\ g[2] \in Entrants /\ g[1] # g[2]
    BY <1>2
  <2>2. \A p \in Entrants : f[p] \in Int
    BY <1>6
  <2>3. \A g \in P : f[g[1]] + f[g[2]] = 0
    BY <1>7
  <2>4. 0 \in Int
    OBVIOUS
  <2> QED
    BY <1>3, <1>8, <2>1, <2>2, <2>3, <2>4, PairsAddUp, Zenon
<1>10. 0 * Cardinality(P) = 0
  BY <1>2
<1>11. SumFunctionOnSet(f, Entrants) = SumFunctionOnSet(f, Paired(P))
  BY <1>5, <1>6, <1>8, <1>9, SumOfPart
<1> QED
  BY <1>6, <1>9, <1>10, <1>11

LEMMA AttemptCounts ==
    ASSUME SwissTypeOK, NEW s \in Standings, NEW a, a = PairingAttempt(s),
           entrants' = Attempted(a)
    PROVE  /\ Entrants' = Entrants /\ EntrantsOK'
           /\ \A p, q : p \in Entrants => (Met(p, q)' <=> Met(p, q))
           /\ TotalScore \in Int /\ TotalScore' = TotalScore + 2 * Cardinality(a.bye)
           /\ Cardinality(a.bye) = IF Odd THEN 1 ELSE 0
           /\ TotalFloat \in Int /\ TotalFloat' = TotalFloat
<1> DEFINE P == Range(a.floated.pairs)
           bonus == [p \in Entrants |-> IF p \in a.bye THEN 2 ELSE 0]
           change == [p \in Entrants |-> FloatChange(P, p)]
           score == [p \in Entrants |-> entrants[p].score]
           score1 == [p \in Entrants |-> entrants'[p].score]
           float == [p \in Entrants |-> entrants[p].float]
           float1 == [p \in Entrants |-> entrants'[p].float]
<1>1. PICK n \in Nat : n \in Sizes /\ Entrants = 1..n /\ entrants \in [1..n -> Player]
  BY EntrantsAre
<1>2. IsFiniteSet(Entrants) /\ \A p \in Entrants : entrants[p] \in Player
  BY EntrantsAre
<1>3. DOMAIN entrants' = Entrants /\ Entrants' = Entrants
  BY DEF Attempted, Entrants
<1>4. IsPairing(P)
  BY AttemptPairs
<1>5. (\A p \in Entrants : change[p] \in Int) /\ SumFunctionOnSet(change, Entrants) = 0
  <2>1. \A p \in Entrants : change[p] = FloatChange(P, p)
    OBVIOUS
  <2> HIDE DEF change
  <2> QED
    BY <1>4, <2>1, FloatsCancel
<1>6. ASSUME NEW p \in Entrants
      PROVE  /\ entrants'[p].score = entrants[p].score + bonus[p]
             /\ entrants'[p].float = entrants[p].float + change[p]
             /\ entrants'[p].opponents = entrants[p].opponents
             /\ entrants'[p] \in Player
             /\ entrants[p].score \in Int /\ bonus[p] \in Int /\ entrants[p].float \in Int
  <2> DEFINE new == [entrants[p] EXCEPT
                       !.score = IF p \in a.bye THEN @ + 2 ELSE @,
                       !.float = @ + FloatChange(P, p)]
  <2>1. entrants'[p] = new
    BY DEF Attempted
  <2>2. /\ entrants[p] \in Player /\ change[p] = FloatChange(P, p) /\ change[p] \in Int
        /\ entrants[p].score \in Nat /\ entrants[p].float \in Int
    BY <1>2, <1>5 DEF Player
  <2>3. bonus[p] \in Nat
    OBVIOUS
  <2>4. /\ new.score = (IF p \in a.bye THEN entrants[p].score + 2 ELSE entrants[p].score)
        /\ new.float = entrants[p].float + FloatChange(P, p)
        /\ new.opponents = entrants[p].opponents
    BY <2>2 DEF Player
  <2>5. new.score = entrants[p].score + bonus[p]
    BY <2>2, <2>4
  <2>6. /\ (IF p \in a.bye THEN entrants[p].score + 2 ELSE entrants[p].score) \in Nat
        /\ entrants[p].float + FloatChange(P, p) \in Int
    BY <2>2
  <2>7. new \in Player
    BY <2>2, <2>6 DEF Player
  <2> HIDE DEF new, change, bonus
  <2> QED
    BY <2>1, <2>2, <2>3, <2>4, <2>5, <2>7
<1>7. EntrantsOK'
  <2>1. Player' = Player
    BY <1>3 DEF Player
  <2>2. entrants' = [p \in 1..n |-> entrants'[p]]
    BY <1>1 DEF Attempted
  <2>3. entrants' \in [1..n -> Player]
    BY <1>1, <1>6, <2>2
  <2> QED
    BY <1>1, <2>1, <2>3 DEF EntrantsOK
<1>8. \A p, q : p \in Entrants => (Met(p, q)' <=> Met(p, q))
  BY <1>6 DEF Met
<1>9. /\ \A p \in Entrants : bonus[p] \in Int
      /\ SumFunctionOnSet(bonus, Entrants) = 2 * Cardinality(a.bye)
      /\ Cardinality(a.bye) = IF Odd THEN 1 ELSE 0
  <2>1. \A p \in Entrants : bonus[p] \in Int
    OBVIOUS
  <2>2. CASE Odd
    <3>1. PICK p \in Entrants : a.bye = {p}
      BY <2>2, AttemptPairs
    <3>2. bonus[p] = 2 /\ \A q \in Entrants \ {p} : bonus[q] = 0
      BY <3>1
    <3> HIDE DEF bonus
    <3>3. SumFunctionOnSet(bonus, Entrants) = SumFunctionOnSet(bonus, {p})
      BY <1>2, <2>1, <3>2, SumOfPart
    <3>4. SumFunctionOnSet(bonus, {p}) = bonus[p] + SumFunctionOnSet(bonus, {p} \ {p})
      BY <2>1, FS_Singleton, SumTakesOut
    <3>5. SumFunctionOnSet(bonus, {p} \ {p}) = 0
      <4>1. {p} \ {p} = {}
        OBVIOUS
      <4> QED
        BY <4>1, SumOfNothing
    <3>6. Cardinality(a.bye) = 1
      BY <3>1, FS_Singleton
    <3> QED
      BY <2>1, <2>2, <3>2, <3>3, <3>4, <3>5, <3>6
  <2>3. CASE ~Odd
    <3>1. a.bye = {}
      BY <2>3, AttemptPairs
    <3>2. \A q \in Entrants : bonus[q] = 0
      BY <3>1
    <3> HIDE DEF bonus
    <3>3. SumFunctionOnSet(bonus, Entrants) = 0
      BY <1>2, <3>2, SumOfZeros
    <3>4. Cardinality(a.bye) = 0
      BY <3>1, FS_EmptySet
    <3> QED
      BY <2>1, <2>3, <3>3, <3>4
  <2> QED
    BY <2>2, <2>3
<1>10. TotalScore = SumFunctionOnSet(score, Entrants)
  BY DEF TotalScore
<1>11. TotalScore' = SumFunctionOnSet(score1, Entrants)
  BY <1>3 DEF TotalScore
<1>12. TotalFloat = SumFunctionOnSet(float, Entrants)
  BY DEF TotalFloat
<1>13. TotalFloat' = SumFunctionOnSet(float1, Entrants)
  BY <1>3 DEF TotalFloat
<1>14. \A p \in Entrants : /\ score[p] \in Int /\ bonus[p] \in Int
                           /\ score1[p] = score[p] + bonus[p]
  <2> HIDE DEF bonus
  <2> QED
    BY <1>6
<1>15. \A p \in Entrants : /\ float[p] \in Int /\ change[p] \in Int
                           /\ float1[p] = float[p] + change[p]
  <2> HIDE DEF change
  <2> QED
    BY <1>5, <1>6
<1> HIDE DEF score, score1, float, float1, bonus, change, P
<1>16. SumFunctionOnSet(score, Entrants) \in Int /\ SumFunctionOnSet(float, Entrants) \in Int
  BY <1>2, <1>14, <1>15, SumIsInt
<1>17. SumFunctionOnSet(score1, Entrants)
         = SumFunctionOnSet(score, Entrants) + SumFunctionOnSet(bonus, Entrants)
  BY <1>2, <1>14, SumOfSums
<1>18. SumFunctionOnSet(float1, Entrants)
         = SumFunctionOnSet(float, Entrants) + SumFunctionOnSet(change, Entrants)
  BY <1>2, <1>15, SumOfSums
<1>19. TotalScore \in Int /\ TotalScore' = TotalScore + 2 * Cardinality(a.bye)
  BY <1>9, <1>10, <1>11, <1>16, <1>17
<1>20. TotalFloat \in Int /\ TotalFloat' = TotalFloat
  BY <1>5, <1>12, <1>13, <1>16, <1>18
<1> QED
  BY <1>3, <1>7, <1>8, <1>9, <1>19, <1>20

\* The points so far.
Worth == 2 * (Cardinality(pairings \ Playing) + Cardinality(byes) + failed.odd)

LEMMA PointsAre == PointsAccounted <=> TotalScore = Worth /\ TotalFloat = 0
BY DEF PointsAccounted, TotalScore, TotalFloat, Worth

LEMMA FailedIs ==
    ASSUME SwissTypeOK
    PROVE  failed.even \in Nat /\ failed.odd \in Nat
BY DEF SwissTypeOK

\* The pairs of an attempt as they are published.
Published(P) ==
    {<<CreatePairing(g[1], g[2])[1], CreatePairing(g[1], g[2])[2], round>> : g \in P}

LEMMA PublishedAre ==
    ASSUME SwissTypeOK, NEW P, IsPairing(P)
    PROVE  /\ Published(P) \subseteq Entrants \X Entrants \X Nat
           /\ IsFiniteSet(Published(P))
           /\ \A n \in Published(P) :
                 n[3] = round /\ n[1] # n[2] /\ \E g \in P : \A p : On(p, n) <=> On(p, g)
           /\ \A g \in P : \E n \in Published(P) : \A p : On(p, n) <=> On(p, g)
           /\ \A m, n \in Published(P), p \in Entrants : On(p, m) /\ On(p, n) => m = n
<1> DEFINE Pub(g) == <<CreatePairing(g[1], g[2])[1], CreatePairing(g[1], g[2])[2], round>>
<1>1. /\ IsFiniteSet(P)
      /\ \A g \in P : g[1] \in Entrants /\ g[2] \in Entrants /\ g[1] # g[2]
  BY PairingCounts
<1>2. round \in Nat
  BY DEF SwissTypeOK
<1>3. ASSUME NEW g \in P
      PROVE  /\ Pub(g) \in Entrants \X Entrants \X Nat /\ Pub(g)[3] = round
             /\ Pub(g)[1] # Pub(g)[2] /\ \A p : On(p, Pub(g)) <=> On(p, g)
  <2> DEFINE c == CreatePairing(g[1], g[2])
  <2>1. c = <<g[1], g[2]>> \/ c = <<g[2], g[1]>>
    BY DEF CreatePairing
  <2>2. (c[1] = g[1] /\ c[2] = g[2]) \/ (c[1] = g[2] /\ c[2] = g[1])
    BY <2>1
  <2>3. Pub(g)[1] = c[1] /\ Pub(g)[2] = c[2] /\ Pub(g)[3] = round
    OBVIOUS
  <2>4. c[1] \in Entrants /\ c[2] \in Entrants
    BY <1>1, <2>2
  <2>5. Pub(g) \in Entrants \X Entrants \X Nat
    BY <1>2, <2>4
  <2> HIDE DEF c, Pub
  <2> QED
    BY <1>1, <2>2, <2>3, <2>5 DEF On
<1> DEFINE f == [g \in P |-> Pub(g)]
<1>4. Published(P) = {Pub(g) : g \in P}
  BY DEF Published
<1> HIDE DEF Pub
<1>5. IsFiniteSet(Published(P))
  <2>1. f \in Surjection(P, Published(P))
    BY <1>4 DEF Surjection
  <2> QED
    BY <1>1, <2>1, FS_Surjection
<1>6. \A n \in Published(P) :
        n[3] = round /\ n[1] # n[2] /\ \E g \in P : \A p : On(p, n) <=> On(p, g)
  BY <1>3, <1>4
<1>7. \A g \in P : \E n \in Published(P) : \A p : On(p, n) <=> On(p, g)
  BY <1>3, <1>4
<1>8. ASSUME NEW m \in Published(P), NEW n \in Published(P), NEW p \in Entrants,
             On(p, m), On(p, n)
      PROVE  m = n
  <2>1. PICK g \in P : m = Pub(g)
    BY <1>4
  <2>2. PICK h \in P : n = Pub(h)
    BY <1>4
  <2>3. On(p, g) /\ On(p, h)
    BY <1>3, <1>8, <2>1, <2>2
  <2>4. g = h
    BY <2>3 DEF IsPairing
  <2> QED
    BY <2>1, <2>2, <2>4
<1>9. Published(P) \subseteq Entrants \X Entrants \X Nat
  BY <1>3, <1>4
<1> QED
  BY <1>5, <1>6, <1>7, <1>8, <1>9

\* Two with the same players are the same game.
LEMMA SamePlayers ==
    \A g, h : {g[1], g[2]} = {h[1], h[2]} => \A p : On(p, g) <=> On(p, h)
BY DEF On

LEMMA RoundPaired ==
    ASSUME SwissInv, PairRound
    PROVE  SwissInv'
<1>1. SwissTypeOK /\ RoundsWhole /\ GamesRemembered /\ PointsAccounted
  BY DEF SwissInv
<1>2. PICK s \in Standings :
         LET a == PairingAttempt(s)
         IN /\ Succeeds(a)
            /\ entrants' = Attempted(a)
            /\ pairings' = pairings \cup
                  {<<CreatePairing(g[1], g[2])[1], CreatePairing(g[1], g[2])[2], round>> :
                      g \in a.grouped \cup Range(a.floated.pairs)}
            /\ byes' = byes \cup {<<round, p>> : p \in a.bye}
  BY DEF PairRound
<1> DEFINE a0 == PairingAttempt(s)
           N0 == Published(Made(a0))
<1>3. PICK a : a = a0
  OBVIOUS
<1>4. PICK N : N = N0
  OBVIOUS
<1>5. /\ Succeeds(a) /\ entrants' = Attempted(a) /\ pairings' = pairings \cup N
      /\ byes' = byes \cup {<<round, p>> : p \in a.bye}
  BY <1>2, <1>3, <1>4 DEF Published, Made
<1>6. Unpaired /\ round' = round /\ failed' = failed
  BY DEF PairRound
<1>7. /\ a.bye \in SUBSET Entrants
      /\ IF Odd THEN \E p \in Entrants : a.bye = {p} ELSE a.bye = {}
      /\ IsPairing(Made(a)) /\ Paired(Made(a)) = Entrants \ a.bye /\ Made(a) # {}
  BY <1>1, <1>3, <1>5, AttemptPairs
<1>8. /\ N \subseteq Entrants \X Entrants \X Nat /\ IsFiniteSet(N)
      /\ \A n \in N :
            n[3] = round /\ n[1] # n[2] /\ \E g \in Made(a) : \A p : On(p, n) <=> On(p, g)
      /\ \A g \in Made(a) : \E n \in N : \A p : On(p, n) <=> On(p, g)
      /\ \A m, n \in N, p \in Entrants : On(p, m) /\ On(p, n) => m = n
  BY <1>1, <1>3, <1>4, <1>7, PublishedAre
<1>9. /\ Entrants' = Entrants /\ EntrantsOK'
      /\ \A p, q : p \in Entrants => (Met(p, q)' <=> Met(p, q))
      /\ TotalScore \in Int /\ TotalScore' = TotalScore + 2 * Cardinality(a.bye)
      /\ Cardinality(a.bye) = IF Odd THEN 1 ELSE 0
      /\ TotalFloat \in Int /\ TotalFloat' = TotalFloat
  BY <1>1, <1>3, <1>5, AttemptCounts
<1>10. /\ round \in Nat /\ pairings \subseteq Entrants \X Entrants \X Nat
       /\ IsFiniteSet(pairings) /\ byes \subseteq Nat \X Entrants /\ IsFiniteSet(byes)
       /\ failed \in [even : Nat, odd : Nat]
  BY <1>1 DEF SwissTypeOK
<1>11. \A g \in pairings : g[3] < round /\ g[1] \in Entrants /\ g[2] \in Entrants
  <2>1. \A g \in pairings : g[3] # round /\ g[3] <= round /\ g[3] \in Nat
    BY <1>1, <1>6, <1>10 DEF Unpaired, RoundsWhole
  <2> QED
    BY <1>10, <2>1
<1>12. \A p : <<round, p>> \notin byes
  <2> SUFFICES ASSUME NEW p, <<round, p>> \in byes PROVE FALSE
    OBVIOUS
  <2>1. PICK g \in pairings : g[3] = <<round, p>>[1]
    BY <1>1 DEF RoundsWhole
  <2> QED
    BY <1>6, <2>1 DEF Unpaired
<1>13. \A b : b \in byes' <=> b \in byes \/ \E p \in a.bye : b = <<round, p>>
  BY <1>5
<1>14. /\ byes' \subseteq Nat \X Entrants /\ IsFiniteSet(byes')
       /\ Cardinality(byes) \in Nat /\ Cardinality(byes') = Cardinality(byes) + Cardinality(a.bye)
  <2>1. byes' \subseteq Nat \X Entrants
    BY <1>7, <1>10, <1>13
  <2>2. Cardinality(byes) \in Nat
    BY <1>10, FS_CardinalityType
  <2>3. CASE Odd
    <3>1. PICK p \in Entrants : a.bye = {p}
      BY <1>7, <2>3
    <3>2. byes' = byes \cup {<<round, p>>}
      BY <1>5, <3>1
    <3>3. <<round, p>> \notin byes
      BY <1>12
    <3>4. IsFiniteSet(byes') /\ Cardinality(byes') = Cardinality(byes) + 1
      BY <1>10, <3>2, <3>3, FS_AddElement
    <3> QED
      BY <1>9, <2>1, <2>2, <2>3, <3>4
  <2>4. CASE ~Odd
    <3>1. byes' = byes
      BY <1>5, <1>7, <2>4
    <3>2. Cardinality(byes') = Cardinality(byes) + 0
      BY <2>2, <3>1
    <3> QED
      BY <1>9, <1>10, <2>1, <2>2, <2>4, <3>1, <3>2
  <2> QED
    BY <2>3, <2>4
<1>15. pairings' \subseteq Entrants \X Entrants \X Nat /\ IsFiniteSet(pairings')
  BY <1>5, <1>8, <1>10, FS_Union
<1>16. SwissTypeOK'
  BY <1>6, <1>9, <1>10, <1>14, <1>15 DEF SwissTypeOK, EntrantsOK
<1>17. \A g \in pairings' : g \in pairings \/ g \in N
  BY <1>5
<1>18. \A g \in N : g[3] = round /\ \A p : On(p, g) => p \in Entrants /\ p \notin a.bye
  <2> SUFFICES ASSUME NEW g \in N
               PROVE  g[3] = round /\ \A p : On(p, g) => p \in Entrants /\ p \notin a.bye
    OBVIOUS
  <2>1. PICK k \in Made(a) : \A p : On(p, g) <=> On(p, k)
    BY <1>8
  <2>2. \A p : On(p, k) => p \in Paired(Made(a))
    BY PairedIs
  <2> QED
    BY <1>7, <1>8, <2>1, <2>2
<1>19. \A p \in Entrants : p \in a.bye \/ \E n \in N : On(p, n)
  <2> SUFFICES ASSUME NEW p \in Entrants, p \notin a.bye PROVE \E n \in N : On(p, n)
    OBVIOUS
  <2>1. p \in Paired(Made(a))
    BY <1>7
  <2>2. PICK g \in Made(a) : On(p, g)
    BY <2>1, PairedIs
  <2> QED
    BY <1>8, <2>2
<1>20. \E n \in N : TRUE
  BY <1>7, <1>8
<1> HIDE DEF a0, N0
<1>21. RoundsWhole'
  <2>1. \A g \in pairings' : g[1] # g[2] /\ g[3] <= round
    <3>1. \A g \in pairings : g[1] # g[2] /\ g[3] <= round
      BY <1>1 DEF RoundsWhole
    <3>2. \A g \in N : g[1] # g[2] /\ g[3] <= round
      BY <1>8, <1>10
    <3> QED
      BY <1>17, <3>1, <3>2
  <2>2. ASSUME NEW g \in pairings', NEW h \in pairings', NEW p \in Entrants,
               g[3] = h[3], On(p, g), On(p, h)
        PROVE  g = h
    <3>1. CASE g \in pairings /\ h \in pairings
      BY <1>1, <2>2, <3>1 DEF RoundsWhole
    <3>2. CASE g \in N /\ h \in N
      BY <1>8, <2>2, <3>2
    <3>3. CASE g \in pairings /\ h \in N
      BY <1>10, <1>11, <1>18, <2>2, <3>3
    <3>4. CASE g \in N /\ h \in pairings
      BY <1>10, <1>11, <1>18, <2>2, <3>4
    <3> QED
      BY <1>17, <3>1, <3>2, <3>3, <3>4
  <2>3. ASSUME NEW g \in pairings', NEW p \in Entrants, On(p, g)
        PROVE  <<g[3], p>> \notin byes'
    <3>1. CASE g \in pairings
      <4>1. <<g[3], p>> \notin byes
        BY <1>1, <2>3, <3>1 DEF RoundsWhole
      <4>2. g[3] # round
        BY <1>10, <1>11, <3>1
      <4> QED
        BY <1>13, <4>1, <4>2
    <3>2. CASE g \in N
      <4>1. g[3] = round /\ p \notin a.bye
        BY <1>18, <2>3, <3>2
      <4> QED
        BY <1>12, <1>13, <4>1
    <3> QED
      BY <1>17, <3>1, <3>2
  <2>4. ASSUME NEW g \in pairings', NEW p \in Entrants
        PROVE  <<g[3], p>> \in byes' \/ \E h \in pairings' : h[3] = g[3] /\ On(p, h)
    <3>1. CASE g \in pairings
      <4>1. <<g[3], p>> \in byes \/ \E h \in pairings : h[3] = g[3] /\ On(p, h)
        BY <1>1, <3>1 DEF RoundsWhole
      <4> QED
        BY <1>5, <4>1
    <3>2. CASE g \in N
      <4>1. g[3] = round
        BY <1>18, <3>2
      <4>2. CASE p \in a.bye
        BY <1>13, <4>1, <4>2
      <4>3. CASE \E n \in N : On(p, n)
        BY <1>5, <1>18, <4>1, <4>3
      <4> QED
        BY <1>19, <4>2, <4>3
    <3> QED
      BY <1>17, <3>1, <3>2
  <2>5. ASSUME NEW b \in byes' PROVE \E g \in pairings' : g[3] = b[1]
    <3>1. CASE b \in byes
      <4>1. \E g \in pairings : g[3] = b[1]
        BY <1>1, <3>1 DEF RoundsWhole
      <4> QED
        BY <1>5, <4>1
    <3>2. CASE \E p \in a.bye : b = <<round, p>>
      <4>1. b[1] = round
        BY <3>2
      <4> QED
        BY <1>5, <1>18, <1>20, <4>1
    <3> QED
      BY <1>13, <3>1, <3>2
  <2> QED
    BY <1>6, <1>9, <2>1, <2>2, <2>3, <2>4, <2>5 DEF RoundsWhole, On
<1>22. GamesRemembered'
  <2>1. ASSUME NEW g \in pairings', g[3] < round PROVE Met(g[1], g[2])' /\ Met(g[2], g[1])'
    <3>1. g \in pairings
      BY <1>10, <1>17, <1>18, <2>1
    <3>2. Met(g[1], g[2]) /\ Met(g[2], g[1])
      BY <1>1, <2>1, <3>1 DEF GamesRemembered
    <3> QED
      BY <1>9, <1>11, <3>1, <3>2
  <2>2. ASSUME NEW p \in Entrants, NEW q \in Entrants, Met(p, q)' PROVE Met(q, p)'
    BY <1>1, <1>9, <2>2 DEF GamesRemembered
  <2>3. ASSUME NEW g \in pairings, NEW h \in N, {g[1], g[2]} = {h[1], h[2]} PROVE FALSE
    <3>1. Met(g[1], g[2]) /\ Met(g[2], g[1]) /\ g[1] # g[2]
      BY <1>1, <1>11 DEF GamesRemembered, RoundsWhole
    <3>2. PICK k \in Made(a) : \A p : On(p, h) <=> On(p, k)
      BY <1>8
    <3>3. CanPair(k[1], k[2])
      BY <1>7 DEF IsPairing
    <3>4. On(g[1], k) /\ On(g[2], k)
      BY <2>3, <3>2, SamePlayers DEF On
    <3>5. Met(k[1], k[2])
      BY <3>1, <3>4 DEF On
    <3> QED
      BY <3>3, <3>5 DEF CanPair, Met
  <2>4. ASSUME NEW g \in pairings', NEW h \in pairings', {g[1], g[2]} = {h[1], h[2]}
        PROVE  g = h
    <3>1. CASE g \in pairings /\ h \in pairings
      BY <1>1, <2>4, <3>1 DEF GamesRemembered
    <3>2. CASE g \in N /\ h \in N
      <4>1. On(g[1], g) /\ On(g[1], h)
        BY <2>4, SamePlayers DEF On
      <4>2. g[1] \in Entrants
        BY <1>18, <3>2, <4>1
      <4> QED
        BY <1>8, <3>2, <4>1, <4>2
    <3>3. CASE g \in pairings /\ h \in N
      BY <2>3, <2>4, <3>3
    <3>4. CASE g \in N /\ h \in pairings
      BY <2>3, <2>4, <3>4
    <3> QED
      BY <1>17, <3>1, <3>2, <3>3, <3>4
  <2> QED
    BY <1>6, <1>9, <2>1, <2>2, <2>4 DEF GamesRemembered
<1>23. PointsAccounted'
  <2>1. Playing = {} /\ pairings \ Playing = pairings
    BY <1>6 DEF Playing, Unpaired
  <2>2. pairings' \ Playing' = pairings
    <3>1. \A g \in pairings : g[3] # round
      BY <1>6 DEF Unpaired
    <3>2. \A g \in N : g[3] = round
      BY <1>18
    <3>3. \A g : g \in pairings' \ Playing' <=> g \in pairings
      BY <1>5, <1>6, <3>1, <3>2 DEF Playing
    <3> QED
      BY <3>3
  <2>3. Cardinality(pairings) \in Nat
    BY <1>10, FS_CardinalityType
  <2>4. failed.odd \in Nat
    BY <1>1, FailedIs
  <2>5. TotalScore = 2 * (Cardinality(pairings) + Cardinality(byes) + failed.odd)
    BY <1>1, <2>1, PointsAre DEF Worth
  <2>6. TotalFloat = 0
    BY <1>1, PointsAre
  <2>7. TotalScore' = 2 * (Cardinality(pairings) + Cardinality(byes') + failed.odd)
    <3>1. Cardinality(a.bye) \in Nat
      BY <1>9
    <3> QED
      BY <1>9, <1>14, <2>3, <2>4, <2>5, <3>1
  <2>8. Worth' = 2 * (Cardinality(pairings) + Cardinality(byes') + failed.odd)
    BY <1>6, <2>2 DEF Worth
  <2>9. TotalScore' = Worth' /\ TotalFloat' = 0
    BY <1>9, <2>6, <2>7, <2>8
  <2> QED
    BY <2>9, PointsAre DEF PointsAccounted, TotalScore, TotalFloat, Worth
<1> QED
  BY <1>16, <1>21, <1>22, <1>23 DEF SwissInv

LEMMA RoundFails ==
    ASSUME SwissInv, PairRoundFails
    PROVE  SwissInv'
<1>1. SwissTypeOK /\ RoundsWhole /\ GamesRemembered /\ PointsAccounted
  BY DEF SwissInv
<1>2. PICK s \in Standings : entrants' = Attempted(PairingAttempt(s))
  BY DEF PairRoundFails
<1>3. PICK a : a = PairingAttempt(s)
  OBVIOUS
<1>4. /\ pairings' = pairings /\ round' = round /\ byes' = byes
      /\ failed' = IF Odd THEN [failed EXCEPT !.odd = @ + 1] ELSE [failed EXCEPT !.even = @ + 1]
  BY DEF PairRoundFails
<1>5. /\ Entrants' = Entrants /\ EntrantsOK'
      /\ \A p, q : p \in Entrants => (Met(p, q)' <=> Met(p, q))
      /\ TotalScore \in Int /\ TotalScore' = TotalScore + 2 * Cardinality(a.bye)
      /\ Cardinality(a.bye) = IF Odd THEN 1 ELSE 0
      /\ TotalFloat \in Int /\ TotalFloat' = TotalFloat
  BY <1>1, <1>2, <1>3, AttemptCounts
<1>6. /\ round \in Nat /\ pairings \subseteq Entrants \X Entrants \X Nat
      /\ IsFiniteSet(pairings) /\ byes \subseteq Nat \X Entrants /\ IsFiniteSet(byes)
      /\ failed \in [even : Nat, odd : Nat]
  BY <1>1 DEF SwissTypeOK
<1>7. /\ failed' \in [even : Nat, odd : Nat]
      /\ failed'.odd = failed.odd + Cardinality(a.bye)
  <2>1. CASE Odd
    <3>1. failed' = [failed EXCEPT !.odd = @ + 1] /\ failed.odd \in Nat
      BY <1>4, <1>6, <2>1
    <3>2. failed'.odd = failed.odd + 1
      BY <1>6, <3>1
    <3>3. failed.odd + 1 \in Nat
      BY <3>1
    <3> QED
      BY <1>5, <1>6, <2>1, <3>1, <3>2, <3>3
  <2>2. CASE ~Odd
    <3>1. failed' = [failed EXCEPT !.even = @ + 1] /\ failed.odd \in Nat /\ failed.even \in Nat
      BY <1>4, <1>6, <2>2
    <3>2. failed'.odd = failed.odd
      BY <1>6, <3>1
    <3>3. failed.even + 1 \in Nat /\ failed.odd + 0 = failed.odd
      BY <3>1
    <3> QED
      BY <1>5, <1>6, <2>2, <3>1, <3>2, <3>3
  <2> QED
    BY <2>1, <2>2
<1>8. SwissTypeOK'
  BY <1>4, <1>5, <1>6, <1>7 DEF SwissTypeOK, EntrantsOK
<1>9. RoundsWhole'
  BY <1>1, <1>4, <1>5 DEF RoundsWhole, On
<1>10. GamesRemembered'
  <2>1. \A g \in pairings : g[1] \in Entrants /\ g[2] \in Entrants
    BY <1>6
  <2>2. \A g \in pairings : g[3] < round => Met(g[1], g[2])' /\ Met(g[2], g[1])'
    BY <1>1, <1>5, <2>1 DEF GamesRemembered
  <2>3. \A p, q \in Entrants : Met(p, q)' => Met(q, p)'
    BY <1>1, <1>5 DEF GamesRemembered
  <2> QED
    BY <1>1, <1>4, <1>5, <2>2, <2>3 DEF GamesRemembered
<1>11. PointsAccounted'
  <2> DEFINE games == Cardinality(pairings \ Playing)
  <2>1. games \in Nat /\ Cardinality(byes) \in Nat /\ failed.odd \in Nat
        /\ Cardinality(a.bye) \in Nat
    <3>1. IsFiniteSet(pairings \ Playing)
      BY <1>6, FS_Subset
    <3> QED
      BY <1>5, <1>6, <3>1, FS_CardinalityType
  <2>2. TotalScore = 2 * (games + Cardinality(byes) + failed.odd) /\ TotalFloat = 0
    BY <1>1, PointsAre DEF Worth
  <2>3. Worth' = 2 * (games + Cardinality(byes) + failed'.odd)
    BY <1>4 DEF Worth, Playing
  <2> HIDE DEF games
  <2>4. TotalScore' = Worth' /\ TotalFloat' = 0
    BY <1>5, <1>7, <2>1, <2>2, <2>3
  <2> QED
    BY <2>4 DEF PointsAccounted, TotalScore, TotalFloat, Worth
<1> QED
  BY <1>8, <1>9, <1>10, <1>11 DEF SwissInv

LEMMA ResultsApplied ==
    ASSUME SwissInv, ApplyRoundResults
    PROVE  SwissInv'
<1>1. SwissTypeOK /\ RoundsWhole /\ GamesRemembered /\ PointsAccounted
  BY DEF SwissInv
<1>2. PICK results \in [Playing -> {"white", "black", "draw"}] :
         entrants' = [p \in Entrants |->
             IF \E g \in Playing : p \in {g[1], g[2]}
             THEN LET g == CHOOSE g \in Playing : p \in {g[1], g[2]}
                  IN AfterGame(p, g, results[g])
             ELSE entrants[p]]
  BY DEF ApplyRoundResults
<1>3. round' = round + 1 /\ pairings' = pairings /\ byes' = byes /\ failed' = failed
  BY DEF ApplyRoundResults
<1>4. /\ round \in Nat /\ pairings \subseteq Entrants \X Entrants \X Nat
      /\ IsFiniteSet(pairings) /\ byes \subseteq Nat \X Entrants /\ IsFiniteSet(byes)
      /\ failed \in [even : Nat, odd : Nat]
  BY <1>1 DEF SwissTypeOK
<1>5. /\ IsFiniteSet(Entrants) /\ Entrants \subseteq Nat
      /\ \A p \in Entrants : entrants[p] \in Player
  BY <1>1, EntrantsAre
<1>6. DOMAIN entrants' = Entrants /\ Entrants' = Entrants
  BY <1>2 DEF Entrants
<1>7. /\ IsFiniteSet(Playing) /\ Playing \subseteq pairings
      /\ \A g \in Playing : /\ g[1] \in Entrants /\ g[2] \in Entrants /\ g[1] # g[2]
                            /\ g[3] = round /\ results[g] \in {"white", "black", "draw"}
  <2>1. Playing \subseteq pairings
    BY DEF Playing
  <2>2. IsFiniteSet(Playing)
    BY <1>4, <2>1, FS_Subset
  <2>3. \A g \in Playing : g[3] = round
    BY DEF Playing
  <2>4. \A g \in pairings : g[1] # g[2]
    BY <1>1 DEF RoundsWhole
  <2> QED
    BY <1>4, <2>1, <2>2, <2>3, <2>4
<1>8. \A g, h \in Playing, p \in Entrants : On(p, g) /\ On(p, h) => g = h
  BY <1>1, <1>7 DEF RoundsWhole
<1>9. ASSUME NEW g \in Playing, NEW p \in Entrants, On(p, g)
      PROVE  entrants'[p] = AfterGame(p, g, results[g])
  <2> DEFINE h == CHOOSE h \in Playing : p \in {h[1], h[2]}
  <2>1. \E k \in Playing : p \in {k[1], k[2]}
    BY <1>9 DEF On
  <2>2. h \in Playing /\ p \in {h[1], h[2]}
    BY <2>1
  <2>3. entrants'[p] = AfterGame(p, h, results[h])
    BY <1>2, <2>1
  <2> HIDE DEF h
  <2>4. h = g
    BY <1>8, <1>9, <2>2 DEF On
  <2> QED
    BY <2>3, <2>4
<1>10. ASSUME NEW p \in Entrants, \A g \in Playing : ~On(p, g)
       PROVE  entrants'[p] = entrants[p]
  BY <1>2, <1>10 DEF On
<1>11. ASSUME NEW g \in Playing, NEW p \in Entrants, On(p, g)
       PROVE  /\ entrants'[p] \in Player
              /\ entrants'[p].score = entrants[p].score
                     + Points(results[g], IF p = g[1] THEN "white" ELSE "black")
              /\ entrants'[p].float = entrants[p].float
              /\ entrants'[p].opponents =
                    Append(entrants[p].opponents, IF p = g[1] THEN g[2] ELSE g[1])
  <2> DEFINE side == IF p = g[1] THEN "white" ELSE "black"
             other == IF p = g[1] THEN g[2] ELSE g[1]
             points == Points(results[g], side)
             new == [entrants[p] EXCEPT
                       !.score = @ + points,
                       !.balance = IF side = "white" THEN @ + 1 ELSE @ - 1,
                       !.opponents = Append(@, other)]
  <2>1. entrants'[p] = new
    BY <1>9, <1>11 DEF AfterGame
  <2>2. /\ entrants[p] \in Player /\ entrants[p].score \in Nat /\ entrants[p].balance \in Int
        /\ entrants[p].opponents \in Seq(Entrants)
    BY <1>5 DEF Player
  <2>3. other \in Entrants
    BY <1>7
  <2>4. points \in Nat
    BY DEF Points
  <2>5. /\ new.score = entrants[p].score + points
        /\ new.float = entrants[p].float
        /\ new.opponents = Append(entrants[p].opponents, other)
    BY <2>2 DEF Player
  <2> HIDE DEF other, points, side
  <2>6. /\ entrants[p].score + points \in Nat
        /\ (IF side = "white" THEN entrants[p].balance + 1 ELSE entrants[p].balance - 1) \in Int
    BY <2>2, <2>4
  <2>7. Append(entrants[p].opponents, other) \in Seq(Entrants)
    BY <2>2, <2>3
  <2>8. new \in Player
    BY <2>2, <2>6, <2>7 DEF Player
  <2> HIDE DEF new
  <2> QED
    BY <2>1, <2>5, <2>8 DEF other, points, side
<1>12. EntrantsOK'
  <2>1. Player' = Player
    BY <1>6 DEF Player
  <2>2. \A p \in Entrants : entrants'[p] \in Player
    BY <1>5, <1>10, <1>11
  <2>3. PICK n \in Sizes : Entrants = 1..n
    BY <1>1, EntrantsAre
  <2>4. entrants' = [p \in Entrants |-> entrants'[p]]
    BY <1>2
  <2>5. entrants' \in [1..n -> Player]
    BY <2>2, <2>3, <2>4
  <2> QED
    BY <2>1, <2>5 DEF EntrantsOK
<1>13. ASSUME NEW p \in Entrants, NEW q
       PROVE  Met(p, q)' <=> \/ Met(p, q)
                             \/ \E g \in Playing : \/ p = g[1] /\ q = g[2]
                                                   \/ p = g[2] /\ q = g[1]
  <2>1. CASE \E g \in Playing : On(p, g)
    <3>1. PICK g \in Playing : On(p, g)
      BY <2>1
    <3> DEFINE other == IF p = g[1] THEN g[2] ELSE g[1]
    <3>2. entrants[p].opponents \in Seq(Entrants) /\ other \in Entrants
      BY <1>5, <1>7 DEF Player
    <3>3. Range(entrants'[p].opponents) = Range(entrants[p].opponents) \cup {other}
      <4>1. entrants'[p].opponents = Append(entrants[p].opponents, other)
        BY <1>11, <3>1
      <4> HIDE DEF other
      <4> QED
        BY <3>2, <4>1, RangeOfAppend
    <3>4. Met(p, q)' <=> Met(p, q) \/ q = other
      BY <3>3 DEF Met
    <3>5. \A h \in Playing : p = h[1] \/ p = h[2] => h = g
      BY <1>8, <3>1 DEF On
    <3>6. g[1] # g[2]
      BY <1>7
    <3>7. q = other <=> \E h \in Playing : \/ p = h[1] /\ q = h[2]
                                           \/ p = h[2] /\ q = h[1]
      BY <3>1, <3>5, <3>6 DEF On
    <3> QED
      BY <3>4, <3>7
  <2>2. CASE \A g \in Playing : ~On(p, g)
    BY <1>10, <2>2 DEF On, Met
  <2> QED
    BY <2>1, <2>2
<1>14. SwissTypeOK'
  <2>1. round + 1 \in Nat
    BY <1>4
  <2> QED
    BY <1>3, <1>4, <1>6, <1>12, <2>1 DEF SwissTypeOK, EntrantsOK
<1>15. RoundsWhole'
  <2>1. \A g \in pairings : g[1] # g[2] /\ g[3] <= round + 1
    <3>1. \A g \in pairings : g[1] # g[2] /\ g[3] <= round /\ g[3] \in Nat
      BY <1>1, <1>4 DEF RoundsWhole
    <3> QED
      BY <1>4, <3>1
  <2> QED
    BY <1>1, <1>3, <1>6, <2>1 DEF RoundsWhole, On
<1>16. GamesRemembered'
  <2>1. ASSUME NEW g \in pairings, g[3] < round + 1 PROVE Met(g[1], g[2])' /\ Met(g[2], g[1])'
    <3>1. g[1] \in Entrants /\ g[2] \in Entrants /\ g[3] \in Nat
      BY <1>4
    <3>2. CASE g[3] < round
      BY <1>1, <1>13, <3>1, <3>2 DEF GamesRemembered
    <3>3. CASE g[3] = round
      <4>1. g \in Playing
        BY <3>3 DEF Playing
      <4> QED
        BY <1>13, <3>1, <4>1
    <3> QED
      BY <1>4, <2>1, <3>1, <3>2, <3>3
  <2>2. ASSUME NEW p \in Entrants, NEW q \in Entrants, Met(p, q)' PROVE Met(q, p)'
    <3>1. CASE Met(p, q)
      BY <1>1, <1>13, <3>1 DEF GamesRemembered
    <3>2. CASE \E g \in Playing : (p = g[1] /\ q = g[2]) \/ (p = g[2] /\ q = g[1])
      BY <1>13, <3>2
    <3> QED
      BY <1>13, <2>2, <3>1, <3>2
  <2> QED
    BY <1>1, <1>3, <1>6, <2>1, <2>2 DEF GamesRemembered
<1>17. PointsAccounted'
  <2> DEFINE score == [p \in Entrants |-> entrants[p].score]
             score1 == [p \in Entrants |-> entrants'[p].score]
             float == [p \in Entrants |-> entrants[p].float]
             float1 == [p \in Entrants |-> entrants'[p].float]
             gain == [p \in Entrants |-> entrants'[p].score - entrants[p].score]
             m == Cardinality(Playing)
             games == Cardinality(pairings \ Playing)
  <2>1. \A p \in Entrants : /\ entrants[p].score \in Int /\ entrants'[p].score \in Int
                            /\ entrants'[p].float = entrants[p].float
    <3>1. \A p \in Entrants : entrants'[p] \in Player /\ entrants'[p].float = entrants[p].float
      BY <1>5, <1>10, <1>11
    <3> QED
      BY <1>5, <3>1 DEF Player
  <2>2. \A p \in Entrants : /\ gain[p] \in Int /\ score[p] \in Int
                            /\ score1[p] = score[p] + gain[p] /\ float1[p] = float[p]
    BY <2>1
  <2>3. ASSUME NEW g \in Playing PROVE gain[g[1]] + gain[g[2]] = 2
    <3>1. /\ entrants'[g[1]].score = entrants[g[1]].score + Points(results[g], "white")
          /\ entrants'[g[2]].score = entrants[g[2]].score + Points(results[g], "black")
      BY <1>7, <1>11 DEF On
    <3>2. Points(results[g], "white") \in Int /\ Points(results[g], "black") \in Int
          /\ Points(results[g], "white") + Points(results[g], "black") = 2
      BY <1>7 DEF Points
    <3>3. /\ gain[g[1]] = entrants'[g[1]].score - entrants[g[1]].score
          /\ gain[g[2]] = entrants'[g[2]].score - entrants[g[2]].score
          /\ entrants[g[1]].score \in Int /\ entrants[g[2]].score \in Int
      BY <1>7, <2>1
    <3> HIDE DEF gain
    <3> QED
      BY <3>1, <3>2, <3>3
  <2>4. \A p \in Entrants \ Paired(Playing) : gain[p] = 0
    <3> SUFFICES ASSUME NEW p \in Entrants, p \notin Paired(Playing) PROVE gain[p] = 0
      OBVIOUS
    <3>1. entrants'[p] = entrants[p]
      BY <1>10, PairedIs
    <3> QED
      BY <2>1, <3>1
  <2>5. TotalScore = SumFunctionOnSet(score, Entrants)
    BY DEF TotalScore
  <2>6. TotalScore' = SumFunctionOnSet(score1, Entrants)
    BY <1>6 DEF TotalScore
  <2>7. TotalFloat = SumFunctionOnSet(float, Entrants)
    BY DEF TotalFloat
  <2>8. TotalFloat' = SumFunctionOnSet(float1, Entrants)
    BY <1>6 DEF TotalFloat
  <2> HIDE DEF score, score1, float, float1, gain
  <2>9. TotalFloat' = TotalFloat
    <3>1. \A p \in Entrants : float1[p] = float[p]
      BY <2>2
    <3> QED
      BY <1>5, <2>7, <2>8, <3>1, SumOfEquals
  <2>10. /\ SumFunctionOnSet(gain, Paired(Playing)) = 2 * Cardinality(Playing)
         /\ Cardinality(Paired(Playing)) = 2 * Cardinality(Playing)
         /\ Paired(Playing) \subseteq Entrants
    <3>1. IsFiniteSet(Playing)
          /\ \A g \in Playing : g[1] \in Entrants /\ g[2] \in Entrants /\ g[1] # g[2]
      BY <1>7
    <3>2. \A p \in Entrants : gain[p] \in Int
      BY <2>2
    <3>3. \A g \in Playing : gain[g[1]] + gain[g[2]] = 2
      BY <2>3
    <3>4. 2 \in Int
      OBVIOUS
    <3> QED
      BY <1>5, <1>8, <3>1, <3>2, <3>3, <3>4, PairsAddUp, Zenon
  <2>11. SumFunctionOnSet(gain, Entrants) = 2 * m
    <3>1. \A p \in Entrants : gain[p] \in Int
      BY <2>2
    <3>2. SumFunctionOnSet(gain, Entrants) = SumFunctionOnSet(gain, Paired(Playing))
      BY <1>5, <2>4, <2>10, <3>1, SumOfPart
    <3> QED
      BY <2>10, <3>2
  <2>12. SumFunctionOnSet(score1, Entrants)
           = SumFunctionOnSet(score, Entrants) + SumFunctionOnSet(gain, Entrants)
    <3>1. \A p \in Entrants :
             score[p] \in Int /\ gain[p] \in Int /\ score1[p] = score[p] + gain[p]
      BY <2>2
    <3>2. IsFiniteSet(Entrants)
      BY <1>5
    <3> HIDE DEF m, games
    <3> QED
      BY <3>1, <3>2, SumOfSums
  <2>13. m \in Nat /\ games \in Nat /\ Cardinality(pairings) = games + m
         /\ Cardinality(byes) \in Nat /\ failed.odd \in Nat
    <3>1. IsFiniteSet(pairings \ Playing)
      BY <1>4, FS_Subset
    <3>2. pairings \cap Playing = Playing
      BY <1>7
    <3>3. games = Cardinality(pairings) - Cardinality(pairings \cap Playing)
      BY <1>4, FS_Difference
    <3>4. /\ m \in Nat /\ games \in Nat /\ Cardinality(pairings) \in Nat
          /\ Cardinality(byes) \in Nat /\ failed.odd \in Nat
      BY <1>4, <1>7, <3>1, FS_CardinalityType
    <3>5. games = Cardinality(pairings) - m
      BY <3>2, <3>3
    <3> HIDE DEF games, m
    <3> QED
      BY <3>4, <3>5
  <2>14. TotalScore = 2 * (games + Cardinality(byes) + failed.odd) /\ TotalFloat = 0
    BY <1>1, PointsAre DEF Worth
  <2>15. pairings' \ Playing' = pairings
    <3>1. \A g \in pairings : g[3] <= round /\ g[3] \in Nat
      BY <1>1, <1>4 DEF RoundsWhole
    <3>2. \A g \in pairings : g[3] # round + 1
      BY <1>4, <3>1
    <3> QED
      BY <1>3, <3>2 DEF Playing
  <2>16. Worth' = 2 * (Cardinality(pairings) + Cardinality(byes) + failed.odd)
    BY <1>3, <2>15 DEF Worth
  <2> HIDE DEF games, m
  <2>17. TotalScore' = TotalScore + 2 * m
    BY <2>5, <2>6, <2>11, <2>12
  <2>18. TotalScore' = Worth' /\ TotalFloat' = 0
    BY <2>9, <2>13, <2>14, <2>16, <2>17
  <2> QED
    BY <2>18 DEF PointsAccounted, TotalScore, TotalFloat, Worth
<1> QED
  BY <1>14, <1>15, <1>16, <1>17 DEF SwissInv

LEMMA SwissStarts == SwissInit => SwissInv
<1> SUFFICES ASSUME SwissInit PROVE SwissInv
  OBVIOUS
<1>1. PICK n \in Sizes : entrants = [p \in 1..n |-> NewPlayer]
  BY DEF SwissInit
<1>2. /\ pairings = {} /\ round = 1 /\ byes = {} /\ failed = [even |-> 0, odd |-> 0]
  BY DEF SwissInit
<1>3. NewPlayer \in Player
  BY DEF NewPlayer, Player
<1>4. entrants \in [1..n -> Player]
  BY <1>1, <1>3
<1>5. SwissTypeOK
  BY <1>2, <1>4, FS_EmptySet DEF SwissTypeOK
<1>6. \A p \in Entrants : entrants[p] = NewPlayer
  BY <1>1 DEF Entrants
<1>7. \A p \in Entrants : entrants[p].score = 0 /\ entrants[p].float = 0
                          /\ entrants[p].opponents = <<>>
  BY <1>6 DEF NewPlayer
<1>8. RoundsWhole
  BY <1>2 DEF RoundsWhole
<1>9. GamesRemembered
  <2>1. \A p \in Entrants : \A q : ~Met(p, q)
    BY <1>7 DEF Met, Range
  <2> QED
    BY <1>2, <2>1 DEF GamesRemembered
<1>10. PointsAccounted
  <2> DEFINE score == [p \in Entrants |-> entrants[p].score]
             float == [p \in Entrants |-> entrants[p].float]
  <2>1. IsFiniteSet(Entrants)
    BY <1>5, EntrantsAre
  <2>2. \A p \in Entrants : score[p] = 0 /\ float[p] = 0
    BY <1>7
  <2>3. TotalScore = SumFunctionOnSet(score, Entrants)
        /\ TotalFloat = SumFunctionOnSet(float, Entrants)
    BY DEF TotalScore, TotalFloat
  <2> HIDE DEF score, float
  <2>4. TotalScore = 0 /\ TotalFloat = 0
    BY <2>1, <2>2, <2>3, SumOfZeros
  <2>5. pairings \ Playing = {}
    BY <1>2
  <2>6. Cardinality(pairings \ Playing) = 0 /\ Cardinality(byes) = 0 /\ failed.odd = 0
    BY <1>2, <2>5, FS_EmptySet
  <2>7. Worth = 0
    BY <2>6 DEF Worth
  <2> QED
    BY <2>4, <2>7, PointsAre
<1> QED
  BY <1>5, <1>8, <1>9, <1>10 DEF SwissInv

LEMMA SwissStep == SwissInv /\ [SwissNext]_swissVars => SwissInv'
<1> SUFFICES ASSUME SwissInv, [SwissNext]_swissVars PROVE SwissInv'
  OBVIOUS
<1>1. CASE PairRound
  BY <1>1, RoundPaired
<1>2. CASE PairRoundFails
  BY <1>2, RoundFails
<1>3. CASE ApplyRoundResults
  BY <1>3, ResultsApplied
<1>4. CASE UNCHANGED swissVars
  <2>1. /\ entrants' = entrants /\ pairings' = pairings /\ round' = round
        /\ byes' = byes /\ failed' = failed
    BY <1>4 DEF swissVars
  <2>2. Entrants' = Entrants
    BY <2>1 DEF Entrants
  <2>3. Player' = Player
    BY <2>2 DEF Player
  <2>4. SwissTypeOK'
    BY <2>1, <2>2, <2>3 DEF SwissInv, SwissTypeOK
  <2>5. RoundsWhole'
    BY <2>1, <2>2 DEF SwissInv, RoundsWhole, On
  <2>6. GamesRemembered'
    BY <2>1, <2>2 DEF SwissInv, GamesRemembered, Met
  <2>7. PointsAccounted'
    BY <2>1, <2>2 DEF SwissInv, PointsAccounted, Playing
  <2> QED
    BY <2>4, <2>5, <2>6, <2>7 DEF SwissInv
<1> QED
  BY <1>1, <1>2, <1>3, <1>4 DEF SwissNext

LEMMA SwissHolds == SwissInv => SwissSound
<1> SUFFICES ASSUME SwissInv PROVE SwissSound
  OBVIOUS
<1>1. SwissTypeOK /\ RoundsWhole /\ GamesRemembered /\ PointsAccounted
  BY DEF SwissInv
<1>2. ASSUME NEW r \in {g[3] : g \in pairings}, NEW p \in Entrants
      PROVE  Cardinality({g \in pairings : g[3] = r /\ p \in {g[1], g[2]}})
                 + Cardinality({b \in byes : b = <<r, p>>}) = 1
  <2> DEFINE G == {g \in pairings : g[3] = r /\ p \in {g[1], g[2]}}
             B == {b \in byes : b = <<r, p>>}
  <2>1. PICK k \in pairings : r = k[3]
    OBVIOUS
  <2>2. CASE <<r, p>> \in byes
    <3>1. B = {<<r, p>>}
      BY <2>2
    <3>2. G = {}
      BY <1>1, <2>2 DEF RoundsWhole, On
    <3>3. Cardinality(B) = 1
      BY <3>1, FS_Singleton
    <3>4. Cardinality(G) = 0
      BY <3>2, FS_EmptySet
    <3> QED
      BY <3>3, <3>4
  <2>3. CASE <<r, p>> \notin byes
    <3>1. B = {}
      BY <2>3
    <3>2. PICK h \in pairings : h[3] = r /\ On(p, h)
      BY <1>1, <2>1, <2>3 DEF RoundsWhole
    <3>3. \A g \in pairings : g[3] = r /\ On(p, g) => g = h
      BY <1>1, <3>2 DEF RoundsWhole
    <3>4. G = {h}
      BY <3>2, <3>3 DEF On
    <3>5. Cardinality(B) = 0
      BY <3>1, FS_EmptySet
    <3>6. Cardinality(G) = 1
      BY <3>4, FS_Singleton
    <3> QED
      BY <3>5, <3>6
  <2> QED
    BY <2>2, <2>3
<1>3. RoundsAreWhole
  BY <1>1, <1>2 DEF RoundsAreWhole, GamesRemembered
<1> QED
  BY <1>1, <1>3 DEF SwissSound, GamesRemembered

\* However the rounds went and whichever attempts failed: every published round seats
\* everybody exactly once, no two are paired twice, the points are those of the games and
\* byes, floats cancel out, and opponents remember each other (swiss/pairer.rs).
THEOREM SwissStaysSound == SwissSpec => []SwissSound
<1>1. SwissSpec => []SwissInv
  BY SwissStarts, SwissStep, PTL DEF SwissSpec
<1> QED
  BY <1>1, SwissHolds, PTL

(***************************************************************************)
(* Rounds (SwissTournament, second part).  A turn pairs the head of those  *)
(* who are left or lets him float, so everybody is in one place            *)
(* (InOnePlace); with it goes whom each head has passed over (Passed).     *)
(* After as many turns as there are players no turn is left (NoTurnLeft).  *)
(***************************************************************************)
HistoryOK == \E n \in Boards : history \in [1..n -> Seq(1..n)]

Rounds == [pairs : Seq(Field \X Field), left : SUBSET Field, floated : SUBSET Field]

Plays(r, i, p) == p = r.pairs[i][1] \/ p = r.pairs[i][2]

\* Everybody is left, floats or plays one game.
InOnePlace(r) ==
    /\ r \in Rounds
    /\ \A p \in Field :
         p \in r.left \/ p \in r.floated \/ \E i \in DOMAIN r.pairs : Plays(r, i, p)
    /\ \A i \in DOMAIN r.pairs, p \in Field : Plays(r, i, p) =>
         p \notin r.left /\ p \notin r.floated /\ \A j \in DOMAIN r.pairs : Plays(r, j, p) => i = j
    /\ r.left \cap r.floated = {}

NotLast(p, q) == ~LastMet(p, q) /\ ~LastMet(q, p)

\* Who was to be passed over was; nobody floats but in the trait's pair.
Passed(kind, avoid, limit, r) ==
    /\ kind # "pair" => r.floated = {}
    /\ kind # "arena" =>
         /\ Len(r.pairs) <= limit
         /\ \A i \in DOMAIN r.pairs : ~Forbidden(avoid, r.pairs[i][1], r.pairs[i][2])
    /\ \A p \in r.floated, q \in r.floated \cup r.left : p # q => Forbidden(avoid, p, q)
    /\ kind # "pair" => Cardinality(r.left) + 2 * Len(r.pairs) = Len(history)
    /\ kind = "arena" =>
         \A i \in DOMAIN r.pairs, o \in Field :
             (o \in r.left \/ \E j \in DOMAIN r.pairs : i < j /\ Plays(r, j, o)) =>
                 NotLast(r.pairs[i][1], r.pairs[i][2]) \/ ~NotLast(r.pairs[i][1], o)

\* No turn changes anything any more.
NoTurnLeft(kind, avoid, limit, r) ==
    CASE kind = "round" ->
             r.left = {} \/ Len(r.pairs) = limit \/ Opponents(avoid, r.left) = {}
      [] kind = "pair"  -> r.left = {} \/ Len(r.pairs) >= limit
      [] kind = "arena" -> Cardinality(r.left) < 2

LEMMA FieldIs ==
    ASSUME HistoryOK
    PROVE  /\ Field \subseteq Nat /\ IsFiniteSet(Field) /\ Cardinality(Field) = Len(history)
           /\ Len(history) \in Nat
<1>1. PICK n \in Boards : history \in [1..n -> Seq(1..n)]
  BY DEF HistoryOK
<1>2. n \in Nat
  BY <1>1, PairingAssumption
<1>3. Field = 1..n /\ Len(history) = n
  BY <1>1, <1>2 DEF Field
<1>4. IsFiniteSet(1..n) /\ Cardinality(1..n) = n
  BY <1>2, FS_Interval, 1 \in Int, n \in Int
<1> QED
  BY <1>2, <1>3, <1>4

\* Two who are left and meet: they have their place, and the others keep theirs.
LEMMA PairedOff ==
    ASSUME NEW r, InOnePlace(r), NEW p \in r.left, NEW q \in r.left, p # q
    PROVE  /\ InOnePlace(PairOff(r, p, q))
           /\ PairOff(r, p, q).pairs = Append(r.pairs, <<p, q>>)
           /\ PairOff(r, p, q).left = r.left \ {p, q}
           /\ PairOff(r, p, q).floated = r.floated
<1> DEFINE t == PairOff(r, p, q)
<1>1. /\ r \in Rounds /\ r.left \subseteq Field /\ r.floated \subseteq Field
      /\ r.pairs \in Seq(Field \X Field)
  BY DEF InOnePlace, Rounds
<1>2. Append(r.pairs, <<p, q>>) \in Seq(Field \X Field)
  BY <1>1
<1>3. /\ t.pairs = Append(r.pairs, <<p, q>>) /\ t.left = r.left \ {p, q}
      /\ t.floated = r.floated
  BY <1>1 DEF PairOff, Rounds
<1>5. t \in Rounds
  <2>1. r.left \ {p, q} \in SUBSET Field
    BY <1>1
  <2> QED
    BY <1>1, <1>2, <2>1 DEF PairOff, Rounds
<1> DEFINE m == Len(r.pairs)
<1>6. /\ m \in Nat /\ DOMAIN r.pairs = 1..m /\ DOMAIN t.pairs = 1..(m + 1)
      /\ t.pairs[m + 1] = <<p, q>> /\ \A i \in 1..m : t.pairs[i] = r.pairs[i]
  BY <1>1, <1>3
<1> HIDE DEF t, m
<1>7. \A o : Plays(t, m + 1, o) <=> o = p \/ o = q
  BY <1>6 DEF Plays
<1>8. \A o : \A i \in 1..m : Plays(t, i, o) <=> Plays(r, i, o)
  BY <1>6 DEF Plays
<1>9. \A o \in Field : o \in t.left \/ o \in t.floated \/ \E i \in DOMAIN t.pairs : Plays(t, i, o)
  <2> SUFFICES ASSUME NEW o \in Field
               PROVE  o \in t.left \/ o \in t.floated \/ \E i \in DOMAIN t.pairs : Plays(t, i, o)
    OBVIOUS
  <2>1. o \in r.left \/ o \in r.floated \/ \E i \in 1..m : Plays(r, i, o)
    BY <1>6 DEF InOnePlace
  <2>2. m + 1 \in DOMAIN t.pairs /\ \A i \in 1..m : i \in DOMAIN t.pairs
    BY <1>6
  <2> QED
    BY <1>3, <1>7, <1>8, <2>1, <2>2
<1>10. ASSUME NEW i \in 1..(m + 1), NEW o \in Field, Plays(t, i, o)
       PROVE  o \notin t.left /\ o \notin t.floated
              /\ \A j \in 1..(m + 1) : Plays(t, j, o) => i = j
  <2>1. \A k \in 1..(m + 1) : k \in 1..m \/ k = m + 1
    BY <1>6
  <2>2. \A k \in 1..m : Plays(r, k, o) =>
            o \notin r.left /\ o \notin r.floated /\ \A j \in 1..m : Plays(r, j, o) => k = j
    BY <1>6 DEF InOnePlace
  <2>3. p \notin r.floated /\ q \notin r.floated
    BY DEF InOnePlace
  <2> QED
    BY <1>3, <1>7, <1>8, <1>10, <2>1, <2>2, <2>3
<1>11. t.left \cap t.floated = {}
  BY <1>3 DEF InOnePlace
<1>12. InOnePlace(t)
  BY <1>5, <1>6, <1>9, <1>10, <1>11 DEF InOnePlace
<1> QED
  BY <1>3, <1>12 DEF t

\* What a turn does: nothing once it is over; else the head meets somebody, or floats.
Turned(kind, avoid, limit, r, t) ==
    IF NoTurnLeft(kind, avoid, limit, r) THEN t = r
    ELSE \/ \E p \in r.left, q \in r.left :
              /\ p # q /\ t = PairOff(r, p, q)
              /\ kind # "arena" => Len(r.pairs) < limit /\ ~Forbidden(avoid, p, q)
              /\ kind = "arena" => \A o \in r.left \ {p} : NotLast(p, q) \/ ~NotLast(p, o)
         \/ /\ kind = "pair"
            /\ \E p \in r.left :
                 /\ t = [r EXCEPT !.floated = @ \cup {p}, !.left = @ \ {p}]
                 /\ \A q \in r.left \ {p} : Forbidden(avoid, p, q)

LEMMA TurnIs ==
    ASSUME HistoryOK, NEW kind \in {"round", "pair", "arena"}, NEW avoid, NEW limit \in Nat,
           NEW r, InOnePlace(r), Passed(kind, avoid, limit, r)
    PROVE  Turned(kind, avoid, limit, r, Turn(kind, avoid, limit, r))
<1> DEFINE p == Min(r.left)
           others == r.left \ {p}
<1>1. r.left \subseteq Nat /\ IsFiniteSet(r.left) /\ Len(r.pairs) \in Nat
  <2>1. r.left \subseteq Field /\ r.pairs \in Seq(Field \X Field)
    BY DEF InOnePlace, Rounds
  <2> QED
    BY <2>1, FieldIs, FS_Subset
<1>2. r.left # {} => p \in r.left
  BY <1>1, LeastIsOne
<1> HIDE DEF p
<1>3. \A S \in SUBSET others : S # {} => Min(S) \in S
  BY <1>1, LeastIsOne
<1>4. Opponents(avoid, r.left) = {q \in others : ~Forbidden(avoid, p, q)}
  BY DEF Opponents, p
<1>5. kind # "arena" => Len(r.pairs) <= limit
  BY DEF Passed
<1>6. ASSUME kind # "arena", r.left # {}, Len(r.pairs) # limit, Opponents(avoid, r.left) # {}
      PROVE  \E q \in r.left :
               /\ p # q /\ TryPairHead(avoid, limit, r) = PairOff(r, p, q)
               /\ Len(r.pairs) < limit /\ ~Forbidden(avoid, p, q)
  <2>1. Min(Opponents(avoid, r.left)) \in Opponents(avoid, r.left)
    BY <1>3, <1>4, <1>6
  <2>2. Len(r.pairs) < limit
    BY <1>1, <1>5, <1>6
  <2> QED
    BY <1>4, <1>6, <2>1, <2>2 DEF TryPairHead, p
<1>7. CASE kind = "round"
  <2>1. Turn(kind, avoid, limit, r) = TryPairHead(avoid, limit, r)
    BY <1>7 DEF Turn
  <2>2. CASE NoTurnLeft(kind, avoid, limit, r)
    BY <1>7, <2>1, <2>2 DEF NoTurnLeft, TryPairHead, Turned
  <2>3. CASE ~NoTurnLeft(kind, avoid, limit, r)
    <3>1. r.left # {} /\ Len(r.pairs) # limit /\ Opponents(avoid, r.left) # {}
      BY <1>7, <2>3 DEF NoTurnLeft
    <3> QED
      BY <1>2, <1>6, <1>7, <2>1, <2>3, <3>1 DEF Turned
  <2> QED
    BY <2>2, <2>3
<1>8. CASE kind = "pair"
  <2>1. Turn(kind, avoid, limit, r) = PairOrFloat(avoid, limit, r)
    BY <1>8 DEF Turn
  <2>2. CASE NoTurnLeft(kind, avoid, limit, r)
    <3>1. r.left = {} \/ Len(r.pairs) = limit
      BY <1>1, <1>5, <1>8, <2>2 DEF NoTurnLeft
    <3>2. PairOrFloat(avoid, limit, r) = TryPairHead(avoid, limit, r)
      BY <1>1, <3>1 DEF PairOrFloat
    <3> QED
      BY <2>1, <2>2, <3>1, <3>2 DEF TryPairHead, Turned
  <2>3. CASE ~NoTurnLeft(kind, avoid, limit, r)
    <3>1. r.left # {} /\ Len(r.pairs) < limit /\ Len(r.pairs) # limit
      BY <1>1, <1>8, <2>3 DEF NoTurnLeft
    <3>2. CASE Opponents(avoid, r.left) = {}
      <4>1. PairOrFloat(avoid, limit, r) =
                [r EXCEPT !.floated = @ \cup {p}, !.left = @ \ {p}]
        BY <3>1, <3>2 DEF PairOrFloat, p
      <4>2. \A q \in others : Forbidden(avoid, p, q)
        BY <1>4, <3>2
      <4> QED
        BY <1>2, <1>8, <2>1, <2>3, <3>1, <4>1, <4>2 DEF Turned
    <3>3. CASE Opponents(avoid, r.left) # {}
      <4>1. PairOrFloat(avoid, limit, r) = TryPairHead(avoid, limit, r)
        BY <3>3 DEF PairOrFloat
      <4> QED
        BY <1>2, <1>6, <1>8, <2>1, <2>3, <3>1, <3>3, <4>1 DEF Turned
    <3> QED
      BY <3>2, <3>3
  <2> QED
    BY <2>2, <2>3
<1>9. CASE kind = "arena"
  <2>1. Turn(kind, avoid, limit, r) = PairNearest(r)
    BY <1>9 DEF Turn
  <2>2. CASE Cardinality(r.left) < 2
    BY <1>9, <2>1, <2>2 DEF NoTurnLeft, PairNearest, Turned
  <2>3. CASE ~(Cardinality(r.left) < 2)
    <3> DEFINE fresh == {q \in others : ~LastMet(p, q) /\ ~LastMet(q, p)}
               q == ArenaOpponent(r.left)
    <3>1. PairNearest(r) = PairOff(r, p, q)
      BY <2>3 DEF PairNearest, p
    <3>2. q = Min(IF fresh # {} THEN fresh ELSE others)
      BY DEF ArenaOpponent, p
    <3>3. r.left # {} /\ others # {}
      <4>1. r.left # {}
        BY <2>3, FS_EmptySet
      <4>2. ASSUME others = {} PROVE FALSE
        <5>1. r.left = {p}
          BY <1>2, <4>1, <4>2
        <5>2. Cardinality({p}) = 1
          BY FS_Singleton
        <5> QED
          BY <2>3, <5>1, <5>2
      <4> QED
        BY <4>1, <4>2
    <3> HIDE DEF q
    <3>4. q \in others /\ (fresh # {} => q \in fresh)
      <4>1. CASE fresh # {}
        BY <1>3, <3>2, <4>1
      <4>2. CASE fresh = {}
        BY <1>3, <3>2, <3>3, <4>2
      <4> QED
        BY <4>1, <4>2
    <3>5. \A o \in others : NotLast(p, q) \/ ~NotLast(p, o)
      BY <3>4 DEF NotLast
    <3>6. p \in r.left /\ q \in r.left /\ p # q
      BY <1>2, <3>3, <3>4
    <3> QED
      BY <1>9, <2>1, <2>3, <3>1, <3>5, <3>6 DEF NoTurnLeft, Turned
  <2> QED
    BY <2>2, <2>3
<1> QED
  BY <1>7, <1>8, <1>9

\* Playing each other is mutual.
LEMMA ForbiddenBothWays ==
    \A avoid, p, q : Forbidden(avoid, p, q) <=> Forbidden(avoid, q, p)
BY DEF Forbidden

LEMMA TurnKeeps ==
    ASSUME HistoryOK, NEW kind \in {"round", "pair", "arena"}, NEW avoid, NEW limit \in Nat,
           NEW r, InOnePlace(r), Passed(kind, avoid, limit, r)
    PROVE  LET t == Turn(kind, avoid, limit, r)
           IN /\ InOnePlace(t) /\ Passed(kind, avoid, limit, t)
              /\ \/ NoTurnLeft(kind, avoid, limit, r) /\ t = r
                 \/ ~NoTurnLeft(kind, avoid, limit, r) /\ Cardinality(t.left) < Cardinality(r.left)
<1> DEFINE t == Turn(kind, avoid, limit, r)
<1>1. /\ r \in Rounds /\ r.left \subseteq Field /\ IsFiniteSet(r.left) /\ r.floated \subseteq Field
      /\ r.pairs \in Seq(Field \X Field) /\ Cardinality(r.left) \in Nat /\ Len(r.pairs) \in Nat
      /\ Len(history) \in Nat
  <2>1. /\ r \in Rounds /\ r.left \subseteq Field /\ r.floated \subseteq Field
        /\ r.pairs \in Seq(Field \X Field)
    BY DEF InOnePlace, Rounds
  <2>2. IsFiniteSet(r.left)
    BY <2>1, FieldIs, FS_Subset
  <2> QED
    BY <2>1, <2>2, FieldIs, FS_CardinalityType
<1>2. \A p \in r.left : /\ IsFiniteSet(r.left \ {p})
                        /\ Cardinality(r.left \ {p}) = Cardinality(r.left) - 1
  BY <1>1, FS_RemoveElement, FS_Subset
<1>3. ASSUME NEW p \in r.left, NEW q \in r.left, p # q, t = PairOff(r, p, q),
             kind # "arena" => Len(r.pairs) < limit /\ ~Forbidden(avoid, p, q),
             kind = "arena" => \A o \in r.left \ {p} : NotLast(p, q) \/ ~NotLast(p, o)
      PROVE  /\ InOnePlace(t) /\ Passed(kind, avoid, limit, t)
             /\ Cardinality(t.left) < Cardinality(r.left)
  <2>1. /\ InOnePlace(t) /\ t.pairs = Append(r.pairs, <<p, q>>)
        /\ t.left = r.left \ {p, q} /\ t.floated = r.floated
    BY <1>3, PairedOff
  <2> HIDE DEF t
  <2>2. Cardinality(t.left) = Cardinality(r.left) - 2
    <3>1. q \in r.left \ {p} /\ t.left = (r.left \ {p}) \ {q}
      BY <1>3, <2>1
    <3>2. Cardinality((r.left \ {p}) \ {q}) = Cardinality(r.left \ {p}) - 1
      BY <1>2, <3>1, FS_RemoveElement
    <3>3. Cardinality(r.left \ {p}) = Cardinality(r.left) - 1
      BY <1>2
    <3> QED
      BY <1>1, <3>1, <3>2, <3>3
  <2> DEFINE m == Len(r.pairs)
  <2>3. /\ m \in Nat /\ DOMAIN r.pairs = 1..m /\ DOMAIN t.pairs = 1..(m + 1)
        /\ Len(t.pairs) = m + 1
        /\ t.pairs[m + 1] = <<p, q>> /\ \A i \in 1..m : t.pairs[i] = r.pairs[i]
    BY <1>1, <2>1
  <2> HIDE DEF m
  <2>4. kind # "pair" => t.floated = {}
    BY <2>1 DEF Passed
  <2>5. kind # "arena" => /\ Len(t.pairs) <= limit
                          /\ \A i \in DOMAIN t.pairs : ~Forbidden(avoid, t.pairs[i][1], t.pairs[i][2])
    <3> SUFFICES ASSUME kind # "arena"
                 PROVE  /\ Len(t.pairs) <= limit
                        /\ \A i \in 1..(m + 1) : ~Forbidden(avoid, t.pairs[i][1], t.pairs[i][2])
      BY <2>3
    <3>1. \A i \in 1..m : ~Forbidden(avoid, r.pairs[i][1], r.pairs[i][2])
      BY <2>3 DEF Passed
    <3>2. ~Forbidden(avoid, t.pairs[m + 1][1], t.pairs[m + 1][2])
      BY <1>3, <2>3
    <3>3. \A i \in 1..(m + 1) : i \in 1..m \/ i = m + 1
      BY <2>3
    <3>4. \A i \in 1..m : ~Forbidden(avoid, t.pairs[i][1], t.pairs[i][2])
      BY <2>3, <3>1
    <3>5. m + 1 <= limit
      BY <1>1, <1>3, <2>3 DEF m
    <3> QED
      BY <2>3, <3>2, <3>3, <3>4, <3>5
  <2>6. \A a \in t.floated, b \in t.floated \cup t.left : a # b => Forbidden(avoid, a, b)
    BY <2>1 DEF Passed
  <2>7. kind # "pair" => Cardinality(t.left) + 2 * Len(t.pairs) = Len(history)
    <3> SUFFICES ASSUME kind # "pair"
                 PROVE  Cardinality(t.left) + 2 * Len(t.pairs) = Len(history)
      OBVIOUS
    <3>1. Cardinality(r.left) + 2 * m = Len(history)
      BY DEF Passed, m
    <3>2. m \in Nat /\ Len(t.pairs) = m + 1
      BY <1>1, <2>3 DEF m
    <3>3. PICK left \in Nat, n \in Nat, k \in Nat :
            left = Cardinality(r.left) /\ n = Len(history) /\ k = m
      BY <1>1, <3>2
    <3>4. /\ Cardinality(t.left) = left - 2 /\ Len(t.pairs) = k + 1
          /\ left + 2 * k = n /\ Len(history) = n
      BY <2>2, <3>1, <3>2, <3>3
    <3>5. left - 2 + 2 * (k + 1) = left + 2 * k
      OBVIOUS
    <3> QED
      BY <3>4, <3>5
  <2>8. kind = "arena" =>
           \A i \in DOMAIN t.pairs, o \in Field :
               (o \in t.left \/ \E j \in DOMAIN t.pairs : i < j /\ Plays(t, j, o)) =>
                   NotLast(t.pairs[i][1], t.pairs[i][2]) \/ ~NotLast(t.pairs[i][1], o)
    <3> SUFFICES ASSUME kind = "arena"
                 PROVE  \A i \in 1..(m + 1), o \in Field :
                            (o \in t.left \/ \E j \in 1..(m + 1) : i < j /\ Plays(t, j, o)) =>
                                NotLast(t.pairs[i][1], t.pairs[i][2]) \/ ~NotLast(t.pairs[i][1], o)
      BY <2>3
    <3>2. \A i \in 1..m, o \in Field :
             (o \in r.left \/ \E j \in 1..m : i < j /\ Plays(r, j, o)) =>
                 NotLast(r.pairs[i][1], r.pairs[i][2]) \/ ~NotLast(r.pairs[i][1], o)
      BY <2>3 DEF Passed
    <3>3. ASSUME NEW i \in 1..(m + 1), NEW o \in Field,
                 o \in t.left \/ \E j \in 1..(m + 1) : i < j /\ Plays(t, j, o)
          PROVE  NotLast(t.pairs[i][1], t.pairs[i][2]) \/ ~NotLast(t.pairs[i][1], o)
      <4>1. CASE i = m + 1
        <5>1. o \in r.left \ {p}
          BY <2>1, <2>3, <3>3, <4>1
        <5>2. t.pairs[i][1] = p /\ t.pairs[i][2] = q
          BY <2>3, <4>1
        <5> QED
          BY <1>3, <5>1, <5>2
      <4>2. CASE i # m + 1
        <5>1. i \in 1..m /\ t.pairs[i] = r.pairs[i]
          BY <2>3, <4>2
        <5>2. o \in r.left \/ \E j \in 1..m : i < j /\ Plays(r, j, o)
          <6>1. CASE o \in t.left
            BY <2>1, <6>1
          <6>2. ASSUME NEW j \in 1..(m + 1), i < j, Plays(t, j, o)
                PROVE  o \in r.left \/ \E k \in 1..m : i < k /\ Plays(r, k, o)
            <7>1. CASE j = m + 1
              BY <2>3, <6>2, <7>1 DEF Plays
            <7>2. CASE j # m + 1
              <8>1. j \in 1..m /\ t.pairs[j] = r.pairs[j]
                BY <2>3, <7>2
              <8> QED
                BY <6>2, <8>1 DEF Plays
            <7> QED
              BY <7>1, <7>2
          <6> QED
            BY <3>3, <6>1, <6>2
        <5> QED
          BY <3>2, <5>1, <5>2
      <4> QED
        BY <4>1, <4>2
    <3> QED
      BY <3>3
  <2>9. Passed(kind, avoid, limit, t)
    BY <2>4, <2>5, <2>6, <2>7, <2>8 DEF Passed
  <2> QED
    BY <1>1, <2>1, <2>2, <2>9
<1>4. ASSUME NEW p \in r.left, kind = "pair", \A q \in r.left \ {p} : Forbidden(avoid, p, q),
             t = [r EXCEPT !.floated = @ \cup {p}, !.left = @ \ {p}]
      PROVE  /\ InOnePlace(t) /\ Passed(kind, avoid, limit, t)
             /\ Cardinality(t.left) < Cardinality(r.left)
  <2>1. /\ t.pairs = r.pairs /\ t.left = r.left \ {p} /\ t.floated = r.floated \cup {p}
        /\ t \in Rounds
    <3>1. r.left \ {p} \in SUBSET Field /\ r.floated \cup {p} \in SUBSET Field
      BY <1>1
    <3> HIDE DEF t
    <3> QED
      BY <1>1, <1>4, <3>1 DEF Rounds
  <2> HIDE DEF t
  <2>2. \A i, o : Plays(t, i, o) <=> Plays(r, i, o)
    BY <2>1 DEF Plays
  <2>3. p \in Field /\ p \notin r.floated
    BY <1>1 DEF InOnePlace
  <2>4. InOnePlace(t)
    <3>1. \A o \in Field : o \in t.left \/ o \in t.floated \/ \E i \in DOMAIN t.pairs : Plays(t, i, o)
      BY <2>1, <2>2 DEF InOnePlace
    <3>2. \A i \in DOMAIN t.pairs, o \in Field : Plays(t, i, o) =>
             o \notin t.left /\ o \notin t.floated /\ \A j \in DOMAIN t.pairs : Plays(t, j, o) => i = j
      BY <2>1, <2>2 DEF InOnePlace
    <3>3. t.left \cap t.floated = {}
      BY <2>1 DEF InOnePlace
    <3> QED
      BY <2>1, <3>1, <3>2, <3>3 DEF InOnePlace
  <2>5. \A a \in t.floated, b \in t.floated \cup t.left : a # b => Forbidden(avoid, a, b)
    <3> SUFFICES ASSUME NEW a \in t.floated, NEW b \in t.floated \cup t.left, a # b
                 PROVE  Forbidden(avoid, a, b)
      OBVIOUS
    <3>1. \A c \in r.floated, d \in r.floated \cup r.left : c # d => Forbidden(avoid, c, d)
      BY DEF Passed
    <3>2. CASE a \in r.floated
      BY <2>1, <3>1, <3>2
    <3>3. CASE a = p /\ b \in r.floated
      BY <3>1, <3>3, ForbiddenBothWays
    <3>4. CASE a = p /\ b \in r.left \ {p}
      BY <1>4, <3>4
    <3> QED
      BY <2>1, <3>2, <3>3, <3>4
  <2>6. Passed(kind, avoid, limit, t)
    <3>1. kind # "arena" /\ kind = "pair"
      BY <1>4
    <3> QED
      BY <2>1, <2>5, <3>1 DEF Passed
  <2>7. Cardinality(t.left) = Cardinality(r.left) - 1
    BY <1>2, <2>1
  <2> QED
    BY <1>1, <2>4, <2>6, <2>7
<1>5. Turned(kind, avoid, limit, r, t)
  BY TurnIs
<1> HIDE DEF t
<1> SUFFICES /\ InOnePlace(t) /\ Passed(kind, avoid, limit, t)
             /\ \/ NoTurnLeft(kind, avoid, limit, r) /\ t = r
                \/ ~NoTurnLeft(kind, avoid, limit, r) /\ Cardinality(t.left) < Cardinality(r.left)
  BY DEF t
<1> QED
  BY <1>3, <1>4, <1>5 DEF Turned

\* All turns: everybody is in one place, and there is nothing left to do.
LEMMA TurnsEnd ==
    ASSUME HistoryOK, NEW kind \in {"round", "pair", "arena"}, NEW avoid, NEW limit \in Nat
    PROVE  LET r == AllTurns(kind, avoid, limit)
           IN InOnePlace(r) /\ Passed(kind, avoid, limit, r) /\ NoTurnLeft(kind, avoid, limit, r)
<1> DEFINE start == [pairs |-> <<>>, left |-> Field, floated |-> {}]
           n == Len(history)
           R == {r \in Rounds : InOnePlace(r) /\ Passed(kind, avoid, limit, r)}
           Loop(f) == f = [i \in 0..n |->
                              IF i = 0 THEN start ELSE Turn(kind, avoid, limit, f[i - 1])]
           after == CHOOSE f : Loop(f)
<1>1. AllTurns(kind, avoid, limit) = after[n]
  BY Zenon DEF AllTurns
<1>2. n \in Nat /\ IsFiniteSet(Field) /\ Cardinality(Field) = n
  BY FieldIs
<1>3. start \in R
  <2> USE DEF start
  <2>1. start \in Rounds
    BY DEF Rounds
  <2>2. start.pairs = <<>> /\ start.left = Field /\ start.floated = {}
    OBVIOUS
  <2>3. DOMAIN start.pairs = {} /\ Len(start.pairs) = 0
    BY <2>2
  <2> HIDE DEF start
  <2>4. InOnePlace(start)
    BY <2>1, <2>2, <2>3 DEF InOnePlace
  <2>5. Passed(kind, avoid, limit, start)
    BY <1>2, <2>2, <2>3 DEF Passed
  <2> QED
    BY <2>1, <2>4, <2>5
<1> HIDE DEF start
<1>4. ASSUME NEW r \in R
      PROVE  /\ Turn(kind, avoid, limit, r) \in R
             /\ \/ NoTurnLeft(kind, avoid, limit, r) /\ Turn(kind, avoid, limit, r) = r
                \/ /\ ~NoTurnLeft(kind, avoid, limit, r)
                   /\ Cardinality(Turn(kind, avoid, limit, r).left) < Cardinality(r.left)
  BY TurnKeeps DEF InOnePlace
<1>5. \E f : Loop(f)
  <2> DEFINE turn == [r \in R |-> Turn(kind, avoid, limit, r)]
  <2>1. turn \in [R -> R] /\ \A r \in R : turn[r] = Turn(kind, avoid, limit, r)
    BY <1>4
  <2> HIDE DEF turn, n, R
  <2>2. PICK f : Runs(f, R, start, turn, n)
    BY <1>2, <1>3, <2>1, LoopRuns
  <2>3. ASSUME NEW i \in 0..n, i # 0 PROVE f[i - 1] \in R
    <3>1. i - 1 \in 0..n
      BY <1>2, <2>3
    <3> QED
      BY <2>2, <3>1 DEF Runs
  <2>4. Loop(f)
    BY <2>1, <2>2, <2>3 DEF Runs
  <2> QED
    BY <2>4
<1>6. Loop(after)
  <2> HIDE DEF Loop
  <2> QED
    BY <1>5
<1> HIDE DEF after, n
<1>7. after[0] = start /\ \A i \in 1..n : after[i] = Turn(kind, avoid, limit, after[i - 1])
  <2>1. \A i \in 0..n : after[i] = IF i = 0 THEN start ELSE Turn(kind, avoid, limit, after[i - 1])
    BY <1>6
  <2>2. 0 \in 0..n /\ \A i \in 1..n : i \in 0..n /\ i # 0
    BY <1>2
  <2> QED
    BY <2>1, <2>2
<1> HIDE DEF Loop
<1> DEFINE Well(i) == i <= n => /\ after[i] \in R
                                /\ NoTurnLeft(kind, avoid, limit, after[i])
                                   \/ Cardinality(after[i].left) <= n - i
           P == {i \in Nat : Well(i)}
<1>8. 0 \in P
  <2>1. Cardinality(start.left) = n
    BY <1>2 DEF start
  <2> HIDE DEF R
  <2>2. Cardinality(after[0].left) <= n - 0
    BY <1>2, <1>7, <2>1
  <2> QED
    BY <1>3, <1>7, <2>2
<1>9. ASSUME NEW i \in Nat, i \in P PROVE i + 1 \in P
  <2> SUFFICES ASSUME i + 1 <= n PROVE Well(i + 1)
    BY <1>9
  <2>1. i <= n /\ i + 1 \in 1..n /\ (i + 1) - 1 = i
    BY <1>2
  <2> DEFINE r == after[i]
             t == after[i + 1]
  <2>2. r \in R /\ (NoTurnLeft(kind, avoid, limit, r) \/ Cardinality(r.left) <= n - i)
    BY <1>9, <2>1
  <2>3. t = Turn(kind, avoid, limit, r)
    BY <1>7, <2>1
  <2> HIDE DEF r, t
  <2>4. /\ t \in R
        /\ \/ NoTurnLeft(kind, avoid, limit, r) /\ t = r
           \/ ~NoTurnLeft(kind, avoid, limit, r) /\ Cardinality(t.left) < Cardinality(r.left)
    <3> HIDE DEF R
    <3> QED
      BY <1>4, <2>2, <2>3
  <2>5. Cardinality(r.left) \in Nat /\ Cardinality(t.left) \in Nat
    <3>1. r.left \subseteq Field /\ t.left \subseteq Field
      BY <2>2, <2>4 DEF Rounds
    <3> QED
      BY <1>2, <3>1, FS_Subset, FS_CardinalityType
  <2>6. NoTurnLeft(kind, avoid, limit, t) \/ Cardinality(t.left) <= n - (i + 1)
    <3> HIDE DEF R
    <3>1. CASE NoTurnLeft(kind, avoid, limit, r) /\ t = r
      BY <3>1
    <3>2. CASE ~NoTurnLeft(kind, avoid, limit, r)
      BY <1>2, <2>2, <2>4, <2>5, <3>2
    <3> QED
      BY <2>4, <3>1, <3>2
  <2> QED
    BY <2>4, <2>6 DEF t
<1> HIDE DEF P
<1>10. \A i \in Nat : i \in P
  BY <1>8, <1>9, NumbersInduction
<1>11. after[n] \in R /\ (NoTurnLeft(kind, avoid, limit, after[n]) \/ Cardinality(after[n].left) <= 0)
  <2>1. n \in P
    BY <1>2, <1>10
  <2>2. n <= n /\ n - n = 0
    BY <1>2
  <2> HIDE DEF R
  <2> QED
    BY <2>1, <2>2 DEF P
<1>12. NoTurnLeft(kind, avoid, limit, after[n])
  <2> SUFFICES ASSUME Cardinality(after[n].left) <= 0 PROVE NoTurnLeft(kind, avoid, limit, after[n])
    BY <1>11
  <2>1. after[n].left \subseteq Field
    BY <1>11 DEF Rounds
  <2>2. IsFiniteSet(after[n].left) /\ Cardinality(after[n].left) \in Nat
    BY <1>2, <2>1, FS_Subset, FS_CardinalityType
  <2>3. Cardinality(after[n].left) = 0
    BY <2>2
  <2>4. after[n].left = {}
    BY <2>2, <2>3, FS_EmptySet
  <2>5. kind = "arena" => Cardinality(after[n].left) < 2
    BY <2>3
  <2>6. kind = "round" \/ kind = "pair" \/ kind = "arena"
    OBVIOUS
  <2> QED
    BY <2>4, <2>5, <2>6, Zenon DEF NoTurnLeft
<1> QED
  BY <1>1, <1>11, <1>12

PairingInv == HistoryOK /\ PairingSound

LEMMA PairingStarts == PairInit => PairingInv
<1> SUFFICES ASSUME PairInit PROVE PairingInv
  OBVIOUS
<1>1. PICK n \in Boards : history = [p \in 1..n |-> <<>>]
  BY DEF PairInit
<1>2. <<>> \in Seq(1..n)
  OBVIOUS
<1>3. HistoryOK
  BY <1>1, <1>2 DEF HistoryOK
<1>4. PairingSound
  BY DEF PairInit, PairingSound, RoundCovered, NoRematches, OneByeAtMost, ArenaFull
<1> QED
  BY <1>3, <1>4 DEF PairingInv

\* Playing a round leaves a history to everybody.
LEMMA PlayedKeeps ==
    ASSUME HistoryOK, NEW pairs \in Seq(Field \X Field), Played(pairs)
    PROVE  HistoryOK' /\ Field' = Field /\ Len(history') = Len(history)
<1>1. PICK n \in Boards : history \in [1..n -> Seq(1..n)]
  BY DEF HistoryOK
<1>2. n \in Nat /\ Field = 1..n
  BY <1>1, PairingAssumption DEF Field
<1>3. ASSUME NEW h \in Seq(1..n), NEW q \in 1..n PROVE AddOpponent(h, q) \in Seq(1..n)
  <2>1. CASE Len(h) = Memory
    <3>1. h # <<>>
      BY <2>1, PairingAssumption
    <3>2. Tail(h) \in Seq(1..n)
      BY <3>1
    <3>3. Append(Tail(h), q) \in Seq(1..n)
      BY <3>2
    <3> QED
      BY <2>1, <3>3 DEF AddOpponent
  <2>2. CASE Len(h) # Memory
    <3>1. Append(h, q) \in Seq(1..n)
      OBVIOUS
    <3> QED
      BY <2>2, <3>1 DEF AddOpponent
  <2> QED
    BY <2>1, <2>2
<1>4. ASSUME NEW p \in Field PROVE history'[p] \in Seq(1..n)
  <2> DEFINE g == CHOOSE g \in Range(pairs) : p \in {g[1], g[2]}
  <2>1. history'[p] = IF \E x \in Range(pairs) : p \in {x[1], x[2]}
                      THEN AddOpponent(history[p], IF p = g[1] THEN g[2] ELSE g[1])
                      ELSE history[p]
    BY DEF Played
  <2>2. history[p] \in Seq(1..n)
    BY <1>1, <1>2
  <2>3. CASE \E x \in Range(pairs) : p \in {x[1], x[2]}
    <3>1. g \in Range(pairs)
      BY <2>3
    <3> HIDE DEF g
    <3>2. PICK i \in DOMAIN pairs : g = pairs[i]
      BY <3>1 DEF Range
    <3>3. g[1] \in 1..n /\ g[2] \in 1..n
      BY <1>2, <3>2
    <3> QED
      BY <1>3, <2>1, <2>2, <2>3, <3>3
  <2>4. CASE ~\E x \in Range(pairs) : p \in {x[1], x[2]}
    BY <2>1, <2>2, <2>4
  <2> QED
    BY <2>3, <2>4
<1>5. DOMAIN history' = Field /\ history' = [p \in Field |-> history'[p]]
  BY DEF Played
<1>6. history' \in [1..n -> Seq(1..n)]
  BY <1>2, <1>4, <1>5
<1>7. Len(history) = n /\ Len(history') = n
  BY <1>1, <1>2, <1>6
<1> QED
  BY <1>2, <1>5, <1>6, <1>7 DEF HistoryOK, Field

\* A round that is sent is as it should be.
LEMMA ChartSound ==
    ASSUME HistoryOK, NEW kind \in {"round", "pair", "arena"}, NEW avoid, NEW limit \in Nat,
           Charted(kind, avoid, limit)
    PROVE  HistoryOK' /\ PairingSound'
<1> DEFINE r == AllTurns(kind, avoid, limit)
<1>1. InOnePlace(r) /\ Passed(kind, avoid, limit, r) /\ NoTurnLeft(kind, avoid, limit, r)
  BY TurnsEnd
<1>2. chart' = [kind |-> kind, avoid |-> avoid, limit |-> limit, before |-> history,
                pairs |-> r.pairs, left |-> IF kind = "pair" THEN r.floated ELSE r.left]
  BY DEF Charted
<1>3. Played(r.pairs)
  BY DEF Charted
<1> HIDE DEF r
<1>4. /\ chart'.kind = kind /\ chart'.avoid = avoid /\ chart'.limit = limit
      /\ chart'.before = history /\ chart'.pairs = r.pairs
      /\ chart'.left = IF kind = "pair" THEN r.floated ELSE r.left
  BY <1>2
<1>5. /\ r.pairs \in Seq(Field \X Field) /\ r.left \subseteq Field /\ r.floated \subseteq Field
      /\ DOMAIN r.pairs = 1..Len(r.pairs) /\ Len(r.pairs) \in Nat
  BY <1>1 DEF InOnePlace, Rounds
<1>6. HistoryOK' /\ Field' = Field /\ Len(history') = Len(history)
  BY <1>3, <1>5, PlayedKeeps
<1>7. \A i \in DOMAIN r.pairs : Range(r.pairs[i]) = {r.pairs[i][1], r.pairs[i][2]}
  <2> SUFFICES ASSUME NEW i \in DOMAIN r.pairs
               PROVE  Range(r.pairs[i]) = {r.pairs[i][1], r.pairs[i][2]}
    OBVIOUS
  <2>1. r.pairs[i] \in Field \X Field
    BY <1>5
  <2>2. PICK a \in Field, b \in Field : r.pairs[i] = <<a, b>>
    BY <2>1
  <2>3. Range(<<a, b>>) = {a, b}
    BY DEF Range
  <2> QED
    BY <2>2, <2>3
<1>8. RoundCovered'
  <2> SUFFICES ASSUME kind \in {"round", "arena"}, NEW p \in Field
               PROVE  Cardinality({i \in DOMAIN r.pairs : p \in Range(r.pairs[i])})
                          + Cardinality(r.left \cap {p}) = 1
    BY <1>4, <1>6 DEF RoundCovered
  <2> DEFINE games == {i \in DOMAIN r.pairs : p \in Range(r.pairs[i])}
             bye == r.left \cap {p}
  <2>1. \A i : i \in games <=> i \in DOMAIN r.pairs /\ Plays(r, i, p)
    BY <1>7 DEF Plays
  <2> SUFFICES Cardinality(games) + Cardinality(bye) = 1
    OBVIOUS
  <2>2. r.floated = {}
    BY <1>1 DEF Passed
  <2>3. Cardinality({}) = 0 /\ \A x : Cardinality({x}) = 1
    BY FS_EmptySet, FS_Singleton
  <2>4. CASE p \in r.left
    <3>1. games = {} /\ bye = {p}
      BY <1>1, <2>1, <2>4 DEF InOnePlace
    <3> HIDE DEF games, bye
    <3>2. Cardinality(games) = 0
      BY <2>3, <3>1
    <3>3. Cardinality(bye) = 1
      BY <2>3, <3>1
    <3> QED
      BY <3>2, <3>3
  <2>5. CASE p \notin r.left
    <3>1. PICK j \in DOMAIN r.pairs : Plays(r, j, p)
      BY <1>1, <2>2, <2>5 DEF InOnePlace
    <3>2. \A i \in DOMAIN r.pairs : Plays(r, i, p) => i = j
      BY <1>1, <3>1 DEF InOnePlace
    <3>3. games = {j} /\ bye = {}
      BY <2>1, <2>5, <3>1, <3>2
    <3> HIDE DEF games, bye
    <3>4. Cardinality(games) = 1
      BY <2>3, <3>3
    <3>5. Cardinality(bye) = 0
      BY <2>3, <3>3
    <3> QED
      BY <3>4, <3>5
  <2> QED
    BY <2>4, <2>5
<1>9. \A p, q : avoid /\ KnewEachOther(p, q)' <=> Forbidden(avoid, p, q)
  BY <1>4 DEF KnewEachOther, Forbidden, HasPlayedAgainst
<1>10. NoRematches'
  <2> SUFFICES ASSUME kind \in {"round", "pair"}
               PROVE  /\ avoid => \A g \in Range(r.pairs) : ~KnewEachOther(g[1], g[2])'
                      /\ kind = "pair" => \A p, q \in r.floated :
                             p # q => avoid /\ KnewEachOther(p, q)'
    BY <1>4 DEF NoRematches
  <2>1. ASSUME avoid, NEW g \in Range(r.pairs) PROVE ~KnewEachOther(g[1], g[2])'
    <3>1. PICK i \in DOMAIN r.pairs : g = r.pairs[i]
      BY DEF Range
    <3>2. ~Forbidden(avoid, g[1], g[2])
      BY <1>1, <3>1 DEF Passed
    <3> QED
      BY <1>9, <2>1, <3>2
  <2>2. \A p, q \in r.floated : p # q => Forbidden(avoid, p, q)
    BY <1>1 DEF Passed
  <2> QED
    BY <1>9, <2>1, <2>2
<1>11. kind # "pair" => /\ Cardinality(r.left) \in Nat
                       /\ Cardinality(r.left) + 2 * Len(r.pairs) = Len(history)
  <2>1. Cardinality(r.left) \in Nat
    BY <1>5, <1>6, FieldIs, FS_Subset, FS_CardinalityType
  <2> QED
    BY <1>1, <2>1 DEF Passed
<1>12. \A a \in Nat, b \in Nat : \A c : a + 2 * b = c /\ a < 2 => a = c % 2
  OBVIOUS
<1>13. OneByeAtMost'
  <2> SUFFICES ASSUME kind = "round", Cardinality(r.left) # Len(history) % 2
               PROVE  StoppedEarly'
    <3>1. kind = "round" => chart'.left = r.left
      BY <1>4
    <3> QED
      BY <1>4, <1>6, <3>1 DEF OneByeAtMost
  <2> SUFFICES ASSUME Len(r.pairs) # limit PROVE StoppedEarly'
    BY <1>4 DEF StoppedEarly
  <2>1. r.left # {}
    <3> SUFFICES ASSUME r.left = {} PROVE FALSE
      OBVIOUS
    <3>1. Cardinality(r.left) = 0
      BY FS_EmptySet
    <3> QED
      BY <1>5, <1>11, <1>12, <3>1
  <2>2. PICK head : head = Min(r.left)
    OBVIOUS
  <2>3. \A q \in r.left \ {head} : Forbidden(avoid, head, q)
    BY <1>1, <2>1, <2>2 DEF NoTurnLeft, Opponents
  <2>4. PICK o \in r.left : o # head
    <3> SUFFICES ASSUME r.left = {head} PROVE FALSE
      BY <2>1
    <3>1. Cardinality(r.left) = 1
      BY FS_Singleton
    <3> QED
      BY <1>5, <1>11, <1>12, <3>1
  <2>5. avoid /\ \A q \in r.left \ {head} : KnewEachOther(head, q)'
    BY <1>9, <2>3, <2>4
  <2>6. chart'.left = r.left /\ chart'.avoid = avoid
    BY <1>4
  <2> QED
    BY <2>2, <2>5, <2>6 DEF StoppedEarly
<1>14. ArenaFull'
  <2> SUFFICES ASSUME kind = "arena"
               PROVE  ArenaFull'
    BY <1>4 DEF ArenaFull
  <2>1. Cardinality(r.left) = Len(history) % 2
    <3>1. Cardinality(r.left) < 2
      BY <1>1 DEF NoTurnLeft
    <3> QED
      BY <1>5, <1>11, <1>12, <3>1
  <2>2. ASSUME NEW i \in DOMAIN r.pairs, NEW o,
               o \in r.left \cup UNION {Range(r.pairs[j]) : j \in (i + 1)..Len(r.pairs)},
               ~NotLast(r.pairs[i][1], r.pairs[i][2])
        PROVE  ~NotLast(r.pairs[i][1], o)
    <3>1. i \in 1..Len(r.pairs)
      BY <1>5
    <3>2. CASE o \in r.left
      BY <1>1, <1>5, <2>2, <3>2 DEF Passed
    <3>3. CASE o \notin r.left
      <4>1. PICK j \in (i + 1)..Len(r.pairs) : o \in Range(r.pairs[j])
        BY <2>2, <3>3
      <4>2. j \in DOMAIN r.pairs /\ i < j
        BY <1>5, <3>1, <4>1
      <4>3. Plays(r, j, o) /\ o \in Field
        <5>1. r.pairs[j] \in Field \X Field
          BY <1>5, <4>2
        <5> QED
          BY <1>7, <4>1, <4>2, <5>1 DEF Plays
      <4> QED
        BY <1>1, <2>2, <4>2, <4>3 DEF Passed
    <3> QED
      BY <3>2, <3>3
  <2>3. \A a, b : NotJustMet(a, b)' <=> NotLast(a, b)
    BY <1>4 DEF NotLast, LastMet, NotJustMet
  <2>4. chart'.left = r.left /\ chart'.pairs = r.pairs
    BY <1>4
  <2>5. \A i : StillThere(i)' = r.left \cup UNION {Range(r.pairs[j]) : j \in (i + 1)..Len(r.pairs)}
    BY <2>4 DEF StillThere
  <2>6. \A i \in DOMAIN r.pairs : ~NotLast(r.pairs[i][1], r.pairs[i][2]) =>
            \A o \in StillThere(i)' : ~NotLast(r.pairs[i][1], o)
    BY <2>2, <2>5
  <2> QED
    BY <1>6, <2>1, <2>3, <2>4, <2>6 DEF ArenaFull
<1> QED
  BY <1>6, <1>8, <1>10, <1>13, <1>14 DEF PairingSound

LEMMA PairingStep == PairingInv /\ [PairNext]_pairVars => PairingInv'
<1> SUFFICES ASSUME PairingInv, [PairNext]_pairVars PROVE PairingInv'
  OBVIOUS
<1>1. ASSUME NEW avoid \in BOOLEAN, NEW limit \in Limits,
             Charted("round", avoid, limit) \/ Charted("pair", avoid, limit)
      PROVE  PairingInv'
  <2>1. limit \in Nat
    BY PairingAssumption
  <2> QED
    BY <1>1, <2>1, ChartSound DEF PairingInv
<1>2. ASSUME PairArenaRound PROVE PairingInv'
  <2>1. Len(history) \in Nat
    BY FieldIs DEF PairingInv
  <2> QED
    BY <1>2, <2>1, ChartSound DEF PairArenaRound, PairingInv
<1>3. ASSUME UNCHANGED pairVars PROVE PairingInv'
  BY <1>3 DEF pairVars, PairingInv, HistoryOK, PairingSound, RoundCovered, NoRematches,
      OneByeAtMost, StoppedEarly, ArenaFull, NotJustMet, StillThere, KnewEachOther, Field
<1> QED
  BY <1>1, <1>2, <1>3 DEF PairNext, BuildPairingRound, PairStrategy

\* Whatever the histories, everybody sits in one pair or bye of a round, no game to be avoided
\* is repeated, a built round has more than the one bye of an odd field only if it stopped
\* early, and the arena repeats a game only when it must (swiss.rs:31, arena.rs:40).
THEOREM PairingStaysSound == PairSpec => []PairingSound
<1>1. PairingInv => PairingSound
  BY DEF PairingInv
<1> QED
  BY <1>1, PairingStarts, PairingStep, PTL DEF PairSpec

(***************************************************************************)
(* Single elimination (Bracket).  The matches are a tree (TreeOK): both    *)
(* seats of a match are the winners of the two below it.  So nobody sits   *)
(* twice in a round (OncePerRound), and a player's matches are the rounds  *)
(* up to one he has not won (TopRound).                                    *)
(***************************************************************************)
MatchId(r, i) == <<"Winners", r, i>>

LEMMA PowersOfTwo == 2^0 = 1 /\ 2^1 = 2 /\ 2^2 = 4 /\ 2^3 = 8 /\ 2^4 = 16
OBVIOUS

LEMMA RoundsNeeded ==
    ASSUME NEW n \in 2..16
    PROVE  LET R == TotalRounds(n) IN R \in 1..4 /\ 2^R >= n /\ (R = 1 \/ 2^(R - 1) < n)
<1>1. \E r \in 1..4 : 2^r >= n /\ (r = 1 \/ 2^(r - 1) < n)
  <2>1. CASE n <= 2
    BY <2>1, PowersOfTwo
  <2>2. CASE 2 < n /\ n <= 4
    BY <2>2, PowersOfTwo
  <2>3. CASE 4 < n /\ n <= 8
    BY <2>3, PowersOfTwo
  <2>4. CASE 8 < n
    BY <2>4, PowersOfTwo
  <2> QED
    BY <2>1, <2>2, <2>3, <2>4
<1> QED
  BY <1>1 DEF TotalRounds

\* Each round has half as many matches as the one below it; the last has one.
LEMMA RoundsHalve ==
    ASSUME NEW n \in 2..16
    PROVE  /\ TotalRounds(n) \in 1..4
           /\ BracketSize(n) = 2 * Width(n, 1)
           /\ Byes(n) = BracketSize(n) - n /\ Byes(n) \in Nat /\ Byes(n) < Width(n, 1)
           /\ \A r \in 1..TotalRounds(n) : Width(n, r) \in Nat \ {0}
           /\ Width(n, TotalRounds(n)) = 1
           /\ \A r \in 2..TotalRounds(n) : Width(n, r - 1) = 2 * Width(n, r)
<1> DEFINE R == TotalRounds(n)
<1>1. R \in 1..4 /\ 2^R >= n /\ (R = 1 \/ 2^(R - 1) < n)
  BY RoundsNeeded
<1>2. BracketSize(n) = 2^R /\ Byes(n) = BracketSize(n) - n
      /\ \A r : Width(n, r) = BracketSize(n) \div 2^r
  BY DEF BracketSize, Byes, Width
<1> HIDE DEF R
<1>3. CASE R = 1
  <2>1. BracketSize(n) = 2 /\ n <= 2
    BY <1>1, <1>2, <1>3, PowersOfTwo
  <2>2. 2 \div 2 = 1
    OBVIOUS
  <2>3. Width(n, 1) = 1
    BY <1>2, <2>1, <2>2, PowersOfTwo
  <2> QED
    BY <1>2, <1>3, <2>1, <2>3 DEF R
<1>4. CASE R = 2
  <2>1. BracketSize(n) = 4 /\ 2 < n /\ n <= 4
    BY <1>1, <1>2, <1>4, PowersOfTwo
  <2>2. 4 \div 2 = 2 /\ 4 \div 4 = 1
    OBVIOUS
  <2>3. Width(n, 1) = 2 /\ Width(n, 2) = 1
    BY <1>2, <2>1, <2>2, PowersOfTwo
  <2> QED
    BY <1>2, <1>4, <2>1, <2>3 DEF R
<1>5. CASE R = 3
  <2>1. BracketSize(n) = 8 /\ 4 < n /\ n <= 8
    BY <1>1, <1>2, <1>5, PowersOfTwo
  <2>2. 8 \div 2 = 4 /\ 8 \div 4 = 2 /\ 8 \div 8 = 1
    OBVIOUS
  <2>3. Width(n, 1) = 4 /\ Width(n, 2) = 2 /\ Width(n, 3) = 1
    BY <1>2, <2>1, <2>2, PowersOfTwo
  <2> QED
    BY <1>2, <1>5, <2>1, <2>3 DEF R
<1>6. CASE R = 4
  <2>1. BracketSize(n) = 16 /\ 8 < n /\ n <= 16
    BY <1>1, <1>2, <1>6, PowersOfTwo
  <2>2. 16 \div 2 = 8 /\ 16 \div 4 = 4 /\ 16 \div 8 = 2 /\ 16 \div 16 = 1
    OBVIOUS
  <2>3. Width(n, 1) = 8 /\ Width(n, 2) = 4 /\ Width(n, 3) = 2 /\ Width(n, 4) = 1
    BY <1>2, <2>1, <2>2, PowersOfTwo
  <2> QED
    BY <1>2, <1>6, <2>1, <2>3 DEF R
<1> QED
  BY <1>1, <1>3, <1>4, <1>5, <1>6

LEMMA PlacesAre ==
    ASSUME NEW n \in 2..16
    PROVE  /\ \A r \in 1..TotalRounds(n) : \A i \in 1..Width(n, r) : MatchId(r, i) \in WinnersPlaces(n)
           /\ \A id \in WinnersPlaces(n) :
                \E r \in 1..TotalRounds(n) : \E i \in 1..Width(n, r) : id = MatchId(r, i)
BY DEF WinnersPlaces, MatchId

Seats(n) == (1..n) \cup {Empty}
MatchRecords(n) == [p1 : Seats(n), p2 : Seats(n), winner : Seats(n)]

SeatOf(ms, r, i) == {ms[MatchId(r, i)].p1, ms[MatchId(r, i)].p2}

\* The first round is as drawn; the seats of a match are the winners of those below it.
TreeOK(n, ms) ==
    /\ ms \in [WinnersPlaces(n) -> MatchRecords(n)]
    /\ \A i \in 1..Width(n, 1) :
         /\ ms[MatchId(1, i)].p1 = i
         /\ i <= Byes(n) => ms[MatchId(1, i)].p2 = Empty /\ ms[MatchId(1, i)].winner = i
         /\ i > Byes(n) => ms[MatchId(1, i)].p2 = BracketSize(n) + 1 - i
    /\ \A r \in 2..TotalRounds(n) : \A i \in 1..Width(n, r) :
         /\ ms[MatchId(r, i)].p1 = ms[MatchId(r - 1, 2 * i - 1)].winner
         /\ ms[MatchId(r, i)].p2 = ms[MatchId(r - 1, 2 * i)].winner
    /\ \A id \in WinnersPlaces(n) :
         ms[id].winner # Empty => ms[id].winner \in {ms[id].p1, ms[id].p2}

\* Who has been decided upon had an opponent, unless he had a bye.
Opposed(n, ms) ==
    \A r \in 1..TotalRounds(n) : \A i \in 1..Width(n, r) :
        (ms[MatchId(r, i)].winner # Empty /\ (r > 1 \/ i > Byes(n))) =>
            ms[MatchId(r, i)].p1 # Empty /\ ms[MatchId(r, i)].p2 # Empty

\* The bracket as it is drawn.
LEMMA DrawnIsTree ==
    ASSUME NEW n \in 2..16, NEW ms, ms = WinnersBracket(n)
    PROVE  TreeOK(n, ms) /\ Opposed(n, ms) /\ ms[MatchId(TotalRounds(n), 1)].winner = Empty
<1> DEFINE R == TotalRounds(n)
<1>1. /\ R \in 1..4 /\ BracketSize(n) = 2 * Width(n, 1)
      /\ Byes(n) = BracketSize(n) - n /\ Byes(n) \in Nat /\ Byes(n) < Width(n, 1)
      /\ \A r \in 1..R : Width(n, r) \in Nat \ {0}
      /\ Width(n, R) = 1
      /\ \A r \in 2..R : Width(n, r - 1) = 2 * Width(n, r)
  BY RoundsHalve
<1>2. /\ \A r \in 1..R : \A i \in 1..Width(n, r) : MatchId(r, i) \in WinnersPlaces(n)
      /\ \A id \in WinnersPlaces(n) : \E r \in 1..R : \E i \in 1..Width(n, r) : id = MatchId(r, i)
  BY PlacesAre
<1>3. Empty \notin 1..n
  BY FieldsAssumption
<1> DEFINE After(i) == IF i <= Byes(n) THEN i ELSE Empty
<1>4. /\ DOMAIN ms = WinnersPlaces(n)
      /\ ms = [id \in WinnersPlaces(n) |-> ms[id]]
      /\ \A i \in 1..Width(n, 1) : ms[MatchId(1, i)] = Opening(n, i)
      /\ \A r \in 2..R : \A i \in 1..Width(n, r) :
           r = 2 => ms[MatchId(r, i)] = Match(After(2 * i - 1), After(2 * i), Empty)
      /\ \A r \in 2..R : \A i \in 1..Width(n, r) : r > 2 => ms[MatchId(r, i)] = NoPlayers
  <2>1. /\ DOMAIN ms = WinnersPlaces(n)
        /\ ms = [id \in WinnersPlaces(n) |-> ms[id]]
    BY DEF WinnersBracket
  <2>2. ASSUME NEW r \in 1..R, NEW i \in 1..Width(n, r)
        PROVE  ms[MatchId(r, i)] = CASE r = 1 -> Opening(n, i)
                                   [] r = 2 -> Match(After(2 * i - 1), After(2 * i), Empty)
                                   [] OTHER -> NoPlayers
    <3>1. MatchId(r, i) \in WinnersPlaces(n) /\ MatchId(r, i)[2] = r /\ MatchId(r, i)[3] = i
      BY <1>2 DEF MatchId
    <3> QED
      BY <3>1 DEF WinnersBracket
  <2> HIDE DEF After
  <2>3. ASSUME NEW i \in 1..Width(n, 1) PROVE ms[MatchId(1, i)] = Opening(n, i)
    BY <1>1, <2>2
  <2>4. ASSUME NEW r \in 2..R, NEW i \in 1..Width(n, r), r = 2
        PROVE  ms[MatchId(r, i)] = Match(After(2 * i - 1), After(2 * i), Empty)
    <3>1. r \in 1..R /\ r # 1
      BY <1>1, <2>4
    <3> QED
      BY <2>2, <2>4, <3>1
  <2>5. ASSUME NEW r \in 2..R, NEW i \in 1..Width(n, r), r > 2
        PROVE  ms[MatchId(r, i)] = NoPlayers
    BY <1>1, <2>2, <2>5
  <2> QED
    BY <2>1, <2>3, <2>4, <2>5
<1> HIDE DEF R
<1>5. ms \in [WinnersPlaces(n) -> MatchRecords(n)]
  <2>1. ASSUME NEW r \in 1..R, NEW i \in 1..Width(n, r) PROVE ms[MatchId(r, i)] \in MatchRecords(n)
    <3>1. i \in Int /\ n \in Int /\ Width(n, r) \in Int /\ BracketSize(n) = n + Byes(n)
      BY <1>1
    <3>2. CASE r = 1
      <4>1. ms[MatchId(r, i)] = Opening(n, i)
        BY <1>4, <3>2
      <4>2. i <= Width(n, 1) /\ 1 <= i
        BY <3>2
      <4>3. i \in 1..n /\ (i > Byes(n) => BracketSize(n) + 1 - i \in 1..n)
        BY <1>1, <3>1, <4>2
      <4>4. i \in Seats(n) /\ Empty \in Seats(n)
            /\ (i > Byes(n) => BracketSize(n) + 1 - i \in Seats(n))
        BY <4>3 DEF Seats
      <4>5. CASE i <= Byes(n)
        BY <4>1, <4>4, <4>5 DEF Opening, Match, MatchRecords
      <4>6. CASE i > Byes(n)
        <5>1. ~(i <= Byes(n))
          BY <1>1, <3>1, <4>6
        <5> QED
          BY <4>1, <4>4, <4>6, <5>1 DEF Opening, Match, MatchRecords
      <4> QED
        BY <1>1, <3>1, <4>5, <4>6
    <3>3. CASE r = 2
      <4>0. r \in 2..R
        BY <1>1, <3>3
      <4>1. ms[MatchId(r, i)] = Match(After(2 * i - 1), After(2 * i), Empty)
        BY <1>4, <3>3, <4>0
      <4>2. \A j \in Nat \ {0} : After(j) \in Seats(n)
        <5> TAKE j \in Nat \ {0}
        <5>1. j <= Byes(n) => j \in 1..n
          BY <1>1
        <5> QED
          BY <5>1 DEF Seats
      <4>3. 2 * i - 1 \in Nat \ {0} /\ 2 * i \in Nat \ {0}
        BY <3>1
      <4> HIDE DEF After
      <4> QED
        BY <4>1, <4>2, <4>3 DEF Match, MatchRecords, Seats
    <3>4. CASE r > 2
      <4>0. r \in 2..R
        BY <1>1, <3>4
      <4>1. ms[MatchId(r, i)] = NoPlayers
        BY <1>4, <3>4, <4>0
      <4> QED
        BY <4>1 DEF NoPlayers, Match, MatchRecords, Seats
    <3> QED
      BY <1>1, <3>2, <3>3, <3>4
  <2>2. \A id \in WinnersPlaces(n) : ms[id] \in MatchRecords(n)
    BY <1>2, <2>1
  <2> QED
    BY <1>4, <2>2
<1>6. ASSUME NEW i \in 1..Width(n, 1)
      PROVE  /\ ms[MatchId(1, i)].p1 = i
             /\ ms[MatchId(1, i)].winner = After(i)
             /\ i <= Byes(n) => ms[MatchId(1, i)].p2 = Empty
             /\ i > Byes(n) => ms[MatchId(1, i)].p2 = BracketSize(n) + 1 - i
  <2>0. ms[MatchId(1, i)] = Opening(n, i)
    BY <1>4
  <2>1. i \in Int /\ Byes(n) \in Int
    BY <1>1
  <2> QED
    BY <2>0, <2>1 DEF Opening, Match
<1>7. ASSUME NEW r \in 2..R, NEW i \in 1..Width(n, r)
      PROVE  /\ ms[MatchId(r, i)].winner = Empty
             /\ ms[MatchId(r, i)].p1 = ms[MatchId(r - 1, 2 * i - 1)].winner
             /\ ms[MatchId(r, i)].p2 = ms[MatchId(r - 1, 2 * i)].winner
  <2>0. /\ r - 1 \in 1..R /\ Width(n, r - 1) = 2 * Width(n, r) /\ Width(n, r) \in Nat
        /\ i \in Nat /\ 1 <= i /\ i <= Width(n, r)
    BY <1>1
  <2>1. 2 * i - 1 \in 1..Width(n, r - 1) /\ 2 * i \in 1..Width(n, r - 1)
    BY <2>0
  <2>2. CASE r = 2
    <3>1. /\ ms[MatchId(r, i)] = Match(After(2 * i - 1), After(2 * i), Empty)
          /\ ms[MatchId(r - 1, 2 * i - 1)].winner = After(2 * i - 1)
          /\ ms[MatchId(r - 1, 2 * i)].winner = After(2 * i)
      <4>1. ms[MatchId(r, i)] = Match(After(2 * i - 1), After(2 * i), Empty)
        BY <1>4, <2>2
      <4>2. r - 1 = 1 /\ 2 * i - 1 \in 1..Width(n, 1) /\ 2 * i \in 1..Width(n, 1)
        BY <2>1, <2>2
      <4> QED
        BY <1>6, <4>1, <4>2
    <3> HIDE DEF After
    <3> QED
      BY <3>1 DEF Match
  <2>3. CASE r > 2
    <3>1. ms[MatchId(r, i)] = NoPlayers
      BY <1>4, <2>3
    <3>2. \A j \in 1..Width(n, r - 1) : ms[MatchId(r - 1, j)].winner = Empty
      <4> TAKE j \in 1..Width(n, r - 1)
      <4>0. r - 1 \in 2..R
        BY <1>1, <2>3
      <4>1. CASE r - 1 = 2
        <5>1. ms[MatchId(r - 1, j)] = Match(After(2 * j - 1), After(2 * j), Empty)
          BY <1>4, <4>0, <4>1
        <5> QED
          BY <5>1 DEF Match
      <4>2. CASE r - 1 > 2
        <5>1. ms[MatchId(r - 1, j)] = NoPlayers
          BY <1>4, <4>0, <4>2
        <5> QED
          BY <5>1 DEF NoPlayers, Match
      <4> QED
        BY <2>0, <2>3, <4>1, <4>2
    <3> QED
      BY <3>1, <3>2, <2>1 DEF NoPlayers, Match
  <2> QED
    BY <2>2, <2>3
<1>8. \A id \in WinnersPlaces(n) : ms[id].winner # Empty => ms[id].winner \in {ms[id].p1, ms[id].p2}
  <2> SUFFICES ASSUME NEW r \in 1..R, NEW i \in 1..Width(n, r), ms[MatchId(r, i)].winner # Empty
               PROVE  ms[MatchId(r, i)].winner = ms[MatchId(r, i)].p1
    BY <1>2
  <2>1. r = 1
    BY <1>7
  <2> QED
    BY <1>6, <2>1
<1>9. Opposed(n, ms)
  <2> SUFFICES ASSUME NEW r \in 1..R, NEW i \in 1..Width(n, r), ms[MatchId(r, i)].winner # Empty,
                      r > 1 \/ i > Byes(n)
               PROVE  FALSE
    BY DEF Opposed, R
  <2>1. r = 1 /\ i > Byes(n)
    BY <1>7
  <2>2. i \in Int /\ Byes(n) \in Int
    BY <1>1
  <2> QED
    BY <1>6, <2>1, <2>2
<1>10. ms[MatchId(R, 1)].winner = Empty
  <2>1. 1 \in 1..Width(n, R) /\ R \in 1..R
    BY <1>1
  <2>2. CASE R = 1
    <3>1. Byes(n) = 0 /\ 1 \in 1..Width(n, 1)
      BY <1>1, <2>1, <2>2
    <3> QED
      BY <1>6, <2>2, <3>1
  <2>3. CASE R > 1
    BY <1>1, <1>7, <2>1, <2>3
  <2> QED
    BY <1>1, <2>2, <2>3
<1>11. TreeOK(n, ms)
  BY <1>5, <1>6, <1>7, <1>8 DEF TreeOK, R
<1> QED
  BY <1>9, <1>10, <1>11 DEF R

\* Nobody sits in two matches of a round, or in both seats of one.
OncePerRound(n, ms, r) ==
    /\ \A p \in 1..n : \A i \in 1..Width(n, r) : \A j \in 1..Width(n, r) :
         p \in SeatOf(ms, r, i) /\ p \in SeatOf(ms, r, j) => i = j
    /\ \A i \in 1..Width(n, r) :
         ms[MatchId(r, i)].p1 # ms[MatchId(r, i)].p2 \/ ms[MatchId(r, i)].p1 = Empty

\* What the tree says of the matches below one, by number.
LEMMA BelowAMatch ==
    ASSUME NEW n \in 2..16, NEW ms, TreeOK(n, ms), NEW r \in 2..TotalRounds(n),
           NEW i \in 1..Width(n, r)
    PROVE  /\ r - 1 \in 1..TotalRounds(n) /\ r \in 1..TotalRounds(n) /\ i \in Nat
           /\ 2 * i - 1 \in 1..Width(n, r - 1) /\ 2 * i \in 1..Width(n, r - 1)
           /\ ms[MatchId(r, i)].p1 = ms[MatchId(r - 1, 2 * i - 1)].winner
           /\ ms[MatchId(r, i)].p2 = ms[MatchId(r - 1, 2 * i)].winner
<1>1. /\ TotalRounds(n) \in 1..4 /\ Width(n, r - 1) = 2 * Width(n, r)
      /\ \A s \in 1..TotalRounds(n) : Width(n, s) \in Nat \ {0}
  BY RoundsHalve
<1>2. r - 1 \in 1..TotalRounds(n) /\ r \in 1..TotalRounds(n)
  BY <1>1
<1>3. Width(n, r) \in Nat /\ i \in Nat /\ 1 <= i /\ i <= Width(n, r)
  BY <1>1, <1>2
<1> QED
  BY <1>1, <1>2, <1>3 DEF TreeOK

\* The seats are players and the winner one of them.
LEMMA SeatsAre ==
    ASSUME NEW n \in 2..16, NEW ms, TreeOK(n, ms), NEW r \in 1..TotalRounds(n),
           NEW i \in 1..Width(n, r)
    PROVE  /\ ms[MatchId(r, i)].p1 \in Seats(n) /\ ms[MatchId(r, i)].p2 \in Seats(n)
           /\ ms[MatchId(r, i)].winner \in Seats(n)
           /\ ms[MatchId(r, i)].winner # Empty => ms[MatchId(r, i)].winner \in SeatOf(ms, r, i)
<1>1. MatchId(r, i) \in WinnersPlaces(n)
  BY PlacesAre
<1>2. /\ ms[MatchId(r, i)] \in MatchRecords(n)
      /\ ms[MatchId(r, i)].winner # Empty =>
            ms[MatchId(r, i)].winner \in {ms[MatchId(r, i)].p1, ms[MatchId(r, i)].p2}
  BY <1>1 DEF TreeOK
<1> QED
  BY <1>2 DEF MatchRecords, SeatOf

LEMMA OnceInTheFirst ==
    ASSUME NEW n \in 2..16, NEW ms, TreeOK(n, ms)
    PROVE  /\ OncePerRound(n, ms, 1)
           /\ \A p \in 1..n : \E i \in 1..Width(n, 1) : p \in SeatOf(ms, 1, i)
<1> DEFINE B == BracketSize(n)
           W == Width(n, 1)
<1>1. /\ B = 2 * W /\ Byes(n) = B - n /\ Byes(n) \in Nat /\ Byes(n) < W /\ W \in Nat \ {0}
  <2>1. TotalRounds(n) \in 1..4
    BY RoundsHalve
  <2>2. 1 \in 1..TotalRounds(n)
    BY <2>1
  <2> QED
    BY <2>2, RoundsHalve
<1>2. \A i \in 1..W : /\ ms[MatchId(1, i)].p1 = i
                      /\ i <= Byes(n) => ms[MatchId(1, i)].p2 = Empty
                      /\ i > Byes(n) => ms[MatchId(1, i)].p2 = B + 1 - i
  BY DEF TreeOK
<1>3. \A q \in 1..16 : q # Empty
  BY FieldsAssumption
<1> HIDE DEF B, W
<1>4. ASSUME NEW i \in 1..W, NEW p \in 1..n
      PROVE  p \in SeatOf(ms, 1, i) <=> p = i \/ (i > Byes(n) /\ p = B + 1 - i)
  <2>0. p \in 1..16 /\ i \in Nat
    BY <1>1
  <2>1. CASE i <= Byes(n)
    BY <1>1, <1>2, <1>3, <2>0, <2>1 DEF SeatOf
  <2>2. CASE i > Byes(n)
    BY <1>1, <1>2, <1>3, <2>0, <2>2 DEF SeatOf
  <2> QED
    BY <1>1, <2>0, <2>1, <2>2
<1>5. ASSUME NEW p \in 1..n, NEW i \in 1..W, NEW j \in 1..W,
             p \in SeatOf(ms, 1, i), p \in SeatOf(ms, 1, j)
      PROVE  i = j
  <2>1. p = i \/ p = B + 1 - i
    BY <1>4, <1>5
  <2>2. p = j \/ p = B + 1 - j
    BY <1>4, <1>5
  <2>3. i \in Nat /\ j \in Nat /\ i <= W /\ j <= W
    BY <1>1
  <2> QED
    BY <1>1, <2>1, <2>2, <2>3
<1>6. ASSUME NEW i \in 1..W PROVE ms[MatchId(1, i)].p1 # ms[MatchId(1, i)].p2
  <2>0. i \in 1..16 /\ i <= W /\ i \in Nat /\ i # Empty
    BY <1>1, <1>3
  <2>1. CASE i <= Byes(n)
    BY <1>2, <2>0, <2>1
  <2>2. CASE i > Byes(n)
    BY <1>1, <1>2, <2>0, <2>2
  <2> QED
    BY <1>1, <2>0, <2>1, <2>2
<1>7. ASSUME NEW p \in 1..n PROVE \E i \in 1..W : p \in SeatOf(ms, 1, i)
  <2>1. CASE p <= W
    BY <1>1, <1>4, <2>1
  <2>2. CASE p > W
    <3>1. B + 1 - p \in 1..W /\ B + 1 - p > Byes(n) /\ p = B + 1 - (B + 1 - p)
      BY <1>1, <2>2
    <3> QED
      BY <1>4, <3>1
  <2> QED
    BY <1>1, <2>1, <2>2
<1> QED
  BY <1>5, <1>6, <1>7 DEF OncePerRound, W

LEMMA OnceAbove ==
    ASSUME NEW n \in 2..16, NEW ms, TreeOK(n, ms), NEW r \in 2..TotalRounds(n),
           OncePerRound(n, ms, r - 1)
    PROVE  OncePerRound(n, ms, r)
<1>0. Empty \notin 1..n
  BY FieldsAssumption
\* Who sits in a match won one of the two below it.
<1>1. ASSUME NEW p \in 1..n, NEW i \in 1..Width(n, r), p \in SeatOf(ms, r, i)
      PROVE  \E k \in 1..Width(n, r - 1) : /\ p \in SeatOf(ms, r - 1, k)
                                           /\ k = 2 * i - 1 \/ k = 2 * i
  <2>1. /\ r - 1 \in 1..TotalRounds(n)
        /\ 2 * i - 1 \in 1..Width(n, r - 1) /\ 2 * i \in 1..Width(n, r - 1)
        /\ ms[MatchId(r, i)].p1 = ms[MatchId(r - 1, 2 * i - 1)].winner
        /\ ms[MatchId(r, i)].p2 = ms[MatchId(r - 1, 2 * i)].winner
    BY BelowAMatch
  <2>2. \/ p = ms[MatchId(r - 1, 2 * i - 1)].winner
        \/ p = ms[MatchId(r - 1, 2 * i)].winner
    BY <1>1, <2>1 DEF SeatOf
  <2>3. p # Empty
    BY <1>0
  <2> QED
    BY <2>1, <2>2, <2>3, SeatsAre
<1>2. ASSUME NEW p \in 1..n, NEW i \in 1..Width(n, r), NEW j \in 1..Width(n, r),
             p \in SeatOf(ms, r, i), p \in SeatOf(ms, r, j)
      PROVE  i = j
  <2>1. PICK k \in 1..Width(n, r - 1) : /\ p \in SeatOf(ms, r - 1, k)
                                        /\ k = 2 * i - 1 \/ k = 2 * i
    BY <1>1, <1>2
  <2>2. PICK l \in 1..Width(n, r - 1) : /\ p \in SeatOf(ms, r - 1, l)
                                        /\ l = 2 * j - 1 \/ l = 2 * j
    BY <1>1, <1>2
  <2>3. k = l
    BY <2>1, <2>2 DEF OncePerRound
  <2>4. i \in Nat /\ j \in Nat
    BY BelowAMatch
  <2> QED
    BY <2>1, <2>2, <2>3, <2>4
<1>3. ASSUME NEW i \in 1..Width(n, r), ms[MatchId(r, i)].p1 = ms[MatchId(r, i)].p2,
             ms[MatchId(r, i)].p1 # Empty
      PROVE  FALSE
  <2>1. /\ r - 1 \in 1..TotalRounds(n) /\ r \in 1..TotalRounds(n) /\ i \in Nat
        /\ 2 * i - 1 \in 1..Width(n, r - 1) /\ 2 * i \in 1..Width(n, r - 1)
        /\ ms[MatchId(r, i)].p1 = ms[MatchId(r - 1, 2 * i - 1)].winner
        /\ ms[MatchId(r, i)].p2 = ms[MatchId(r - 1, 2 * i)].winner
    BY BelowAMatch
  <2>2. PICK p \in 1..n : p = ms[MatchId(r, i)].p1
    BY <1>3, <2>1, SeatsAre DEF Seats
  <2>3. p \in SeatOf(ms, r - 1, 2 * i - 1) /\ p \in SeatOf(ms, r - 1, 2 * i)
    BY <1>0, <1>3, <2>1, <2>2, SeatsAre
  <2>4. 2 * i - 1 = 2 * i
    BY <2>1, <2>3 DEF OncePerRound
  <2> QED
    BY <2>1, <2>4
<1> QED
  BY <1>2, <1>3 DEF OncePerRound

LEMMA OnceEverywhere ==
    ASSUME NEW n \in 2..16, NEW ms, TreeOK(n, ms)
    PROVE  \A r \in 1..TotalRounds(n) : OncePerRound(n, ms, r)
<1>0. TotalRounds(n) \in 1..4
  BY RoundsHalve
<1>1. OncePerRound(n, ms, 1)
  BY OnceInTheFirst
<1>2. TotalRounds(n) >= 2 => OncePerRound(n, ms, 2)
  <2> SUFFICES ASSUME TotalRounds(n) >= 2 PROVE OncePerRound(n, ms, 2)
    OBVIOUS
  <2>1. 2 \in 2..TotalRounds(n) /\ 2 - 1 = 1
    BY <1>0
  <2> QED
    BY <1>1, <2>1, OnceAbove
<1>3. TotalRounds(n) >= 3 => OncePerRound(n, ms, 3)
  <2> SUFFICES ASSUME TotalRounds(n) >= 3 PROVE OncePerRound(n, ms, 3)
    OBVIOUS
  <2>1. 3 \in 2..TotalRounds(n) /\ 3 - 1 = 2 /\ TotalRounds(n) >= 2
    BY <1>0
  <2> QED
    BY <1>2, <2>1, OnceAbove
<1>4. TotalRounds(n) >= 4 => OncePerRound(n, ms, 4)
  <2> SUFFICES ASSUME TotalRounds(n) >= 4 PROVE OncePerRound(n, ms, 4)
    OBVIOUS
  <2>1. 4 \in 2..TotalRounds(n) /\ 4 - 1 = 3 /\ TotalRounds(n) >= 3
    BY <1>0
  <2> QED
    BY <1>3, <2>1, OnceAbove
<1>5. \A r \in 1..TotalRounds(n) :
         r = 1 \/ (r = 2 /\ TotalRounds(n) >= 2) \/ (r = 3 /\ TotalRounds(n) >= 3)
               \/ (r = 4 /\ TotalRounds(n) >= 4)
  BY <1>0
<1> QED
  BY <1>1, <1>2, <1>3, <1>4, <1>5

PlaysIn(n, ms, r, p) == \E i \in 1..Width(n, r) : p \in SeatOf(ms, r, i)
WonRound(n, ms, r, p) == \E i \in 1..Width(n, r) : ms[MatchId(r, i)].winner = p

\* Who won a round played it, and who plays in a round won the one below.
LEMMA RoundByRound ==
    ASSUME NEW n \in 2..16, NEW ms, TreeOK(n, ms), NEW p \in 1..n
    PROVE  /\ PlaysIn(n, ms, 1, p)
           /\ \A r \in 1..TotalRounds(n) : WonRound(n, ms, r, p) => PlaysIn(n, ms, r, p)
           /\ \A r \in 2..TotalRounds(n) : PlaysIn(n, ms, r, p) <=> WonRound(n, ms, r - 1, p)
<1>0. p # Empty
  BY FieldsAssumption
<1>1. PlaysIn(n, ms, 1, p)
  BY OnceInTheFirst DEF PlaysIn
<1>2. ASSUME NEW r \in 1..TotalRounds(n), WonRound(n, ms, r, p) PROVE PlaysIn(n, ms, r, p)
  <2>1. PICK i \in 1..Width(n, r) : ms[MatchId(r, i)].winner = p
    BY <1>2 DEF WonRound
  <2> QED
    BY <1>0, <2>1, SeatsAre DEF PlaysIn
<1>3. ASSUME NEW r \in 2..TotalRounds(n), PlaysIn(n, ms, r, p) PROVE WonRound(n, ms, r - 1, p)
  <2>1. PICK i \in 1..Width(n, r) : p \in SeatOf(ms, r, i)
    BY <1>3 DEF PlaysIn
  <2>2. /\ 2 * i - 1 \in 1..Width(n, r - 1) /\ 2 * i \in 1..Width(n, r - 1)
        /\ ms[MatchId(r, i)].p1 = ms[MatchId(r - 1, 2 * i - 1)].winner
        /\ ms[MatchId(r, i)].p2 = ms[MatchId(r - 1, 2 * i)].winner
    BY BelowAMatch
  <2> QED
    BY <2>1, <2>2 DEF WonRound, SeatOf
<1>4. ASSUME NEW r \in 2..TotalRounds(n), WonRound(n, ms, r - 1, p) PROVE PlaysIn(n, ms, r, p)
  <2>1. PICK k \in 1..Width(n, r - 1) : ms[MatchId(r - 1, k)].winner = p
    BY <1>4 DEF WonRound
  <2>2. Width(n, r - 1) = 2 * Width(n, r) /\ Width(n, r) \in Nat
    <3>1. TotalRounds(n) \in 1..4 /\ \A s \in 1..TotalRounds(n) : Width(n, s) \in Nat \ {0}
      BY RoundsHalve
    <3>2. r \in 1..TotalRounds(n)
      BY <3>1
    <3> QED
      BY <3>1, <3>2, RoundsHalve
  <2>3. PICK i \in 1..Width(n, r) : k = 2 * i - 1 \/ k = 2 * i
    <3>1. CASE k % 2 = 0
      <4>1. k \div 2 \in 1..Width(n, r) /\ k = 2 * (k \div 2)
        BY <2>2, <3>1
      <4> QED
        BY <4>1
    <3>2. CASE k % 2 # 0
      <4>1. (k + 1) \div 2 \in 1..Width(n, r) /\ k = 2 * ((k + 1) \div 2) - 1
        BY <2>2, <3>2
      <4> QED
        BY <4>1
    <3> QED
      BY <3>1, <3>2
  <2>4. /\ ms[MatchId(r, i)].p1 = ms[MatchId(r - 1, 2 * i - 1)].winner
        /\ ms[MatchId(r, i)].p2 = ms[MatchId(r - 1, 2 * i)].winner
    BY BelowAMatch
  <2> QED
    BY <2>1, <2>3, <2>4 DEF PlaysIn, SeatOf
<1> QED
  BY <1>1, <1>2, <1>3, <1>4

\* A player plays up to one round, and all below it he won.
LEMMA TopRound ==
    ASSUME NEW n \in 2..16, NEW ms, TreeOK(n, ms), NEW p \in 1..n
    PROVE  \E k \in 1..TotalRounds(n) :
               /\ \A r \in 1..TotalRounds(n) : PlaysIn(n, ms, r, p) <=> r <= k
               /\ \A r \in 1..(k - 1) : WonRound(n, ms, r, p)
               /\ WonRound(n, ms, k, p) => k = TotalRounds(n)
<1> DEFINE R == TotalRounds(n)
           P(r) == PlaysIn(n, ms, r, p)
           W(r) == WonRound(n, ms, r, p)
<1>0. R \in 1..4
  BY RoundsHalve
<1>1. /\ P(1) /\ \A r \in 1..R : W(r) => P(r)
      /\ \A r \in 2..R : P(r) <=> W(r - 1)
  BY RoundByRound
<1> HIDE DEF R, P, W
<1>2. ASSUME NEW k \in 1..R, ~W(k) \/ k = R, \A r \in 1..(k - 1) : W(r)
      PROVE  \A r \in 1..R : P(r) <=> r <= k
  <2>1. ASSUME NEW r \in 1..R, r <= k PROVE P(r)
    <3>1. CASE r = 1
      BY <1>1, <3>1
    <3>2. CASE r > 1
      <4>1. r \in 2..R /\ r - 1 \in 1..(k - 1)
        BY <1>0, <2>1, <3>2
      <4> QED
        BY <1>1, <1>2, <4>1
    <3> QED
      BY <3>1, <3>2
  <2>2. ASSUME NEW r \in 1..R, r > k, P(r) PROVE FALSE
    <3> DEFINE S == {s \in 1..R : s > k /\ P(s)}
    <3>1. S \in SUBSET Nat /\ r \in S
      BY <1>0, <2>2
    <3> DEFINE s == Min(S)
    <3>2. s \in S /\ \A t \in S : s <= t
      BY <3>1, LeastIsOne
    <3> HIDE DEF s
    <3>3. s \in 2..R /\ s > k /\ P(s) /\ s - 1 \in 1..R
      BY <1>0, <3>2
    <3>4. W(s - 1) /\ P(s - 1)
      BY <1>1, <3>3
    <3>5. CASE s - 1 = k
      BY <1>0, <1>2, <3>3, <3>4, <3>5
    <3>6. CASE s - 1 > k
      <4>1. s - 1 \in S
        BY <3>3, <3>4, <3>6
      <4> QED
        BY <1>0, <3>2, <3>3, <4>1
    <3> QED
      BY <1>0, <3>3, <3>5, <3>6
  <2> QED
    BY <1>0, <2>1, <2>2
<1>3. CASE \A r \in 1..R : W(r)
  <2>1. R \in 1..R /\ \A r \in 1..(R - 1) : W(r)
    BY <1>0, <1>3
  <2>2. \A r \in 1..R : P(r) <=> r <= R
    BY <1>2, <2>1
  <2> QED
    BY <2>1, <2>2 DEF R, P, W
<1>4. CASE \E r \in 1..R : ~W(r)
  <2> DEFINE S == {r \in 1..R : ~W(r)}
             k == Min(S)
  <2>1. S \in SUBSET Nat /\ S # {}
    BY <1>0, <1>4
  <2>2. k \in S /\ \A t \in S : k <= t
    BY <2>1, LeastIsOne
  <2> HIDE DEF k
  <2>3. k \in 1..R /\ ~W(k)
    BY <2>2
  <2>4. ASSUME NEW r \in 1..(k - 1) PROVE W(r)
    <3>1. r \in 1..R /\ ~(k <= r)
      BY <1>0, <2>3
    <3> QED
      BY <2>2, <3>1
  <2>5. \A r \in 1..R : P(r) <=> r <= k
    BY <1>2, <2>3, <2>4
  <2> QED
    BY <2>3, <2>4, <2>5 DEF R, P, W
<1> QED
  BY <1>3, <1>4

OpenFor(n, ms, p) ==
    {id \in WinnersPlaces(n) : ms[id].winner = Empty /\ p \in {ms[id].p1, ms[id].p2}}
LostBy(n, ms, p) ==
    {id \in WinnersPlaces(n) :
        ms[id].winner # Empty /\ p \in {ms[id].p1, ms[id].p2} /\ ms[id].winner # p}

\* A player has one match he has not won, or he has won the final; it is his open match or
\* the one he lost.
HisLast(n, ms, p) ==
    \E k \in 1..TotalRounds(n) : \E i \in 1..Width(n, k) :
        LET w == ms[MatchId(k, i)].winner
        IN /\ Cardinality(OpenFor(n, ms, p)) = IF w = Empty THEN 1 ELSE 0
           /\ Cardinality(LostBy(n, ms, p)) = IF w = Empty \/ w = p THEN 0 ELSE 1
           /\ w = p <=> ms[MatchId(TotalRounds(n), 1)].winner = p

LEMMA HisMatches ==
    ASSUME NEW n \in 2..16, NEW ms, TreeOK(n, ms), NEW p \in 1..n
    PROVE  HisLast(n, ms, p)
<1> DEFINE R == TotalRounds(n)
<1>0. R \in 1..4 /\ Width(n, R) = 1 /\ \A r \in 1..R : Width(n, r) \in Nat \ {0}
  BY RoundsHalve
<1>1. PICK k \in 1..R : /\ \A r \in 1..R : PlaysIn(n, ms, r, p) <=> r <= k
                        /\ \A r \in 1..(k - 1) : WonRound(n, ms, r, p)
                        /\ WonRound(n, ms, k, p) => k = R
  BY TopRound
<1> HIDE DEF R
<1>2. PICK i \in 1..Width(n, k) : p \in SeatOf(ms, k, i)
  BY <1>0, <1>1 DEF PlaysIn
<1> DEFINE w == ms[MatchId(k, i)].winner
<1>3. p # Empty
  BY FieldsAssumption
<1>o. \A r \in 1..R : OncePerRound(n, ms, r)
  BY OnceEverywhere DEF R
<1>4. MatchId(k, i) \in WinnersPlaces(n) /\ p \in {ms[MatchId(k, i)].p1, ms[MatchId(k, i)].p2}
  BY <1>2, PlacesAre DEF R, SeatOf
<1>5. ASSUME NEW id \in WinnersPlaces(n), p \in {ms[id].p1, ms[id].p2}, ms[id].winner # p
      PROVE  id = MatchId(k, i)
  <2>1. PICK r \in 1..R : \E j \in 1..Width(n, r) : id = MatchId(r, j)
    BY PlacesAre DEF R
  <2>2. PICK j \in 1..Width(n, r) : id = MatchId(r, j)
    BY <2>1
  <2>3. p \in SeatOf(ms, r, j) /\ PlaysIn(n, ms, r, p)
    BY <1>5, <2>2 DEF SeatOf, PlaysIn
  <2>4. r <= k
    BY <1>1, <2>3
  <2>5. CASE r = k
    <3>1. OncePerRound(n, ms, k)
      BY <1>o
    <3>2. i = j
      BY <1>2, <2>3, <2>5, <3>1 DEF OncePerRound
    <3> QED
      BY <2>2, <2>5, <3>2
  <2>6. CASE r < k
    <3>1. r \in 1..(k - 1)
      BY <1>0, <2>6
    <3>2. PICK l \in 1..Width(n, r) : ms[MatchId(r, l)].winner = p
      BY <1>1, <3>1 DEF WonRound
    <3>3. p \in SeatOf(ms, r, l)
      BY <1>3, <3>2, SeatsAre DEF R
    <3>4. OncePerRound(n, ms, r)
      BY <1>o
    <3>5. l = j
      BY <2>3, <3>3, <3>4 DEF OncePerRound
    <3> QED
      BY <1>5, <2>2, <3>2, <3>5
  <2> QED
    BY <1>0, <2>4, <2>5, <2>6
<1> HIDE DEF w
<1>6. Cardinality(OpenFor(n, ms, p)) = IF w = Empty THEN 1 ELSE 0
  <2>1. CASE w = Empty
    <3>1. OpenFor(n, ms, p) = {MatchId(k, i)}
      BY <1>3, <1>4, <1>5, <2>1 DEF OpenFor, w
    <3> QED
      BY <2>1, <3>1, FS_Singleton
  <2>2. CASE w # Empty
    <3>1. OpenFor(n, ms, p) = {}
      BY <1>3, <1>5, <2>2 DEF OpenFor, w
    <3> QED
      BY <2>2, <3>1, FS_EmptySet
  <2> QED
    BY <2>1, <2>2
<1>7. Cardinality(LostBy(n, ms, p)) = IF w = Empty \/ w = p THEN 0 ELSE 1
  <2>1. CASE w = Empty \/ w = p
    <3>1. LostBy(n, ms, p) = {}
      BY <1>5, <2>1 DEF LostBy, w
    <3> QED
      BY <2>1, <3>1, FS_EmptySet
  <2>2. CASE w # Empty /\ w # p
    <3>1. LostBy(n, ms, p) = {MatchId(k, i)}
      BY <1>4, <1>5, <2>2 DEF LostBy, w
    <3> QED
      BY <2>2, <3>1, FS_Singleton
  <2> QED
    BY <2>1, <2>2
<1>8. ASSUME w = p PROVE ms[MatchId(R, 1)].winner = p
  <2>1. WonRound(n, ms, k, p)
    BY <1>8 DEF WonRound, w
  <2>2. k = R /\ i = 1
    BY <1>0, <1>1, <2>1
  <2> QED
    BY <1>8, <2>2 DEF w
<1>9. ASSUME ms[MatchId(R, 1)].winner = p PROVE w = p
  <2>1. R \in 1..R /\ 1 \in 1..Width(n, R)
    BY <1>0
  <2>2. p \in SeatOf(ms, R, 1)
    BY <1>3, <1>9, <2>1, SeatsAre DEF R
  <2>3. R <= k
    BY <1>1, <2>1, <2>2 DEF PlaysIn
  <2>4. k = R /\ i = 1
    BY <1>0, <2>3
  <2> QED
    BY <1>9, <2>4 DEF w
<1> QED
  BY <1>6, <1>7, <1>8, <1>9 DEF R, w, HisLast

\* As long as the final is open, a match can be played: one of the lowest round that has an
\* open match.
LEMMA OneCanBePlayed ==
    ASSUME NEW n \in 2..16, NEW ms, TreeOK(n, ms), ms[MatchId(TotalRounds(n), 1)].winner = Empty
    PROVE  \E id \in WinnersPlaces(n) :
              ms[id].winner = Empty /\ ms[id].p1 # Empty /\ ms[id].p2 # Empty
<1> DEFINE R == TotalRounds(n)
           S == {r \in 1..R : \E i \in 1..Width(n, r) : ms[MatchId(r, i)].winner = Empty}
           r == Min(S)
<1>0. R \in 1..4 /\ Width(n, R) = 1
  BY RoundsHalve
<1>1. S \in SUBSET Nat /\ R \in S
  <2>1. R \in 1..R /\ 1 \in 1..Width(n, R)
    BY <1>0
  <2> QED
    BY <1>0, <2>1
<1>2. r \in S /\ \A s \in S : r <= s
  BY <1>1, LeastIsOne
<1> HIDE DEF r
<1>3. r \in 1..R
  BY <1>2
<1>4. PICK i \in 1..Width(n, r) : ms[MatchId(r, i)].winner = Empty
  BY <1>2
<1>5. MatchId(r, i) \in WinnersPlaces(n)
  BY <1>3, PlacesAre
<1>6. CASE r = 1
  <2>1. i \in 1..Width(n, 1)
    BY <1>6
  <2>2. /\ ms[MatchId(1, i)].p1 = i
        /\ i <= Byes(n) => ms[MatchId(1, i)].winner = i
        /\ i > Byes(n) => ms[MatchId(1, i)].p2 = BracketSize(n) + 1 - i
    BY <2>1 DEF TreeOK
  <2>3. /\ BracketSize(n) = 2 * Width(n, 1) /\ Byes(n) = BracketSize(n) - n
        /\ Byes(n) \in Nat /\ Byes(n) < Width(n, 1)
    BY RoundsHalve
  <2>4. Width(n, 1) \in Nat
    BY <1>3, <1>6, RoundsHalve
  <2>5. i \in 1..16 /\ i \in Nat /\ i <= Width(n, 1)
    BY <2>1, <2>3, <2>4
  <2>6. i # Empty /\ \A q \in 1..16 : q # Empty
    BY <2>5, FieldsAssumption
  <2>7. i > Byes(n)
    BY <1>4, <1>6, <2>2, <2>3, <2>5, <2>6
  <2>8. BracketSize(n) + 1 - i \in 1..16
    BY <2>3, <2>4, <2>5, <2>7
  <2> QED
    BY <1>4, <1>5, <1>6, <2>2, <2>6, <2>7, <2>8
<1>7. CASE r > 1
  <2>1. r \in 2..R /\ r - 1 \in 1..R /\ ~(r <= r - 1)
    BY <1>0, <1>3, <1>7
  <2>2. /\ 2 * i - 1 \in 1..Width(n, r - 1) /\ 2 * i \in 1..Width(n, r - 1)
        /\ ms[MatchId(r, i)].p1 = ms[MatchId(r - 1, 2 * i - 1)].winner
        /\ ms[MatchId(r, i)].p2 = ms[MatchId(r - 1, 2 * i)].winner
    BY <2>1, BelowAMatch
  <2>3. r - 1 \notin S
    BY <1>2, <2>1
  <2> QED
    BY <1>4, <1>5, <2>1, <2>2, <2>3
<1> QED
  BY <1>0, <1>3, <1>6, <1>7

\* When the final is decided and everybody had an opponent, every match is decided.
LEMMA AllAreDecided ==
    ASSUME NEW n \in 2..16, NEW ms, TreeOK(n, ms), Opposed(n, ms),
           ms[MatchId(TotalRounds(n), 1)].winner # Empty
    PROVE  \A id \in WinnersPlaces(n) : ms[id].winner # Empty
<1> DEFINE R == TotalRounds(n)
           S == {d \in 0..3 : d < R /\ \E i \in 1..Width(n, R - d) :
                                          ms[MatchId(R - d, i)].winner = Empty}
<1>0. R \in 1..4 /\ Width(n, R) = 1
      /\ (\A r \in 1..R : Width(n, r) \in Nat \ {0})
      /\ (\A r \in 2..R : Width(n, r - 1) = 2 * Width(n, r))
  BY RoundsHalve
<1>1. ASSUME S # {} PROVE FALSE
  <2> DEFINE d == Min(S)
  <2>1. d \in S /\ \A e \in S : d <= e
    <3>1. S \in SUBSET Nat
      OBVIOUS
    <3> QED
      BY <1>1, <3>1, LeastIsOne
  <2> HIDE DEF d
  <2>2. d \in 0..3 /\ d < R
    BY <2>1
  <2>3. PICK i \in 1..Width(n, R - d) : ms[MatchId(R - d, i)].winner = Empty
    BY <2>1
  <2>4. d # 0
    <3> SUFFICES ASSUME d = 0 PROVE FALSE
      OBVIOUS
    <3>1. R - d = R
      BY <1>0
    <3>2. i = 1
      BY <1>0, <2>3, <3>1
    <3> QED
      BY <2>3, <3>1, <3>2
  <2> DEFINE r == R - d + 1
  <2>5. r \in 2..R /\ r - 1 = R - d /\ r \in 1..R /\ r > 1 /\ d - 1 \in 0..3 /\ d - 1 < R
        /\ R - (d - 1) = r /\ ~(d <= d - 1)
    <3>1. R \in Int /\ d \in Int /\ 1 <= d /\ d <= 3 /\ d < R
      BY <1>0, <2>2, <2>4
    <3> QED
      BY <3>1
  <2> HIDE DEF r
  <2>6. Width(n, r - 1) = 2 * Width(n, r) /\ Width(n, r) \in Nat
    BY <1>0, <2>5
  <2>7. PICK j \in 1..Width(n, r) : i = 2 * j - 1 \/ i = 2 * j
    <3>0. i \in 1..(2 * Width(n, r))
      BY <2>3, <2>5, <2>6
    <3>1. CASE i % 2 = 0
      <4>1. i \div 2 \in 1..Width(n, r) /\ i = 2 * (i \div 2)
        BY <2>6, <3>0, <3>1
      <4> QED
        BY <4>1
    <3>2. CASE i % 2 # 0
      <4>1. (i + 1) \div 2 \in 1..Width(n, r) /\ i = 2 * ((i + 1) \div 2) - 1
        BY <2>6, <3>0, <3>2
      <4> QED
        BY <4>1
    <3> QED
      BY <3>1, <3>2
  <2>8. /\ ms[MatchId(r, j)].p1 = ms[MatchId(r - 1, 2 * j - 1)].winner
        /\ ms[MatchId(r, j)].p2 = ms[MatchId(r - 1, 2 * j)].winner
    BY <2>5, BelowAMatch
  <2>9. ms[MatchId(r, j)].p1 = Empty \/ ms[MatchId(r, j)].p2 = Empty
    BY <2>3, <2>5, <2>7, <2>8
  <2>10. ms[MatchId(r, j)].winner = Empty
    BY <2>5, <2>9 DEF Opposed
  <2>11. d - 1 \in S
    BY <2>5, <2>10
  <2> QED
    BY <2>1, <2>5, <2>11
<1>2. ASSUME NEW id \in WinnersPlaces(n), ms[id].winner = Empty PROVE FALSE
  <2>1. PICK r \in 1..R : \E i \in 1..Width(n, r) : id = MatchId(r, i)
    BY PlacesAre
  <2>2. PICK i \in 1..Width(n, r) : id = MatchId(r, i)
    BY <2>1
  <2>3. R - r \in 0..3 /\ R - r < R /\ R - (R - r) = r
    BY <1>0
  <2>4. R - r \in S
    BY <1>2, <2>2, <2>3
  <2> QED
    BY <1>1, <2>4
<1> QED
  BY <1>2

\* The matches with one more result.
WithResult(ms, id, p) == [ms EXCEPT ![id].winner = p]

LEMMA WinnerWritten ==
    ASSUME NEW n, NEW S, NEW ms \in [S -> MatchRecords(n)], NEW id \in S, NEW p \in Seats(n),
           NEW new, new = WithResult(ms, id, p)
    PROVE  /\ new \in [S -> MatchRecords(n)]
           /\ \A x \in S : /\ new[x].p1 = ms[x].p1 /\ new[x].p2 = ms[x].p2
                           /\ new[x].winner = IF x = id THEN p ELSE ms[x].winner
<1>1. \A x \in S : /\ ms[x] \in MatchRecords(n) /\ new[x] \in MatchRecords(n)
                   /\ new[x].p1 = ms[x].p1 /\ new[x].p2 = ms[x].p2
                   /\ new[x].winner = IF x = id THEN p ELSE ms[x].winner
  BY DEF MatchRecords, WithResult
<1> QED
  BY <1>1 DEF WithResult

\* A winner goes to the seat above him that was his to win.
LEMMA SeatAbove ==
    ASSUME NEW n \in 2..16, NEW r \in 1..TotalRounds(n), NEW i \in 1..Width(n, r)
    PROVE  /\ r < TotalRounds(n) => NextWinners(MatchId(r, i)) \in WinnersPlaces(n)
           /\ r = TotalRounds(n) => NextWinners(MatchId(r, i)) \notin WinnersPlaces(n) /\ i = 1
           /\ NextWinners(MatchId(r, i)) = MatchId(r + 1, DivCeil2(i))
           /\ i % 2 = 1 => i = 2 * DivCeil2(i) - 1
           /\ i % 2 # 1 => i = 2 * DivCeil2(i)
<1>0. /\ TotalRounds(n) \in 1..4 /\ Width(n, TotalRounds(n)) = 1
      /\ (\A s \in 1..TotalRounds(n) : Width(n, s) \in Nat \ {0})
      /\ (\A s \in 2..TotalRounds(n) : Width(n, s - 1) = 2 * Width(n, s))
  BY RoundsHalve
<1>1. NextWinners(MatchId(r, i)) = MatchId(r + 1, DivCeil2(i))
  BY DEF NextWinners, MatchId
<1>2. i \in Nat /\ 1 <= i /\ i <= Width(n, r) /\ Width(n, r) \in Nat
  BY <1>0
<1>3. /\ i % 2 = 1 => i = 2 * DivCeil2(i) - 1
      /\ i % 2 # 1 => i = 2 * DivCeil2(i)
  BY <1>2 DEF DivCeil2
<1>4. ASSUME r < TotalRounds(n) PROVE MatchId(r + 1, DivCeil2(i)) \in WinnersPlaces(n)
  <2>1. r + 1 \in 2..TotalRounds(n) /\ r + 1 - 1 = r
    BY <1>0, <1>4
  <2>2. Width(n, r) = 2 * Width(n, r + 1) /\ Width(n, r + 1) \in Nat
    BY <1>0, <2>1
  <2>3. DivCeil2(i) \in 1..Width(n, r + 1)
    BY <1>2, <2>2 DEF DivCeil2
  <2> QED
    BY <2>1, <2>3, PlacesAre
<1>5. ASSUME r = TotalRounds(n) PROVE MatchId(r + 1, DivCeil2(i)) \notin WinnersPlaces(n) /\ i = 1
  <2>1. ASSUME NEW s \in 1..TotalRounds(n), NEW j \in 1..Width(n, s),
               MatchId(r + 1, DivCeil2(i)) = MatchId(s, j)
        PROVE  FALSE
    <3>1. r + 1 = s
      BY <2>1 DEF MatchId
    <3> QED
      BY <1>0, <1>5, <3>1
  <2>2. i = 1
    BY <1>0, <1>2, <1>5
  <2> QED
    BY <2>1, <2>2, PlacesAre
<1> QED
  BY <1>1, <1>3, <1>4, <1>5

\* A player may win his match, and it goes on from there.
MayWin(n, ms, r, i, p) ==
    /\ n \in 2..16 /\ TreeOK(n, ms) /\ r \in 1..TotalRounds(n) /\ i \in 1..Width(n, r)
    /\ p \in 1..n /\ p \in SeatOf(ms, r, i) /\ ms[MatchId(r, i)].winner = Empty

\* A result below the final keeps the tree.
LEMMA ResultKeepsTree ==
    ASSUME NEW n, NEW ms, NEW r, NEW i, NEW p, MayWin(n, ms, r, i, p), r < TotalRounds(n),
           NEW new, new = AdvanceWinner(WithResult(ms, MatchId(r, i), p), MatchId(r, i), p)
    PROVE  /\ TreeOK(n, new)
           /\ new[MatchId(TotalRounds(n), 1)].winner = ms[MatchId(TotalRounds(n), 1)].winner
           /\ (/\ Opposed(n, ms)
               /\ ms[MatchId(r, i)].p1 # Empty /\ ms[MatchId(r, i)].p2 # Empty) => Opposed(n, new)
<1> DEFINE R == TotalRounds(n)
           up == MatchId(r + 1, DivCeil2(i))
           here == MatchId(r, i)
           Ids == WinnersPlaces(n)
<1>h. /\ n \in 2..16 /\ TreeOK(n, ms) /\ r \in 1..TotalRounds(n) /\ i \in 1..Width(n, r)
      /\ p \in 1..n /\ p \in SeatOf(ms, r, i) /\ ms[MatchId(r, i)].winner = Empty
  BY DEF MayWin
<1> USE <1>h
<1>0. /\ R \in 1..4 /\ Width(n, R) = 1 /\ Byes(n) \in Nat
      /\ \A s \in 1..R : Width(n, s) \in Nat \ {0}
  BY RoundsHalve
<1>1. /\ up \in Ids /\ up = NextWinners(here)
      /\ i % 2 = 1 => i = 2 * DivCeil2(i) - 1
      /\ i % 2 # 1 => i = 2 * DivCeil2(i)
  BY SeatAbove
<1>2. here \in Ids /\ p \in Seats(n) /\ p # Empty
  BY PlacesAre, FieldsAssumption DEF Seats
<1>3. ms \in [Ids -> MatchRecords(n)]
  BY DEF TreeOK
<1>4. here[3] = i
  BY DEF MatchId
<1> DEFINE mid == WithResult(ms, here, p)
<1>m. mid = WithResult(ms, here, p)
  OBVIOUS
<1>6. new = IF i % 2 = 1 THEN [mid EXCEPT ![up].p1 = p] ELSE [mid EXCEPT ![up].p2 = p]
  BY <1>1, <1>4 DEF AdvanceWinner
<1> HIDE DEF mid, up, here, Ids, R
<1>5. /\ mid \in [Ids -> MatchRecords(n)]
      /\ \A x \in Ids : /\ mid[x].p1 = ms[x].p1 /\ mid[x].p2 = ms[x].p2
                        /\ mid[x].winner = IF x = here THEN p ELSE ms[x].winner
  <2>1. here \in Ids /\ p \in Seats(n)
    BY <1>2
  <2> QED
    BY <1>3, <1>m, <2>1, WinnerWritten
<1>7. /\ new \in [Ids -> MatchRecords(n)]
      /\ \A x \in Ids :
           /\ new[x].winner = IF x = here THEN p ELSE ms[x].winner
           /\ new[x].p1 = IF x = up /\ i % 2 = 1 THEN p ELSE ms[x].p1
           /\ new[x].p2 = IF x = up /\ i % 2 # 1 THEN p ELSE ms[x].p2
  <2>1. CASE i % 2 = 1
    <3>1. new = [mid EXCEPT ![up].p1 = p]
      BY <1>6, <2>1
    <3>2. /\ new \in [Ids -> MatchRecords(n)]
          /\ \A x \in Ids : /\ new[x].winner = mid[x].winner /\ new[x].p2 = mid[x].p2
                            /\ new[x].p1 = IF x = up THEN p ELSE mid[x].p1
      <4>1. up \in Ids /\ p \in Seats(n) /\ mid \in [Ids -> MatchRecords(n)]
        BY <1>1, <1>2, <1>5
      <4>2. \A x \in Ids :
              /\ mid[x] \in MatchRecords(n) /\ new[x] \in MatchRecords(n)
              /\ new[x].winner = mid[x].winner /\ new[x].p2 = mid[x].p2
              /\ new[x].p1 = IF x = up THEN p ELSE mid[x].p1
        BY <3>1, <4>1 DEF MatchRecords
      <4>3. new \in [Ids -> MatchRecords(n)]
        BY <3>1, <4>1, <4>2
      <4> QED
        BY <4>2, <4>3
    <3> QED
      BY <1>5, <2>1, <3>2
  <2>2. CASE i % 2 # 1
    <3>1. new = [mid EXCEPT ![up].p2 = p]
      BY <1>6, <2>2
    <3>2. /\ new \in [Ids -> MatchRecords(n)]
          /\ \A x \in Ids : /\ new[x].winner = mid[x].winner /\ new[x].p1 = mid[x].p1
                            /\ new[x].p2 = IF x = up THEN p ELSE mid[x].p2
      <4>1. up \in Ids /\ p \in Seats(n) /\ mid \in [Ids -> MatchRecords(n)]
        BY <1>1, <1>2, <1>5
      <4>2. \A x \in Ids :
              /\ mid[x] \in MatchRecords(n) /\ new[x] \in MatchRecords(n)
              /\ new[x].winner = mid[x].winner /\ new[x].p1 = mid[x].p1
              /\ new[x].p2 = IF x = up THEN p ELSE mid[x].p2
        BY <3>1, <4>1 DEF MatchRecords
      <4>3. new \in [Ids -> MatchRecords(n)]
        BY <3>1, <4>1, <4>2
      <4> QED
        BY <4>2, <4>3
    <3> QED
      BY <1>5, <2>2, <3>2
  <2> QED
    BY <2>1, <2>2
<1>8. \A s \in 1..R : \A j \in 1..Width(n, s) :
         /\ MatchId(s, j) \in Ids
         /\ MatchId(s, j) = here <=> s = r /\ j = i
         /\ MatchId(s, j) = up <=> s = r + 1 /\ j = DivCeil2(i)
  BY PlacesAre DEF Ids, here, up, MatchId, R
<1>9. r \in Nat /\ i \in Nat /\ r >= 1
  BY <1>0 DEF R
\* The seat was empty: its match below was open.
<1>10. /\ i % 2 = 1 => ms[up].p1 = Empty
       /\ i % 2 # 1 => ms[up].p2 = Empty
  <2>1. r + 1 \in 2..R /\ DivCeil2(i) \in 1..Width(n, r + 1)
    <3>1. r + 1 \in 2..R
      BY <1>0, <1>9 DEF R
    <3>2. PICK s \in 1..R : \E j \in 1..Width(n, s) : up = MatchId(s, j)
      BY <1>1, PlacesAre DEF R, Ids
    <3>3. PICK j \in 1..Width(n, s) : up = MatchId(s, j)
      BY <3>2
    <3>4. s = r + 1 /\ j = DivCeil2(i)
      BY <1>8, <3>3
    <3> QED
      BY <3>1, <3>4
  <2>2. /\ ms[up].p1 = ms[MatchId(r, 2 * DivCeil2(i) - 1)].winner
        /\ ms[up].p2 = ms[MatchId(r, 2 * DivCeil2(i))].winner
    <3>1. r + 1 - 1 = r
      BY <1>9
    <3>2. PICK s \in 2..R, j \in 1..Width(n, r + 1) : s = r + 1 /\ j = DivCeil2(i)
      BY <2>1
    <3>3. j \in 1..Width(n, s) /\ s - 1 = r
      BY <3>1, <3>2
    <3>4. /\ ms[MatchId(s, j)].p1 = ms[MatchId(r, 2 * j - 1)].winner
          /\ ms[MatchId(s, j)].p2 = ms[MatchId(r, 2 * j)].winner
      BY <3>3, BelowAMatch DEF R
    <3> QED
      BY <3>2, <3>4 DEF up
  <2> QED
    BY <1>1, <2>2
<1>11. \A j \in 1..Width(n, 1) :
         /\ new[MatchId(1, j)].p1 = j
         /\ j <= Byes(n) => new[MatchId(1, j)].p2 = Empty /\ new[MatchId(1, j)].winner = j
         /\ j > Byes(n) => new[MatchId(1, j)].p2 = BracketSize(n) + 1 - j
  <2> TAKE j \in 1..Width(n, 1)
  <2>1. 1 \in 1..R /\ 1 # r + 1
    BY <1>0, <1>9
  <2>2. /\ MatchId(1, j) \in Ids /\ MatchId(1, j) # up
    BY <1>8, <2>1
  <2>3. /\ new[MatchId(1, j)].p1 = ms[MatchId(1, j)].p1
        /\ new[MatchId(1, j)].p2 = ms[MatchId(1, j)].p2
        /\ MatchId(1, j) # here => new[MatchId(1, j)].winner = ms[MatchId(1, j)].winner
    BY <1>7, <2>2
  <2>4. /\ ms[MatchId(1, j)].p1 = j
        /\ j <= Byes(n) => ms[MatchId(1, j)].p2 = Empty /\ ms[MatchId(1, j)].winner = j
        /\ j > Byes(n) => ms[MatchId(1, j)].p2 = BracketSize(n) + 1 - j
    BY DEF TreeOK
  <2>5. j \in 1..n /\ j # Empty
    <3>1. /\ BracketSize(n) = 2 * Width(n, 1) /\ Byes(n) = BracketSize(n) - n
          /\ Byes(n) < Width(n, 1) /\ Width(n, 1) \in Nat
      BY <2>1, <1>0, RoundsHalve
    <3>2. j \in 1..n
      BY <1>0, <3>1
    <3> QED
      BY <3>2, FieldsAssumption
  <2>6. j <= Byes(n) => MatchId(1, j) # here
    <3> SUFFICES ASSUME j <= Byes(n), MatchId(1, j) = here PROVE FALSE
      OBVIOUS
    <3>1. ms[here].winner = j /\ ms[here].winner = Empty
      BY <2>4 DEF here
    <3>2. ~(j > Byes(n))
      BY <1>0
    <3> QED
      BY <2>5, <3>1, <3>2
  <2> QED
    BY <2>3, <2>4, <2>6
<1>12. \A s \in 2..R : \A j \in 1..Width(n, s) :
         /\ new[MatchId(s, j)].p1 = new[MatchId(s - 1, 2 * j - 1)].winner
         /\ new[MatchId(s, j)].p2 = new[MatchId(s - 1, 2 * j)].winner
  <2> TAKE s \in 2..R
  <2> TAKE j \in 1..Width(n, s)
  <2>1. /\ s - 1 \in 1..R /\ s \in 1..R /\ j \in Nat
        /\ 2 * j - 1 \in 1..Width(n, s - 1) /\ 2 * j \in 1..Width(n, s - 1)
        /\ ms[MatchId(s, j)].p1 = ms[MatchId(s - 1, 2 * j - 1)].winner
        /\ ms[MatchId(s, j)].p2 = ms[MatchId(s - 1, 2 * j)].winner
    BY BelowAMatch DEF R
  <2>2. /\ MatchId(s, j) \in Ids /\ MatchId(s - 1, 2 * j - 1) \in Ids /\ MatchId(s - 1, 2 * j) \in Ids
        /\ MatchId(s, j) = up <=> s = r + 1 /\ j = DivCeil2(i)
        /\ MatchId(s - 1, 2 * j - 1) = here <=> s - 1 = r /\ 2 * j - 1 = i
        /\ MatchId(s - 1, 2 * j) = here <=> s - 1 = r /\ 2 * j = i
    BY <1>8, <2>1
  <2>3. s - 1 = r <=> s = r + 1
    BY <1>9, <2>1
  <2>4. DivCeil2(i) \in Nat
    BY <1>9 DEF DivCeil2
  <2>5. (j = DivCeil2(i) /\ i % 2 = 1) <=> 2 * j - 1 = i
    BY <1>1, <1>9, <2>1, <2>4
  <2>6. (j = DivCeil2(i) /\ i % 2 # 1) <=> 2 * j = i
    BY <1>1, <1>9, <2>1, <2>4
  <2> QED
    BY <1>7, <2>1, <2>2, <2>3, <2>5, <2>6
<1>13. \A x \in Ids : new[x].winner # Empty => new[x].winner \in {new[x].p1, new[x].p2}
  <2> TAKE x \in Ids
  <2> HAVE new[x].winner # Empty
  <2>1. CASE x = here
    <3>1. p \in {ms[here].p1, ms[here].p2}
      BY DEF SeatOf, here
    <3>2. here # up
      <4>1. r # r + 1
        BY <1>9
      <4> QED
        BY <4>1 DEF here, up, MatchId
    <3> QED
      BY <1>7, <2>1, <3>1, <3>2
  <2>2. CASE x # here
    <3>1. new[x].winner = ms[x].winner
      BY <1>7, <2>2
    <3>2. ms[x].winner \in {ms[x].p1, ms[x].p2} /\ ms[x].winner # Empty
      BY <3>1 DEF TreeOK, Ids
    <3> QED
      BY <1>7, <1>10, <3>1, <3>2
  <2> QED
    BY <2>1, <2>2
<1>14. TreeOK(n, new)
  BY <1>7, <1>11, <1>12, <1>13 DEF TreeOK, Ids, R
<1>15. new[MatchId(R, 1)].winner = ms[MatchId(R, 1)].winner
  <2>1. R \in 1..R /\ 1 \in 1..Width(n, R) /\ R # r
    BY <1>0, <1>9 DEF R
  <2>2. MatchId(R, 1) \in Ids /\ MatchId(R, 1) # here
    BY <1>8, <2>1
  <2> QED
    BY <1>7, <2>2
<1>16. ASSUME Opposed(n, ms), ms[here].p1 # Empty, ms[here].p2 # Empty
       PROVE  Opposed(n, new)
  <2> SUFFICES ASSUME NEW s \in 1..R, NEW j \in 1..Width(n, s),
                      new[MatchId(s, j)].winner # Empty, s > 1 \/ j > Byes(n)
               PROVE  new[MatchId(s, j)].p1 # Empty /\ new[MatchId(s, j)].p2 # Empty
    BY DEF Opposed, R
  <2>0. MatchId(s, j) \in Ids
    BY <1>8
  <2>1. ms[MatchId(s, j)].p1 # Empty /\ ms[MatchId(s, j)].p2 # Empty
    <3>1. CASE MatchId(s, j) = here
      BY <1>16, <3>1
    <3>2. CASE MatchId(s, j) # here
      <4>1. ms[MatchId(s, j)].winner # Empty
        BY <1>7, <2>0, <3>2
      <4> QED
        BY <1>16, <4>1 DEF Opposed, R
    <3> QED
      BY <3>1, <3>2
  <2> QED
    BY <1>2, <1>7, <2>0, <2>1
<1> QED
  BY <1>14, <1>15, <1>16 DEF R, here

\* So does the result of the final.
LEMMA FinalKeepsTree ==
    ASSUME NEW n \in 2..16, NEW ms, TreeOK(n, ms), NEW p \in 1..n,
           p \in SeatOf(ms, TotalRounds(n), 1), ms[MatchId(TotalRounds(n), 1)].winner = Empty,
           NEW new, new = WithResult(ms, MatchId(TotalRounds(n), 1), p)
    PROVE  /\ TreeOK(n, new)
           /\ new[MatchId(TotalRounds(n), 1)].winner = p
           /\ (/\ Opposed(n, ms)
               /\ ms[MatchId(TotalRounds(n), 1)].p1 # Empty
               /\ ms[MatchId(TotalRounds(n), 1)].p2 # Empty) => Opposed(n, new)
<1> DEFINE R == TotalRounds(n)
           here == MatchId(R, 1)
           Ids == WinnersPlaces(n)
<1>0. /\ R \in 1..4 /\ Width(n, R) = 1 /\ Byes(n) \in Nat
      /\ \A s \in 1..R : Width(n, s) \in Nat \ {0}
  BY RoundsHalve
<1>1. 1 \in 1..Width(n, R) /\ R \in 1..R
  BY <1>0
<1>2. here \in Ids /\ p \in Seats(n) /\ p # Empty
  BY <1>1, PlacesAre, FieldsAssumption DEF Seats
<1>3. ms \in [Ids -> MatchRecords(n)]
  BY DEF TreeOK
<1>4. new = WithResult(ms, here, p)
  OBVIOUS
<1> HIDE DEF here, Ids, R
<1>5. /\ new \in [Ids -> MatchRecords(n)]
      /\ \A x \in Ids : /\ new[x].p1 = ms[x].p1 /\ new[x].p2 = ms[x].p2
                        /\ new[x].winner = IF x = here THEN p ELSE ms[x].winner
  <2>1. here \in Ids /\ p \in Seats(n)
    BY <1>2
  <2> QED
    BY <1>3, <1>4, <2>1, WinnerWritten
<1>6. \A s \in 1..R : \A j \in 1..Width(n, s) :
         /\ MatchId(s, j) \in Ids
         /\ MatchId(s, j) = here <=> s = R /\ j = 1
  BY PlacesAre DEF Ids, here, MatchId, R
<1>7. ms[here].winner = Empty
  BY DEF here, R
<1>11. \A j \in 1..Width(n, 1) :
         /\ new[MatchId(1, j)].p1 = j
         /\ j <= Byes(n) => new[MatchId(1, j)].p2 = Empty /\ new[MatchId(1, j)].winner = j
         /\ j > Byes(n) => new[MatchId(1, j)].p2 = BracketSize(n) + 1 - j
  <2> TAKE j \in 1..Width(n, 1)
  <2>1. 1 \in 1..R
    BY <1>0
  <2>2. MatchId(1, j) \in Ids
    BY <1>6, <2>1
  <2>3. /\ new[MatchId(1, j)].p1 = ms[MatchId(1, j)].p1
        /\ new[MatchId(1, j)].p2 = ms[MatchId(1, j)].p2
        /\ MatchId(1, j) # here => new[MatchId(1, j)].winner = ms[MatchId(1, j)].winner
    BY <1>5, <2>2
  <2>4. /\ ms[MatchId(1, j)].p1 = j
        /\ j <= Byes(n) => ms[MatchId(1, j)].p2 = Empty /\ ms[MatchId(1, j)].winner = j
        /\ j > Byes(n) => ms[MatchId(1, j)].p2 = BracketSize(n) + 1 - j
    BY DEF TreeOK
  <2>5. j # Empty
    <3>1. /\ BracketSize(n) = 2 * Width(n, 1) /\ Byes(n) = BracketSize(n) - n
          /\ Byes(n) < Width(n, 1) /\ Width(n, 1) \in Nat
      BY <2>1, <1>0, RoundsHalve
    <3>2. j \in 1..n
      BY <1>0, <3>1
    <3> QED
      BY <3>2, FieldsAssumption
  <2>6. j <= Byes(n) => MatchId(1, j) # here
    BY <1>7, <2>4, <2>5
  <2> QED
    BY <2>3, <2>4, <2>6
<1>12. \A s \in 2..R : \A j \in 1..Width(n, s) :
         /\ new[MatchId(s, j)].p1 = new[MatchId(s - 1, 2 * j - 1)].winner
         /\ new[MatchId(s, j)].p2 = new[MatchId(s - 1, 2 * j)].winner
  <2> TAKE s \in 2..R
  <2> TAKE j \in 1..Width(n, s)
  <2>1. /\ s - 1 \in 1..R /\ s \in 1..R /\ j \in Nat
        /\ 2 * j - 1 \in 1..Width(n, s - 1) /\ 2 * j \in 1..Width(n, s - 1)
        /\ ms[MatchId(s, j)].p1 = ms[MatchId(s - 1, 2 * j - 1)].winner
        /\ ms[MatchId(s, j)].p2 = ms[MatchId(s - 1, 2 * j)].winner
    BY BelowAMatch DEF R
  <2>2. s - 1 # R
    BY <1>0, <2>1
  <2>3. /\ MatchId(s, j) \in Ids /\ MatchId(s - 1, 2 * j - 1) \in Ids /\ MatchId(s - 1, 2 * j) \in Ids
        /\ MatchId(s - 1, 2 * j - 1) # here /\ MatchId(s - 1, 2 * j) # here
    BY <1>6, <2>1, <2>2
  <2> QED
    BY <1>5, <2>1, <2>3
<1>13. \A x \in Ids : new[x].winner # Empty => new[x].winner \in {new[x].p1, new[x].p2}
  <2> TAKE x \in Ids
  <2> HAVE new[x].winner # Empty
  <2>1. CASE x = here
    <3>1. p \in {ms[here].p1, ms[here].p2}
      BY DEF SeatOf, here, R
    <3> QED
      BY <1>5, <2>1, <3>1
  <2>2. CASE x # here
    <3>1. new[x].winner = ms[x].winner
      BY <1>5, <2>2
    <3>2. ms[x].winner \in {ms[x].p1, ms[x].p2}
      BY <3>1 DEF TreeOK, Ids
    <3> QED
      BY <1>5, <3>1, <3>2
  <2> QED
    BY <2>1, <2>2
<1>14. TreeOK(n, new)
  BY <1>5, <1>11, <1>12, <1>13 DEF TreeOK, Ids, R
<1>15. new[here].winner = p
  BY <1>2, <1>5
<1>16. ASSUME Opposed(n, ms), ms[here].p1 # Empty, ms[here].p2 # Empty
       PROVE  Opposed(n, new)
  <2> SUFFICES ASSUME NEW s \in 1..R, NEW j \in 1..Width(n, s),
                      new[MatchId(s, j)].winner # Empty, s > 1 \/ j > Byes(n)
               PROVE  new[MatchId(s, j)].p1 # Empty /\ new[MatchId(s, j)].p2 # Empty
    BY DEF Opposed, R
  <2>0. MatchId(s, j) \in Ids
    BY <1>6
  <2>1. ms[MatchId(s, j)].p1 # Empty /\ ms[MatchId(s, j)].p2 # Empty
    <3>1. CASE MatchId(s, j) = here
      BY <1>16, <3>1
    <3>2. CASE MatchId(s, j) # here
      <4>1. ms[MatchId(s, j)].winner # Empty
        BY <1>5, <2>0, <3>2
      <4> QED
        BY <1>16, <4>1 DEF Opposed, R
    <3> QED
      BY <3>1, <3>2
  <2> QED
    BY <1>5, <2>0, <2>1
<1> QED
  BY <1>14, <1>15, <1>16 DEF R, here

(***************************************************************************)
(* The bracket as it runs: the tree for a single elimination, every        *)
(* meeting once for a round robin, and for a double elimination no more    *)
(* than that it stays one.                                                 *)
(***************************************************************************)
BracketFields == {"format", "players", "status", "matches", "winner", "reset"}

Final == MatchId(TotalRounds(bracket.players), 1)

Ended == (bracket.status = "Completed") <=> (bracket.winner # Empty)

SingleInv ==
    /\ TreeOK(bracket.players, bracket.matches)
    /\ ~early => Opposed(bracket.players, bracket.matches)
    /\ bracket.winner = bracket.matches[Final].winner
    /\ Ended

Meetings(n) == {"Winners"} \X {1} \X {p \in (1..n) \X (1..n) : p[1] < p[2]}

RobinInv ==
    /\ bracket.matches \in [Meetings(bracket.players) -> MatchRecords(bracket.players)]
    /\ \A id \in Meetings(bracket.players) :
         /\ bracket.matches[id].p1 = id[3][1] /\ bracket.matches[id].p2 = id[3][2]
         /\ bracket.matches[id].winner # Empty =>
              bracket.matches[id].winner \in {id[3][1], id[3][2]}
    /\ Ended
    /\ bracket.status = "Completed" <=>
          \A id \in Meetings(bracket.players) : bracket.matches[id].winner # Empty
    /\ bracket.status = "Completed" => bracket.winner \in Leaders(bracket, bracket.matches)

BracketInv ==
    /\ DOMAIN bracket = BracketFields /\ bracket.players \in 2..16
    /\ bracket.format \in {"SingleElimination", "DoubleElimination", "RoundRobin"}
    /\ bracket.format = "SingleElimination" => SingleInv
    /\ bracket.format = "RoundRobin" => RobinInv

LEMMA RobinDrawn ==
    ASSUME NEW n \in 2..16, NEW ms, ms = RoundRobin(n)
    PROVE  /\ ms \in [Meetings(n) -> MatchRecords(n)]
           /\ \A id \in Meetings(n) : /\ ms[id].p1 = id[3][1] /\ ms[id].p2 = id[3][2]
                                      /\ ms[id].winner = Empty
           /\ \E id \in Meetings(n) : ms[id].winner = Empty
<1>1. /\ DOMAIN ms = Meetings(n) /\ ms = [id \in Meetings(n) |-> ms[id]]
      /\ \A id \in Meetings(n) : ms[id] = Match(id[3][1], id[3][2], Empty)
  BY DEF RoundRobin, Meetings
<1>2. \A id \in Meetings(n) : id[3][1] \in 1..n /\ id[3][2] \in 1..n
  BY DEF Meetings
<1>3. \A id \in Meetings(n) : /\ ms[id] \in MatchRecords(n)
                              /\ ms[id].p1 = id[3][1] /\ ms[id].p2 = id[3][2]
                              /\ ms[id].winner = Empty
  <2> TAKE id \in Meetings(n)
  <2>1. PICK a \in Seats(n), b \in Seats(n) : a = id[3][1] /\ b = id[3][2]
    BY <1>2 DEF Seats
  <2>2. ms[id] = [p1 |-> a, p2 |-> b, winner |-> Empty] /\ Empty \in Seats(n)
    BY <1>1, <2>1 DEF Match, Seats
  <2> QED
    BY <2>1, <2>2 DEF MatchRecords
<1>4. <<"Winners", 1, <<1, 2>>>> \in Meetings(n)
  <2>1. 1 \in 1..n /\ 2 \in 1..n /\ 1 < 2
    OBVIOUS
  <2> QED
    BY <2>1 DEF Meetings
<1> QED
  BY <1>1, <1>3, <1>4

LEMMA BracketStarts == BracketInit => BracketInv
<1> SUFFICES ASSUME NEW f \in Fields, bracket = CreateBracket(f[1], f[2]), early = FALSE
             PROVE  BracketInv
  BY DEF BracketInit
<1>1. PICK n \in 2..16 : n = f[2]
  BY FieldsAssumption
<1>2. PICK form \in {"SingleElimination", "DoubleElimination", "RoundRobin"} : form = f[1]
  BY FieldsAssumption
<1>3. /\ DOMAIN bracket = BracketFields /\ bracket.players = n /\ bracket.format = form
      /\ bracket.status = "Registration" /\ bracket.winner = Empty
      /\ bracket.matches = GenerateMatches(form, n)
  BY <1>1, <1>2 DEF CreateBracket, BracketFields
<1>4. CASE form = "SingleElimination"
  <2>1. bracket.matches = WinnersBracket(n)
    BY <1>3, <1>4 DEF GenerateMatches
  <2>2. /\ TreeOK(n, bracket.matches) /\ Opposed(n, bracket.matches)
        /\ bracket.matches[MatchId(TotalRounds(n), 1)].winner = Empty
    BY <2>1, DrawnIsTree
  <2>3. SingleInv
    BY <1>3, <2>2 DEF SingleInv, Final, Ended
  <2> QED
    BY <1>3, <1>4, <2>3 DEF BracketInv
<1>5. CASE form = "RoundRobin"
  <2>1. bracket.matches = RoundRobin(n)
    BY <1>3, <1>5 DEF GenerateMatches
  <2>2. /\ bracket.matches \in [Meetings(n) -> MatchRecords(n)]
        /\ \A id \in Meetings(n) :
             /\ bracket.matches[id].p1 = id[3][1] /\ bracket.matches[id].p2 = id[3][2]
             /\ bracket.matches[id].winner = Empty
        /\ \E id \in Meetings(n) : bracket.matches[id].winner = Empty
    BY <2>1, RobinDrawn
  <2>3. RobinInv
    BY <1>3, <2>2 DEF RobinInv, Ended
  <2> QED
    BY <1>3, <1>5, <2>3 DEF BracketInv
<1>6. CASE form \notin {"SingleElimination", "RoundRobin"}
  BY <1>3, <1>6 DEF BracketInv
<1> QED
  BY <1>4, <1>5, <1>6

\* A field of the bracket is written.
LEMMA MatchesWritten ==
    ASSUME DOMAIN bracket = BracketFields, NEW ms, bracket' = [bracket EXCEPT !.matches = ms]
    PROVE  /\ DOMAIN bracket' = BracketFields /\ bracket'.matches = ms
           /\ bracket'.players = bracket.players /\ bracket'.format = bracket.format
           /\ bracket'.status = bracket.status /\ bracket'.winner = bracket.winner
BY DEF BracketFields

LEMMA WonWritten ==
    ASSUME DOMAIN bracket = BracketFields, NEW ms, NEW w, bracket' = Won(ms, w)
    PROVE  /\ DOMAIN bracket' = BracketFields /\ bracket'.matches = ms
           /\ bracket'.players = bracket.players /\ bracket'.format = bracket.format
           /\ bracket'.status = "Completed" /\ bracket'.winner = w
BY DEF BracketFields, Won

LEMMA SingleStep ==
    ASSUME BracketInv, bracket.format = "SingleElimination",
           NEW id \in DOMAIN bracket.matches, NEW w \in 1..bracket.players, RecordSingle(id, w),
           early' = (early \/ Loser(id, w) = Empty)
    PROVE  BracketInv'
<1> DEFINE n == bracket.players
           ms == bracket.matches
           R == TotalRounds(n)
<1>1. /\ DOMAIN bracket = BracketFields /\ n \in 2..16 /\ SingleInv
      /\ w \in 1..n
  BY DEF BracketInv
<1>2. /\ TreeOK(n, ms) /\ (~early => Opposed(n, ms))
      /\ bracket.winner = ms[MatchId(R, 1)].winner /\ Ended
  BY <1>1 DEF SingleInv, Final
<1>3. /\ bracket.status = "InProgress" /\ ms[id].winner = Empty /\ w # Empty
      /\ w \in {ms[id].p1, ms[id].p2}
      /\ bracket' = IF NextWinners(id) \in DOMAIN ms
                    THEN [bracket EXCEPT !.matches = AdvanceWinner(Recorded(id, w), id, w)]
                    ELSE Won(Recorded(id, w), w)
  BY DEF RecordSingle, MayRecord
<1>4. DOMAIN ms = WinnersPlaces(n) /\ R \in 1..4
  BY <1>1, <1>2, RoundsHalve DEF TreeOK
<1>5. PICK r \in 1..R : \E i \in 1..Width(n, r) : id = MatchId(r, i)
  BY <1>1, <1>4, PlacesAre
<1>6. PICK i \in 1..Width(n, r) : id = MatchId(r, i)
  BY <1>5
<1>7. /\ r < R => NextWinners(id) \in DOMAIN ms
      /\ r = R => NextWinners(id) \notin DOMAIN ms /\ i = 1
  BY <1>1, <1>4, <1>6, SeatAbove
<1>8. w \in SeatOf(ms, r, i)
  BY <1>3, <1>6 DEF SeatOf
\* Nobody wins before his opponent is known but where early says so.
<1>9. ~early' => ~early /\ ms[id].p1 # Empty /\ ms[id].p2 # Empty
  <2> SUFFICES ASSUME ~early' PROVE ~early /\ ms[id].p1 # Empty /\ ms[id].p2 # Empty
    OBVIOUS
  <2>1. ~early /\ Loser(id, w) # Empty
    OBVIOUS
  <2>2. ms[id].p1 = w => ms[id].p2 # Empty
    BY <2>1 DEF Loser
  <2>3. ms[id].p1 # w => ms[id].p1 # Empty
    BY <2>1 DEF Loser
  <2> QED
    BY <1>3, <2>1, <2>2, <2>3
<1>10. Recorded(id, w) = WithResult(ms, id, w)
  BY DEF Recorded, WithResult
<1>11. CASE r < R
  <2> DEFINE new == AdvanceWinner(Recorded(id, w), id, w)
  <2>1. bracket' = [bracket EXCEPT !.matches = new]
    BY <1>3, <1>7, <1>11
  <2>2. new = AdvanceWinner(WithResult(ms, MatchId(r, i), w), MatchId(r, i), w)
    BY <1>6, <1>10
  <2>3. ms[MatchId(r, i)].winner = Empty
    BY <1>3, <1>6
  <2> HIDE DEF new, n, ms, R
  <2>4. /\ TreeOK(n, new)
        /\ new[MatchId(R, 1)].winner = ms[MatchId(R, 1)].winner
        /\ (/\ Opposed(n, ms)
            /\ ms[MatchId(r, i)].p1 # Empty /\ ms[MatchId(r, i)].p2 # Empty) => Opposed(n, new)
    <3>1. n \in 2..16 /\ w \in 1..n /\ TreeOK(n, ms) /\ w \in SeatOf(ms, r, i)
      BY <1>1, <1>2, <1>8
    <3>2. r \in 1..TotalRounds(n) /\ i \in 1..Width(n, r) /\ r < TotalRounds(n)
      BY <1>11 DEF R
    <3>3. /\ TreeOK(n, new)
          /\ new[MatchId(TotalRounds(n), 1)].winner = ms[MatchId(TotalRounds(n), 1)].winner
          /\ (/\ Opposed(n, ms)
              /\ ms[MatchId(r, i)].p1 # Empty /\ ms[MatchId(r, i)].p2 # Empty) => Opposed(n, new)
      <4>1. MayWin(n, ms, r, i, w)
        BY <2>3, <3>1, <3>2 DEF MayWin
      <4> QED
        BY <2>2, <3>2, <4>1, ResultKeepsTree
    <3> QED
      BY <3>3 DEF R
  <2>5. /\ DOMAIN bracket' = BracketFields /\ bracket'.matches = new
        /\ bracket'.players = n /\ bracket'.format = bracket.format
        /\ bracket'.status = bracket.status /\ bracket'.winner = bracket.winner
    BY <1>1, <2>1, MatchesWritten DEF n
  <2>6. ~early' => Opposed(n, new)
    BY <1>2, <1>6, <1>9, <2>4
  <2>7. SingleInv'
    BY <1>2, <2>4, <2>5, <2>6 DEF SingleInv, Final, Ended, R
  <2> QED
    BY <1>1, <2>5, <2>7 DEF BracketInv
<1>12. CASE r = R
  <2> DEFINE new == Recorded(id, w)
  <2>0. i = 1
    BY <1>7, <1>12
  <2>1. bracket' = Won(new, w)
    BY <1>3, <1>7, <1>12
  <2>2. new = WithResult(ms, MatchId(R, 1), w)
    BY <1>6, <1>10, <1>12, <2>0
  <2>3. ms[MatchId(R, 1)].winner = Empty /\ w \in SeatOf(ms, R, 1)
    BY <1>3, <1>6, <1>8, <1>12, <2>0
  <2> HIDE DEF new, n, ms, R
  <2>4. /\ TreeOK(n, new)
        /\ new[MatchId(R, 1)].winner = w
        /\ (/\ Opposed(n, ms)
            /\ ms[MatchId(R, 1)].p1 # Empty /\ ms[MatchId(R, 1)].p2 # Empty) => Opposed(n, new)
    <3>1. n \in 2..16 /\ w \in 1..n /\ TreeOK(n, ms)
      BY <1>1, <1>2
    <3>2. /\ w \in SeatOf(ms, TotalRounds(n), 1) /\ ms[MatchId(TotalRounds(n), 1)].winner = Empty
          /\ new = WithResult(ms, MatchId(TotalRounds(n), 1), w)
      BY <2>2, <2>3 DEF R
    <3>3. /\ TreeOK(n, new)
          /\ new[MatchId(TotalRounds(n), 1)].winner = w
          /\ (/\ Opposed(n, ms)
              /\ ms[MatchId(TotalRounds(n), 1)].p1 # Empty
              /\ ms[MatchId(TotalRounds(n), 1)].p2 # Empty) => Opposed(n, new)
      BY SMTT(30), <3>1, <3>2, FinalKeepsTree
    <3> QED
      BY <3>3 DEF R
  <2>5. /\ DOMAIN bracket' = BracketFields /\ bracket'.matches = new
        /\ bracket'.players = n /\ bracket'.format = bracket.format
        /\ bracket'.status = "Completed" /\ bracket'.winner = w
    BY <1>1, <2>1, WonWritten DEF n
  <2>6. ~early' => Opposed(n, new)
    BY <1>2, <1>6, <1>9, <1>12, <2>0, <2>4
  <2>7. SingleInv'
    BY <1>3, <2>4, <2>5, <2>6 DEF SingleInv, Final, Ended, R
  <2> QED
    BY <1>1, <2>5, <2>7 DEF BracketInv
<1> QED
  BY <1>4, <1>11, <1>12

LEMMA RobinStep ==
    ASSUME BracketInv, NEW id \in DOMAIN bracket.matches, NEW w \in 1..bracket.players,
           RecordRoundRobin(id, w)
    PROVE  BracketInv'
<1> DEFINE n == bracket.players
           ms == bracket.matches
           new == Recorded(id, w)
<1>1. /\ DOMAIN bracket = BracketFields /\ n \in 2..16 /\ RobinInv
      /\ w \in 1..n /\ bracket.format = "RoundRobin"
  BY DEF BracketInv, RecordRoundRobin
<1>2. /\ ms \in [Meetings(n) -> MatchRecords(n)] /\ DOMAIN ms = Meetings(n)
      /\ \A x \in Meetings(n) :
           /\ ms[x].p1 = x[3][1] /\ ms[x].p2 = x[3][2]
           /\ ms[x].winner # Empty => ms[x].winner \in {x[3][1], x[3][2]}
      /\ Ended
  BY <1>1 DEF RobinInv
<1>3. /\ bracket.status = "InProgress" /\ w # Empty /\ w \in {ms[id].p1, ms[id].p2}
  BY DEF RecordRoundRobin, MayRecord
<1>4. new = WithResult(ms, id, w)
  BY DEF Recorded, WithResult
<1>5. \/ /\ \A m \in DOMAIN new : new[m].winner # Empty
         /\ \E first \in Leaders(bracket, new) : bracket' = Won(new, first)
      \/ /\ ~\A m \in DOMAIN new : new[m].winner # Empty
         /\ bracket' = [bracket EXCEPT !.matches = new]
  BY DEF RecordRoundRobin
<1>6. id \in Meetings(n) /\ w \in Seats(n)
  BY <1>1, <1>2 DEF Seats
<1> HIDE DEF new, n, ms
<1>7. /\ new \in [Meetings(n) -> MatchRecords(n)] /\ DOMAIN new = Meetings(n)
      /\ \A x \in Meetings(n) : /\ new[x].p1 = ms[x].p1 /\ new[x].p2 = ms[x].p2
                                /\ new[x].winner = IF x = id THEN w ELSE ms[x].winner
  <2>1. /\ new \in [Meetings(n) -> MatchRecords(n)]
        /\ \A x \in Meetings(n) : /\ new[x].p1 = ms[x].p1 /\ new[x].p2 = ms[x].p2
                                  /\ new[x].winner = IF x = id THEN w ELSE ms[x].winner
    BY <1>2, <1>4, <1>6, WinnerWritten
  <2> QED
    BY <2>1
<1>8. \A x \in Meetings(n) :
         /\ new[x].p1 = x[3][1] /\ new[x].p2 = x[3][2]
         /\ new[x].winner # Empty => new[x].winner \in {x[3][1], x[3][2]}
  BY <1>2, <1>3, <1>6, <1>7
<1>9. bracket.winner = Empty
  BY <1>2, <1>3 DEF Ended
<1>10. ASSUME \A m \in DOMAIN new : new[m].winner # Empty,
              NEW first \in Leaders(bracket, new), bracket' = Won(new, first)
       PROVE  BracketInv'
  <2>1. /\ DOMAIN bracket' = BracketFields /\ bracket'.matches = new
        /\ bracket'.players = n /\ bracket'.format = bracket.format
        /\ bracket'.status = "Completed" /\ bracket'.winner = first
    BY <1>1, <1>10, WonWritten DEF n
  <2>2. first \in 1..n /\ first # Empty
    BY <1>1, FieldsAssumption DEF Leaders, n
  <2>3. \A m \in Meetings(n) : new[m].winner # Empty
    BY <1>7, <1>10
  <2>4. first \in Leaders(bracket', new)
    BY <2>1 DEF Leaders, n
  <2>5. Ended'
    BY <2>1, <2>2 DEF Ended
  <2>6. RobinInv'
    BY <1>7, <1>8, <2>1, <2>3, <2>4, <2>5 DEF RobinInv
  <2> QED
    BY <1>1, <2>1, <2>6 DEF BracketInv
<1>11. ASSUME ~\A m \in DOMAIN new : new[m].winner # Empty,
              bracket' = [bracket EXCEPT !.matches = new]
       PROVE  BracketInv'
  <2>1. /\ DOMAIN bracket' = BracketFields /\ bracket'.matches = new
        /\ bracket'.players = n /\ bracket'.format = bracket.format
        /\ bracket'.status = bracket.status /\ bracket'.winner = bracket.winner
    BY <1>1, <1>11, MatchesWritten DEF n
  <2>2. ~\A m \in Meetings(n) : new[m].winner # Empty
    BY <1>7, <1>11
  <2>3. Ended' /\ bracket'.status # "Completed"
    BY <1>3, <1>9, <2>1 DEF Ended
  <2>4. RobinInv'
    BY <1>7, <1>8, <2>1, <2>2, <2>3 DEF RobinInv
  <2> QED
    BY <1>1, <2>1, <2>4 DEF BracketInv
<1> QED
  BY <1>5, <1>10, <1>11

\* In a single elimination and in a round robin every match is of the winners' bracket.
LEMMA WinnersAlone ==
    ASSUME BracketInv, bracket.format \in {"SingleElimination", "RoundRobin"},
           NEW id \in DOMAIN bracket.matches
    PROVE  id[1] = "Winners"
<1>1. CASE bracket.format = "SingleElimination"
  <2>1. id \in WinnersPlaces(bracket.players)
    BY <1>1 DEF BracketInv, SingleInv, TreeOK
  <2> QED
    BY <2>1 DEF WinnersPlaces
<1>2. CASE bracket.format = "RoundRobin"
  <2>1. id \in Meetings(bracket.players)
    BY <1>2 DEF BracketInv, RobinInv
  <2> QED
    BY <2>1 DEF Meetings
<1> QED
  BY <1>1, <1>2

\* What the results of a double elimination do is not followed.
LEMMA DoubleStep ==
    ASSUME BracketInv, NEW id \in DOMAIN bracket.matches, NEW w,
           \/ RecordWinners(id, w) \/ RecordLosers(id, w)
           \/ RecordGrandFinal(id, w) \/ RecordReset(id, w)
    PROVE  BracketInv'
<1>1. bracket.format \notin {"SingleElimination", "RoundRobin"}
  BY WinnersAlone DEF RecordWinners, RecordLosers, RecordGrandFinal, RecordReset
<1>2. DOMAIN bracket = BracketFields /\ bracket.players \in 2..16
  BY DEF BracketInv
<1>3. \/ \E ms : bracket' = [bracket EXCEPT !.matches = ms]
      \/ \E ms : bracket' = [bracket EXCEPT !.reset = TRUE, !.matches = ms]
      \/ \E ms, x : bracket' = Won(ms, x)
  BY DEF RecordWinners, RecordLosers, RecordGrandFinal, RecordReset
<1>4. /\ DOMAIN bracket' = BracketFields
      /\ bracket'.players = bracket.players /\ bracket'.format = bracket.format
  <2>1. ASSUME NEW ms, bracket' = [bracket EXCEPT !.matches = ms]
        PROVE  /\ DOMAIN bracket' = BracketFields
               /\ bracket'.players = bracket.players /\ bracket'.format = bracket.format
    BY <1>2, <2>1, MatchesWritten
  <2>2. ASSUME NEW ms, bracket' = [bracket EXCEPT !.reset = TRUE, !.matches = ms]
        PROVE  /\ DOMAIN bracket' = BracketFields
               /\ bracket'.players = bracket.players /\ bracket'.format = bracket.format
    BY <1>2, <2>2 DEF BracketFields
  <2>3. ASSUME NEW ms, NEW x, bracket' = Won(ms, x)
        PROVE  /\ DOMAIN bracket' = BracketFields
               /\ bracket'.players = bracket.players /\ bracket'.format = bracket.format
    BY <1>2, <2>3, WonWritten
  <2> QED
    BY <1>3, <2>1, <2>2, <2>3
<1> QED
  BY <1>1, <1>2, <1>4 DEF BracketInv

LEMMA BracketStep ==
    BracketInv /\ [BracketNext]_bracketVars => BracketInv'
<1> SUFFICES ASSUME BracketInv, [BracketNext]_bracketVars PROVE BracketInv'
  OBVIOUS
<1>1. CASE UNCHANGED bracketVars
  <2>1. bracket' = bracket /\ early' = early
    BY <1>1 DEF bracketVars
  <2> QED
    BY <2>1 DEF BracketInv, SingleInv, RobinInv, Final, Ended, Leaders
<1>2. CASE StartTournament
  <2>1. /\ DOMAIN bracket = BracketFields /\ bracket.status = "Registration"
        /\ bracket' = [bracket EXCEPT !.status = "InProgress"] /\ early' = early
    BY <1>2 DEF StartTournament, BracketInv
  <2>2. /\ DOMAIN bracket' = BracketFields /\ bracket'.matches = bracket.matches
        /\ bracket'.players = bracket.players /\ bracket'.format = bracket.format
        /\ bracket'.status = "InProgress" /\ bracket'.winner = bracket.winner
    BY <2>1 DEF BracketFields
  <2>3. SingleInv => SingleInv'
    BY <2>1, <2>2 DEF SingleInv, Final, Ended
  <2>4. RobinInv => RobinInv'
    BY <2>1, <2>2 DEF RobinInv, Ended
  <2> QED
    BY <2>2, <2>3, <2>4 DEF BracketInv
<1>3. ASSUME NEW id \in DOMAIN bracket.matches, NEW w \in 1..bracket.players,
             early' = (early \/ Loser(id, w) = Empty),
             \/ RecordSingle(id, w) \/ RecordWinners(id, w) \/ RecordLosers(id, w)
             \/ RecordGrandFinal(id, w) \/ RecordReset(id, w) \/ RecordRoundRobin(id, w)
      PROVE  BracketInv'
  <2>1. CASE RecordSingle(id, w)
    <3>1. bracket.format = "SingleElimination"
      BY <2>1 DEF RecordSingle
    <3> QED
      BY <1>3, <2>1, <3>1, SingleStep
  <2>2. CASE RecordRoundRobin(id, w)
    BY <2>2, RobinStep
  <2>3. CASE \/ RecordWinners(id, w) \/ RecordLosers(id, w)
             \/ RecordGrandFinal(id, w) \/ RecordReset(id, w)
    BY <2>3, DoubleStep
  <2> QED
    BY <1>3, <2>1, <2>2, <2>3
<1> QED
  BY <1>1, <1>2, <1>3 DEF BracketNext, RecordResult

LEMMA SingleIsSound ==
    ASSUME BracketInv, bracket.format = "SingleElimination"
    PROVE  BracketSound
<1>1. PICK n \in 2..16 : n = bracket.players
  BY DEF BracketInv
<1>2. PICK ms : ms = bracket.matches
  OBVIOUS
<1>3. PICK final : final = ms[MatchId(TotalRounds(n), 1)].winner
  OBVIOUS
<1>4. /\ TreeOK(n, ms) /\ (~early => Opposed(n, ms))
      /\ bracket.winner = final /\ (bracket.status = "Completed" <=> final # Empty)
  BY <1>1, <1>2, <1>3 DEF BracketInv, SingleInv, Final, Ended
<1>5. DOMAIN ms = WinnersPlaces(n)
  BY <1>4 DEF TreeOK
<1>6. /\ Allowed = 1
      /\ \A p : Losses(p) = Cardinality(LostBy(n, ms, p))
      /\ \A p : Cardinality({id \in Undecided : Sits(p, id)}) = Cardinality(OpenFor(n, ms, p))
  <2>1. ASSUME NEW p
        PROVE  /\ {id \in Matches \ Undecided : Sits(p, id) /\ bracket.matches[id].winner # p}
                     = LostBy(n, ms, p)
               /\ {id \in Undecided : Sits(p, id)} = OpenFor(n, ms, p)
    BY <1>2, <1>5 DEF Matches, Undecided, Sits, LostBy, OpenFor
  <2> QED
    BY <2>1 DEF Losses, Allowed
<1>7. ASSUME NEW p \in 1..n
      PROVE  \E w \in Seats(n) :
                 /\ Cardinality(OpenFor(n, ms, p)) = IF w = Empty THEN 1 ELSE 0
                 /\ Cardinality(LostBy(n, ms, p)) = IF w = Empty \/ w = p THEN 0 ELSE 1
                 /\ w = p <=> final = p
                 /\ w = Empty => \E id \in WinnersPlaces(n) : ms[id].winner = Empty
  <2>0. HisLast(n, ms, p)
    BY <1>4, HisMatches
  <2>1. PICK k \in 1..TotalRounds(n) : \E i \in 1..Width(n, k) :
              LET w == ms[MatchId(k, i)].winner
              IN /\ Cardinality(OpenFor(n, ms, p)) = IF w = Empty THEN 1 ELSE 0
                 /\ Cardinality(LostBy(n, ms, p)) = IF w = Empty \/ w = p THEN 0 ELSE 1
                 /\ w = p <=> ms[MatchId(TotalRounds(n), 1)].winner = p
    BY <2>0 DEF HisLast
  <2>2. PICK i \in 1..Width(n, k) :
              LET w == ms[MatchId(k, i)].winner
              IN /\ Cardinality(OpenFor(n, ms, p)) = IF w = Empty THEN 1 ELSE 0
                 /\ Cardinality(LostBy(n, ms, p)) = IF w = Empty \/ w = p THEN 0 ELSE 1
                 /\ w = p <=> ms[MatchId(TotalRounds(n), 1)].winner = p
    BY <2>1
  <2>3. ms[MatchId(k, i)].winner \in Seats(n) /\ MatchId(k, i) \in WinnersPlaces(n)
    BY <1>4, SeatsAre, PlacesAre
  <2> QED
    BY <1>3, <2>2, <2>3
<1>8. \A p \in 1..n : p # Empty
  BY FieldsAssumption
<1>9. NobodyLost
  <2> SUFFICES ASSUME ~early
               PROVE  /\ bracket.status # "Completed" =>
                           /\ \E id \in Undecided : ~Sits(Empty, id)
                           /\ \A p \in 1..n :
                                 Cardinality(OpenFor(n, ms, p)) =
                                     IF Cardinality(LostBy(n, ms, p)) < 1 THEN 1 ELSE 0
                      /\ bracket.status = "Completed" =>
                           /\ Cardinality(LostBy(n, ms, final)) < 1
                           /\ \A p \in 1..n \ {final} : Cardinality(LostBy(n, ms, p)) = 1
    BY <1>1, <1>4, <1>6 DEF NobodyLost
  <2>1. ASSUME bracket.status # "Completed" PROVE \E id \in Undecided : ~Sits(Empty, id)
    <3>1. PICK id \in WinnersPlaces(n) :
              ms[id].winner = Empty /\ ms[id].p1 # Empty /\ ms[id].p2 # Empty
      BY <1>3, <1>4, <2>1, OneCanBePlayed
    <3> QED
      BY <1>2, <1>5, <3>1 DEF Undecided, Matches, Sits
  <2>2. ASSUME bracket.status # "Completed", NEW p \in 1..n
        PROVE  Cardinality(OpenFor(n, ms, p)) =
                   IF Cardinality(LostBy(n, ms, p)) < 1 THEN 1 ELSE 0
    <3>1. final = Empty
      BY <1>4, <2>2
    <3> QED
      BY <1>7, <1>8, <3>1
  <2>3. ASSUME bracket.status = "Completed"
        PROVE  /\ final \in 1..n /\ \A id \in WinnersPlaces(n) : ms[id].winner # Empty
    <3>1. final # Empty /\ Opposed(n, ms)
      BY <1>4, <2>3
    <3>2. TotalRounds(n) \in 1..4 /\ Width(n, TotalRounds(n)) = 1
      BY RoundsHalve
    <3>3. TotalRounds(n) \in 1..TotalRounds(n) /\ 1 \in 1..Width(n, TotalRounds(n))
      BY <3>2
    <3>4. final \in Seats(n)
      BY <1>3, <1>4, <3>3, SeatsAre
    <3> QED
      BY <1>3, <1>4, <3>1, <3>4, AllAreDecided DEF Seats
  <2>4. ASSUME bracket.status = "Completed" PROVE Cardinality(LostBy(n, ms, final)) < 1
    BY <1>7, <2>3, <2>4
  <2>5. ASSUME bracket.status = "Completed", NEW p \in 1..n \ {final}
        PROVE  Cardinality(LostBy(n, ms, p)) = 1
    BY <1>7, <2>3, <2>5
  <2> QED
    BY <2>1, <2>2, <2>4, <2>5
<1>10. MatchesCoherent
  <2> SUFFICES ASSUME NEW id \in WinnersPlaces(n)
               PROVE  /\ ms[id].p1 # ms[id].p2 \/ ms[id].p1 = Empty
                      /\ ms[id].winner # Empty => ms[id].winner \in {ms[id].p1, ms[id].p2}
    BY <1>2, <1>4, <1>5 DEF MatchesCoherent, Matches, Sits
  <2>1. PICK r \in 1..TotalRounds(n) : \E i \in 1..Width(n, r) : id = MatchId(r, i)
    BY PlacesAre
  <2>2. PICK i \in 1..Width(n, r) : id = MatchId(r, i)
    BY <2>1
  <2>3. OncePerRound(n, ms, r)
    BY <1>4, OnceEverywhere
  <2>4. ms[id].p1 # ms[id].p2 \/ ms[id].p1 = Empty
    BY <2>2, <2>3 DEF OncePerRound
  <2> QED
    BY <1>4, <2>4 DEF TreeOK
<1>11. RoundRobinWon
  BY DEF RoundRobinWon
<1> QED
  BY <1>9, <1>10, <1>11 DEF BracketSound

LEMMA RobinIsSound ==
    ASSUME BracketInv, bracket.format = "RoundRobin"
    PROVE  BracketSound
<1>1. PICK n \in 2..16 : n = bracket.players
  BY DEF BracketInv
<1>2. RobinInv
  BY DEF BracketInv
<1>3. DOMAIN bracket.matches = Meetings(n)
  BY <1>1, <1>2 DEF RobinInv
<1>4. \A id \in Meetings(n) : id[3][1] # id[3][2]
  BY DEF Meetings
<1>5. MatchesCoherent
  BY <1>1, <1>2, <1>3, <1>4 DEF MatchesCoherent, RobinInv, Matches, Sits, Ended
<1>6. RoundRobinWon
  BY <1>1, <1>2, <1>3 DEF RoundRobinWon, RobinInv, Undecided, Matches
<1>7. NobodyLost
  BY DEF NobodyLost
<1> QED
  BY <1>5, <1>6, <1>7 DEF BracketSound

LEMMA BracketIsSound == BracketInv => OneBracketSound
BY SingleIsSound, RobinIsSound DEF BracketInv, OneBracketSound

\* For any field of up to sixteen, in a single elimination played when both players are
\* known nobody is lost and there is always a match to play; a round robin is over when all
\* have met, and its champion has won most; and nobody ever meets himself or wins a match
\* that he is not in (bracket.rs:513, 575).
THEOREM BracketsStaySound == BracketSpec => []OneBracketSound
<1> QED
  BY BracketStarts, BracketStep, BracketIsSound, PTL DEF BracketSpec

(***************************************************************************)
(* Registration (Bracket).  Whoever has been inserted is a participant,    *)
(* by one request alone (OneRequestEach).  A request that has listed the   *)
(* participants lacks only those who came in beside it                     *)
(* (ListsMissOnlyRaces), so the bracket it stores, whatever it replaces,   *)
(* lacks only them (DrawnOrRaced).                                         *)
(***************************************************************************)
RegSteps == {"idle", "checked", "inserted", "listed", "registered", "conflict", "failed"}
In(r) == RegAt(r, "inserted") \/ RegAt(r, "listed") \/ RegAt(r, "registered")

\* Where every request is, and who has sent it; what one has listed are participants,
\* two at least, and he is one of them.
RegTypeOK(players) ==
    /\ registration \in [Registrations ->
           [at : RegSteps, listed : SUBSET players, player : players]]
    /\ participants \in SUBSET players
    /\ IsFiniteSet(participants)
    /\ bracketData # NoBracket => bracketData \in SUBSET participants /\ Cardinality(bracketData) >= 2
    /\ beside \in [Registrations -> SUBSET players]

\* A request that has inserted its player is the only one that did, and what a request
\* has listed are at least two participants, its own player among them.
OneRequestEach ==
    /\ \A r \in Registrations : In(r) => Entering(r) \in participants
    /\ \A r, s \in Registrations : (In(r) /\ In(s) /\ Entering(r) = Entering(s)) => r = s
    /\ \A r \in Registrations : RegAt(r, "listed") =>
          /\ registration[r].listed \in SUBSET participants
          /\ Cardinality(registration[r].listed) >= 2
          /\ Entering(r) \in registration[r].listed

\* A request that has listed the participants missed nobody but those who came in
\* beside it.
ListsMissOnlyRaces ==
    \A r, s \in Registrations :
        (r # s /\ In(r) /\ RegAt(s, "listed")) =>
            Entering(r) \in registration[s].listed \/ Entering(r) \in beside[s]

\* Somebody registered who is not in the stored bracket lost a race, or nobody else has
\* been answered.
DrawnOrRaced ==
    \A r \in Registrations : (Answered(r) /\ ~Drawn(Entering(r))) =>
        \/ \E s \in Registrations \ {r} : Entering(r) \in beside[s]
        \/ \A s \in Registrations \ {r} : ~Answered(s)

RegInv(players) ==
    RegTypeOK(players) /\ OneRequestEach /\ ListsMissOnlyRaces /\ DrawnOrRaced

\* The players of one cast, none of whose sets is the mark of an empty bracket.
CastOf(players) == \A some \in SUBSET players : some # NoBracket

LEMMA RegStarts ==
    RegInit => \E players : CastOf(players) /\ RegInv(players)
<1> SUFFICES ASSUME RegInit PROVE \E players : CastOf(players) /\ RegInv(players)
  OBVIOUS
<1>1. PICK cast \in Casts : registration = [r \in Registrations |->
            [at |-> "idle", listed |-> {}, player |-> cast[r]]]
  BY DEF RegInit
<1> DEFINE players == {cast[r] : r \in Registrations}
<1>2. CastOf(players)
  BY NoBracketAssumption DEF CastOf
<1>3. RegTypeOK(players)
  BY <1>1, FS_EmptySet DEF RegTypeOK, RegInit, RegSteps
<1>4. \A r \in Registrations : registration[r].at = "idle"
  BY <1>1
<1>5. OneRequestEach /\ ListsMissOnlyRaces /\ DrawnOrRaced
  BY <1>4 DEF OneRequestEach, ListsMissOnlyRaces, DrawnOrRaced, In, RegAt, Answered
<1> QED BY <1>2, <1>3, <1>5 DEF RegInv

\* Two players who got in are two participants.
LEMMA TwoAreTwo ==
    ASSUME NEW S, IsFiniteSet(S), NEW a \in S, NEW b \in S, a # b
    PROVE  Cardinality(S) >= 2
<1>1. {a, b} \subseteq S
  OBVIOUS
<1>2. Cardinality({a, b}) <= Cardinality(S)
  BY <1>1, FS_Subset
<1>3. {b} = {} \cup {b} /\ {a, b} = {b} \cup {a}
  OBVIOUS
<1>4. Cardinality({b}) = 1 /\ IsFiniteSet({b})
  BY FS_Singleton
<1>5. Cardinality({b} \cup {a}) = 2 /\ IsFiniteSet({b} \cup {a})
  BY <1>4, FS_AddElement
<1>6. Cardinality(S) \in Nat
  BY FS_CardinalityType
<1> QED BY <1>2, <1>3, <1>5, <1>6

\* A request that goes on changes its own next alone.
LEMMA GoesOn ==
    ASSUME NEW players, RegTypeOK(players), NEW r \in Registrations, NEW next \in RegSteps,
           Goes(r, next)
    PROVE  /\ registration' \in [Registrations ->
                  [at : RegSteps, listed : SUBSET players, player : players]]
           /\ registration'[r].at = next
           /\ \A s \in Registrations : s # r => registration'[s] = registration[s]
           /\ \A s \in Registrations : registration'[s].listed = registration[s].listed
           /\ \A s \in Registrations : registration'[s].player = registration[s].player
BY DEF RegTypeOK, Goes

\* The check and a refusal leave everybody where he was.
LEMMA CheckStep ==
    ASSUME NEW players, RegInv(players), NEW r \in Registrations,
           CheckRegistration(r)
    PROVE  RegInv(players)'
<1> DEFINE next == IF Entering(r) \in participants THEN "conflict" ELSE "checked"
<1>1. Goes(r, next) /\ next \in RegSteps
  BY DEF CheckRegistration, RegSteps
<1>t. RegTypeOK(players)
  BY DEF RegInv
<1> HIDE DEF next
<1>2. /\ registration' \in [Registrations ->
                [at : RegSteps, listed : SUBSET players, player : players]]
      /\ registration'[r].at = next
      /\ \A s \in Registrations : s # r => registration'[s] = registration[s]
      /\ \A s \in Registrations : registration'[s].listed = registration[s].listed
      /\ \A s \in Registrations : registration'[s].player = registration[s].player
  BY <1>1, <1>t, GoesOn
<1>3. next # "inserted" /\ next # "listed" /\ next # "registered"
  BY DEF next
<1>4. registration[r].at = "idle"
  BY DEF CheckRegistration, RegAt
<1>5. UNCHANGED <<participants, bracketData, beside>>
  BY DEF CheckRegistration
<1>6. RegTypeOK(players)'
  BY <1>2, <1>5, <1>t DEF RegTypeOK
<1>7. \A s \in Registrations :
        /\ (registration'[s].at = "inserted") <=> (registration[s].at = "inserted")
        /\ (registration'[s].at = "listed") <=> (registration[s].at = "listed")
        /\ (registration'[s].at = "registered") <=> (registration[s].at = "registered")
  BY <1>2, <1>3, <1>4
<1>8. OneRequestEach'
  BY <1>2, <1>5, <1>7 DEF RegInv, OneRequestEach, In, RegAt, Entering
<1>9. ListsMissOnlyRaces'
  BY <1>2, <1>5, <1>7 DEF RegInv, ListsMissOnlyRaces, In, RegAt, Entering
<1>10. DrawnOrRaced'
  BY <1>2, <1>5, <1>7 DEF RegInv, DrawnOrRaced, Answered, Drawn, RegAt, Entering
<1> QED BY <1>6, <1>8, <1>9, <1>10 DEF RegInv

\* The insertion puts its player beside every other request at work.
LEMMA InsertStep ==
    ASSUME NEW players, RegInv(players), NEW r \in Registrations,
           InsertParticipant(r)
    PROVE  RegInv(players)'
<1> DEFINE next == IF Entering(r) \in participants THEN "conflict" ELSE "inserted"
<1>1. Goes(r, next) /\ next \in RegSteps
  BY DEF InsertParticipant, RegSteps
<1>t. RegTypeOK(players)
  BY DEF RegInv
<1> HIDE DEF next
<1>2. /\ registration' \in [Registrations ->
                [at : RegSteps, listed : SUBSET players, player : players]]
      /\ registration'[r].at = next
      /\ \A s \in Registrations : s # r => registration'[s] = registration[s]
      /\ \A s \in Registrations : registration'[s].listed = registration[s].listed
      /\ \A s \in Registrations : registration'[s].player = registration[s].player
  BY <1>1, <1>t, GoesOn
<1>3. /\ next # "listed" /\ next # "registered"
      /\ next = "inserted" => Entering(r) \notin participants
  BY DEF next
<1>4. registration[r].at = "checked"
  BY DEF InsertParticipant, RegAt
<1>5. /\ participants' = participants \cup {Entering(r)}
      /\ bracketData' = bracketData
      /\ beside' = [s \in Registrations |->
                      IF s # r /\ Going(s) /\ Entering(r) \notin participants
                      THEN beside[s] \cup {Entering(r)} ELSE beside[s]]
  BY DEF InsertParticipant
<1>e. Entering(r) \in players
  BY <1>t DEF RegTypeOK, Entering
<1>6. IsFiniteSet(participants') /\ participants' \in SUBSET players
  BY <1>5, <1>t, <1>e, FS_AddElement DEF RegTypeOK
<1>7. beside' \in [Registrations -> SUBSET players]
  BY <1>5, <1>t, <1>e DEF RegTypeOK
<1>8. RegTypeOK(players)'
  BY <1>2, <1>5, <1>6, <1>7, <1>t DEF RegTypeOK
<1>9. \A s \in Registrations : beside[s] \subseteq beside'[s]
  BY <1>5
<1>10. \A s \in Registrations :
        (registration[s].at = "listed" /\ Entering(r) \notin participants) => Entering(r) \in beside'[s]
  <2> SUFFICES ASSUME NEW s \in Registrations, registration[s].at = "listed",
                      Entering(r) \notin participants
               PROVE  Entering(r) \in beside'[s]
    OBVIOUS
  <2>1. s # r
    BY <1>4
  <2>2. Going(s)
    BY DEF Going, RegAt
  <2> QED BY <1>5, <2>1, <2>2
<1>11. \A s \in Registrations :
        /\ (registration'[s].at = "inserted") => (s = r \/ registration[s].at = "inserted")
        /\ (registration'[s].at = "listed") <=> (registration[s].at = "listed")
        /\ (registration'[s].at = "registered") <=> (registration[s].at = "registered")
  BY <1>2, <1>3, <1>4
<1>12. OneRequestEach'
  <2>1. \A s \in Registrations : In(s)' => (In(s) \/ (s = r /\ next = "inserted"))
    BY <1>2, <1>11 DEF In, RegAt
  <2>2. (\A s \in Registrations : In(s) => Entering(s) \in participants)'
    BY <2>1, <1>2, <1>5 DEF RegInv, OneRequestEach, Entering
  <2>3. (\A q, s \in Registrations : (In(q) /\ In(s) /\ Entering(q) = Entering(s)) => q = s)'
    BY <2>1, <1>2, <1>3 DEF RegInv, OneRequestEach, Entering
  <2>4. (\A s \in Registrations : RegAt(s, "listed") =>
            /\ registration[s].listed \in SUBSET participants
            /\ Cardinality(registration[s].listed) >= 2
            /\ Entering(s) \in registration[s].listed)'
    BY <1>2, <1>5, <1>11 DEF RegInv, OneRequestEach, Entering, RegAt
  <2> QED BY <2>2, <2>3, <2>4 DEF OneRequestEach
<1>13. ListsMissOnlyRaces'
  <2> SUFFICES ASSUME NEW q \in Registrations, NEW s \in Registrations, q # s, In(q)',
                      registration'[s].at = "listed"
               PROVE  Entering(q)' \in registration'[s].listed \/ Entering(q)' \in beside'[s]
    BY DEF ListsMissOnlyRaces, RegAt
  <2>1. registration[s].at = "listed" /\ Entering(q)' = Entering(q)
    BY <1>2, <1>11 DEF Entering
  <2>2. CASE In(q)
    BY <2>1, <2>2, <1>2, <1>9 DEF RegInv, ListsMissOnlyRaces, RegAt
  <2>3. CASE q = r /\ next = "inserted"
    BY <2>1, <2>3, <1>3, <1>10
  <2>4. In(q) \/ (q = r /\ next = "inserted")
    BY <1>2, <1>11 DEF In, RegAt
  <2> QED BY <2>2, <2>3, <2>4
<1>14. DrawnOrRaced'
  BY <1>2, <1>5, <1>9, <1>11 DEF RegInv, DrawnOrRaced, Answered, Drawn, RegAt, Entering
<1> QED BY <1>8, <1>12, <1>13, <1>14 DEF RegInv

\* A request that is over has listed nothing and is its player's still.
LEMMA ComesToAnEnd ==
    ASSUME NEW players, RegTypeOK(players), NEW r \in Registrations, NEW answer \in RegSteps,
           registration' = [registration EXCEPT ![r] = Over(r, answer)]
    PROVE  /\ registration' \in [Registrations ->
                  [at : RegSteps, listed : SUBSET players, player : players]]
           /\ registration'[r].at = answer
           /\ \A s \in Registrations : s # r => registration'[s] = registration[s]
           /\ \A s \in Registrations : registration'[s].player = registration[s].player
BY DEF RegTypeOK, Over, Entering

\* All participants are listed, or the one there is has been answered.
LEMMA ListStep ==
    ASSUME NEW players, RegInv(players), NEW r \in Registrations,
           ListParticipants(r)
    PROVE  RegInv(players)'
<1>t. RegTypeOK(players)
  BY DEF RegInv
<1>u. UNCHANGED <<participants, bracketData, beside>> /\ registration[r].at = "inserted"
  BY DEF ListParticipants, RegAt
<1>i. In(r) /\ Entering(r) \in participants
  BY <1>u DEF RegInv, OneRequestEach, In, RegAt
<1>1. CASE Cardinality(participants) >= 2
  <2>1. registration' = [registration EXCEPT
            ![r] = [@ EXCEPT !.at = "listed", !.listed = participants]]
    BY <1>1 DEF ListParticipants
  <2>2. /\ registration' \in [Registrations ->
                [at : RegSteps, listed : SUBSET players, player : players]]
        /\ registration'[r].at = "listed" /\ registration'[r].listed = participants
        /\ \A s \in Registrations : s # r => registration'[s] = registration[s]
        /\ \A s \in Registrations : registration'[s].player = registration[s].player
    BY <2>1, <1>t DEF RegTypeOK, RegSteps
  <2>3. RegTypeOK(players)'
    BY <2>2, <1>u, <1>t DEF RegTypeOK
  <2>4. \A s \in Registrations : In(s)' => In(s)
    BY <2>2, <1>i DEF In, RegAt
  <2>5. OneRequestEach'
    <3>1. (\A s \in Registrations : In(s) => Entering(s) \in participants)'
      BY <2>2, <2>4, <1>u DEF RegInv, OneRequestEach, Entering
    <3>2. (\A q, s \in Registrations : (In(q) /\ In(s) /\ Entering(q) = Entering(s)) => q = s)'
      BY <2>2, <2>4 DEF RegInv, OneRequestEach, Entering
    <3>3. (\A s \in Registrations : RegAt(s, "listed") =>
            /\ registration[s].listed \in SUBSET participants
            /\ Cardinality(registration[s].listed) >= 2
            /\ Entering(s) \in registration[s].listed)'
      <4> SUFFICES ASSUME NEW s \in Registrations, registration'[s].at = "listed"
                   PROVE  /\ registration'[s].listed \in SUBSET participants'
                          /\ Cardinality(registration'[s].listed) >= 2
                          /\ registration'[s].player \in registration'[s].listed
        BY DEF RegAt, Entering
      <4>1. CASE s = r
        BY <4>1, <2>2, <1>1, <1>i, <1>u DEF Entering
      <4>2. CASE s # r
        BY <4>2, <2>2, <1>u DEF RegInv, OneRequestEach, Entering, RegAt
      <4> QED BY <4>1, <4>2
    <3> QED BY <3>1, <3>2, <3>3 DEF OneRequestEach
  <2>6. ListsMissOnlyRaces'
    <3> SUFFICES ASSUME NEW q \in Registrations, NEW s \in Registrations, q # s, In(q)',
                        registration'[s].at = "listed"
                 PROVE  \/ registration'[q].player \in registration'[s].listed
                        \/ registration'[q].player \in beside'[s]
      BY DEF ListsMissOnlyRaces, RegAt, Entering
    <3>1. In(q) /\ registration'[q].player = registration[q].player
      BY <2>4, <2>2
    <3>2. CASE s = r
      BY <3>1, <3>2, <2>2 DEF RegInv, OneRequestEach, Entering
    <3>3. CASE s # r
      BY <3>1, <3>3, <2>2, <1>u DEF RegInv, ListsMissOnlyRaces, Entering, RegAt
    <3> QED BY <3>2, <3>3
  <2>7. DrawnOrRaced'
    <3>1. \A s \in Registrations :
             (registration'[s].at = "registered") <=> (registration[s].at = "registered")
      BY <2>2, <1>u
    <3> QED BY <3>1, <2>2, <1>u DEF RegInv, DrawnOrRaced, Answered, Drawn, RegAt, Entering
  <2> QED BY <2>3, <2>5, <2>6, <2>7 DEF RegInv
<1>2. CASE ~(Cardinality(participants) >= 2)
  <2>1. registration' = [registration EXCEPT ![r] = Over(r, "registered")]
    BY <1>2 DEF ListParticipants
  <2>s. "registered" \in RegSteps
    BY DEF RegSteps
  <2>2. /\ registration' \in [Registrations ->
                [at : RegSteps, listed : SUBSET players, player : players]]
        /\ registration'[r].at = "registered"
        /\ \A s \in Registrations : s # r => registration'[s] = registration[s]
        /\ \A s \in Registrations : registration'[s].player = registration[s].player
    BY <2>1, <2>s, <1>t, ComesToAnEnd
  <2>3. RegTypeOK(players)'
    BY <2>2, <1>u, <1>t DEF RegTypeOK
  <2>4. \A s \in Registrations : In(s)' => In(s)
    BY <2>2, <1>i DEF In, RegAt
  <2>5. \A s \in Registrations : In(s) => s = r
    <3> SUFFICES ASSUME NEW s \in Registrations, In(s), s # r PROVE FALSE
      OBVIOUS
    <3>1. Entering(s) \in participants /\ Entering(s) # Entering(r)
      BY <1>i DEF RegInv, OneRequestEach
    <3>2. IsFiniteSet(participants)
      BY <1>t DEF RegTypeOK
    <3> QED BY <3>1, <3>2, <1>i, <1>2, TwoAreTwo
  <2>6. \A s \in Registrations : RegAt(s, "listed")' => FALSE
    BY <2>2, <2>4, <2>5 DEF In, RegAt
  <2>7. OneRequestEach'
    BY <2>2, <2>4, <2>5, <2>6, <1>i, <1>u DEF OneRequestEach, Entering
  <2>8. ListsMissOnlyRaces'
    BY <2>6 DEF ListsMissOnlyRaces
  <2>9. DrawnOrRaced'
    BY <2>4, <2>5 DEF DrawnOrRaced, Answered, In
  <2> QED BY <2>3, <2>7, <2>8, <2>9 DEF RegInv
<1> QED BY <1>1, <1>2

\* What a request has listed becomes the bracket: whoever is not in it came in beside.
LEMMA SaveStep ==
    ASSUME NEW players, RegInv(players), NEW r \in Registrations,
           CastOf(players), SaveBracket(r)
    PROVE  RegInv(players)'
<1>t. RegTypeOK(players)
  BY DEF RegInv
<1>u. UNCHANGED <<participants, beside>> /\ registration[r].at = "listed"
  BY DEF SaveBracket, RegAt
<1>i. In(r)
  BY <1>u DEF In, RegAt
<1>s. "registered" \in RegSteps
  BY DEF RegSteps
<1>2. /\ registration' \in [Registrations ->
              [at : RegSteps, listed : SUBSET players, player : players]]
      /\ registration'[r].at = "registered"
      /\ \A s \in Registrations : s # r => registration'[s] = registration[s]
      /\ \A s \in Registrations : registration'[s].player = registration[s].player
  BY <1>s, <1>t, ComesToAnEnd DEF SaveBracket
<1>3. /\ bracketData' = registration[r].listed
      /\ registration[r].listed \in SUBSET participants
      /\ Cardinality(registration[r].listed) >= 2
      /\ Entering(r) \in registration[r].listed
  BY <1>u DEF SaveBracket, RegInv, OneRequestEach, RegAt
<1>4. RegTypeOK(players)'
  BY <1>2, <1>3, <1>u, <1>t DEF RegTypeOK
<1>5. bracketData' # NoBracket
  BY <1>3, <1>t DEF CastOf, RegTypeOK
<1>6. \A s \in Registrations : In(s)' => In(s)
  BY <1>2, <1>i DEF In, RegAt
<1>7. \A s \in Registrations : RegAt(s, "listed")' => s # r /\ RegAt(s, "listed")
  BY <1>2 DEF RegAt
<1>8. OneRequestEach'
  BY <1>2, <1>6, <1>7, <1>u DEF RegInv, OneRequestEach, Entering
<1>9. ListsMissOnlyRaces'
  BY <1>2, <1>6, <1>7, <1>u DEF RegInv, ListsMissOnlyRaces, Entering
<1>10. DrawnOrRaced'
  <2> SUFFICES ASSUME NEW s \in Registrations, Answered(s)', ~Drawn(Entering(s))'
               PROVE  \E q \in Registrations \ {s} : Entering(s)' \in beside'[q]
    BY DEF DrawnOrRaced
  <2>1. Entering(s)' = Entering(s) /\ In(s)
    BY <1>2, <1>6 DEF Entering, Answered, In
  <2>2. Entering(s) \notin registration[r].listed
    BY <2>1, <1>3, <1>5 DEF Drawn
  <2>3. s # r
    BY <2>2, <1>3
  <2>4. Entering(s) \in beside[r]
    BY <2>1, <2>2, <2>3, <1>u DEF RegInv, ListsMissOnlyRaces, RegAt
  <2> QED BY <2>1, <2>3, <2>4, <1>u
<1> QED BY <1>4, <1>8, <1>9, <1>10 DEF RegInv

LEMMA FailStep ==
    ASSUME NEW players, RegInv(players), NEW r \in Registrations,
           RegistrationFails(r)
    PROVE  RegInv(players)'
<1>t. RegTypeOK(players)
  BY DEF RegInv
<1>u. UNCHANGED <<participants, bracketData, beside>> /\ registration[r].at # "registered"
  BY DEF RegistrationFails, RegAt, Going
<1>s. "failed" \in RegSteps
  BY DEF RegSteps
<1>2. /\ registration' \in [Registrations ->
              [at : RegSteps, listed : SUBSET players, player : players]]
      /\ registration'[r].at = "failed"
      /\ \A s \in Registrations : s # r => registration'[s] = registration[s]
      /\ \A s \in Registrations : registration'[s].player = registration[s].player
  BY <1>s, <1>t, ComesToAnEnd DEF RegistrationFails
<1>4. RegTypeOK(players)'
  BY <1>2, <1>u, <1>t DEF RegTypeOK
<1>6. \A s \in Registrations : In(s)' => s # r /\ In(s)
  BY <1>2 DEF In, RegAt
<1>7. \A s \in Registrations : RegAt(s, "listed")' => s # r /\ RegAt(s, "listed")
  BY <1>2 DEF RegAt
<1>8. OneRequestEach'
  BY <1>2, <1>6, <1>7, <1>u DEF RegInv, OneRequestEach, Entering
<1>9. ListsMissOnlyRaces'
  BY <1>2, <1>6, <1>7, <1>u DEF RegInv, ListsMissOnlyRaces, Entering
<1>10. \A s \in Registrations : Answered(s)' <=> Answered(s)
  BY <1>2, <1>u DEF Answered, RegAt
<1>11. DrawnOrRaced'
  BY <1>2, <1>10, <1>u DEF RegInv, DrawnOrRaced, Drawn, Entering
<1> QED BY <1>4, <1>8, <1>9, <1>11 DEF RegInv

\* The players are those of one cast.
RegistrationInv == \E players : CastOf(players) /\ RegInv(players)

LEMMA RegStep ==
    RegistrationInv /\ [RegNext]_regVars => RegistrationInv'
<1> SUFFICES ASSUME RegistrationInv, [RegNext]_regVars PROVE RegistrationInv'
  OBVIOUS
<1>1. PICK players : CastOf(players) /\ RegInv(players)
  BY DEF RegistrationInv
<1>2. CASE RegNext
  <2>1. RegInv(players)'
    BY <1>1, <1>2, CheckStep, InsertStep, ListStep, SaveStep, FailStep DEF RegNext
  <2> QED BY <1>1, <2>1 DEF RegistrationInv, CastOf
<1>3. CASE UNCHANGED regVars
  <2>1. RegInv(players)'
    BY <1>1, <1>3 DEF RegInv, RegTypeOK, OneRequestEach, ListsMissOnlyRaces, DrawnOrRaced,
          regVars, In, RegAt, Entering, Answered, Drawn
  <2> QED BY <1>1, <2>1 DEF RegistrationInv, CastOf
<1> QED BY <1>2, <1>3

LEMMA RegistrationIsSound ==
    RegistrationInv => RegistrationSound
<1> SUFFICES ASSUME NEW players, RegInv(players) PROVE RegistrationSound
  BY DEF RegistrationInv
<1>1. BracketRegistered
  BY DEF BracketRegistered, RegInv, RegTypeOK, OneRequestEach, In, Answered
<1>2. MissingOnlyToRaces
  BY DEF MissingOnlyToRaces, RegInv, DrawnOrRaced
<1> QED BY <1>1, <1>2 DEF RegistrationSound

\* Registering for a stored tournament (tournaments.rs:126): nobody is some who is not
\* registered, and whoever was told that he is and is not some lost a race to a request
\* at work beside his own, or was alone and nobody after him has been answered.
THEOREM RegistrationStaysSound == RegSpec => []RegistrationSound
<1>1. RegInit => RegistrationInv
  BY RegStarts DEF RegistrationInv
<1>2. RegistrationInv /\ [RegNext]_regVars => RegistrationInv'
  BY RegStep
<1>3. RegistrationInv => RegistrationSound
  BY RegistrationIsSound
<1> QED BY <1>1, <1>2, <1>3, PTL DEF RegSpec
=============================================================================
