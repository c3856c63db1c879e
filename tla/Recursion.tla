------------------------------ MODULE Recursion ------------------------------
(***************************************************************************)
(* Induction and recursion, stated for sets and functions: a predicate is  *)
(* the set of what satisfies it, and the body of a recursive definition a  *)
(* function from functions to functions.                                   *)
(***************************************************************************)
EXTENDS Integers, TLAPS, WellFoundedInduction

LEMMA NatSetInduction ==
  ASSUME NEW S, 0 \in S, \A n \in Nat : n \in S => n + 1 \in S
  PROVE  Nat \subseteq S
<1> DEFINE R == OpToRel(<, Nat)
           T == Nat \ S
<1>1. IsWellFoundedOn(R, Nat)
  BY NatLessThanWellFounded
<1>2. \A x, y \in Nat : x < y => <<x, y>> \in R
  BY DEF OpToRel
<1>3. SUFFICES ASSUME T # {} PROVE FALSE
  OBVIOUS
<1>4. PICK x \in T : \A y \in T : ~(<<y, x>> \in R)
  <2> HIDE DEF R
  <2> QED BY <1>1, <1>3, WFMin
<1>5. x \in Nat /\ x # 0 /\ x - 1 \in Nat /\ x - 1 < x /\ (x - 1) + 1 = x
  OBVIOUS
<1>6. x - 1 \in S
  BY <1>2, <1>4, <1>5
<1> QED BY <1>5, <1>6

(***************************************************************************)
(* What holds of an element if it holds of those of lower rank, holds.     *)
(***************************************************************************)
LEMMA RankInduction ==
  ASSUME NEW D, NEW rank \in [D -> Nat], NEW S,
         \A x \in D : (\A y \in D : rank[y] < rank[x] => y \in S) => x \in S
  PROVE  D \subseteq S
<1> DEFINE Below == {n \in Nat : \A x \in D : rank[x] < n => x \in S}
<1>1. 0 \in Below
  OBVIOUS
<1>2. ASSUME NEW n \in Below PROVE n + 1 \in Below
  <2> SUFFICES ASSUME NEW x \in D, rank[x] < n + 1 PROVE x \in S
    OBVIOUS
  <2>1. ASSUME NEW y \in D, rank[y] < rank[x] PROVE y \in S
    BY <2>1
  <2> QED BY <2>1
<1>3. Nat \subseteq Below
  <2> HIDE DEF Below
  <2> QED BY <1>1, <1>2, NatSetInduction
<1>4. ASSUME NEW x \in D PROVE x \in S
  <2>1. rank[x] + 1 \in Below
    BY <1>3
  <2> QED BY <2>1
<1> QED BY <1>4

(* What the body makes of an argument depends on those of lower rank. *)
LooksBelow(Body, D, Y, rank) ==
  \A f, g \in [D -> Y] : \A x \in D :
    (\A y \in D : rank[y] < rank[x] => f[y] = g[y]) => Body[f][x] = Body[g][x]

HasSolution(Body, D, Y) == \E f \in [D -> Y] : f = Body[f]

(***************************************************************************)
(* A definition whose body looks only at arguments of lower rank defines a *)
(* function.                                                               *)
(***************************************************************************)
LEMMA RecursionByRank ==
  ASSUME NEW D, NEW Y, NEW rank \in [D -> Nat], NEW any \in [D -> Y],
         NEW Body \in [[D -> Y] -> [D -> Y]], LooksBelow(Body, D, Y, rank)
  PROVE  HasSolution(Body, D, Y)
<1> DEFINE Upto(n) == {f \in [D -> Y] : \A x \in D : rank[x] < n => f[x] = Body[f][x]}
           Reached == {n \in Nat : Upto(n) # {}}
<1>0. \A f, g \in [D -> Y] : \A x \in D :
        (\A y \in D : rank[y] < rank[x] => f[y] = g[y]) => Body[f][x] = Body[g][x]
  BY DEF LooksBelow
<1>1. Nat \subseteq Reached
  <2>1. 0 \in Reached
    BY any \in Upto(0)
  <2>2. ASSUME NEW n \in Reached PROVE n + 1 \in Reached
    <3>1. PICK f \in Upto(n) : TRUE
      OBVIOUS
    <3>2. Body[f] \in [D -> Y]
      OBVIOUS
    <3>3. ASSUME NEW x \in D, rank[x] < n + 1
          PROVE  Body[f][x] = Body[Body[f]][x]
      <4>1. ASSUME NEW y \in D, rank[y] < rank[x] PROVE f[y] = Body[f][y]
        BY <3>3, <4>1
      <4> QED BY <1>0, <3>2, <4>1
    <3>4. Body[f] \in Upto(n + 1)
      BY <3>2, <3>3
    <3> QED BY <3>4
  <2> HIDE DEF Reached
  <2> QED BY <2>1, <2>2, NatSetInduction
<1>2. ASSUME NEW m \in Nat, NEW n \in Nat, m <= n, NEW f \in Upto(m), NEW g \in Upto(n),
             NEW z \in D, rank[z] < m
      PROVE  f[z] = g[z]
  <2> DEFINE Same == {x \in D : rank[x] < m => f[x] = g[x]}
  <2>1. ASSUME NEW x \in D, \A y \in D : rank[y] < rank[x] => y \in Same
        PROVE  x \in Same
    <3> SUFFICES ASSUME rank[x] < m PROVE f[x] = g[x]
      OBVIOUS
    <3>1. \A y \in D : rank[y] < rank[x] => f[y] = g[y]
      BY <2>1
    <3>2. rank[x] < n /\ f \in [D -> Y] /\ g \in [D -> Y]
      BY <1>2
    <3>3. f[x] = Body[f][x] /\ g[x] = Body[g][x]
      BY <3>2
    <3> QED BY <1>0, <3>1, <3>2, <3>3
  <2>2. D \subseteq Same
    <3> HIDE DEF Same
    <3> QED BY <2>1, RankInduction
  <2> QED BY <1>2, <2>2
<1> DEFINE At(x) == CHOOSE f \in Upto(rank[x] + 1) : TRUE
           F == [x \in D |-> At(x)[x]]
<1>3. \A x \in D : At(x) \in Upto(rank[x] + 1)
  <2> TAKE x \in D
  <2>1. rank[x] + 1 \in Reached
    BY <1>1
  <2>2. Upto(rank[x] + 1) # {}
    BY <2>1
  <2> HIDE DEF Upto
  <2> QED BY <2>2
<1> HIDE DEF At
<1>4. F \in [D -> Y]
  BY <1>3
<1>5. ASSUME NEW x \in D PROVE F[x] = Body[F][x]
  <2>1. At(x) \in [D -> Y] /\ At(x)[x] = Body[At(x)][x]
    BY <1>3
  <2>2. ASSUME NEW y \in D, rank[y] < rank[x] PROVE F[y] = At(x)[y]
    <3>1. rank[y] + 1 \in Nat /\ rank[x] + 1 \in Nat /\ rank[y] + 1 <= rank[x] + 1 /\ rank[y] < rank[y] + 1
      BY <2>2
    <3>2. At(y) \in Upto(rank[y] + 1) /\ At(x) \in Upto(rank[x] + 1)
      BY <1>3
    <3>3. At(y)[y] = At(x)[y]
      <4> HIDE DEF Upto
      <4> QED BY <1>2, <3>1, <3>2
    <3> QED BY <3>3
  <2>3. Body[At(x)][x] = Body[F][x]
    <3> HIDE DEF F
    <3> QED BY <1>0, <1>4, <2>1, <2>2
  <2> QED BY <2>1, <2>3
<1>6. F = Body[F]
  <2> HIDE DEF F
  <2>1. Body[F] \in [D -> Y]
    BY <1>4
  <2> QED BY <1>4, <1>5, <2>1
<1> QED BY <1>4, <1>6 DEF HasSolution

-----------------------------------------------------------------------------
(***************************************************************************)
(* A list that is gone through from one end to the other.                  *)
(***************************************************************************)
LEMMA UpwardInduction ==
  ASSUME NEW N \in Nat, NEW S, 0 \in S, \A i \in 1..N : i - 1 \in S => i \in S
  PROVE  0..N \subseteq S
<1> DEFINE T == {n \in Nat : n > N} \cup S
<1>1. \A n \in Nat : n \in T => n + 1 \in T
  <2> SUFFICES ASSUME NEW n \in Nat, n \in S, n < N PROVE n + 1 \in S
    OBVIOUS
  <2>1. n + 1 \in 1..N /\ (n + 1) - 1 = n
    OBVIOUS
  <2> QED BY <2>1
<1>2. Nat \subseteq T
  <2>1. 0 \in T
    OBVIOUS
  <2> HIDE DEF T
  <2> QED BY <1>1, <2>1, NatSetInduction
<1> QED BY <1>2

LEMMA DownwardInduction ==
  ASSUME NEW N \in Nat, NEW S, N + 1 \in S, \A i \in 1..N : i + 1 \in S => i \in S
  PROVE  1..N + 1 \subseteq S
<1> DEFINE T == {n \in Nat : n <= N => N + 1 - n \in S}
<1>1. 0 \in T
  OBVIOUS
<1>2. \A n \in Nat : n \in T => n + 1 \in T
  <2> SUFFICES ASSUME NEW n \in Nat, n \in T, n + 1 <= N PROVE N + 1 - (n + 1) \in S
    OBVIOUS
  <2>1. N + 1 - n \in S
    OBVIOUS
  <2>2. N - n \in 1..N /\ (N - n) + 1 = N + 1 - n /\ N + 1 - (n + 1) = N - n
    OBVIOUS
  <2> QED BY <2>1, <2>2
<1>3. Nat \subseteq T
  <2> HIDE DEF T
  <2> QED BY <1>1, <1>2, NatSetInduction
<1>4. ASSUME NEW i \in 1..N PROVE i \in S
  <2>1. N + 1 - i \in T /\ N + 1 - i <= N /\ N + 1 - (N + 1 - i) = i
    BY <1>3
  <2> QED BY <2>1
<1> QED BY <1>4

GoesUp(f, N, Y, first, G) ==
  f \in [0..N -> Y] /\ f[0] = first /\ \A i \in 1..N : f[i] = G[i][f[i - 1]]

GoesDown(f, N, Y, last, G) ==
  f \in [1..N + 1 -> Y] /\ f[N + 1] = last /\ \A i \in 1..N : f[i] = G[i][f[i + 1]]

LEMMA UpwardRecursion ==
  ASSUME NEW N \in Nat, NEW Y, NEW first \in Y, NEW G \in [1..N -> [Y -> Y]]
  PROVE  \E f : GoesUp(f, N, Y, first, G)
<1> DEFINE D == 0..N
           Step(f) == [i \in D |-> IF i = 0 THEN first ELSE G[i][f[i - 1]]]
           Body == [f \in [D -> Y] |-> Step(f)]
           rank == [i \in D |-> i]
           any  == [i \in D |-> first]
<1>1. ASSUME NEW f \in [D -> Y] PROVE Step(f) \in [D -> Y]
  <2>1. ASSUME NEW i \in D PROVE (IF i = 0 THEN first ELSE G[i][f[i - 1]]) \in Y
    <3>1. CASE i = 0
      BY <3>1
    <3>2. CASE i \in 1..N
      <4>1. f[i - 1] \in Y /\ G[i] \in [Y -> Y]
        BY <3>2
      <4> QED BY <3>2, <4>1
    <3> QED BY <3>1, <3>2
  <2> QED BY <2>1
<1>2. Body \in [[D -> Y] -> [D -> Y]]
  <2> HIDE DEF Step
  <2> QED BY <1>1
<1>3. ASSUME NEW f \in [D -> Y], NEW g \in [D -> Y], NEW i \in D,
             \A j \in D : rank[j] < rank[i] => f[j] = g[j]
      PROVE  Step(f)[i] = Step(g)[i]
  <2>1. i # 0 => i - 1 \in D /\ rank[i - 1] < rank[i]
    OBVIOUS
  <2>2. i # 0 => f[i - 1] = g[i - 1]
    BY <1>3, <2>1
  <2> QED BY <2>2
<1>4. LooksBelow(Body, D, Y, rank)
  <2>1. \A f \in [D -> Y] : Body[f] = Step(f)
    OBVIOUS
  <2> HIDE DEF Body, Step, rank, D
  <2> QED BY <1>3, <2>1 DEF LooksBelow
<1>5. rank \in [D -> Nat] /\ any \in [D -> Y]
  OBVIOUS
<1>6. HasSolution(Body, D, Y)
  <2> HIDE DEF Body, D, rank, any
  <2> QED BY <1>2, <1>4, <1>5, RecursionByRank
<1>7. PICK f \in [D -> Y] : f = Body[f]
  <2> HIDE DEF Body, D
  <2> QED BY <1>6 DEF HasSolution
<1>8. f = Step(f)
  <2> HIDE DEF Step
  <2> QED BY <1>7
<1>9. \A i \in D : f[i] = IF i = 0 THEN first ELSE G[i][f[i - 1]]
  <2>1. \A i \in D : Step(f)[i] = IF i = 0 THEN first ELSE G[i][f[i - 1]]
    OBVIOUS
  <2> HIDE DEF Step
  <2> QED BY <1>8, <2>1
<1>10. f[0] = first /\ \A i \in 1..N : f[i] = G[i][f[i - 1]]
  BY <1>9
<1>11. GoesUp(f, N, Y, first, G)
  BY <1>10 DEF GoesUp
<1> QED BY <1>11

LEMMA DownwardRecursion ==
  ASSUME NEW N \in Nat, NEW Y, NEW last \in Y, NEW G \in [1..N -> [Y -> Y]]
  PROVE  \E f : GoesDown(f, N, Y, last, G)
<1> DEFINE H == [j \in 1..N |-> G[N + 1 - j]]
<1>1. H \in [1..N -> [Y -> Y]]
  OBVIOUS
<1>2. PICK g : GoesUp(g, N, Y, last, H)
  <2> HIDE DEF H
  <2> QED BY <1>1, UpwardRecursion
<1>3. g \in [0..N -> Y] /\ g[0] = last /\ \A j \in 1..N : g[j] = H[j][g[j - 1]]
  <2> HIDE DEF H
  <2> QED BY <1>2 DEF GoesUp
<1> DEFINE f == [i \in 1..N + 1 |-> g[N + 1 - i]]
<1>4. f \in [1..N + 1 -> Y] /\ f[N + 1] = last
  BY <1>3
<1>5. ASSUME NEW i \in 1..N PROVE f[i] = G[i][f[i + 1]]
  <2>1. N + 1 - i \in 1..N /\ N + 1 - (N + 1 - i) = i /\ (N + 1 - i) - 1 = N + 1 - (i + 1)
    OBVIOUS
  <2>2. f[i] = g[N + 1 - i] /\ f[i + 1] = g[(N + 1 - i) - 1] /\ H[N + 1 - i] = G[i]
    BY <2>1
  <2> HIDE DEF f, H
  <2> QED BY <1>3, <2>1, <2>2
<1> HIDE DEF f
<1> QED BY <1>4, <1>5 DEF GoesDown
=============================================================================
