--------------------------- MODULE LevelInduction ---------------------------
(***************************************************************************)
(* Induction over the levels of a table, in a form that does not quantify  *)
(* over operators: a least element of a set of naturals, and the existence *)
(* of a function that is given by its value at 0 and a step from each      *)
(* level to the next.                                                      *)
(***************************************************************************)
EXTENDS Integers, TLAPS, WellFoundedInduction

\* A non-empty set of naturals has a least element.
LEMMA LeastNat ==
  ASSUME NEW T \in SUBSET Nat, T # {}
  PROVE  \E x \in T : \A y \in T : x <= y
<1> DEFINE R == OpToRel(<, Nat)
<1>1. IsWellFoundedOn(R, Nat)
  BY NatLessThanWellFounded
<1>2. \A a, b \in Nat : a < b => <<a, b>> \in R
  BY DEF OpToRel
<1> HIDE DEF R
<1>3. PICK x \in T : \A y \in T : ~ (<<y, x>> \in R)
  BY <1>1, WFMin
<1>4. ASSUME NEW y \in T
      PROVE  x <= y
  <2>1. x \in Nat /\ y \in Nat
    OBVIOUS
  <2>2. ~ (y < x)
    BY <1>2, <1>3, <2>1
  <2> QED
    BY <2>1, <2>2
<1> QED
  BY <1>4

\* A non-empty set of naturals with an upper bound has a greatest element.
LEMMA GreatestNat ==
  ASSUME NEW N \in Nat, NEW T \in SUBSET (0 .. N), T # {}
  PROVE  \E x \in T : \A y \in T : y <= x
<1> DEFINE U == {u \in Nat : u <= N /\ N - u \in T}
<1>1. U \in SUBSET Nat /\ U # {}
  <2>1. PICK t \in T : TRUE
    OBVIOUS
  <2>2. t \in 0 .. N /\ N - t \in Nat /\ N - t <= N /\ N - (N - t) = t
    OBVIOUS
  <2> QED
    BY <2>1, <2>2
<1>2. PICK u \in U : \A v \in U : u <= v
  <2> HIDE DEF U
  <2> QED
    BY <1>1, LeastNat
<1>3. u \in Nat /\ u <= N /\ N - u \in T
  BY <1>2
<1>4. ASSUME NEW y \in T
      PROVE  y <= N - u
  <2>1. y \in 0 .. N
    OBVIOUS
  <2>2. N - y \in Nat /\ N - y <= N /\ N - (N - y) = y
    BY <2>1
  <2>3. N - y \in U
    BY <2>2
  <2>4. u <= N - y
    BY <1>2, <2>3
  <2> QED
    BY <1>3, <2>1, <2>4
<1> QED
  BY <1>3, <1>4

\* f is defined level by level up to m: by s0 at level 0 and by G above.
LevelTable(f, S, s0, G, m) ==
  /\ f \in [0 .. m -> S]
  /\ f[0] = s0
  /\ \A k \in 1 .. m : f[k] = G[<<k, f[k - 1]>>]
HasTable(S, s0, G, m) == \E f : LevelTable(f, S, s0, G, m)

\* Such a table exists for every height.
LEMMA TableExists ==
  ASSUME NEW S, NEW s0 \in S, NEW G \in [Nat \X S -> S], NEW N \in Nat
  PROVE  HasTable(S, s0, G, N)
<1> DEFINE T == {a \in Nat : ~ HasTable(S, s0, G, a)}
<1>1. SUFFICES ASSUME T # {}
               PROVE  FALSE
  OBVIOUS
<1>2. T \in SUBSET Nat
  OBVIOUS
<1>3. \A a : a \in T <=> a \in Nat /\ ~HasTable(S, s0, G, a)
  OBVIOUS
<1> HIDE DEF T
<1>4. PICK m \in T : \A y \in T : m <= y
  BY <1>1, <1>2, LeastNat
<1>5. m \in Nat
  BY <1>2
<1>6. m # 0
  <2> DEFINE f == [k \in 0 .. 0 |-> s0]
  <2>1. f \in [0 .. 0 -> S] /\ f[0] = s0
    OBVIOUS
  <2>2. 1 .. 0 = {}
    OBVIOUS
  <2> HIDE DEF f
  <2>3. LevelTable(f, S, s0, G, 0)
    BY <2>1, <2>2 DEF LevelTable
  <2> QED
    BY <2>3, <1>3 DEF HasTable
<1>7. m - 1 \in Nat
  BY <1>6, <1>5
<1>8. m - 1 \notin T
  BY <1>4, <1>7, <1>5
<1>9. PICK f : LevelTable(f, S, s0, G, m - 1)
  BY <1>7, <1>8, <1>3 DEF HasTable
<1>10. HasTable(S, s0, G, m)
  <2> DEFINE g == [k \in 0 .. m |-> IF k = m THEN G[<<m, f[m - 1]>>] ELSE f[k]]
  <2>1. m \in Nat /\ m - 1 \in 0 .. m - 1 /\ m \in 0 .. m /\ 0 \in 0 .. m
    BY <1>7, <1>5
  <2>2. f \in [0 .. m - 1 -> S] /\ f[0] = s0
    BY <1>9 DEF LevelTable
  <2>3. f[m - 1] \in S
    BY <2>1, <2>2
  <2>4. G[<<m, f[m - 1]>>] \in S
    BY <2>1, <2>3
  <2>5. g \in [0 .. m -> S]
    <3> SUFFICES ASSUME NEW k \in 0 .. m, k # m
                 PROVE  f[k] \in S
      BY <2>4
    <3>1. k \in 0 .. m - 1
      BY <2>1
    <3> QED
      BY <2>2, <3>1
  <2>6. g[0] = s0
    BY <1>6, <2>1, <2>2
  <2>7. ASSUME NEW k \in 1 .. m
        PROVE  g[k] = G[<<k, g[k - 1]>>]
    <3>1. k \in 0 .. m /\ k - 1 \in 0 .. m /\ k - 1 # m
      BY <2>1
    <3>2. g[k - 1] = f[k - 1]
      BY <3>1
    <3>3. CASE k = m
      BY <3>3, <2>1, <3>2
    <3>4. CASE k # m
      <4>1. k \in 1 .. m - 1
        BY <3>4, <2>1
      <4>2. f[k] = G[<<k, f[k - 1]>>]
        BY <4>1, <1>9 DEF LevelTable
      <4>3. g[k] = f[k]
        BY <3>1, <3>4
      <4> QED
        BY <4>2, <4>3, <3>2
    <3> QED
      BY <3>3, <3>4
  <2> HIDE DEF g
  <2> QED
    BY <2>5, <2>6, <2>7 DEF LevelTable, HasTable
<1> QED
  BY <1>10, <1>3, <1>4
=============================================================================
