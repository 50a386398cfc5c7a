----------------------------- MODULE KpmProofs ------------------------------
(***************************************************************************)
(* Proofs about the physical memory manager, for every page size, number   *)
(* of orders, memory size, memory map, request and chunk; and about the    *)
(* builtins that drive it, which with it implement the frame allocator for *)
(* every sequence of commands that frees only what alloc printed.          *)
(***************************************************************************)
EXTENDS AllocBuiltin, LevelInduction, FiniteSetTheorems

(***************************************************************************)
(* Orders and blocks                                                       *)
(***************************************************************************)

\* The orders are an initial segment of the naturals.
LEMMA OrdersFacts ==
  /\ Orders = 0 .. (KPM_NORDERS - 1)
  /\ KPM_NORDERS - 1 \in Nat
  /\ 0 \in Orders
  /\ \A n \in Orders : n \in Nat
  /\ \A n \in Orders : n # 0 => n - 1 \in Orders /\ n \in 1 .. (KPM_NORDERS - 1)
BY KpmAssumption DEF Orders

\* 1 << n is positive and doubles from one order to the next.
LEMMA FramesPerBlockFacts ==
  /\ FramesPerBlock \in [Orders -> Nat \ {0}]
  /\ FramesPerBlock[0] = 1
  /\ \A n \in Orders : n # 0 => FramesPerBlock[n] = 2 * FramesPerBlock[n - 1]
<1> DEFINE S == Nat \ {0}
           G == [p \in Nat \X S |-> 2 * p[2]]
           Def(f) == f = [n \in Orders |-> IF n = 0 THEN 1 ELSE 2 * f[n - 1]]
           N == KPM_NORDERS - 1
<1>1. G \in [Nat \X S -> S]
  <2> SUFFICES ASSUME NEW p \in Nat \X S
               PROVE  2 * p[2] \in S
    OBVIOUS
  <2>1. p[2] \in Nat /\ p[2] # 0
    OBVIOUS
  <2> QED
    BY <2>1
<1>2. HasTable(S, 1, G, N)
  <2> HIDE DEF S, G
  <2>1. 1 \in S
    BY DEF S
  <2> QED
    BY <1>1, <2>1, OrdersFacts, TableExists
<1>3. PICK f : LevelTable(f, S, 1, G, N)
  BY <1>2 DEF HasTable
<1>4. f \in [Orders -> S] /\ f[0] = 1
  BY <1>3, OrdersFacts DEF LevelTable
<1>5. \A n \in Orders : n # 0 => f[n] = 2 * f[n - 1]
  <2> SUFFICES ASSUME NEW n \in Orders, n # 0
               PROVE  f[n] = 2 * f[n - 1]
    OBVIOUS
  <2>1. n \in 1 .. N /\ n - 1 \in Orders /\ n \in Nat
    BY OrdersFacts
  <2>2. f[n] = G[<<n, f[n - 1]>>]
    BY <1>3, <2>1 DEF LevelTable
  <2>3. <<n, f[n - 1]>> \in Nat \X S
    BY <1>4, <2>1
  <2> QED
    BY <2>2, <2>3
<1>6. Def(f)
  <2>1. f = [n \in Orders |-> f[n]]
    BY <1>4
  <2>2. \A n \in Orders : f[n] = IF n = 0 THEN 1 ELSE 2 * f[n - 1]
    BY <1>4, <1>5
  <2> QED
    BY <2>1, <2>2
<1>7. Def(FramesPerBlock)
  <2>1. FramesPerBlock = CHOOSE g : Def(g)
    BY DEF FramesPerBlock
  <2> HIDE DEF Def
  <2> QED
    BY <1>6, <2>1
<1>8. /\ FramesPerBlock[0] = 1
      /\ \A n \in Orders : n # 0 => FramesPerBlock[n] = 2 * FramesPerBlock[n - 1]
  BY <1>7, OrdersFacts
<1>9. FramesPerBlock = f
  <2> SUFFICES ASSUME FramesPerBlock # f
               PROVE  FALSE
    OBVIOUS
  <2> DEFINE T == {n \in Orders : FramesPerBlock[n] # f[n]}
  <2>1. T # {} /\ T \in SUBSET Nat
    BY <1>6, <1>7, OrdersFacts
  <2>2. PICK m \in T : \A y \in T : m <= y
    <3> HIDE DEF T
    <3> QED
      BY <2>1, LeastNat
  <2>3. m \in Orders /\ m # 0 /\ m - 1 \in Orders /\ m \in Nat
    BY <1>4, <1>8, OrdersFacts
  <2>4. m - 1 \notin T
    BY <2>2, <2>3
  <2> QED
    BY <2>2, <2>3, <2>4, <1>5, <1>8
<1> QED
  BY <1>4, <1>8, <1>9

\* The frames are an initial segment of the naturals.
LEMMA FramesFacts ==
  /\ NFrames \in Nat
  /\ \A f \in Frames : f \in Nat
<1>1. FramesPerBlock[KPM_NORDERS - 1] \in Nat \ {0}
  BY FramesPerBlockFacts, OrdersFacts
<1>2. \A x \in Nat, b \in Nat \ {0} : x % b \in Nat /\ x \div b \in Nat
  OBVIOUS
<1>3. (MEM % ADDR_SPACE) \div PAGE_SIZE \in Nat
  BY <1>2, KpmAssumption
<1>4. ((MEM % ADDR_SPACE) \div PAGE_SIZE) % ADDR_SPACE \in Nat
  BY <1>2, <1>3, KpmAssumption
<1>5. NFrames \in Nat
  BY <1>1, <1>2, <1>4 DEF NFrames, Align
<1> QED
  BY <1>5 DEF Frames

\* A block of order 0 is its frame; any other is its two children.
LEMMA BlockSplit ==
  /\ \A i \in Nat : FramesOf(0, i) = {i}
  /\ \A n \in Orders, i \in Nat :
       n # 0 => FramesOf(n, i) = FramesOf(n - 1, 2 * i) \cup FramesOf(n - 1, 2 * i + 1)
<1>1. ASSUME NEW i \in Nat
      PROVE  FramesOf(0, i) = {i}
  BY FramesPerBlockFacts, OrdersFacts DEF FramesOf
<1>2. ASSUME NEW n \in Orders, NEW i \in Nat, n # 0
      PROVE  FramesOf(n, i) = FramesOf(n - 1, 2 * i) \cup FramesOf(n - 1, 2 * i + 1)
  <2> DEFINE b == FramesPerBlock[n - 1]
             q == i * b
  <2>1. b \in Nat /\ b # 0 /\ FramesPerBlock[n] = 2 * b
    BY <1>2, FramesPerBlockFacts, OrdersFacts
  <2>2. q \in Nat /\ i * (2 * b) = 2 * q /\ (2 * i) * b = 2 * q
          /\ (2 * i + 1) * b = 2 * q + b
    BY <2>1
  <2> HIDE DEF b, q
  <2>3. FramesOf(n, i) = (2 * q) .. (2 * q + 2 * b - 1)
    BY <2>1, <2>2 DEF FramesOf
  <2>4. FramesOf(n - 1, 2 * i) = (2 * q) .. (2 * q + b - 1)
    BY <2>1, <2>2 DEF FramesOf, b
  <2>5. FramesOf(n - 1, 2 * i + 1) = (2 * q + b) .. (2 * q + b + b - 1)
    BY <2>1, <2>2 DEF FramesOf, b
  <2> QED
    BY <2>1, <2>2, <2>3, <2>4, <2>5
<1> QED
  BY <1>1, <1>2

\* The first frame of block i of any order is frame i or a later one.
LEMMA BlockReach ==
  ASSUME NEW n \in Orders, NEW i \in Nat
  PROVE  /\ FramesOf(n, i) # {}
         /\ FramesOf(n, i) \subseteq Frames => i \in Frames
<1> DEFINE b == FramesPerBlock[n]
           q == i * b
<1>1. b \in Nat /\ b # 0
  BY FramesPerBlockFacts
<1>2. q \in Nat /\ i <= q
  BY <1>1
<1> HIDE DEF b, q
<1>3. FramesOf(n, i) = q .. (q + b - 1)
  BY DEF FramesOf, b, q
<1>4. q \in FramesOf(n, i)
  BY <1>1, <1>2, <1>3
<1> QED
  BY <1>2, <1>4, FramesFacts DEF Frames

-----------------------------------------------------------------------------
(***************************************************************************)
(* Updating the tree                                                       *)
(***************************************************************************)

\* The blocks kpm_update_order visits: all those the frames R reach into.
LEMMA TouchedFacts ==
  ASSUME NEW n \in Orders, NEW R \in SUBSET Frames
  PROVE  /\ Touched(n, R) \subseteq Frames
         /\ \A i \in Nat : i \notin Touched(n, R) => FramesOf(n, i) \cap R = {}
<1> DEFINE b == FramesPerBlock[n]
<1>1. b \in Nat \ {0} /\ NFrames \in Nat /\ \A f \in R : f \in Nat /\ f < NFrames
  BY FramesPerBlockFacts, FramesFacts DEF Frames
<1>2. Touched(n, R) = {f \div b : f \in R}
  BY DEF Touched
<1>3. \A i : FramesOf(n, i) = (i * b) .. (i * b + b - 1)
  BY DEF FramesOf
<1> HIDE DEF b
<1>4. \A f \in Nat : f \div b \in Nat /\ f \div b <= f
  BY <1>1
<1>5. ASSUME NEW i \in Nat, NEW f \in R, f \in FramesOf(n, i)
      PROVE  i = f \div b
  <2> DEFINE q == i * b
             r == f - q
  <2>1. q \in Nat /\ f \in q .. (q + b - 1) /\ f \in Nat
    BY <1>1, <1>3, <1>5
  <2>2. \A s \in 0 .. (b - 1) : (i * b + s) \div b = i
    BY <1>1
  <2>3. r \in 0 .. (b - 1) /\ f = q + r
    <3> HIDE DEF q
    <3> QED
      BY <1>1, <2>1
  <2> HIDE DEF r
  <2> QED
    BY <2>2, <2>3
<1>6. Touched(n, R) \subseteq Frames
  BY <1>1, <1>2, <1>4 DEF Frames
<1>7. \A i \in Nat : i \notin Touched(n, R) => FramesOf(n, i) \cap R = {}
  BY <1>2, <1>5
<1> QED
  BY <1>6, <1>7

\* What the loop over the orders computes: order 0 as given, and every other
\* order from the one below it.
LEMMA UpdateOrdersFacts ==
  ASSUME ~oob, TypeOK, NEW F \in SUBSET Frames, NEW R \in SUBSET Frames
  PROVE  /\ UpdateOrders(F, R) \in [Orders -> SUBSET Frames]
         /\ UpdateOrders(F, R)[0] = F
         /\ \A n \in Orders : n # 0 =>
              UpdateOrders(F, R)[n]
                = kpm_update_order(n, UpdateOrders(F, R)[n - 1], R)
<1> DEFINE S == SUBSET Frames
           N == KPM_NORDERS - 1
           Def(f) == f = [n \in Orders |->
                            IF n = 0 THEN F ELSE kpm_update_order(n, f[n - 1], R)]
           Up == UpdateOrders(F, R)
           G == [p \in Nat \X S |->
                   IF p[1] \in Orders THEN kpm_update_order(p[1], p[2], R) ELSE {}]
<1>1. \A n \in Orders : \A B : kpm_update_order(n, B, R) \in S
  BY TouchedFacts DEF kpm_update_order, TypeOK
<1>2. G \in [Nat \X S -> S]
  BY <1>1
<1>3. HasTable(S, F, G, N)
  <2> HIDE DEF S, G
  <2>1. F \in S
    BY DEF S
  <2> QED
    BY <1>2, <2>1, OrdersFacts, TableExists
<1>4. PICK f : LevelTable(f, S, F, G, N)
  BY <1>3 DEF HasTable
<1>5. f \in [Orders -> S] /\ f[0] = F
  BY <1>4, OrdersFacts DEF LevelTable
<1>6. \A n \in Orders : n # 0 => f[n] = kpm_update_order(n, f[n - 1], R)
  <2> SUFFICES ASSUME NEW n \in Orders, n # 0
               PROVE  f[n] = kpm_update_order(n, f[n - 1], R)
    OBVIOUS
  <2>1. n \in 1 .. N /\ n - 1 \in Orders /\ n \in Nat
    BY OrdersFacts
  <2>2. f[n] = G[<<n, f[n - 1]>>]
    BY <1>4, <2>1 DEF LevelTable
  <2>3. <<n, f[n - 1]>> \in Nat \X S
    BY <1>5, <2>1
  <2> QED
    BY <2>2, <2>3
<1>7. Def(f)
  <2>1. f = [n \in Orders |-> f[n]]
    BY <1>5
  <2>2. \A n \in Orders :
          f[n] = IF n = 0 THEN F ELSE kpm_update_order(n, f[n - 1], R)
    BY <1>5, <1>6
  <2> QED
    BY <2>1, <2>2
<1>8. Def(Up)
  <2>1. Up = CHOOSE g : Def(g)
    BY DEF UpdateOrders
  <2> HIDE DEF Def, Up
  <2> QED
    BY <1>7, <2>1
<1>9. Up \in [Orders -> S]
  <2>1. \A n \in Orders : Up[n] \in S
    <3> HIDE DEF Up
    <3> QED
      BY <1>1, <1>8
  <2> HIDE DEF Up
  <2> QED
    BY <1>8, <2>1
<1> HIDE DEF Up
<1>10. /\ Up[0] = F
       /\ \A n \in Orders : n # 0 => Up[n] = kpm_update_order(n, Up[n - 1], R)
  BY <1>8, OrdersFacts
<1> QED
  BY <1>9, <1>10 DEF Up

\* OrdersAgree, over all naturals: no block outside the memory is free.
LEMMA AgreeEverywhere ==
  ASSUME ~oob, TypeOK, OrdersAgree, NEW n \in Orders, NEW i \in Nat
  PROVE  i \in free[n] <=> FramesOf(n, i) \subseteq free[0]
<1>1. free[n] \subseteq Frames /\ free[0] \subseteq Frames
  BY OrdersFacts DEF TypeOK
<1>2. CASE i \in Frames
  BY <1>2 DEF OrdersAgree
<1>3. CASE i \notin Frames
  BY <1>1, <1>3, BlockReach
<1> QED
  BY <1>2, <1>3

\* After a change of order 0 within R, the updated orders agree with it.
LEMMA UpdateAgrees ==
  ASSUME ~oob, TypeOK, OrdersAgree,
         NEW F \in SUBSET Frames, NEW R \in SUBSET Frames,
         F \ R = free[0] \ R
  PROVE  \A n \in Orders, i \in Frames :
           i \in UpdateOrders(F, R)[n] <=> FramesOf(n, i) \subseteq F
<1> DEFINE Up == UpdateOrders(F, R)
           Agree(n) == \A i \in Nat : i \in Up[n] <=> FramesOf(n, i) \subseteq F
           T == {n \in Orders : ~Agree(n)}
<1>1. /\ Up \in [Orders -> SUBSET Frames]
      /\ Up[0] = F
      /\ \A n \in Orders : n # 0 => Up[n] = kpm_update_order(n, Up[n - 1], R)
  BY UpdateOrdersFacts
<1> HIDE DEF Up
<1>2. SUFFICES ASSUME T # {}
               PROVE  FALSE
  BY FramesFacts DEF Up
<1>3. T \in SUBSET Nat
  BY OrdersFacts
<1>4. PICK m \in T : \A y \in T : m <= y
  <2> HIDE DEF T
  <2> QED
    BY <1>2, <1>3, LeastNat
<1>5. m \in Orders /\ m \in Nat /\ ~Agree(m)
  BY <1>3
<1>6. m # 0
  <2>1. Agree(0)
    BY <1>1, BlockSplit
  <2> QED
    BY <1>5, <2>1
<1>7. m - 1 \in Orders /\ Agree(m - 1)
  <2>1. m - 1 \in Orders /\ m - 1 < m /\ m - 1 \in Nat
    BY <1>5, <1>6, OrdersFacts
  <2>2. m - 1 \notin T
    BY <1>4, <1>5, <2>1
  <2> QED
    BY <2>1, <2>2
<1>8. ASSUME NEW i \in Nat
      PROVE  i \in Up[m] <=> FramesOf(m, i) \subseteq F
  <2>1. Up[m] = (free[m] \ Touched(m, R))
                  \cup {j \in Touched(m, R) : {2 * j, 2 * j + 1} \subseteq Up[m - 1]}
    BY <1>1, <1>5, <1>6 DEF kpm_update_order
  <2>2. Up[m] \subseteq Frames
    BY <1>1, <1>5
  <2>3. CASE i \notin Frames
    BY <1>5, <2>2, <2>3, BlockReach
  <2>4. CASE i \in Touched(m, R)
    <3>1. i \in Up[m] <=> 2 * i \in Up[m - 1] /\ 2 * i + 1 \in Up[m - 1]
      BY <2>1, <2>4
    <3>2. /\ 2 * i \in Up[m - 1] <=> FramesOf(m - 1, 2 * i) \subseteq F
          /\ 2 * i + 1 \in Up[m - 1] <=> FramesOf(m - 1, 2 * i + 1) \subseteq F
      BY <1>7
    <3>3. FramesOf(m, i) = FramesOf(m - 1, 2 * i) \cup FramesOf(m - 1, 2 * i + 1)
      BY <1>5, <1>6, BlockSplit
    <3> QED
      BY <3>1, <3>2, <3>3
  <2>5. CASE i \in Frames /\ i \notin Touched(m, R)
    <3>1. i \in Up[m] <=> i \in free[m]
      BY <2>1, <2>5
    <3>2. FramesOf(m, i) \cap R = {}
      BY <1>5, TouchedFacts, <2>5
    <3>3. i \in free[m] <=> FramesOf(m, i) \subseteq free[0]
      BY <1>5, AgreeEverywhere
    <3>4. FramesOf(m, i) \subseteq free[0] <=> FramesOf(m, i) \subseteq F
      BY <3>2
    <3> QED
      BY <3>1, <3>3, <3>4
  <2> QED
    BY <2>3, <2>4, <2>5
<1> QED
  BY <1>5, <1>8

-----------------------------------------------------------------------------
(***************************************************************************)
(* The inductive invariant                                                 *)
(***************************************************************************)

\* OrdersAgree is what makes FreeFramesEnabled and the type of the bitmaps
\* survive kpm_alloc, which marks whole blocks it found in a higher order.
IndInv == ~oob /\ TypeOK /\ OrdersAgree /\ FreeFramesEnabled

\* It holds until a call leaves the bitmaps, where the behaviour ends.
SafeInv == oob \/ IndInv

\* A change of the bitmaps that every operation is made of.
LEMMA SetFramesKeepsInv ==
  ASSUME IndInv, NEW R, NEW E, NEW F,
         R \subseteq Frames => /\ E \subseteq Frames
                               /\ F \subseteq E
                               /\ F \ R = free[0] \ R,
         SetFrames(R, E, F),
         step' \in Nat, chunk' \in [addr : Nat, size : Nat], ret' \in {0, -1}
  PROVE  SafeInv'
<1>1. CASE R \subseteq Frames
  <2>1. /\ enabled' = E
        /\ free' = UpdateOrders(F, R)
        /\ oob' = FALSE
    BY <1>1 DEF SetFrames
  <2>2. F \in SUBSET Frames /\ R \in SUBSET Frames /\ F \ R = free[0] \ R
    BY <1>1
  <2>3. free' \in [Orders -> SUBSET Frames] /\ free'[0] = F
    BY <2>1, <2>2, UpdateOrdersFacts DEF IndInv
  <2>4. \A n \in Orders, i \in Frames : i \in free'[n] <=> FramesOf(n, i) \subseteq F
    BY <2>1, <2>2, UpdateAgrees DEF IndInv
  <2>5. TypeOK'
    BY <1>1, <2>1, <2>3 DEF TypeOK, IndInv
  <2>6. OrdersAgree'
    BY <2>3, <2>4 DEF OrdersAgree
  <2>7. FreeFramesEnabled'
    BY <1>1, <2>1, <2>3 DEF FreeFramesEnabled
  <2> QED
    BY <2>1, <2>5, <2>6, <2>7 DEF IndInv, SafeInv
<1>2. CASE ~(R \subseteq Frames)
  BY <1>2 DEF SetFrames, SafeInv
<1> QED
  BY <1>1, <1>2

\* A step that leaves the bitmaps alone.
LEMMA UnchangedKeepsInv ==
  ASSUME IndInv, UNCHANGED bitmaps,
         step' \in Nat, chunk' \in [addr : Nat, size : Nat], ret' \in {0, -1}
  PROVE  IndInv'
BY DEF IndInv, bitmaps, TypeOK, OrdersAgree, FreeFramesEnabled

\* kpm_enable and kpm_disable, for any region at all.
LEMMA RegionKeepsInv ==
  ASSUME IndInv, NEW base, NEW limit,
         kpm_enable(base, limit) \/ kpm_disable(base, limit),
         step' \in Nat, UNCHANGED outvars
  PROVE  SafeInv'
<1>1. chunk' \in [addr : Nat, size : Nat] /\ ret' \in {0, -1}
  BY DEF outvars, IndInv, TypeOK
<1>2. CASE UNCHANGED bitmaps
  BY <1>1, <1>2, UnchangedKeepsInv DEF SafeInv
<1>3. ASSUME NEW R, SetFrames(R, enabled \cup R, free[0] \cup R)
      PROVE  SafeInv'
  <2>1. R \subseteq Frames => /\ enabled \cup R \subseteq Frames
                              /\ free[0] \cup R \subseteq enabled \cup R
                              /\ (free[0] \cup R) \ R = free[0] \ R
    BY DEF IndInv, TypeOK, FreeFramesEnabled
  <2> QED
    BY <1>1, <1>3, <2>1, SetFramesKeepsInv
<1>4. ASSUME NEW R, SetFrames(R, enabled \ R, free[0] \ R)
      PROVE  SafeInv'
  <2>1. R \subseteq Frames => /\ enabled \ R \subseteq Frames
                              /\ free[0] \ R \subseteq enabled \ R
                              /\ (free[0] \ R) \ R = free[0] \ R
    BY DEF IndInv, TypeOK, FreeFramesEnabled
  <2> QED
    BY <1>1, <1>4, <2>1, SetFramesKeepsInv
<1> QED
  BY <1>2, <1>3, <1>4 DEF kpm_enable, kpm_disable

-----------------------------------------------------------------------------
(***************************************************************************)
(* kpm_alloc and kpm_free                                                  *)
(***************************************************************************)

\* The block kpm_alloc finds: a free block of the highest candidate order.
LEMMA ChosenBlock ==
  ASSUME IndInv, NEW bytes, Candidates(bytes) # {}
  PROVE  LET o == ChosenOrder(bytes)
             i == bitmap_ffu(free[o])
         IN  /\ o \in Candidates(bytes) /\ o \in Orders
             /\ \A p \in Candidates(bytes) : p <= o
             /\ i \in Nat /\ i \in free[o]
             /\ FramesOf(o, i) \subseteq free[0]
             /\ FramesOf(o, i) \subseteq Frames
<1> DEFINE o == ChosenOrder(bytes)
           i == bitmap_ffu(free[o])
           C == Candidates(bytes)
<1>1. C \in SUBSET (0 .. (KPM_NORDERS - 1))
  BY OrdersFacts DEF Candidates
<1>2. \E x \in C : \A y \in C : y <= x
  <2> HIDE DEF C
  <2>1. C # {}
    BY DEF C
  <2> QED
    BY <1>1, <2>1, OrdersFacts, GreatestNat
<1>3. o \in C /\ \A p \in C : p <= o
  BY <1>2 DEF ChosenOrder
<1>4. o \in Orders /\ free[o] # {}
  BY <1>3 DEF Candidates
<1> HIDE DEF o
<1>5. free[o] \in SUBSET Nat
  BY <1>4, FramesFacts DEF IndInv, TypeOK
<1>6. \E x \in free[o] : \A y \in free[o] : x <= y
  BY <1>4, <1>5, LeastNat
<1>7. i \in free[o]
  BY <1>6 DEF bitmap_ffu
<1> HIDE DEF i
<1>8. i \in Nat
  BY <1>5, <1>7
<1>9. FramesOf(o, i) \subseteq free[0]
  BY <1>4, <1>7, <1>8, AgreeEverywhere DEF IndInv
<1>10. free[0] \subseteq Frames
  BY OrdersFacts DEF IndInv, TypeOK
<1> QED
  BY <1>3, <1>4, <1>7, <1>8, <1>9, <1>10 DEF o, i

\* A successful kpm_alloc, whatever block it finds.
LEMMA AllocOkKeepsInv ==
  ASSUME IndInv, NEW bytes, kpm_alloc_ok(bytes), step' \in Nat
  PROVE  IndInv'
<1> DEFINE o == ChosenOrder(bytes)
           i == bitmap_ffu(free[o])
           R == FramesOf(o, i)
<1>1. /\ Candidates(bytes) # {}
      /\ SetFrames(R, enabled, free[0] \ R)
      /\ chunk' = [addr |-> i * PAGE_SIZE * FramesPerBlock[o],
                   size |-> PAGE_SIZE * FramesPerBlock[o]]
      /\ ret' = 0
  BY DEF kpm_alloc_ok
<1>2. o \in Orders /\ i \in Nat /\ R \subseteq Frames
  BY <1>1, ChosenBlock
<1> HIDE DEF o, i, R
<1>3. FramesPerBlock[o] \in Nat
  BY <1>2, FramesPerBlockFacts
<1>4. /\ PAGE_SIZE * FramesPerBlock[o] \in Nat
      /\ i * PAGE_SIZE * FramesPerBlock[o] \in Nat
  BY <1>2, <1>3, KpmAssumption
<1>5. chunk' \in [addr : Nat, size : Nat] /\ ret' \in {0, -1}
  BY <1>1, <1>4
<1>6. /\ enabled \subseteq Frames
      /\ free[0] \ R \subseteq enabled
      /\ (free[0] \ R) \ R = free[0] \ R
  BY DEF IndInv, TypeOK, FreeFramesEnabled
<1>7. ~oob'
  BY <1>1, <1>2 DEF SetFrames
<1>8. SafeInv'
  BY <1>1, <1>5, <1>6, SetFramesKeepsInv
<1> QED
  BY <1>7, <1>8 DEF SafeInv

\* kpm_free, for any chunk at all.
LEMMA FreeKeepsInv ==
  ASSUME IndInv, NEW c, kpm_free(c),
         step' \in Nat, chunk' \in [addr : Nat, size : Nat], ret' \in {0, -1}
  PROVE  SafeInv'
<1> DEFINE R == ChunkFrames(c)
<1>1. CASE UNCHANGED bitmaps
  BY <1>1, UnchangedKeepsInv DEF SafeInv
<1>2. CASE SetFrames(R, enabled, free[0] \cup (R \cap enabled))
  <2> HIDE DEF R
  <2>1. R \subseteq Frames =>
          /\ enabled \subseteq Frames
          /\ free[0] \cup (R \cap enabled) \subseteq enabled
          /\ (free[0] \cup (R \cap enabled)) \ R = free[0] \ R
    BY DEF IndInv, TypeOK, FreeFramesEnabled
  <2> QED
    BY <1>2, <2>1, SetFramesKeepsInv
<1> QED
  BY <1>1, <1>2 DEF kpm_free

\* The state kpm_init starts from.
LEMMA InitInv == Init => IndInv
<1> SUFFICES ASSUME Init
             PROVE  IndInv
  OBVIOUS
<1>1. TypeOK
  BY DEF Init, TypeOK
<1>2. OrdersAgree
  <2> SUFFICES ASSUME NEW n \in Orders, NEW i \in Frames
               PROVE  ~(FramesOf(n, i) \subseteq {})
    BY OrdersFacts DEF OrdersAgree, Init
  <2> QED
    BY BlockReach, FramesFacts
<1>3. FreeFramesEnabled
  BY OrdersFacts DEF Init, FreeFramesEnabled
<1> QED
  BY <1>1, <1>2, <1>3 DEF IndInv, Init

\* Every operation of the manager keeps the invariant.
LEMMA NextKeepsInv == IndInv /\ [Next]_kpmvars => SafeInv'
<1> SUFFICES ASSUME IndInv, [Next]_kpmvars
             PROVE  SafeInv'
  OBVIOUS
<1> USE DEF IndInv, TypeOK
<1>1. step \in Nat /\ chunk \in [addr : Nat, size : Nat] /\ ret \in {0, -1}
  OBVIOUS
<1> HIDE DEF IndInv, TypeOK
<1>2. CASE KpmInitEntry
  <2>1. step' \in Nat /\ UNCHANGED outvars
    BY <1>1, <1>2 DEF KpmInitEntry
  <2>2. \/ UNCHANGED bitmaps
        \/ \E base, limit : kpm_enable(base, limit)
    BY <1>2 DEF KpmInitEntry
  <2>3. CASE UNCHANGED bitmaps
    BY <1>1, <2>1, <2>3, UnchangedKeepsInv DEF outvars, SafeInv
  <2> QED
    BY <2>1, <2>2, <2>3, RegionKeepsInv
<1>3. CASE KpmInitReserve
  <2>1. step' \in Nat /\ UNCHANGED outvars
    BY <1>1, <1>3 DEF KpmInitReserve
  <2>2. \E base, limit : kpm_disable(base, limit)
    BY <1>3 DEF KpmInitReserve
  <2> QED
    BY <2>1, <2>2, RegionKeepsInv
<1>4. ASSUME NEW bytes \in SIZES, Alloc(bytes)
      PROVE  SafeInv'
  <2>1. step' \in Nat
    BY <1>1, <1>4 DEF Alloc, bootvars
  <2>2. CASE kpm_alloc_ok(bytes)
    BY <2>1, <2>2, AllocOkKeepsInv DEF SafeInv
  <2>3. CASE kpm_alloc_fail(bytes)
    BY <1>1, <2>1, <2>3, UnchangedKeepsInv DEF kpm_alloc_fail, SafeInv
  <2> QED
    BY <1>4, <2>2, <2>3 DEF Alloc, kpm_alloc
<1>5. ASSUME NEW c \in CHUNKS, Free(c)
      PROVE  SafeInv'
  <2>1. /\ kpm_free(c) /\ step' \in Nat
        /\ chunk' \in [addr : Nat, size : Nat] /\ ret' \in {0, -1}
    BY <1>1, <1>5 DEF Free, bootvars, outvars
  <2> QED
    BY <2>1, FreeKeepsInv
<1>6. CASE UNCHANGED kpmvars
  BY <1>1, <1>6, UnchangedKeepsInv DEF kpmvars, bitmaps, bootvars, outvars, SafeInv
<1> QED
  BY <1>2, <1>3, <1>4, <1>5, <1>6 DEF Next

\* A call that left the bitmaps is the last step.
LEMMA EscapeEnds == oob /\ [Next]_kpmvars => UNCHANGED kpmvars
BY DEF Next, KpmInitEntry, KpmInitReserve, Alloc, Free, Running

\* The inductive invariant holds in every reachable state, whatever memory map
\* the machine has, whatever is asked of kpm_alloc and handed to kpm_free, up to
\* a call that leaves the bitmaps.
THEOREM InvHolds == Spec => []SafeInv
<1>1. Init => SafeInv
  BY InitInv DEF SafeInv
<1>2. SafeInv /\ [Next]_kpmvars => SafeInv'
  <2>1. oob /\ [Next]_kpmvars => SafeInv'
    BY EscapeEnds DEF SafeInv, kpmvars, bitmaps
  <2> QED
    BY <2>1, NextKeepsInv DEF SafeInv
<1> QED
  BY <1>1, <1>2, PTL DEF Spec

\* kpm_update_order keeps the eleven bitmaps in agreement: after any sequence
\* of operations a block's bit is clear exactly when all its frames are free.
THEOREM OrdersAlwaysAgree == Spec => []OrdersAgree
<1>1. SafeInv => OrdersAgree
  BY DEF SafeInv, IndInv, OrdersAgree
<1> QED
  BY <1>1, InvHolds, PTL

\* No call of kpm_free makes a frame available that was not enabled.
THEOREM FreeAlwaysEnabled == Spec => []FreeFramesEnabled
<1>1. SafeInv => FreeFramesEnabled
  BY DEF SafeInv, IndInv, FreeFramesEnabled
<1> QED
  BY <1>1, InvHolds, PTL

-----------------------------------------------------------------------------
(***************************************************************************)
(* What kpm_alloc returns                                                  *)
(***************************************************************************)

\* Higher orders have bigger blocks.
LEMMA BlocksGrow ==
  ASSUME NEW n \in Orders, NEW m \in Orders, n <= m
  PROVE  FramesPerBlock[n] <= FramesPerBlock[m]
<1> DEFINE T == {k \in Orders : n <= k /\ FramesPerBlock[n] > FramesPerBlock[k]}
<1>1. SUFFICES ASSUME T # {}
               PROVE  FALSE
  BY FramesPerBlockFacts
<1>2. PICK k \in T : \A y \in T : k <= y
  <2>1. T \in SUBSET Nat
    BY OrdersFacts
  <2> HIDE DEF T
  <2> QED
    BY <1>1, <2>1, LeastNat
<1>3. k \in Orders /\ n <= k /\ k # n /\ k \in Nat /\ n \in Nat
  BY OrdersFacts, FramesPerBlockFacts
<1>4. k # 0 /\ k - 1 \in Orders /\ n <= k - 1
  BY <1>3, OrdersFacts
<1>5. k - 1 \notin T
  BY <1>2, <1>3
<1>6. FramesPerBlock[n] <= FramesPerBlock[k - 1]
  BY <1>4, <1>5, FramesPerBlockFacts
<1>7. FramesPerBlock[k] = 2 * FramesPerBlock[k - 1]
  BY <1>3, <1>4, FramesPerBlockFacts
<1>8. FramesPerBlock[n] > FramesPerBlock[k]
  BY <1>2
<1>9. {FramesPerBlock[n], FramesPerBlock[k], FramesPerBlock[k - 1]} \subseteq Nat
  BY <1>3, <1>4, FramesPerBlockFacts
<1> QED
  BY <1>6, <1>7, <1>8, <1>9

\* A block contains a block of every lower order.
LEMMA SubBlock ==
  ASSUME NEW n \in Orders, NEW m \in Orders, n <= m, NEW i \in Nat
  PROVE  \E j \in Nat : FramesOf(n, j) \subseteq FramesOf(m, i)
<1> DEFINE Has(k) == \E j \in Nat : FramesOf(k, j) \subseteq FramesOf(m, i)
           T == {u \in Nat : m - u \in Orders /\ ~Has(m - u)}
<1>0. n \in Nat /\ m \in Nat
  BY OrdersFacts
<1>1. SUFFICES ASSUME T # {}
               PROVE  FALSE
  <2>1. m - n \in Nat /\ m - (m - n) = n
    BY <1>0
  <2> QED
    BY <2>1
<1>2. PICK u \in T : \A y \in T : u <= y
  <2>1. T \in SUBSET Nat
    OBVIOUS
  <2> HIDE DEF T
  <2> QED
    BY <1>1, <2>1, LeastNat
<1>3. u \in Nat /\ m - u \in Orders /\ ~Has(m - u)
  BY <1>2
<1>4. u # 0
  <2>1. m - 0 = m
    BY <1>0
  <2>2. Has(m)
    OBVIOUS
  <2> QED
    BY <1>3, <2>1, <2>2
<1>5. u - 1 \in Nat /\ m - (u - 1) \in Orders
  BY <1>0, <1>3, <1>4, OrdersFacts
<1>6. u - 1 \notin T
  BY <1>2, <1>3, <1>5
<1>7. PICK j \in Nat : FramesOf(m - (u - 1), j) \subseteq FramesOf(m, i)
  BY <1>5, <1>6
<1> DEFINE k == m - (u - 1)
<1>8. k \in Orders /\ k # 0 /\ k - 1 = m - u
  BY <1>0, <1>3, <1>5, OrdersFacts
<1>9. FramesOf(k - 1, 2 * j) \subseteq FramesOf(k, j)
  <2> HIDE DEF k
  <2> QED
    BY <1>8, BlockSplit
<1>10. 2 * j \in Nat /\ FramesOf(m - u, 2 * j) \subseteq FramesOf(m, i)
  <2>1. FramesOf(m - u, 2 * j) \subseteq FramesOf(m - (u - 1), j)
    BY <1>8, <1>9
  <2> QED
    BY <2>1, <1>7
<1> QED
  BY <1>3, <1>10

\* find_best_fit_order returns an order; its blocks hold the request, or it is
\* the highest.
LEMMA BestFitFacts ==
  ASSUME NEW bytes
  PROVE  /\ find_best_fit_order(bytes) \in Orders
         /\ \/ FramesPerBlock[find_best_fit_order(bytes)] >= FramesNeeded(bytes)
            \/ find_best_fit_order(bytes) = KPM_NORDERS - 1
<1> DEFINE fits == Fits(FramesNeeded(bytes))
<1>1. fits \in SUBSET Nat /\ fits \subseteq Orders
  BY OrdersFacts DEF Fits
<1>2. CASE fits = {}
  BY <1>2, OrdersFacts DEF find_best_fit_order
<1>3. CASE fits # {}
  <2>1. \E x \in fits : \A y \in fits : x <= y
    <3> HIDE DEF fits
    <3> QED
      BY <1>1, <1>3, LeastNat
  <2>2. find_best_fit_order(bytes) \in fits
    BY <1>3, <2>1 DEF find_best_fit_order
  <2> QED
    BY <1>1, <2>2 DEF Fits
<1> QED
  BY <1>2, <1>3

\* A request is rounded up to the next whole page and no further; whole pages
\* are rounded to themselves.
LEMMA RoundFacts ==
  /\ \A bytes \in Nat : bytes + PAGE_SIZE <= ADDR_SPACE =>
       /\ FramesNeeded(bytes) \in Nat
       /\ FramesNeeded(bytes) * PAGE_SIZE >= bytes
       /\ FramesNeeded(bytes) * PAGE_SIZE < bytes + PAGE_SIZE
  /\ \A b \in Nat : b * PAGE_SIZE + PAGE_SIZE <= ADDR_SPACE =>
       FramesNeeded(b * PAGE_SIZE) = b
<1> DEFINE P == PAGE_SIZE
           A == ADDR_SPACE
<1>0. P \in Nat \ {0} /\ A \in Nat \ {0}
  BY KpmAssumption
<1> HIDE DEF P, A
<1>1. ASSUME NEW x \in Nat, x < A
      PROVE  x % A = x
  BY <1>0, <1>1
<1>2. ASSUME NEW bytes \in Nat, bytes + P <= A
      PROVE  FramesNeeded(bytes) = (((bytes + P - 1) \div P) * P) \div P
  <2>1. bytes + P - 1 \in Nat /\ bytes + P - 1 < A
    BY <1>0, <1>2
  <2>2. ((bytes + P - 1) % A) % A = bytes + P - 1
    BY <1>1, <2>1
  <2> QED
    BY <2>2 DEF FramesNeeded, AlignNext, Align, P, A
<1>3. ASSUME NEW d \in Nat
      PROVE  (d * P) \div P = d
  BY <1>0
<1>4. ASSUME NEW bytes \in Nat, bytes + P <= A
      PROVE  FramesNeeded(bytes) = (bytes + P - 1) \div P
  <2>1. (bytes + P - 1) \div P \in Nat
    BY <1>0
  <2> QED
    BY <1>2, <1>3, <1>4, <2>1
<1>5. ASSUME NEW bytes \in Nat, bytes + P <= A
      PROVE  /\ FramesNeeded(bytes) \in Nat
             /\ FramesNeeded(bytes) * P >= bytes
             /\ FramesNeeded(bytes) * P < bytes + P
  <2> DEFINE x == bytes + P - 1
             d == x \div P
             r == x % P
  <2>1. x \in Nat
    BY <1>0
  <2> HIDE DEF x
  <2>2. d \in Nat /\ r \in Nat /\ r < P /\ x = P * d + r
    BY <1>0, <2>1
  <2> HIDE DEF d, r
  <2>3. d * P = P * d
    BY <1>0, <2>2
  <2>4. d * P \in Int /\ x - r = d * P
    BY <2>2, <2>3, <1>0, <2>1
  <2>5. d * P >= bytes /\ d * P < bytes + P
    BY <2>1, <2>2, <2>4, <1>0 DEF x
  <2> QED
    BY <1>4, <1>5, <2>2, <2>5 DEF d, x
<1>6. ASSUME NEW b \in Nat, b * P + P <= A
      PROVE  FramesNeeded(b * P) = b
  <2>1. b * P \in Nat
    BY <1>0
  <2>2. FramesNeeded(b * P) = (b * P + P - 1) \div P
    BY <1>4, <1>6, <2>1
  <2>3. P - 1 \in 0 .. (P - 1)
    BY <1>0
  <2>4. \A r \in 0 .. (P - 1) : (b * P + r) \div P = b
    BY <1>0
  <2>5. b * P + P - 1 = b * P + (P - 1)
    BY <1>0, <2>1
  <2> QED
    BY <2>2, <2>3, <2>4, <2>5
<1> QED
  BY <1>5, <1>6 DEF P, A

\* The memory ends below the end of the address space.
LEMMA MemoryFits ==
  \A k \in Nat : k <= NFrames => k * PAGE_SIZE + PAGE_SIZE <= ADDR_SPACE
<1> DEFINE P == PAGE_SIZE
           A == ADDR_SPACE
           t == FramesPerBlock[KPM_NORDERS - 1]
           M == MEM % A
           x == M \div P
           y == x % A
<1>0. P \in Nat \ {0} /\ A \in Nat \ {0} /\ t \in Nat \ {0} /\ MEM \in Nat /\ A % P = 0
  BY KpmAssumption, FramesPerBlockFacts, OrdersFacts
<1>1. NFrames = (y \div t) * t
  BY DEF NFrames, Align
<1> HIDE DEF P, A, t
<1>2. M \in Nat /\ M < A
  BY <1>0
<1> HIDE DEF M
<1>3. x \in Nat /\ x * P <= M
  BY <1>0, <1>2
<1> HIDE DEF x
<1>4. y \in Nat /\ y <= x
  BY <1>0, <1>3
<1> HIDE DEF y
<1>5. (y \div t) * t <= y /\ (y \div t) * t \in Nat
  BY <1>0, <1>4
<1>6. NFrames <= x
  BY <1>1, <1>3, <1>4, <1>5
<1>7. PICK q \in Nat : A = q * P
  <2>1. A = P * (A \div P) + (A % P) /\ A \div P \in Nat
    BY <1>0
  <2>2. A = (A \div P) * P
    BY <1>0, <2>1
  <2> QED
    BY <2>1, <2>2
<1>8. ASSUME NEW k \in Nat, k <= NFrames
      PROVE  k * P + P <= A
  <2>1. k <= x
    BY <1>3, <1>6, <1>8, FramesFacts
  <2>2. k * P <= x * P /\ k * P \in Nat /\ x * P \in Nat
    BY <1>0, <1>3, <2>1
  <2>3. k * P < q * P
    BY <1>0, <1>2, <1>3, <1>7, <2>2
  <2>4. k < q
    BY <1>0, <2>3
  <2>5. k * P + P <= q * P
    BY <1>0, <2>4
  <2> QED
    BY <1>7, <2>5
<1> QED
  BY <1>8 DEF P, A

\* The chunk that stands for block i of order o covers that block's frames.
LEMMA ChunkOfBlock ==
  ASSUME NEW o \in Orders, NEW i \in Nat, FramesOf(o, i) \subseteq Frames
  PROVE  ChunkFrames([addr |-> i * PAGE_SIZE * FramesPerBlock[o],
                      size |-> PAGE_SIZE * FramesPerBlock[o]]) = FramesOf(o, i)
<1> DEFINE b == FramesPerBlock[o]
           P == PAGE_SIZE
           q == i * b
<1>0. b \in Nat \ {0} /\ P \in Nat \ {0} /\ q \in Nat
  BY FramesPerBlockFacts, KpmAssumption
<1>1. FramesOf(o, i) = q .. (q + b - 1)
  BY DEF FramesOf
<1>2. i * P * b = q * P /\ P * b = b * P
  BY <1>0
<1> HIDE DEF b, P, q
<1>3. b <= NFrames
  <2>1. q + b - 1 \in FramesOf(o, i)
    BY <1>0, <1>1
  <2>2. q + b - 1 \in Frames
    BY <2>1
  <2>3. q + b - 1 < NFrames
    BY <1>0, <2>2, FramesFacts DEF Frames
  <2> QED
    BY <1>0, <2>3, FramesFacts
<1>4. b * P + P <= ADDR_SPACE
  BY <1>0, <1>3, MemoryFits DEF P
<1>5. FramesNeeded(b * P) = b
  BY <1>0, <1>4, RoundFacts DEF P
<1>6. (q * P) \div P = q
  BY <1>0
<1>7. ChunkFrames([addr |-> q * P, size |-> b * P]) = q .. (q + b - 1)
  BY <1>5, <1>6 DEF ChunkFrames, P
<1> QED
  BY <1>1, <1>2, <1>7 DEF b, P

\* A successful kpm_alloc: the chunk is a set of free frames, no other frame
\* is taken, and no bitmap is left.
LEMMA AllocOkEffect ==
  ASSUME IndInv, NEW bytes, kpm_alloc_ok(bytes)
  PROVE  /\ ChunkFrames(chunk') = FramesOf(ChosenOrder(bytes),
                                           bitmap_ffu(free[ChosenOrder(bytes)]))
         /\ ChunkFrames(chunk') # {}
         /\ ChunkFrames(chunk') \subseteq free[0]
         /\ free'[0] = free[0] \ ChunkFrames(chunk')
         /\ UNCHANGED <<enabled, oob>>
         /\ chunk'.size = PAGE_SIZE * FramesPerBlock[ChosenOrder(bytes)]
<1> DEFINE o == ChosenOrder(bytes)
           i == bitmap_ffu(free[o])
           R == FramesOf(o, i)
<1>1. /\ Candidates(bytes) # {}
      /\ SetFrames(R, enabled, free[0] \ R)
      /\ chunk' = [addr |-> i * PAGE_SIZE * FramesPerBlock[o],
                   size |-> PAGE_SIZE * FramesPerBlock[o]]
  BY DEF kpm_alloc_ok
<1>2. o \in Orders /\ i \in Nat /\ R \subseteq free[0] /\ R \subseteq Frames
  BY <1>1, ChosenBlock
<1> HIDE DEF o, i
<1>3. ChunkFrames(chunk') = R
  BY <1>1, <1>2, ChunkOfBlock
<1>4. R # {}
  BY <1>2, BlockReach
<1>5. /\ enabled' = enabled /\ oob' = FALSE /\ oob = FALSE
      /\ free' = UpdateOrders(free[0] \ R, R)
  BY <1>1, <1>2 DEF SetFrames, IndInv, TypeOK
<1>6. free[0] \ R \in SUBSET Frames
  BY OrdersFacts DEF IndInv, TypeOK
<1>7. free'[0] = free[0] \ R
  BY <1>2, <1>5, <1>6, UpdateOrdersFacts DEF IndInv
<1> QED
  BY <1>1, <1>2, <1>3, <1>4, <1>5, <1>7 DEF o, i

\* A failing kpm_alloc: no frame is free.
LEMMA AllocFailEffect ==
  ASSUME IndInv, NEW bytes, kpm_alloc_fail(bytes)
  PROVE  free[0] = {} /\ ret' = -1 /\ UNCHANGED bitmaps
<1>1. Candidates(bytes) = {} /\ ret' = -1 /\ UNCHANGED bitmaps
  BY DEF kpm_alloc_fail
<1>2. 0 \in Orders /\ 0 <= find_best_fit_order(bytes)
  BY BestFitFacts, OrdersFacts
<1> QED
  BY <1>1, <1>2 DEF Candidates

\* The chunk is smaller than the request only when no bigger block is free.
LEMMA NoBiggerBlock ==
  ASSUME IndInv, NEW bytes \in SIZES, kpm_alloc_ok(bytes), ~(chunk'.size >= bytes),
         NEW p \in Orders, NEW j \in Frames,
         PAGE_SIZE * FramesPerBlock[p] > chunk'.size
  PROVE  ~(FramesOf(p, j) \subseteq free[0])
<1> DEFINE o == ChosenOrder(bytes)
           best == find_best_fit_order(bytes)
           b(n) == FramesPerBlock[n]
<1>1. /\ o \in Candidates(bytes) /\ o \in Orders
      /\ \A n \in Candidates(bytes) : n <= o
  BY ChosenBlock DEF kpm_alloc_ok
<1>2. chunk'.size = PAGE_SIZE * b(o)
  BY AllocOkEffect
<1>3. /\ best \in Orders
      /\ b(best) >= FramesNeeded(bytes) \/ best = KPM_NORDERS - 1
  BY BestFitFacts
<1>4. o <= best
  BY <1>1 DEF Candidates
<1> HIDE DEF o, best
<1>5. b(p) \in Nat /\ b(o) \in Nat /\ b(best) \in Nat /\ PAGE_SIZE \in Nat \ {0}
  BY <1>1, <1>3, FramesPerBlockFacts, KpmAssumption
<1>6. b(p) > b(o)
  BY <1>2, <1>5
<1>7. p \in Nat /\ o \in Nat /\ best \in Nat /\ p <= KPM_NORDERS - 1 /\ KPM_NORDERS - 1 \in Nat
  BY <1>1, <1>3, OrdersFacts
<1>8. o < p
  <2>1. p <= o => b(p) <= b(o)
    BY <1>1, BlocksGrow
  <2> QED
    BY <1>5, <1>6, <1>7, <2>1
<1>9. o # best
  <2> SUFFICES ASSUME o = best
               PROVE  FALSE
    OBVIOUS
  <2>1. best # KPM_NORDERS - 1
    BY <1>7, <1>8
  <2>2. b(o) >= FramesNeeded(bytes)
    BY <1>3, <2>1
  <2>3. /\ bytes \in Nat
        /\ FramesNeeded(bytes) \in Nat
        /\ FramesNeeded(bytes) * PAGE_SIZE >= bytes
    BY KpmAssumption, RoundFacts
  <2>4. PAGE_SIZE * b(o) >= FramesNeeded(bytes) * PAGE_SIZE
    BY <1>5, <2>2, <2>3
  <2>5. PAGE_SIZE * b(o) \in Nat /\ FramesNeeded(bytes) * PAGE_SIZE \in Nat
    BY <1>5, <2>3
  <2> QED
    BY <1>2, <2>3, <2>4, <2>5
<1>10. SUFFICES ASSUME FramesOf(p, j) \subseteq free[0]
                PROVE  FALSE
  OBVIOUS
<1>11. j \in Nat
  BY FramesFacts
<1> DEFINE n == IF p <= best THEN p ELSE best
<1>12. n \in Orders /\ n <= p /\ n <= best /\ o < n
  BY <1>3, <1>4, <1>7, <1>8, <1>9
<1> HIDE DEF n
<1>13. PICK k \in Nat : FramesOf(n, k) \subseteq FramesOf(p, j)
  BY <1>11, <1>12, SubBlock
<1>14. k \in free[n]
  BY <1>10, <1>12, <1>13, AgreeEverywhere DEF IndInv
<1>15. n \in Candidates(bytes)
  BY <1>12, <1>14 DEF Candidates, best
<1> QED
  BY <1>1, <1>7, <1>12, <1>15, OrdersFacts

\* Every call of kpm_alloc takes the best block there is, hands out free
\* frames only, and fails only when there is none.
THEOREM AllocTakesBest == Spec => AllocTakesBestBlock
<1> DEFINE Best(bytes) ==
       \/ ret' = -1 /\ free[0] = {} /\ free'[0] = {}
       \/ /\ ret' = 0
          /\ ChunkFrames(chunk') # {}
          /\ ChunkFrames(chunk') \subseteq free[0]
          /\ free'[0] = free[0] \ ChunkFrames(chunk')
          /\ \/ chunk'.size >= bytes
             \/ \A o \in Orders, i \in Frames :
                  PAGE_SIZE * FramesPerBlock[o] > chunk'.size
                    => ~(FramesOf(o, i) \subseteq free[0])
<1>1. IndInv => \A bytes \in SIZES : Alloc(bytes) => Best(bytes)
  <2> SUFFICES ASSUME IndInv, NEW bytes \in SIZES, Alloc(bytes)
               PROVE  Best(bytes)
    OBVIOUS
  <2>1. CASE kpm_alloc_fail(bytes)
    BY <2>1, AllocFailEffect DEF bitmaps
  <2>2. CASE kpm_alloc_ok(bytes)
    <3>1. ret' = 0
      BY <2>2 DEF kpm_alloc_ok
    <3>2. \/ chunk'.size >= bytes
          \/ \A o \in Orders, i \in Frames :
               PAGE_SIZE * FramesPerBlock[o] > chunk'.size
                 => ~(FramesOf(o, i) \subseteq free[0])
      BY <2>2, NoBiggerBlock
    <3> QED
      BY <2>2, <3>1, <3>2, AllocOkEffect
  <2> QED
    BY <2>1, <2>2 DEF Alloc, kpm_alloc
<1>2. SafeInv => [\A bytes \in SIZES : Alloc(bytes) => Best(bytes)]_kpmvars
  <2>1. oob => \A bytes \in SIZES : ~Alloc(bytes)
    BY DEF Alloc, Running
  <2> QED
    BY <1>1, <2>1 DEF SafeInv
<1> QED
  BY <1>2, InvHolds, PTL DEF AllocTakesBestBlock
-----------------------------------------------------------------------------
(***************************************************************************)
(* What kpm_init enables and reserves                                      *)
(***************************************************************************)

\* The bytes of the bitmaps of the orders are a natural number.
LEMMA OrdersSizeType == OrdersSize \in [Orders -> Nat]
<1> DEFINE B(n) == NBytesFromNBits(NFrames \div FramesPerBlock[n])
           G == [p \in Nat \X Nat |-> IF p[1] \in Orders THEN B(p[1]) + p[2] ELSE 0]
           Def(f) == f = [n \in Orders |-> B(n) + IF n = 0 THEN 0 ELSE f[n - 1]]
           N == KPM_NORDERS - 1
<1>1. \A n \in Orders : B(n) \in Nat
  <2> SUFFICES ASSUME NEW n \in Orders
               PROVE  B(n) \in Nat
    OBVIOUS
  <2>1. \A x \in Nat, b \in Nat \ {0} : x % b \in Nat /\ x \div b \in Nat
    OBVIOUS
  <2> DEFINE x == NFrames \div FramesPerBlock[n]
             y == ((x + 8 - 1) % ADDR_SPACE) % ADDR_SPACE
  <2>2. x \in Nat
    BY <2>1, FramesFacts, FramesPerBlockFacts
  <2> HIDE DEF x
  <2>3. y \in Nat
    BY <2>1, <2>2, KpmAssumption
  <2> HIDE DEF y
  <2>4. ((y \div 8) * 8) \div 8 \in Nat
    BY <2>1, <2>3
  <2> QED
    BY <2>4 DEF NBytesFromNBits, AlignNext, Align, x, y
<1> HIDE DEF B
<1>2. G \in [Nat \X Nat -> Nat]
  BY <1>1
<1>3. HasTable(Nat, B(0), G, N)
  <2> HIDE DEF G
  <2> QED
    BY <1>1, <1>2, OrdersFacts, TableExists
<1>4. PICK f : LevelTable(f, Nat, B(0), G, N)
  BY <1>3 DEF HasTable
<1>5. f \in [Orders -> Nat] /\ f[0] = B(0)
  BY <1>4, OrdersFacts DEF LevelTable
<1>6. \A n \in Orders : n # 0 => f[n] = B(n) + f[n - 1]
  <2> SUFFICES ASSUME NEW n \in Orders, n # 0
               PROVE  f[n] = B(n) + f[n - 1]
    OBVIOUS
  <2>1. n \in 1 .. N /\ n - 1 \in Orders /\ n \in Nat
    BY OrdersFacts
  <2>2. f[n] = G[<<n, f[n - 1]>>]
    BY <1>4, <2>1 DEF LevelTable
  <2>3. <<n, f[n - 1]>> \in Nat \X Nat
    BY <1>5, <2>1
  <2> QED
    BY <2>2, <2>3
<1>7. Def(f)
  <2>1. f = [n \in Orders |-> f[n]]
    BY <1>5
  <2>2. \A n \in Orders : f[n] = B(n) + IF n = 0 THEN 0 ELSE f[n - 1]
    <3> SUFFICES ASSUME NEW n \in Orders
                 PROVE  f[n] = B(n) + IF n = 0 THEN 0 ELSE f[n - 1]
      OBVIOUS
    <3>1. CASE n = 0
      BY <1>1, <1>5, <3>1, OrdersFacts
    <3>2. CASE n # 0
      BY <1>6, <3>2
    <3> QED
      BY <3>1, <3>2
  <2> QED
    BY <2>1, <2>2
<1>8. Def(OrdersSize)
  <2>1. OrdersSize = CHOOSE g : Def(g)
    BY DEF OrdersSize, B
  <2> HIDE DEF Def
  <2> QED
    BY <1>7, <2>1
<1>9. \A n \in Orders :
        OrdersSize[n] = B(n) + IF n = 0 THEN 0 ELSE OrdersSize[n - 1]
  BY <1>8
<1>10. OrdersSize = f
  <2> SUFFICES ASSUME OrdersSize # f
               PROVE  FALSE
    OBVIOUS
  <2> DEFINE T == {n \in Orders : OrdersSize[n] # f[n]}
  <2>1. T # {} /\ T \in SUBSET Nat
    BY <1>7, <1>8, OrdersFacts
  <2>2. PICK m \in T : \A y \in T : m <= y
    <3> HIDE DEF T
    <3> QED
      BY <2>1, LeastNat
  <2>3. m \in Orders /\ m \in Nat /\ OrdersSize[m] # f[m]
    BY <2>2, OrdersFacts
  <2>4. m # 0
    <3>1. OrdersSize[0] = B(0) + 0
      BY <1>9, OrdersFacts
    <3> QED
      BY <3>1, <1>1, <1>5, <2>3, OrdersFacts
  <2>5. m - 1 \in Orders /\ m - 1 \notin T
    BY <2>2, <2>3, <2>4, OrdersFacts
  <2> QED
    BY <2>3, <2>4, <2>5, <1>6, <1>9
<1> QED
  BY <1>5, <1>10

\* The buddy structure starts on a page boundary and has a size.
LEMMA BuddyPlace ==
  /\ BuddyAddr \in Nat /\ IsAligned(BuddyAddr, PAGE_SIZE)
  /\ BuddySize \in Nat
<1>1. \A x \in Nat, b \in Nat \ {0} :
        x % b \in Nat /\ x \div b \in Nat /\ ((x \div b) * b) % b = 0
  OBVIOUS
<1>2. ((EK + PAGE_SIZE - 1) % ADDR_SPACE) % ADDR_SPACE \in Nat
  BY <1>1, KpmAssumption, ImageAssumption
<1>3. BuddyAddr \in Nat /\ IsAligned(BuddyAddr, PAGE_SIZE)
  <2> DEFINE y == ((EK + PAGE_SIZE - 1) % ADDR_SPACE) % ADDR_SPACE
  <2>1. BuddyAddr = (y \div PAGE_SIZE) * PAGE_SIZE
    BY DEF BuddyAddr, AlignNext, Align
  <2> HIDE DEF y
  <2>2. y \in Nat /\ y \div PAGE_SIZE \in Nat
    BY <1>1, <1>2, KpmAssumption DEF y
  <2>3. (y \div PAGE_SIZE) * PAGE_SIZE \in Nat
    BY <2>2, KpmAssumption
  <2>4. ((y \div PAGE_SIZE) * PAGE_SIZE) % PAGE_SIZE = 0
    BY <1>1, <2>2, KpmAssumption
  <2> QED
    BY <2>1, <2>3, <2>4 DEF IsAligned
<1>4. NBytesFromNBits(NFrames) \in Nat
  <2> DEFINE y == ((NFrames + 8 - 1) % ADDR_SPACE) % ADDR_SPACE
  <2>1. y \in Nat
    BY <1>1, FramesFacts, KpmAssumption
  <2> HIDE DEF y
  <2>2. ((y \div 8) * 8) \div 8 \in Nat
    BY <1>1, <2>1
  <2> QED
    BY <2>2 DEF NBytesFromNBits, AlignNext, Align, y
<1>5. OrdersSize[KPM_NORDERS - 1] \in Nat
  BY OrdersSizeType, OrdersFacts
<1> QED
  BY <1>3, <1>4, <1>5, ImageAssumption DEF BuddySize

\* A multiple of the page size below the end of the address space.
LEMMA WholePages ==
  ASSUME NEW base \in Nat, IsAligned(base, PAGE_SIZE)
  PROVE  \E b \in Nat : base = b * PAGE_SIZE /\ base \div PAGE_SIZE = b
<1> DEFINE P == PAGE_SIZE
           b == base \div P
<1>1. P \in Nat \ {0} /\ base % P = 0
  BY KpmAssumption DEF IsAligned
<1> HIDE DEF P
<1>2. b \in Nat /\ base = P * b + (base % P)
  BY <1>1
<1> HIDE DEF b
<1>3. base = b * P
  BY <1>1, <1>2
<1> QED
  BY <1>2, <1>3 DEF b, P

\* ALIGN rounds a length down to whole pages.
LEMMA RoundedDown ==
  ASSUME NEW limit \in Nat, limit < ADDR_SPACE
  PROVE  \E n \in Nat : /\ Align(limit, PAGE_SIZE) = n * PAGE_SIZE
                        /\ n * PAGE_SIZE \in Nat
                        /\ n * PAGE_SIZE <= limit /\ limit < n * PAGE_SIZE + PAGE_SIZE
<1> DEFINE P == PAGE_SIZE
           A == ADDR_SPACE
           n == limit \div P
<1>0. P \in Nat \ {0} /\ A \in Nat \ {0} /\ limit \in Nat /\ limit < A
  BY KpmAssumption
<1>1. Align(limit, P) = ((limit % A) \div P) * P
  BY DEF Align
<1> HIDE DEF P, A
<1>2. limit % A = limit
  BY <1>0
<1>3. n \in Nat /\ limit % P \in Nat /\ limit % P < P /\ limit = P * n + (limit % P)
  BY <1>0
<1>4. Align(limit, P) = n * P
  BY <1>1, <1>2
<1> HIDE DEF n
<1>5. n * P = P * n /\ n * P \in Nat
  BY <1>0, <1>3
<1>6. n * P <= limit /\ limit < n * P + P
  BY <1>0, <1>3, <1>5
<1> QED
  BY <1>3, <1>4, <1>5, <1>6 DEF P

\* ALIGNNEXT rounds a length up to whole pages.
LEMMA RoundedUp ==
  ASSUME NEW limit \in Nat, limit + PAGE_SIZE <= ADDR_SPACE
  PROVE  \E n \in Nat : /\ AlignNext(limit, PAGE_SIZE) = n * PAGE_SIZE
                        /\ n * PAGE_SIZE \in Nat
                        /\ limit <= n * PAGE_SIZE /\ n * PAGE_SIZE <= limit + PAGE_SIZE - 1
<1> DEFINE P == PAGE_SIZE
           A == ADDR_SPACE
           x == (limit + P) - 1
           n == x \div P
<1>0. P \in Nat \ {0} /\ A \in Nat \ {0} /\ limit \in Nat /\ limit + P <= A
  BY KpmAssumption
<1>1. AlignNext(limit, P) = ((((limit + P - 1) % A) % A) \div P) * P
  BY DEF AlignNext, Align
<1> HIDE DEF P, A
<1>2. x \in Nat /\ x < A /\ limit + P - 1 = x
  BY <1>0
<1> HIDE DEF x
<1>3. \A y \in Nat : y < A => y % A = y
  BY <1>0
<1>4. AlignNext(limit, P) = n * P
  BY <1>1, <1>2, <1>3
<1>5. n \in Nat /\ x % P \in Nat /\ x % P < P /\ x = P * n + (x % P)
  BY <1>0, <1>2
<1> HIDE DEF n
<1>6. n * P = P * n /\ n * P \in Nat
  BY <1>0, <1>5
<1>7. limit <= n * P /\ n * P <= limit + P - 1
  BY <1>0, <1>2, <1>5, <1>6
<1> QED
  BY <1>4, <1>5, <1>6, <1>7 DEF P

\* The frames of n pages from page b on, when they start no later than the last
\* frame and end below the end of the address space: the cut keeps those that
\* exist.
LEMMA ClipShape ==
  ASSUME NEW b \in Nat, NEW n \in Nat, b * PAGE_SIZE + n * PAGE_SIZE < ADDR_SPACE,
         b <= NFrames
  PROVE  RegionFrames(b * PAGE_SIZE, Clip(b * PAGE_SIZE, n * PAGE_SIZE))
           = b .. ((IF b + n <= NFrames THEN b + n ELSE NFrames) - 1)
<1> DEFINE P == PAGE_SIZE
           A == ADDR_SPACE
           L == Clip(b * P, n * P)
           R == RegionFrames(b * P, L)
<1>0. P \in Nat \ {0} /\ A \in Nat \ {0} /\ NFrames \in Nat
  BY KpmAssumption, FramesFacts
<1>1. b * P + n * P < A /\ b <= NFrames
  OBVIOUS
<1>2. L = IF ((b * P + n * P) % A) \div P > NFrames
          THEN (NFrames * P - b * P) % A ELSE n * P
  BY DEF Clip
<1>3. R = ((b * P) \div P) .. ((b * P) \div P + L \div P - 1)
  BY DEF RegionFrames
<1>4. NFrames * P + P <= A
  BY <1>0, MemoryFits
<1> HIDE DEF P, A, L, R
<1>5. \A d \in Nat : (d * P) \div P = d
  BY <1>0
<1>6. \A x \in Nat : x < A => x % A = x
  BY <1>0
<1>7. ((b * P + n * P) % A) \div P = b + n
  <2>1. b * P + n * P = (b + n) * P /\ (b + n) * P \in Nat
    BY <1>0
  <2>2. (b * P + n * P) % A = (b + n) * P
    BY <1>1, <1>6, <2>1
  <2> QED
    BY <1>5, <2>2
<1>8. R = b .. (b + L \div P - 1)
  BY <1>3, <1>5
<1>9. CASE b + n <= NFrames
  <2>1. L = n * P
    BY <1>0, <1>2, <1>7, <1>9
  <2>2. R = b .. (b + n - 1)
    BY <1>5, <1>8, <2>1
  <2> QED
    BY <1>9, <2>2 DEF R, L, P
<1>10. CASE ~(b + n <= NFrames)
  <2> DEFINE m == NFrames - b
  <2>1. L = (NFrames * P - b * P) % A
    BY <1>0, <1>2, <1>7, <1>10
  <2>2. m \in Nat /\ NFrames * P - b * P = m * P
    BY <1>0, <1>1
  <2>3. m * P < A /\ m * P \in Nat
    BY <1>0, <1>1, <1>4, <2>2
  <2>4. b + m = NFrames
    BY <1>0
  <2> HIDE DEF m
  <2>5. L = m * P
    BY <1>6, <2>1, <2>2, <2>3
  <2>6. R = b .. (b + m - 1)
    BY <1>5, <1>8, <2>2, <2>5
  <2>7. (IF b + n <= NFrames THEN b + n ELSE NFrames) = NFrames
    BY <1>10
  <2>8. R = b .. (NFrames - 1)
    BY <1>0, <2>2, <2>4, <2>6
  <2> QED
    BY <2>7, <2>8 DEF R, L, P
<1> QED
  BY <1>9, <1>10

\* Those frames are in the bitmaps, and they are the ones of memory.
LEMMA ClippedRegion ==
  ASSUME NEW b \in Nat, NEW n \in Nat, b * PAGE_SIZE + n * PAGE_SIZE < ADDR_SPACE,
         b <= NFrames
  PROVE  LET R == RegionFrames(b * PAGE_SIZE, Clip(b * PAGE_SIZE, n * PAGE_SIZE))
         IN  /\ R \subseteq Frames
             /\ \A f \in Frames : f \in R <=> b <= f /\ f < b + n
<1> DEFINE R == RegionFrames(b * PAGE_SIZE, Clip(b * PAGE_SIZE, n * PAGE_SIZE))
<1>1. R = b .. ((IF b + n <= NFrames THEN b + n ELSE NFrames) - 1)
  BY ClipShape
<1> HIDE DEF R
<1>2. NFrames \in Nat /\ Frames = 0 .. (NFrames - 1) /\ b <= NFrames
  BY FramesFacts DEF Frames
<1>3. R \subseteq Frames
  BY <1>1, <1>2
<1>4. \A f \in Frames : f \in R <=> b <= f /\ f < b + n
  BY <1>1, <1>2
<1> QED
  BY <1>3, <1>4 DEF R

\* A region that starts past the last frame leaves the bitmaps.
LEMMA StrayRegion ==
  ASSUME NEW b \in Nat, NEW n \in Nat, b * PAGE_SIZE + n * PAGE_SIZE < ADDR_SPACE,
         b > NFrames
  PROVE  ~(RegionFrames(b * PAGE_SIZE, Clip(b * PAGE_SIZE, n * PAGE_SIZE)) \subseteq Frames)
<1> DEFINE P == PAGE_SIZE
           A == ADDR_SPACE
           L == Clip(b * P, n * P)
           R == RegionFrames(b * P, L)
<1>0. P \in Nat \ {0} /\ A \in Nat \ {0} /\ A % P = 0 /\ NFrames \in Nat
  BY KpmAssumption, FramesFacts
<1>2. b * P + n * P < A /\ b > NFrames
  OBVIOUS
<1>3. L = IF ((b * P + n * P) % A) \div P > NFrames
          THEN (NFrames * P - b * P) % A ELSE n * P
  BY DEF Clip
<1>4. R = ((b * P) \div P) .. ((b * P) \div P + L \div P - 1)
  BY DEF RegionFrames
<1>5. NFrames * P + P <= A
  BY <1>0, MemoryFits
<1> HIDE DEF P, A, L, R
<1>6. \A d \in Nat : (d * P) \div P = d
  BY <1>0
<1>7. ((b * P + n * P) % A) \div P = b + n
  <2>1. b * P + n * P = (b + n) * P /\ (b + n) * P \in Nat
    BY <1>0
  <2>2. \A x \in Nat : x < A => x % A = x
    BY <1>0
  <2>3. (b * P + n * P) % A = (b + n) * P
    BY <1>2, <2>1, <2>2
  <2> QED
    BY <1>6, <2>3
<1>8. R = b .. (b + L \div P - 1)
  BY <1>4, <1>6
<1>11. b \in R /\ b \notin Frames
  <2>1. L = (NFrames * P - b * P) % A
    BY <1>0, <1>2, <1>3, <1>7
  <2> DEFINE m == b - NFrames
  <2>2. m \in Nat /\ m > 0 /\ NFrames * P - b * P = -(m * P) /\ m * P \in Nat
    BY <1>0, <1>2
  <2>3. m * P <= b * P /\ b * P \in Nat /\ n * P \in Nat
    BY <1>0, <2>2
  <2>4. m * P < A /\ m * P > 0
    BY <1>0, <1>2, <2>2, <2>3
  <2> HIDE DEF m
  <2>5. L = A - m * P
    <3>1. \A x \in Nat : x > 0 /\ x < A => (-x) % A = A - x
      BY <1>0
    <3> QED
      BY <2>1, <2>2, <2>4, <3>1
  <2>6. PICK q \in Nat : A = q * P
    <3>1. A = P * (A \div P) + (A % P) /\ A \div P \in Nat
      BY <1>0
    <3>2. A = (A \div P) * P
      BY <1>0, <3>1
    <3> QED
      BY <3>1, <3>2
  <2>7. L = (q - m) * P /\ q - m \in Nat /\ q - m > 0
    <3>1. L = (q - m) * P
      BY <1>0, <2>2, <2>5, <2>6
    <3>2. m * P < q * P
      BY <2>4, <2>6
    <3>3. m < q
      BY <1>0, <2>2, <3>2
    <3> QED
      BY <3>1, <3>3, <2>2
  <2>8. R = b .. (b + (q - m) - 1)
    BY <1>6, <1>8, <2>7
  <2>9. b \in R
    BY <2>7, <2>8
  <2>10. b \notin Frames
    BY <1>0, <1>2 DEF Frames
  <2> QED
    BY <2>9, <2>10
<1> QED
  BY <1>11 DEF R, L, P

\* kpm_disable takes away every frame the region touches, and no other; it leaves
\* the bitmaps only when the region starts past the last frame.
LEMMA DisableEffect ==
  ASSUME IndInv, NEW base \in Nat, NEW limit \in Nat, IsAligned(base, PAGE_SIZE),
         base + limit + PAGE_SIZE <= ADDR_SPACE, kpm_disable(base, limit)
  PROVE  /\ oob' => MemoryEnd < base
         /\ \/ oob'
            \/ enabled' = enabled \ ((base \div PAGE_SIZE) .. ((base + limit - 1) \div PAGE_SIZE))
<1> DEFINE P == PAGE_SIZE
           A == ADDR_SPACE
           R == RegionFrames(base, Clip(base, AlignNext(limit, P)))
<1>0. P \in Nat \ {0} /\ A \in Nat \ {0} /\ NFrames \in Nat
  BY KpmAssumption, FramesFacts
<1>1. PICK b \in Nat : base = b * P /\ base \div P = b
  BY WholePages
<1>2. SetFrames(R, enabled \ R, free[0] \ R)
  BY DEF kpm_disable
<1>3. enabled' = enabled \ R /\ (R \subseteq Frames => ~oob') /\ (~oob' => R \subseteq Frames)
  BY <1>2 DEF SetFrames
<1>4. base + limit + P <= A /\ limit + P <= A /\ limit \in Nat /\ base \in Nat
  BY <1>0
<1>5. PICK n \in Nat : /\ AlignNext(limit, P) = n * P
                       /\ n * P \in Nat /\ limit <= n * P /\ n * P <= limit + P - 1
  BY <1>4, RoundedUp
<1>6. MemoryEnd = NFrames * P
  BY DEF MemoryEnd
<1> HIDE DEF P, A
<1>7. b * P + n * P < A
  BY <1>0, <1>1, <1>4, <1>5
<1>8. R = RegionFrames(b * P, Clip(b * P, n * P))
  BY <1>1, <1>5
<1> HIDE DEF R
<1>9. CASE b > NFrames
  <2>1. ~(R \subseteq Frames)
    BY <1>7, <1>8, <1>9, StrayRegion DEF P, A
  <2>2. NFrames * P < b * P
    BY <1>0, <1>9
  <2> QED
    BY <1>1, <1>3, <1>6, <2>1, <2>2
<1>10. CASE b <= NFrames
  <2>1. R \subseteq Frames /\ \A f \in Frames : f \in R <=> b <= f /\ f < b + n
    BY <1>7, <1>8, <1>10, ClippedRegion DEF P, A
  <2>2. (base + limit - 1) \div P = b + n - 1
    <3> DEFINE d == b + n - 1
               r == base + limit - 1 - d * P
    <3>1. d \in Int /\ d * P = b * P + n * P - P
      BY <1>0
    <3> HIDE DEF d
    <3>2. d * P \in Int /\ b * P \in Int
      BY <1>0, <3>1
    <3>3. r \in 0 .. (P - 1)
      BY <1>0, <1>1, <1>4, <1>5, <3>1, <3>2
    <3>4. base + limit - 1 = d * P + r
      BY <1>4, <3>2
    <3>5. \A e \in Int, s \in 0 .. (P - 1) : (e * P + s) \div P = e
      BY <1>0
    <3> HIDE DEF r
    <3>6. (d * P + r) \div P = d
      BY <3>1, <3>3, <3>5
    <3> QED
      BY <3>4, <3>6 DEF d
  <2>3. enabled \subseteq Frames /\ \A f \in Frames : f \in Nat
    BY FramesFacts DEF IndInv, TypeOK
  <2>4. \A f \in Frames : f \in R <=> f \in b .. (b + n - 1)
    BY <2>1, <2>3
  <2>5. enabled \ R = enabled \ (b .. (b + n - 1))
    BY <2>3, <2>4
  <2> QED
    BY <1>1, <1>3, <2>1, <2>2, <2>5 DEF P
<1> QED
  BY <1>0, <1>9, <1>10

\* kpm_enable adds the frames that lie whole in the region, and no other; it
\* leaves the bitmaps only when the region starts past the last frame.
LEMMA EnableEffect ==
  ASSUME IndInv, NEW base \in Nat, NEW limit \in Nat, IsAligned(base, PAGE_SIZE),
         base + limit < ADDR_SPACE, kpm_enable(base, limit)
  PROVE  /\ oob' => MemoryEnd < base
         /\ \/ oob'
            \/ \A f \in Frames :
                 f \in enabled' <=>
                   \/ f \in enabled
                   \/ base <= f * PAGE_SIZE /\ (f + 1) * PAGE_SIZE <= base + limit
<1> DEFINE P == PAGE_SIZE
           A == ADDR_SPACE
           R == RegionFrames(base, Clip(base, Align(limit, P)))
<1>0. P \in Nat \ {0} /\ A \in Nat \ {0} /\ NFrames \in Nat
  BY KpmAssumption, FramesFacts
<1>1. PICK b \in Nat : base = b * P /\ base \div P = b
  BY WholePages
<1>2. SetFrames(R, enabled \cup R, free[0] \cup R)
  BY DEF kpm_enable
<1>3. enabled' = enabled \cup R /\ (R \subseteq Frames => ~oob') /\ (~oob' => R \subseteq Frames)
  BY <1>2 DEF SetFrames
<1>4. base + limit < A /\ limit < A /\ limit \in Nat /\ base \in Nat
  BY <1>0
<1>5. PICK n \in Nat : /\ Align(limit, P) = n * P
                       /\ n * P \in Nat /\ n * P <= limit /\ limit < n * P + P
  BY <1>4, RoundedDown
<1>6. MemoryEnd = NFrames * P
  BY DEF MemoryEnd
<1> HIDE DEF P, A
<1>7. b * P + n * P < A
  BY <1>0, <1>1, <1>4, <1>5
<1>8. R = RegionFrames(b * P, Clip(b * P, n * P))
  BY <1>1, <1>5
<1> HIDE DEF R
<1>9. CASE b > NFrames
  <2>1. ~(R \subseteq Frames)
    BY <1>7, <1>8, <1>9, StrayRegion DEF P, A
  <2>2. NFrames * P < b * P
    BY <1>0, <1>9
  <2> QED
    BY <1>1, <1>3, <1>6, <2>1, <2>2
<1>10. CASE b <= NFrames
  <2>0. R \subseteq Frames /\ \A f \in Frames : f \in R <=> b <= f /\ f < b + n
    BY <1>7, <1>8, <1>10, ClippedRegion DEF P, A
  <2>a. ASSUME NEW f \in Frames
        PROVE  f \in R <=> base <= f * P /\ (f + 1) * P <= base + limit
    <3>1. f \in Nat
      BY FramesFacts
    <3>2. b <= f <=> b * P <= f * P
      BY <1>0, <3>1
    <3>3. f + 1 <= b + n <=> (f + 1) * P <= (b + n) * P
      BY <1>0, <3>1
    <3>4. (b + n) * P = b * P + n * P
      BY <1>0
    <3>5. (f + 1) * P <= base + limit => f + 1 <= b + n
      <4> SUFFICES ASSUME f + 1 > b + n
                   PROVE  (f + 1) * P > base + limit
        BY <1>0, <1>4, <3>1
      <4>1. (f + 1) * P >= (b + n + 1) * P
        BY <1>0, <3>1
      <4>2. (b + n + 1) * P = b * P + n * P + P
        BY <1>0
      <4>3. (f + 1) * P \in Nat /\ b * P \in Nat
        BY <1>0, <3>1
      <4> QED
        BY <1>0, <1>1, <1>4, <1>5, <4>1, <4>2, <4>3
    <3>6. f + 1 <= b + n => (f + 1) * P <= base + limit
      <4>1. (f + 1) * P \in Nat /\ b * P \in Nat
        BY <1>0, <3>1
      <4> QED
        BY <1>1, <1>4, <1>5, <3>3, <3>4, <4>1
    <3>7. f < b + n <=> f + 1 <= b + n
      BY <3>1
    <3> QED
      BY <1>1, <2>0, <3>2, <3>5, <3>6, <3>7
  <2> QED
    BY <1>3, <2>0, <2>a DEF P
<1> QED
  BY <1>0, <1>9, <1>10

\* The frames the calls of kpm_disable made so far have taken away.
Taken(f) ==
  \/ step > Len(mmap) + 1 /\ f = 0
  \/ step > Len(mmap) + 2 /\ f \in (SK \div PAGE_SIZE) .. ((EK - 1) \div PAGE_SIZE)
  \/ step > Len(mmap) + 3
     /\ f \in (BuddyAddr \div PAGE_SIZE) .. ((BuddyAddr + BuddySize - 1) \div PAGE_SIZE)

\* What kpm_init has reserved so far is not enabled; before it returns nothing
\* is allocated, and afterwards only enabled frames are.
ReservedInv ==
  /\ mmap \in MMAPS
  /\ BootDone \/ ChunkFrames(chunk) = {}
  /\ ChunkFrames(chunk) \subseteq enabled
  /\ oob \/ \A f \in enabled : ~Taken(f)

\* The frames the memory map entries looked at so far make available.
Listed(f) == \E k \in 1 .. Len(mmap) : k < step /\ InRegion(f, mmap[k])

\* So far the enabled frames are those listed and not taken away.
MapInv ==
  /\ step # 0
  /\ \/ oob \/ ~OrdinaryMap
     \/ \A f \in Frames : f \in enabled <=> Listed(f) /\ ~Taken(f)

\* The memory map has a length.
LEMMA MapLength ==
  ASSUME ReservedInv
  PROVE  /\ Len(mmap) \in Nat
         /\ \A k \in 1 .. Len(mmap) : mmap[k] \in [addr : Nat, len : Nat, available : BOOLEAN]
<1> DEFINE E == [addr : Nat, len : Nat, available : BOOLEAN]
<1>1. mmap \in Seq(E)
  BY KpmAssumption DEF ReservedInv
<1> HIDE DEF E
<1>2. Len(mmap) \in Nat /\ \A k \in 1 .. Len(mmap) : mmap[k] \in E
  BY <1>1
<1> QED
  BY <1>2 DEF E

\* Nothing is taken while the entries of the memory map are read, and once
\* kpm_init has returned that is exactly the reserved frames.
LEMMA TakenFacts ==
  ASSUME IndInv, ReservedInv
  PROVE  /\ step <= Len(mmap) + 1 => \A f : ~Taken(f)
         /\ BootDone => \A f : Taken(f) <=> f \in Reserved
BY MapLength DEF IndInv, TypeOK, Taken, BootDone, Reserved

\* One of the three reserving calls of kpm_init.
LEMMA ReserveEffect ==
  ASSUME IndInv, ReservedInv, ~oob, KpmInitReserve, ~oob'
  PROVE  \A f : f \in enabled' <=> f \in enabled /\ ~Taken(f)'
<1>0. /\ step \in Nat /\ Len(mmap) \in Nat /\ step' = step + 1 /\ mmap' = mmap
      /\ step > Len(mmap) /\ step <= Len(mmap) + 3
  BY MapLength DEF IndInv, TypeOK, KpmInitReserve, BootDone
<1>1. \A f \in enabled : ~Taken(f)
  BY DEF ReservedInv
<1>2. CASE step = Len(mmap) + 1
  <2>1. kpm_disable(0, PAGE_SIZE)
    BY <1>0, <1>2 DEF KpmInitReserve
  <2>2. 0 \in Nat /\ PAGE_SIZE \in Nat /\ IsAligned(0, PAGE_SIZE)
        /\ 0 + PAGE_SIZE + PAGE_SIZE <= ADDR_SPACE
    BY KpmAssumption, ImageAssumption DEF IsAligned
  <2>3. enabled' = enabled \ ((0 \div PAGE_SIZE) .. ((0 + PAGE_SIZE - 1) \div PAGE_SIZE))
    BY <2>1, <2>2, DisableEffect
  <2>4. 0 \div PAGE_SIZE = 0 /\ (0 + PAGE_SIZE - 1) \div PAGE_SIZE = 0
    BY KpmAssumption
  <2>5. \A f : Taken(f)' <=> f = 0
    BY <1>0, <1>2 DEF Taken
  <2> QED
    BY <2>3, <2>4, <2>5
<1>3. CASE step = Len(mmap) + 2
  <2>1. kpm_disable(SK, EK - SK)
    BY <1>0, <1>3 DEF KpmInitReserve
  <2>2. /\ SK \in Nat /\ EK - SK \in Nat /\ IsAligned(SK, PAGE_SIZE)
        /\ SK + (EK - SK) + PAGE_SIZE <= ADDR_SPACE /\ SK + (EK - SK) - 1 = EK - 1
    BY KpmAssumption, ImageAssumption
  <2>3. enabled' = enabled \ ((SK \div PAGE_SIZE) .. ((SK + (EK - SK) - 1) \div PAGE_SIZE))
    BY <2>1, <2>2, DisableEffect
  <2>4. \A f : Taken(f)' <=> f = 0 \/ f \in (SK \div PAGE_SIZE) .. ((EK - 1) \div PAGE_SIZE)
    BY <1>0, <1>3 DEF Taken
  <2>5. 0 \notin enabled
    BY <1>0, <1>1, <1>3 DEF Taken
  <2> QED
    BY <2>2, <2>3, <2>4, <2>5
<1>4. CASE step = Len(mmap) + 3
  <2>1. kpm_disable(BuddyAddr, BuddySize)
    BY <1>0, <1>4 DEF KpmInitReserve
  <2>2. enabled' = enabled \ ((BuddyAddr \div PAGE_SIZE)
                                .. ((BuddyAddr + BuddySize - 1) \div PAGE_SIZE))
    BY <2>1, BuddyPlace, ImageAssumption, DisableEffect
  <2>3. \A f : Taken(f)' <=> Taken(f) \/ f \in (BuddyAddr \div PAGE_SIZE)
                                .. ((BuddyAddr + BuddySize - 1) \div PAGE_SIZE)
    BY <1>0, <1>4 DEF Taken
  <2> QED
    BY <1>1, <2>2, <2>3
<1> QED
  BY <1>0, <1>2, <1>3, <1>4

\* After kpm_init no operation changes what is enabled.
LEMMA EnabledFixed ==
  ASSUME IndInv, \/ \E bytes \in SIZES : Alloc(bytes)
                 \/ \E c \in CHUNKS : Free(c)
  PROVE  /\ enabled' = enabled /\ UNCHANGED bootvars /\ Running
         /\ \/ chunk' = chunk
            \/ ChunkFrames(chunk') \subseteq free[0]
<1>1. ASSUME NEW bytes \in SIZES, Alloc(bytes)
      PROVE  /\ enabled' = enabled /\ UNCHANGED bootvars /\ Running
             /\ \/ chunk' = chunk
                \/ ChunkFrames(chunk') \subseteq free[0]
  <2>1. CASE kpm_alloc_ok(bytes)
    BY <1>1, <2>1, AllocOkEffect DEF Alloc
  <2>2. CASE kpm_alloc_fail(bytes)
    BY <1>1, <2>2 DEF Alloc, kpm_alloc_fail, bitmaps
  <2> QED
    BY <1>1, <2>1, <2>2 DEF Alloc, kpm_alloc
<1>2. ASSUME NEW c \in CHUNKS, Free(c)
      PROVE  enabled' = enabled /\ UNCHANGED bootvars /\ Running /\ chunk' = chunk
  <2>1. UNCHANGED bootvars /\ Running /\ chunk' = chunk /\ kpm_free(c)
    BY <1>2 DEF Free, outvars
  <2>2. CASE UNCHANGED bitmaps
    BY <2>1, <2>2 DEF bitmaps
  <2>3. ASSUME NEW R, NEW F, SetFrames(R, enabled, F)
        PROVE  enabled' = enabled
    BY <2>3 DEF SetFrames
  <2> QED
    BY <2>1, <2>2, <2>3 DEF kpm_free
<1> QED
  BY <1>1, <1>2

\* One entry of the memory map only adds frames, and only while none is taken.
LEMMA EntryFacts ==
  ASSUME IndInv, ReservedInv, KpmInitEntry
  PROVE  /\ step \in 1 .. Len(mmap) \/ step = 0
         /\ step' = step + 1 /\ mmap' = mmap /\ chunk' = chunk
         /\ enabled \subseteq enabled'
         /\ \A f : ~Taken(f) /\ ~Taken(f)'
<1>1. /\ step \in Nat /\ Len(mmap) \in Nat /\ step <= Len(mmap)
      /\ step' = step + 1 /\ mmap' = mmap /\ chunk' = chunk
  BY MapLength DEF IndInv, TypeOK, KpmInitEntry, outvars
<1>2. enabled \subseteq enabled'
  <2>1. CASE UNCHANGED bitmaps
    BY <2>1 DEF bitmaps
  <2>2. ASSUME NEW R, NEW F, SetFrames(R, enabled \cup R, F)
        PROVE  enabled \subseteq enabled'
    BY <2>2 DEF SetFrames
  <2> QED
    BY <2>1, <2>2 DEF KpmInitEntry, kpm_enable
<1>3. \A f : ~Taken(f) /\ ~Taken(f)'
  BY <1>1 DEF Taken
<1> QED
  BY <1>1, <1>2, <1>3

\* Every step keeps what is reserved out of the enabled frames.
LEMMA NextKeepsReserved ==
  SafeInv /\ ReservedInv /\ [Next]_kpmvars => ReservedInv'
<1>a. CASE UNCHANGED kpmvars
  BY <1>a DEF kpmvars, bitmaps, bootvars, outvars, ReservedInv, Taken, BootDone
<1> SUFFICES ASSUME IndInv, ReservedInv, Next
             PROVE  ReservedInv'
  BY <1>a, EscapeEnds DEF SafeInv
<1>0. step \in Nat /\ Len(mmap) \in Nat
  BY MapLength DEF IndInv, TypeOK
<1>1. CASE KpmInitEntry
  <2>1. ~BootDone
    BY <1>0, <1>1 DEF KpmInitEntry, BootDone
  <2>2. ChunkFrames(chunk) = {}
    BY <2>1 DEF ReservedInv
  <2> QED
    BY <1>1, <2>2, EntryFacts DEF ReservedInv
<1>2. CASE KpmInitReserve
  <2>1. ~BootDone /\ ~oob /\ chunk' = chunk /\ mmap' = mmap
    BY <1>2 DEF KpmInitReserve, outvars
  <2>2. ChunkFrames(chunk') = {}
    BY <2>1 DEF ReservedInv
  <2>3. oob' \/ \A f \in enabled' : ~Taken(f)'
    BY <1>2, <2>1, ReserveEffect
  <2> QED
    BY <2>1, <2>2, <2>3 DEF ReservedInv
<1>3. CASE \/ \E bytes \in SIZES : Alloc(bytes)
           \/ \E c \in CHUNKS : Free(c)
  <2>1. /\ enabled' = enabled /\ UNCHANGED bootvars /\ Running
        /\ \/ chunk' = chunk
           \/ ChunkFrames(chunk') \subseteq free[0]
    BY <1>3, EnabledFixed
  <2>2. ChunkFrames(chunk') \subseteq enabled
    BY <2>1 DEF ReservedInv, IndInv, FreeFramesEnabled
  <2>3. \A f \in enabled : ~Taken(f)
    BY <2>1 DEF Running, ReservedInv
  <2>4. \A f : Taken(f)' <=> Taken(f)
    BY <2>1 DEF Taken, bootvars
  <2>5. BootDone' /\ mmap' = mmap
    BY <2>1 DEF Running, BootDone, bootvars
  <2> QED
    BY <2>1, <2>2, <2>3, <2>4, <2>5 DEF ReservedInv
<1> QED
  BY <1>1, <1>2, <1>3 DEF Next

\* Nothing is enabled, taken or handed out at the first step of kpm_init.
LEMMA InitReserved == Init => ReservedInv
<1> SUFFICES ASSUME Init
             PROVE  ReservedInv
  OBVIOUS
<1>1. ChunkFrames(chunk) = {}
  <2>1. 0 + PAGE_SIZE <= ADDR_SPACE /\ 0 * PAGE_SIZE = 0
    BY KpmAssumption, ImageAssumption
  <2>2. FramesNeeded(0) = 0
    BY <2>1, RoundFacts
  <2>3. chunk.addr = 0 /\ chunk.size = 0
    BY DEF Init
  <2>4. 0 \div PAGE_SIZE = 0
    BY KpmAssumption
  <2> QED
    BY <2>2, <2>3, <2>4 DEF ChunkFrames
<1>2. mmap \in MMAPS /\ enabled = {}
  BY DEF Init
<1> QED
  BY <1>1, <1>2 DEF ReservedInv

\* Frame 0, the kernel image and the buddy structure are never enabled, free or
\* part of the last chunk once kpm_init has returned: for every memory map,
\* entries that wrap included, every request and every chunk handed back.
THEOREM ReservedNeverHandedOut == Spec => []ReservedNeverAvailable
<1>1. IndInv /\ ReservedInv => ReservedNeverAvailable
  <2> SUFFICES ASSUME IndInv, ReservedInv, Running
               PROVE  Reserved \cap (enabled \cup free[0] \cup ChunkFrames(chunk)) = {}
    BY DEF ReservedNeverAvailable
  <2>1. free[0] \subseteq enabled /\ ChunkFrames(chunk) \subseteq enabled
    BY DEF IndInv, FreeFramesEnabled, ReservedInv
  <2>2. \A f \in enabled : ~Taken(f)
    BY DEF ReservedInv, Running
  <2>3. \A f : Taken(f) <=> f \in Reserved
    BY TakenFacts DEF Running
  <2> QED
    BY <2>1, <2>2, <2>3
<1>2. SafeInv /\ ReservedInv => ReservedNeverAvailable
  BY <1>1 DEF SafeInv, ReservedNeverAvailable, Running
<1> QED
  BY <1>2, InvHolds, InitReserved, NextKeepsReserved, PTL DEF Spec

\* An entry of an ordinary memory map enables the frames that lie whole in it,
\* when it is available.
LEMMA EntryEffect ==
  ASSUME IndInv, ReservedInv, MapInv, OrdinaryMap, KpmInitEntry, ~oob'
  PROVE  \A f \in Frames : f \in enabled' <=> f \in enabled \/ InRegion(f, mmap[step])
<1> DEFINE e == mmap[step]
<1>1. step \in 1 .. Len(mmap)
  BY EntryFacts DEF MapInv
<1>2. e \in [addr : Nat, len : Nat, available : BOOLEAN]
  BY <1>1, MapLength
<1>3. CASE ~e.available
  <2>1. UNCHANGED bitmaps
    BY <1>3 DEF KpmInitEntry
  <2> QED
    BY <1>3, <2>1 DEF bitmaps, InRegion
<1>4. CASE e.available
  <2>1. e.addr \in Nat /\ e.len \in Nat
    BY <1>2
  <2>2. e.addr + e.len < ADDR_SPACE /\ IsAligned(e.addr, PAGE_SIZE)
    BY <1>1, <1>4 DEF OrdinaryMap
  <2>3. kpm_enable(e.addr % ADDR_SPACE, e.len % ADDR_SPACE)
    BY <1>4 DEF KpmInitEntry
  <2>4. \A x \in Nat : x < ADDR_SPACE => x % ADDR_SPACE = x
    BY KpmAssumption
  <2>5. e.addr < ADDR_SPACE /\ e.len < ADDR_SPACE
    BY <2>1, <2>2, KpmAssumption
  <2>6. kpm_enable(e.addr, e.len)
    <3>1. e.addr % ADDR_SPACE = e.addr /\ e.len % ADDR_SPACE = e.len
      BY <2>1, <2>4, <2>5
    <3> QED
      BY <2>3, <3>1
  <2> HIDE DEF e
  <2>7. \A f \in Frames :
          f \in enabled' <=> \/ f \in enabled
                             \/ /\ e.addr <= f * PAGE_SIZE
                                /\ (f + 1) * PAGE_SIZE <= e.addr + e.len
    BY <2>1, <2>2, <2>6, EnableEffect
  <2>8. \A f : InRegion(f, e) <=> /\ e.addr <= f * PAGE_SIZE
                                  /\ (f + 1) * PAGE_SIZE <= e.addr + e.len
    BY <1>4 DEF InRegion, e
  <2> QED
    BY <2>7, <2>8 DEF e
<1> QED
  BY <1>2, <1>3, <1>4

\* Every step keeps the enabled frames in agreement with the memory map.
LEMMA NextKeepsMap ==
  SafeInv /\ ReservedInv /\ MapInv /\ [Next]_kpmvars => MapInv'
<1>a. CASE UNCHANGED kpmvars
  BY <1>a DEF kpmvars, bitmaps, bootvars, outvars, MapInv, Taken, Listed, InRegion,
             OrdinaryMap
<1> SUFFICES ASSUME IndInv, ReservedInv, MapInv, Next
             PROVE  MapInv'
  BY <1>a, EscapeEnds DEF SafeInv
<1>0. /\ step \in Nat /\ step # 0 /\ Len(mmap) \in Nat /\ enabled \subseteq Frames
      /\ mmap' = mmap /\ (step' = step + 1 \/ step' = step)
  BY MapLength DEF IndInv, TypeOK, MapInv, Next, KpmInitEntry, KpmInitReserve,
                   Alloc, Free, bootvars
<1>b. CASE ~OrdinaryMap
  <2>1. ~OrdinaryMap'
    BY <1>0, <1>b DEF OrdinaryMap
  <2> QED
    BY <1>0, <2>1 DEF MapInv
<1>c. SUFFICES ASSUME OrdinaryMap
               PROVE  MapInv'
  BY <1>b
<1>1. CASE KpmInitEntry
  <2>1. /\ ~oob /\ step' = step + 1
        /\ \A f : ~Taken(f) /\ ~Taken(f)'
        /\ step \in 1 .. Len(mmap)
    BY <1>0, <1>1, EntryFacts DEF KpmInitEntry
  <2>2. \A f \in Frames : f \in enabled <=> Listed(f)
    BY <1>c, <2>1 DEF MapInv
  <2>3. \A f : Listed(f)' <=> Listed(f) \/ InRegion(f, mmap[step])
    <3>1. \A k \in 1 .. Len(mmap) : k < step + 1 <=> k < step \/ k = step
      BY <1>0
    <3> QED
      BY <1>0, <2>1, <3>1 DEF Listed, InRegion
  <2>4. oob' \/ \A f \in Frames : f \in enabled' <=> Listed(f)' /\ ~Taken(f)'
    BY <1>c, <1>1, <2>1, <2>2, <2>3, EntryEffect
  <2> QED
    BY <1>0, <2>1, <2>4 DEF MapInv
<1>2. CASE KpmInitReserve
  <2>1. ~oob /\ step' = step + 1 /\ step > Len(mmap)
    BY <1>2 DEF KpmInitReserve
  <2>2. \A f \in Frames : f \in enabled <=> Listed(f) /\ ~Taken(f)
    BY <1>c, <2>1 DEF MapInv
  <2>3. \A f : Listed(f)' <=> Listed(f)
    <3>1. \A k \in 1 .. Len(mmap) : k < step /\ k < step + 1
      BY <1>0, <2>1
    <3> QED
      BY <1>0, <2>1, <3>1 DEF Listed, InRegion
  <2>4. \A f : Taken(f) => Taken(f)'
    BY <1>0, <2>1 DEF Taken
  <2>5. oob' \/ \A f \in Frames : f \in enabled' <=> Listed(f)' /\ ~Taken(f)'
    BY <1>2, <2>1, <2>2, <2>3, <2>4, ReserveEffect
  <2> QED
    BY <1>0, <2>1, <2>5 DEF MapInv
<1>3. CASE \/ \E bytes \in SIZES : Alloc(bytes)
           \/ \E c \in CHUNKS : Free(c)
  <2>1. enabled' = enabled /\ UNCHANGED bootvars /\ ~oob
    BY <1>3, EnabledFixed DEF Running
  <2>2. \A f : (Taken(f)' <=> Taken(f)) /\ (Listed(f)' <=> Listed(f))
    BY <2>1 DEF Taken, bootvars, Listed, InRegion
  <2>3. \A f \in Frames : f \in enabled <=> Listed(f) /\ ~Taken(f)
    BY <1>c, <2>1 DEF MapInv
  <2> QED
    BY <1>0, <2>1, <2>2, <2>3 DEF MapInv
<1> QED
  BY <1>1, <1>2, <1>3 DEF Next

\* No entry has been read at the first step of kpm_init.
LEMMA InitMap == Init => MapInv
<1> SUFFICES ASSUME Init
             PROVE  MapInv
  OBVIOUS
<1>1. step = 1 /\ enabled = {}
  BY DEF Init
<1>2. \A f : ~Listed(f)
  <2>1. \A k \in 1 .. Len(mmap) : ~(k < 1)
    OBVIOUS
  <2> QED
    BY <1>1, <2>1 DEF Listed
<1> QED
  BY <1>1, <1>2 DEF MapInv

\* Once kpm_init has returned, the enabled frames are exactly the frames of
\* memory that lie whole in an available region and are not reserved, for every
\* memory map whose available regions start on a page and end below 4 GiB.
THEOREM EnabledAsMapped == Spec => []EnabledMatchesMap
<1>1. SafeInv /\ ReservedInv /\ MapInv => EnabledMatchesMap
  <2> SUFFICES ASSUME SafeInv, ReservedInv, MapInv, Running, OrdinaryMap
               PROVE  enabled = {f \in Frames \ Reserved :
                                   \E k \in 1 .. Len(mmap) : InRegion(f, mmap[k])}
    BY DEF EnabledMatchesMap
  <2>0. IndInv /\ ~oob
    BY DEF SafeInv, Running
  <2>1. \A f \in Frames : f \in enabled <=> Listed(f) /\ ~Taken(f)
    BY <2>0 DEF MapInv
  <2>2. \A f : Taken(f) <=> f \in Reserved
    BY <2>0, TakenFacts DEF Running
  <2>3. step \in Nat /\ Len(mmap) \in Nat /\ step > Len(mmap) + 3 /\ enabled \subseteq Frames
    BY <2>0, MapLength DEF IndInv, TypeOK, Running, BootDone
  <2>4. \A f : Listed(f) <=> \E k \in 1 .. Len(mmap) : InRegion(f, mmap[k])
    <3>1. \A k \in 1 .. Len(mmap) : k < step
      BY <2>3
    <3> QED
      BY <3>1 DEF Listed
  <2> QED
    BY <2>1, <2>2, <2>3, <2>4
<1> QED
  BY <1>1, InvHolds, InitReserved, NextKeepsReserved, InitMap, NextKeepsMap, PTL DEF Spec

\* A chunk whose frames are not all in the bitmaps reaches past the last frame.
LEMMA StrayChunk ==
  ASSUME NEW c \in [addr : Nat, size : Nat], IsAligned(c.addr, PAGE_SIZE),
         ~(ChunkFrames(c) \subseteq Frames)
  PROVE  c.addr + c.size > MemoryEnd
<1> DEFINE P == PAGE_SIZE
           A == ADDR_SPACE
           x == c.size + P - 1
           y == (x % A) % A
           k == y \div P
<1>0. P \in Nat \ {0} /\ A \in Nat \ {0} /\ NFrames \in Nat /\ c.addr \in Nat /\ c.size \in Nat
  BY KpmAssumption, FramesFacts
<1>1. PICK a \in Nat : c.addr = a * P /\ c.addr \div P = a
  BY <1>0, WholePages
<1>2. FramesNeeded(c.size) = (k * P) \div P
  BY DEF FramesNeeded, AlignNext, Align
<1>3. ChunkFrames(c) = a .. (a + FramesNeeded(c.size) - 1)
  BY <1>1 DEF ChunkFrames
<1>4. MemoryEnd = NFrames * P
  BY DEF MemoryEnd
<1> HIDE DEF P, A
<1>5. x \in Nat
  BY <1>0
<1>6. \A z \in Nat : z % A \in Nat /\ z % A <= z
  BY <1>0
<1>7. y \in Nat /\ y <= x
  <2> HIDE DEF x
  <2>1. x % A \in Nat /\ x % A <= x
    BY <1>5, <1>6
  <2>2. y \in Nat /\ y <= x % A
    BY <1>6, <2>1
  <2> QED
    BY <1>5, <2>1, <2>2
<1>8. k \in Nat /\ k * P <= y /\ k * P \in Nat
  <2> HIDE DEF y
  <2> QED
    BY <1>0, <1>7
<1>9. k * P <= c.size + P - 1
  <2>1. x = c.size + P - 1
    OBVIOUS
  <2> HIDE DEF x, y, k
  <2> QED
    BY <1>0, <1>5, <1>7, <1>8, <2>1
<1> HIDE DEF k
<1>10. FramesNeeded(c.size) = k
  <2>1. (k * P) \div P = k
    BY <1>0, <1>8
  <2> QED
    BY <1>2, <2>1
<1>11. PICK f \in a .. (a + k - 1) : f \notin Frames
  BY <1>3, <1>10
<1>12. a + k >= NFrames + 1
  BY <1>0, <1>8, <1>11 DEF Frames
<1>13. (a + k) * P >= (NFrames + 1) * P
  BY <1>0, <1>8, <1>12
<1>14. (a + k) * P = a * P + k * P /\ (NFrames + 1) * P = NFrames * P + P
  BY <1>0, <1>8
<1>15. a * P \in Nat /\ NFrames * P \in Nat
  BY <1>0
<1> QED
  BY <1>0, <1>1, <1>4, <1>8, <1>9, <1>13, <1>14, <1>15

\* The kernel image ends no later than the buddy structure behind it starts.
LEMMA ImageBelowBuddy == SK \in Nat /\ BuddyAddr \in Nat /\ SK <= BuddyAddr
<1>1. PICK n \in Nat : /\ AlignNext(EK, PAGE_SIZE) = n * PAGE_SIZE
                       /\ n * PAGE_SIZE \in Nat /\ EK <= n * PAGE_SIZE
  BY RoundedUp, ImageAssumption
<1> QED
  BY <1>1, ImageAssumption DEF BuddyAddr

\* An entry of the memory map that leaves the bitmaps is a stray one.
LEMMA EntryEscape ==
  ASSUME IndInv, ReservedInv, MapInv, KpmInitEntry, oob'
  PROVE  step <= Len(mmap) /\ StrayEntry(mmap[step])
<1> DEFINE e == mmap[step]
           a == e.addr % ADDR_SPACE
           l == e.len % ADDR_SPACE
<1>1. step \in 1 .. Len(mmap) /\ step <= Len(mmap) /\ ~oob
  BY EntryFacts DEF MapInv, KpmInitEntry
<1>2. e \in [addr : Nat, len : Nat, available : BOOLEAN]
  BY <1>1, MapLength
<1>3. ~(UNCHANGED bitmaps)
  BY <1>1 DEF bitmaps
<1>4. e.available /\ kpm_enable(a, l)
  BY <1>3 DEF KpmInitEntry
<1>5. a \in Nat /\ l \in Nat
  <2>1. \A z \in Nat : z % ADDR_SPACE \in Nat
    BY KpmAssumption
  <2> QED
    BY <1>2, <2>1
<1>6. StrayEntry(e) <=> e.available /\ (a > MemoryEnd \/ a + l >= ADDR_SPACE)
  BY DEF StrayEntry
<1>7. ADDR_SPACE \in Nat /\ MemoryEnd \in Nat
  BY KpmAssumption, FramesFacts DEF MemoryEnd
<1> HIDE DEF a, l, e
<1>8. IsAligned(a, PAGE_SIZE)
  BY <1>3, <1>4 DEF kpm_enable
<1>9. a + l < ADDR_SPACE => MemoryEnd < a
  BY <1>4, <1>5, <1>8, EnableEffect
<1>10. StrayEntry(e)
  BY <1>4, <1>5, <1>6, <1>7, <1>9
<1> QED
  BY <1>1, <1>10 DEF e

\* A reserving call leaves the bitmaps only where memory ends below the buddy
\* structure.
LEMMA ReserveEscape ==
  ASSUME IndInv, ReservedInv, KpmInitReserve, oob'
  PROVE  step > Len(mmap) /\ ~BootDone /\ MemoryEnd < BuddyAddr
<1>0. /\ step \in Nat /\ Len(mmap) \in Nat
      /\ step > Len(mmap) /\ step <= Len(mmap) + 3 /\ ~BootDone
  BY MapLength DEF IndInv, TypeOK, KpmInitReserve, BootDone
<1>1. MemoryEnd \in Nat
  BY KpmAssumption, FramesFacts DEF MemoryEnd
<1>2. CASE step = Len(mmap) + 1
  <2>1. kpm_disable(0, PAGE_SIZE)
    BY <1>0, <1>2 DEF KpmInitReserve
  <2>2. 0 \in Nat /\ PAGE_SIZE \in Nat /\ IsAligned(0, PAGE_SIZE)
        /\ 0 + PAGE_SIZE + PAGE_SIZE <= ADDR_SPACE
    BY KpmAssumption, ImageAssumption DEF IsAligned
  <2>3. MemoryEnd < 0
    BY <2>1, <2>2, DisableEffect
  <2> QED
    BY <1>1, <2>3
<1>3. CASE step = Len(mmap) + 2
  <2>1. kpm_disable(SK, EK - SK)
    BY <1>0, <1>3 DEF KpmInitReserve
  <2>2. /\ SK \in Nat /\ EK - SK \in Nat /\ IsAligned(SK, PAGE_SIZE)
        /\ SK + (EK - SK) + PAGE_SIZE <= ADDR_SPACE
    BY KpmAssumption, ImageAssumption
  <2>3. MemoryEnd < SK
    BY <2>1, <2>2, DisableEffect
  <2> QED
    BY <1>0, <1>1, <2>3, ImageBelowBuddy
<1>4. CASE step = Len(mmap) + 3
  <2>1. kpm_disable(BuddyAddr, BuddySize)
    BY <1>0, <1>4 DEF KpmInitReserve
  <2>2. MemoryEnd < BuddyAddr
    BY <2>1, BuddyPlace, ImageAssumption, DisableEffect
  <2> QED
    BY <1>0, <2>2
<1> QED
  BY <1>0, <1>2, <1>3, <1>4

\* The only calls that leave the bitmaps: kpm_enable for an entry that starts
\* past the last frame or runs over the end of the address space, kpm_disable on
\* a machine that ends below the kernel, kpm_free of a chunk that reaches past
\* the last frame; for every memory map, request and chunk.
THEOREM StraysOnlyEscape == Spec => OnlyStraysEscape
<1> DEFINE Stray == \/ step <= Len(mmap) /\ StrayEntry(mmap[step])
                    \/ step > Len(mmap) /\ ~BootDone /\ MemoryEnd < BuddyAddr
                    \/ \E c \in CHUNKS : Free(c) /\ c.addr + c.size > MemoryEnd
<1>1. SafeInv /\ ReservedInv /\ MapInv /\ [Next]_kpmvars => [~oob /\ oob' => Stray]_kpmvars
  <2> SUFFICES ASSUME SafeInv, ReservedInv, MapInv, Next, ~oob, oob'
               PROVE  Stray
    OBVIOUS
  <2>1. IndInv
    BY DEF SafeInv
  <2>2. CASE KpmInitEntry
    BY <2>1, <2>2, EntryEscape
  <2>3. CASE KpmInitReserve
    BY <2>1, <2>3, ReserveEscape
  <2>4. ASSUME NEW bytes \in SIZES, Alloc(bytes)
        PROVE  FALSE
    <3>1. CASE kpm_alloc_ok(bytes)
      BY <2>1, <3>1, AllocOkEffect
    <3>2. CASE kpm_alloc_fail(bytes)
      BY <3>2 DEF kpm_alloc_fail, bitmaps
    <3> QED
      BY <2>4, <3>1, <3>2 DEF Alloc, kpm_alloc
  <2>5. ASSUME NEW c \in CHUNKS, Free(c)
        PROVE  Stray
    <3>1. kpm_free(c) /\ c \in [addr : Nat, size : Nat]
      BY <2>5, KpmAssumption DEF Free
    <3>2. ~(UNCHANGED bitmaps)
      BY DEF bitmaps
    <3>3. /\ IsAligned(c.addr, PAGE_SIZE)
          /\ SetFrames(ChunkFrames(c), enabled, free[0] \cup (ChunkFrames(c) \cap enabled))
      BY <3>1, <3>2 DEF kpm_free
    <3>4. ~(ChunkFrames(c) \subseteq Frames)
      BY <3>3 DEF SetFrames
    <3> QED
      BY <2>5, <3>1, <3>3, <3>4, StrayChunk
  <2> QED
    BY <2>2, <2>3, <2>4, <2>5 DEF Next
<1> QED
  BY <1>1, InvHolds, InitReserved, NextKeepsReserved, InitMap, NextKeepsMap, PTL
  DEF Spec, OnlyStraysEscape

-----------------------------------------------------------------------------
(***************************************************************************)
(* The builtins alloc and free                                             *)
(***************************************************************************)


\* A chunk as kpm_alloc fills it in: page aligned, of enabled frames, and of a
\* size that strtol reads back.
GoodChunk(c) ==
  /\ IsAligned(c.addr, PAGE_SIZE)
  /\ ChunkFrames(c) # {}
  /\ ChunkFrames(c) \subseteq enabled
  /\ c.size <= LONG_MAX

\* No frame is both free and held, or held twice; and none is neither.
HeldApart ==
  /\ \A c \in held : ChunkFrames(c) \cap free[0] = {}
  /\ \A c, d \in held : c # d => ChunkFrames(c) \cap ChunkFrames(d) = {}
NoneLost == free[0] \cup UNION {ChunkFrames(c) : c \in held} = enabled

\* The inductive invariant: the manager's own, the shell's type, the balance of
\* the frames, and the facts that make kpm_free give back a chunk whole.  Frames
\* are lost only where free cannot read their address back.
BInv ==
  /\ IndInv
  /\ BTypeOK
  /\ HeldApart
  /\ LowMemory => NoneLost
  /\ \A c \in held : GoodChunk(c)
  /\ ~Running => held = {}

\* It holds until kpm_init leaves the bitmaps, where the behaviour ends.
BSafeInv == oob \/ BInv

\* LONG_MAX is odd, so what strtol makes of an address too big for it is no
\* multiple of the page size.
LEMMA SaturatedUnaligned ==
  ASSUME NEW a \in Nat, ~(a <= LONG_MAX)
  PROVE  ~IsAligned(ReadBack(a), PAGE_SIZE)
<1> DEFINE P == PAGE_SIZE
           L == LONG_MAX
<1>1. P \in Nat /\ P > 1 /\ (L + 1) % P = 0 /\ ReadBack(a) = L
  BY KpmAssumption, LongAssumption DEF IsAligned, ReadBack
<1>2. L \in Int
  BY KpmAssumption DEF LONG_MAX
<1> HIDE DEF P, L
<1>3. SUFFICES ASSUME L % P = 0
               PROVE  FALSE
  BY <1>1 DEF IsAligned, P
<1> DEFINE q == (L + 1) \div P
           r == L \div P
<1>4. q \in Int /\ r \in Int /\ L + 1 = P * q /\ L = P * r
  BY <1>1, <1>2, <1>3
<1> HIDE DEF q, r
<1>5. P * (q - r) = 1
  BY <1>1, <1>4
<1>6. CASE q - r <= 0
  <2>1. P * (q - r) <= 0
    BY <1>1, <1>4, <1>6
  <2> QED
    BY <1>5, <2>1
<1>7. CASE q - r >= 1
  <2>1. P * (q - r) >= P
    BY <1>1, <1>4, <1>7
  <2> QED
    BY <1>1, <1>5, <2>1
<1> QED
  BY <1>4, <1>6, <1>7

\* On a machine of low memory strtol reads every printed address back.
LEMMA HeldReadBack ==
  ASSUME BInv, NEW c \in held, LowMemory
  PROVE  c.addr <= LONG_MAX
<1> DEFINE P == PAGE_SIZE
           L == LONG_MAX
<1>1. c.addr \in Nat /\ GoodChunk(c) /\ enabled \subseteq Frames
  BY DEF BInv, BTypeOK, IndInv, TypeOK
<1>2. PICK b \in Nat : c.addr = b * P /\ c.addr \div P = b
  BY <1>1, WholePages DEF GoodChunk
<1>3. PICK f \in ChunkFrames(c) : f \in Frames
  BY <1>1 DEF GoodChunk
<1>4. NFrames \in Nat /\ P \in Nat \ {0} /\ L \in Int
  BY FramesFacts, KpmAssumption DEF LONG_MAX
<1>5. f \in Nat /\ b <= f /\ f < NFrames
  BY <1>2, <1>3, <1>4 DEF ChunkFrames, Frames
<1>6. NFrames * P <= L + 1
  BY DEF LowMemory, MemoryEnd
<1> HIDE DEF P, L
<1>7. (b + 1) * P <= NFrames * P
  BY <1>2, <1>4, <1>5
<1>8. (b + 1) * P = b * P + P /\ b * P \in Nat /\ NFrames * P \in Nat
  BY <1>2, <1>4
<1>9. b * P <= L
  BY <1>4, <1>6, <1>7, <1>8
<1> QED
  BY <1>2, <1>9 DEF L

\* What free does with a chunk that alloc printed: it releases the frames, or
\* reads an address back that is no page's.
LEMMA FreeHeld ==
  ASSUME BInv, NEW c \in held, FreeChunk(c)
  PROVE  /\ UNCHANGED <<enabled, oob>>
         /\ \/ free'[0] = free[0] \cup ChunkFrames(c)
            \/ ~LowMemory /\ UNCHANGED bitmaps
         /\ IndInv'
<1> DEFINE R == ChunkFrames(c)
           k == [addr |-> ReadBack(c.addr), size |-> ReadBack(c.size)]
<1>1. GoodChunk(c) /\ TypeOK /\ FreeFramesEnabled /\ ~oob /\ IndInv
        /\ c \in [addr : Nat, size : Nat] /\ kpm_free(k)
  BY DEF BInv, IndInv, BTypeOK, FreeChunk
<1>2. step' \in Nat /\ chunk' \in [addr : Nat, size : Nat] /\ ret' \in {0, -1}
  BY <1>1 DEF FreeChunk, bootvars, outvars, TypeOK
<1> HIDE DEF k
<1>3. SafeInv'
  BY <1>1, <1>2, FreeKeepsInv
<1>4. CASE c.addr <= LONG_MAX
  <2>1. k = c
    BY <1>1, <1>4 DEF ReadBack, GoodChunk, k
  <2>2. kpm_free(c)
    BY <1>1, <2>1
  <2>3. R \subseteq Frames /\ R \cap enabled = R
    BY <1>1 DEF GoodChunk, TypeOK
  <2>4. SetFrames(R, enabled, free[0] \cup (R \cap enabled))
    BY <1>1, <2>2 DEF kpm_free, GoodChunk
  <2> HIDE DEF R
  <2>5. /\ enabled' = enabled /\ oob' = FALSE
        /\ free' = UpdateOrders(free[0] \cup R, R)
    BY <2>3, <2>4 DEF SetFrames
  <2>6. free[0] \cup R \in SUBSET Frames /\ R \in SUBSET Frames
    BY <1>1, <2>3 DEF TypeOK, FreeFramesEnabled
  <2>7. free'[0] = free[0] \cup R
    BY <1>1, <2>5, <2>6, UpdateOrdersFacts
  <2>8. oob' = oob
    BY <1>1, <2>5 DEF TypeOK
  <2> QED
    BY <1>3, <2>5, <2>7, <2>8 DEF R, SafeInv
<1>5. CASE ~(c.addr <= LONG_MAX)
  <2>1. ~LowMemory
    BY <1>5, HeldReadBack
  <2>2. ~IsAligned(k.addr, PAGE_SIZE)
    BY <1>1, <1>5, SaturatedUnaligned DEF k
  <2>3. UNCHANGED bitmaps
    BY <1>1, <2>2 DEF kpm_free
  <2> QED
    BY <1>1, <1>3, <2>1, <2>3 DEF bitmaps, SafeInv
<1> QED
  BY <1>4, <1>5

\* What kpm_alloc hands to the loop.
LEMMA NewChunkGood ==
  ASSUME IndInv, NEW s, kpm_alloc_ok(s)
  PROVE  IsAligned(chunk'.addr, PAGE_SIZE) /\ chunk'.size <= LONG_MAX
<1> DEFINE o == ChosenOrder(s)
           i == bitmap_ffu(free[o])
           b == FramesPerBlock[o]
           P == PAGE_SIZE
<1>1. o \in Orders /\ i \in Nat
  BY ChosenBlock DEF kpm_alloc_ok
<1>2. chunk'.addr = i * P * b /\ chunk'.size = P * b
  BY DEF kpm_alloc_ok
<1> HIDE DEF o, i
<1>3. b \in Nat /\ P \in Nat \ {0}
  BY <1>1, FramesPerBlockFacts, KpmAssumption
<1>6. P * b <= LONG_MAX
  <2> DEFINE t == FramesPerBlock[KPM_NORDERS - 1]
  <2>1. KPM_NORDERS - 1 \in Orders /\ o <= KPM_NORDERS - 1
    BY <1>1, OrdersFacts DEF Orders
  <2>2. b <= t /\ t \in Nat
    BY <1>1, <2>1, BlocksGrow, FramesPerBlockFacts
  <2>3. P * t <= LONG_MAX /\ LONG_MAX \in Int
    BY LongAssumption, KpmAssumption DEF LONG_MAX
  <2> HIDE DEF t, b, P
  <2>4. P * b <= P * t
    BY <1>3, <2>2
  <2> QED
    BY <1>3, <2>2, <2>3, <2>4
<1> HIDE DEF b, P
<1>4. i * P * b = (i * b) * P /\ i * b \in Nat
  BY <1>1, <1>3
<1>5. \A k \in Nat : (k * P) % P = 0
  BY <1>3
<1> QED
  BY <1>2, <1>4, <1>5, <1>6 DEF IsAligned, P

\* kpm_init keeps the free and the enabled frames the same set.
LEMMA RegionKeepsBalance ==
  ASSUME IndInv, free[0] = enabled, NEW base, NEW limit,
         kpm_enable(base, limit) \/ kpm_disable(base, limit)
  PROVE  oob' \/ free'[0] = enabled'
<1>1. CASE UNCHANGED bitmaps
  BY <1>1 DEF bitmaps
<1>2. ASSUME NEW R, NEW F, SetFrames(R, F, F), R \subseteq Frames => F \subseteq Frames
      PROVE  oob' \/ free'[0] = enabled'
  <2>1. CASE R \subseteq Frames
    <3>1. enabled' = F /\ free' = UpdateOrders(F, R)
      BY <1>2, <2>1 DEF SetFrames
    <3>2. F \in SUBSET Frames /\ R \in SUBSET Frames
      BY <1>2, <2>1
    <3> QED
      BY <3>1, <3>2, UpdateOrdersFacts DEF IndInv
  <2>2. CASE ~(R \subseteq Frames)
    BY <1>2, <2>2 DEF SetFrames
  <2> QED
    BY <2>1, <2>2
<1>3. enabled \subseteq Frames
  BY DEF IndInv, TypeOK
<1>4. \A R : /\ SetFrames(R, enabled \cup R, free[0] \cup R) => oob' \/ free'[0] = enabled'
             /\ SetFrames(R, enabled \ R, free[0] \ R) => oob' \/ free'[0] = enabled'
  BY <1>2, <1>3
<1> QED
  BY <1>1, <1>4 DEF kpm_enable, kpm_disable

-----------------------------------------------------------------------------
\* Before kpm_init nothing is free, enabled or held.
LEMMA BInitInv == BInit => BInv
<1> SUFFICES ASSUME BInit
             PROVE  BInv
  OBVIOUS
<1>1. Init /\ held = {} /\ got = {} /\ asked = 0 /\ size = 0
  BY DEF BInit
<1>2. IndInv
  BY <1>1, InitInv
<1>3. BTypeOK
  BY <1>1, <1>2 DEF BInit, BTypeOK, IndInv
<1>4. HeldApart /\ NoneLost
  BY <1>1, OrdersFacts DEF Init, HeldApart, NoneLost
<1> QED
  BY <1>1, <1>2, <1>3, <1>4 DEF BInv

\* A step that leaves the bitmaps, the boot and the held chunks alone.
LEMMA QuietKeepsBInv ==
  ASSUME BInv, UNCHANGED <<bitmaps, bootvars, held>>, BTypeOK'
  PROVE  BInv'
<1>1. UNCHANGED <<enabled, free, oob, step, mmap, held>>
  BY DEF bitmaps, bootvars
<1>2. IndInv'
  BY <1>1 DEF BInv, IndInv, BTypeOK, OrdersAgree, FreeFramesEnabled
<1>3. HeldApart' /\ (LowMemory => NoneLost')
  BY <1>1 DEF BInv, HeldApart, NoneLost
<1>4. \A c \in held' : GoodChunk(c)'
  BY <1>1 DEF BInv, GoodChunk
<1>5. ~Running' => held' = {}
  BY <1>1 DEF BInv, Running, BootDone
<1> QED
  BY <1>2, <1>3, <1>4, <1>5 DEF BInv

\* A step of kpm_init: the shell has not started and holds no chunk.
LEMMA BootKeepsBInv ==
  ASSUME BInv, Boot
  PROVE  BSafeInv' /\ ~Running /\ held = {} /\ held' = {}
<1>1. ~Running /\ held = {} /\ UNCHANGED shvars /\ UNCHANGED outvars /\ step' = step + 1
  <2>1. step \in Nat
    BY DEF BInv, IndInv, TypeOK
  <2>2. ~BootDone \/ oob
    BY <2>1 DEF Boot, KpmInitEntry, KpmInitReserve, BootDone
  <2> QED
    BY <2>2 DEF Boot, KpmInitEntry, KpmInitReserve, BInv, Running
<1>2. SafeInv'
  <2>1. KpmInitEntry \/ KpmInitReserve
    BY DEF Boot
  <2>2. Next
    BY <2>1 DEF Next
  <2> QED
    BY <2>2, NextKeepsInv DEF BInv
<1>3. LowMemory => free[0] = enabled
  BY <1>1 DEF BInv, NoneLost
<1>4. LowMemory => oob' \/ free'[0] = enabled'
  <2>1. \/ UNCHANGED bitmaps
        \/ \E base, limit : kpm_enable(base, limit) \/ kpm_disable(base, limit)
    BY DEF Boot, KpmInitEntry, KpmInitReserve
  <2>2. IndInv
    BY DEF BInv
  <2>3. CASE UNCHANGED bitmaps
    BY <1>3, <2>3 DEF bitmaps
  <2> QED
    BY <1>3, <2>1, <2>2, <2>3, RegionKeepsBalance
<1>5. held' = {}
  BY <1>1 DEF shvars
<1>6. HeldApart' /\ (LowMemory => oob' \/ NoneLost')
  BY <1>4, <1>5 DEF HeldApart, NoneLost
<1>7. oob' \/ BTypeOK'
  BY <1>1, <1>2 DEF BInv, BTypeOK, IndInv, SafeInv, shvars
<1> QED
  BY <1>1, <1>2, <1>5, <1>6, <1>7 DEF BInv, BSafeInv, SafeInv

\* An iteration of alloc_loop that gets a chunk.
LEMMA ChunkKeepsBInv ==
  ASSUME BInv, LoopChunk
  PROVE  BInv' /\ Running'
<1> DEFINE R == ChunkFrames(chunk')
<1>1. /\ Running /\ kpm_alloc_ok(size) /\ size > 0
      /\ held' = held \cup {chunk'} /\ got' = got \cup {chunk'}
      /\ UNCHANGED <<mmap, step, asked>>
  BY DEF LoopChunk, bootvars
<1>2. IndInv /\ BTypeOK /\ HeldApart /\ step \in Nat
  BY DEF BInv, IndInv, TypeOK
<1>3. IndInv'
  BY <1>1, <1>2, AllocOkKeepsInv
<1>4. /\ R # {} /\ R \subseteq free[0] /\ free'[0] = free[0] \ R
      /\ UNCHANGED <<enabled, oob>>
  BY <1>1, <1>2, AllocOkEffect
<1>5. free[0] \subseteq enabled
  BY <1>2 DEF IndInv, FreeFramesEnabled
<1>6. \A c \in held' : c = chunk' \/ (c \in held /\ ChunkFrames(c) \cap free[0] = {})
  BY <1>1, <1>2 DEF HeldApart
<1>7. HeldApart' /\ (LowMemory => NoneLost')
  <2>1. LowMemory => free'[0] \cup UNION {ChunkFrames(c) : c \in held'} = enabled'
    <3>1. UNION {ChunkFrames(c) : c \in held'}
            = (UNION {ChunkFrames(c) : c \in held}) \cup R
      BY <1>1
    <3>2. LowMemory => free[0] \cup UNION {ChunkFrames(c) : c \in held} = enabled
      BY DEF BInv, NoneLost
    <3> QED
      BY <1>4, <3>1, <3>2
  <2>2. \A c \in held' : ChunkFrames(c) \cap free'[0] = {}
    BY <1>4, <1>6
  <2>3. ASSUME NEW c \in held', NEW d \in held', c # d
        PROVE  ChunkFrames(c) \cap ChunkFrames(d) = {}
    <3>1. CASE c \in held /\ d \in held
      BY <1>2, <2>3, <3>1 DEF HeldApart
    <3>2. CASE c = chunk'
      BY <1>4, <1>6, <2>3, <3>2
    <3>3. CASE d = chunk'
      BY <1>4, <1>6, <2>3, <3>3
    <3> QED
      BY <1>6, <3>1, <3>2, <3>3
  <2>4. \A c, d \in held' : c # d => ChunkFrames(c) \cap ChunkFrames(d) = {}
    BY <2>3
  <2> QED
    BY <2>1, <2>2, <2>4 DEF HeldApart, NoneLost, ChunkFrames, FramesNeeded
<1>8. \A c \in held' : GoodChunk(c)'
  <2>1. \A c \in held : GoodChunk(c)
    BY DEF BInv
  <2>2. IsAligned(chunk'.addr, PAGE_SIZE) /\ chunk'.size <= LONG_MAX
    BY <1>1, <1>2, NewChunkGood
  <2>3. ASSUME NEW c \in held'
        PROVE  /\ IsAligned(c.addr, PAGE_SIZE)
               /\ ChunkFrames(c) # {}
               /\ ChunkFrames(c) \subseteq enabled
               /\ c.size <= LONG_MAX
    BY <1>1, <1>4, <1>5, <2>1, <2>2 DEF GoodChunk
  <2> QED
    BY <1>4, <2>3 DEF GoodChunk
<1>9. Running'
  BY <1>1, <1>4 DEF Running, BootDone
<1>10. BTypeOK'
  <2>1. chunk' \in [addr : Nat, size : Nat] /\ TypeOK'
    BY <1>3 DEF IndInv, TypeOK
  <2>2. size' \in Nat
    <3>1. size \in Nat /\ chunk'.size \in Nat
      BY <1>2, <2>1 DEF BTypeOK
    <3>2. size' = size \/ (chunk'.size < size /\ size' = size - chunk'.size)
      BY DEF LoopChunk
    <3> QED
      BY <3>1, <3>2
  <2>3. pc' \in {"prompt", "alloc_loop"} /\ {loopret', status'} \subseteq {0, -1}
          /\ fg' \in {"user", "green"}
    BY <1>2 DEF LoopChunk, LoopReturns, BTypeOK
  <2> QED
    BY <1>1, <1>2, <2>1, <2>2, <2>3 DEF BTypeOK
<1> QED
  BY <1>3, <1>7, <1>8, <1>9, <1>10 DEF BInv

\* free of a chunk that alloc printed.
LEMMA FreeKeepsBInv ==
  ASSUME BInv, NEW c \in held, FreeChunk(c)
  PROVE  BInv' /\ Running'
<1> DEFINE R == ChunkFrames(c)
<1>1. /\ Running /\ held' = held \ {c} /\ status' = 0
      /\ UNCHANGED <<mmap, step, chunk, ret, pc, asked, size, got, loopret, fg>>
  BY DEF FreeChunk, bootvars, outvars
<1>2. IndInv /\ BTypeOK /\ HeldApart /\ GoodChunk(c)
  BY DEF BInv
<1>3. /\ IndInv' /\ UNCHANGED <<enabled, oob>>
      /\ free'[0] = free[0] \cup R \/ (~LowMemory /\ free'[0] = free[0])
  BY FreeHeld DEF bitmaps
<1>4. free'[0] \subseteq free[0] \cup R
  BY <1>3
<1>5. \A d \in held' : d \in held /\ ChunkFrames(d) \cap R = {}
  BY <1>1, <1>2 DEF HeldApart
<1>6. HeldApart' /\ (LowMemory => NoneLost')
  <2>1. LowMemory => free'[0] \cup UNION {ChunkFrames(d) : d \in held'} = enabled'
    <3>1. UNION {ChunkFrames(d) : d \in held}
            = (UNION {ChunkFrames(d) : d \in held'}) \cup R
      BY <1>1
    <3>2. LowMemory => free[0] \cup UNION {ChunkFrames(d) : d \in held} = enabled
      BY DEF BInv, NoneLost
    <3> QED
      BY <1>3, <3>1, <3>2
  <2>2. \A d \in held' : ChunkFrames(d) \cap free'[0] = {}
    BY <1>2, <1>4, <1>5 DEF HeldApart
  <2>3. \A d, e \in held' : d # e => ChunkFrames(d) \cap ChunkFrames(e) = {}
    BY <1>1, <1>2 DEF HeldApart
  <2> QED
    BY <2>1, <2>2, <2>3 DEF HeldApart, NoneLost
<1>7. \A d \in held' : GoodChunk(d)'
  BY <1>1, <1>3 DEF BInv, GoodChunk
<1>8. Running'
  BY <1>1, <1>3 DEF Running, BootDone
<1>9. BTypeOK'
  BY <1>1, <1>2, <1>3 DEF BTypeOK, IndInv
<1> QED
  BY <1>3, <1>6, <1>7, <1>8, <1>9 DEF BInv

\* The commands that change none of the manager's state, and the failing loop.
LEMMA OthersKeepBInv ==
  ASSUME BInv,
         \/ \E s \in SIZES : AllocStart(s)
         \/ Usage \/ LoopNothing \/ LoopFails
         \/ UNCHANGED vars
  PROVE  BInv' /\ UNCHANGED <<bitmaps, bootvars, held>>
<1>1. UNCHANGED <<bitmaps, bootvars, held>>
  BY DEF AllocStart, Usage, LoopNothing, LoopFails, kpm_alloc_fail, kpmvars,
         vars, shvars
<1>2. TypeOK'
  <2>1. TypeOK
    BY DEF BInv, BTypeOK
  <2>2. UNCHANGED chunk /\ (ret' = ret \/ ret' = -1)
    BY DEF AllocStart, Usage, LoopNothing, LoopFails, kpm_alloc_fail, kpmvars,
           vars, outvars
  <2> QED
    BY <1>1, <2>1, <2>2 DEF TypeOK, bitmaps, bootvars
<1>3. BTypeOK'
  <2>1. BTypeOK
    BY DEF BInv
  <2>2. CASE \E s \in SIZES : AllocStart(s)
    BY <1>2, <2>1, <2>2, KpmAssumption DEF AllocStart, BTypeOK
  <2>3. CASE Usage
    BY <1>2, <2>1, <2>3 DEF Usage, BTypeOK
  <2>4. CASE LoopNothing
    BY <1>2, <2>1, <2>4 DEF LoopNothing, LoopReturns, BTypeOK
  <2>5. CASE LoopFails
    BY <1>2, <2>1, <2>5 DEF LoopFails, LoopReturns, BTypeOK
  <2>6. CASE UNCHANGED vars
    BY <1>2, <2>1, <2>6 DEF vars, shvars, BTypeOK
  <2> QED
    BY <2>2, <2>3, <2>4, <2>5, <2>6
<1> QED
  BY <1>1, <1>3, QuietKeepsBInv

\* Every step of the builtins keeps the invariant.
LEMMA BNextKeepsBInv == BInv /\ [BNext]_vars => BSafeInv'
<1> SUFFICES ASSUME BInv, [BNext]_vars
             PROVE  BSafeInv'
  OBVIOUS
<1>1. CASE Boot
  BY <1>1, BootKeepsBInv
<1>2. CASE LoopChunk
  BY <1>2, ChunkKeepsBInv DEF BSafeInv
<1>3. CASE \E c \in held : FreeChunk(c)
  BY <1>3, FreeKeepsBInv DEF BSafeInv
<1> QED
  BY <1>1, <1>2, <1>3, OthersKeepBInv DEF BNext, BSafeInv

\* No command follows a call of kpm_init that left the bitmaps.
LEMMA BEscapeEnds == oob /\ [BNext]_vars => UNCHANGED vars
BY DEF BNext, Boot, KpmInitEntry, KpmInitReserve, AllocStart, Usage, LoopNothing,
       LoopChunk, LoopFails, FreeChunk, Running

\* The inductive invariant of the builtins.
THEOREM BInvHolds == BSafety => []BSafeInv
<1>1. BInit => BSafeInv
  BY BInitInv DEF BSafeInv
<1>2. BSafeInv /\ [BNext]_vars => BSafeInv'
  <2>1. oob /\ [BNext]_vars => BSafeInv'
    BY BEscapeEnds DEF BSafeInv, vars, kpmvars, bitmaps
  <2> QED
    BY <2>1, BNextKeepsBInv DEF BSafeInv
<1> QED
  BY <1>1, <1>2, PTL DEF BSafety

\* On a machine whose addresses a long can hold, whatever the user types as long
\* as only printed chunks are freed, each enabled frame is free or in exactly one
\* printed chunk: kpm_alloc, alloc_loop, free and kpm_free lose none.
THEOREM FramesAccounted ==
  ASSUME LowMemory
  PROVE  BSafety => []EveryFrameAccounted
<1>1. BSafeInv => EveryFrameAccounted
  BY DEF BSafeInv, BInv, HeldApart, NoneLost, EveryFrameAccounted
<1> QED
  BY <1>1, BInvHolds, PTL

\* Once kpm_init has returned, no command makes the manager leave its bitmaps.
THEOREM StaysInBounds == BSafety => ClientInBounds
<1>1. BSafeInv /\ [BNext]_vars => [Running => ~oob']_vars
  <2> SUFFICES ASSUME BInv, BNext, Running
               PROVE  ~oob'
    BY DEF BSafeInv, Running
  <2>1. CASE Boot
    BY <2>1, BootKeepsBInv
  <2>2. CASE LoopChunk
    BY <2>2, ChunkKeepsBInv DEF Running
  <2>3. CASE \E c \in held : FreeChunk(c)
    BY <2>3, FreeKeepsBInv DEF Running
  <2>4. CASE \/ \E s \in SIZES : AllocStart(s)
             \/ Usage \/ LoopNothing \/ LoopFails
    BY <2>4, OthersKeepBInv DEF Running, bitmaps
  <2> QED
    BY <2>1, <2>2, <2>3, <2>4 DEF BNext
<1> QED
  BY <1>1, BInvHolds, PTL DEF BSafety, ClientInBounds

\* On a machine whose addresses a long can hold, alloc_loop gives up only when
\* every enabled frame is in a printed chunk.
THEOREM FailsOnlyExhausted ==
  ASSUME LowMemory
  PROVE  BSafety => LoopFailsWhenExhausted
<1>1. BSafeInv => [LoopFails => free[0] = {} /\ FramesOfAll(held) = enabled]_vars
  <2> SUFFICES ASSUME BSafeInv, LoopFails
               PROVE  free[0] = {} /\ FramesOfAll(held) = enabled
    OBVIOUS
  <2>1. BInv
    BY DEF BSafeInv, LoopFails, Running
  <2>2. free[0] = {}
    BY <2>1, AllocFailEffect DEF LoopFails, BInv
  <2> QED
    BY <2>1, <2>2 DEF BInv, NoneLost, FramesOfAll
<1> QED
  BY <1>1, BInvHolds, PTL DEF LoopFailsWhenExhausted

-----------------------------------------------------------------------------
(***************************************************************************)
(* How much alloc_loop delivers                                            *)
(***************************************************************************)

\* While the loop runs, the frames it has and the bytes it misses make up the
\* request; when it has returned 0, the frames it has are those bounds.
LoopInv ==
  /\ asked + PAGE_SIZE <= ADDR_SPACE
  /\ pc = "alloc_loop" =>
       /\ got \subseteq held
       /\ Cardinality(FramesOfAll(got)) * PAGE_SIZE + size = asked
       /\ size = 0 => got = {}
  /\ pc = "prompt" /\ loopret = 0 /\ got # {} =>
       /\ Cardinality(FramesOfAll(got)) >= FramesNeeded(asked)
       /\ Cardinality(FramesOfAll(got)) < 2 * FramesNeeded(asked)

\* kpm_alloc never takes a block of twice the frames needed, or more.
LEMMA BlockNotTwice ==
  ASSUME IndInv, NEW s \in Nat, s > 0, s + PAGE_SIZE <= ADDR_SPACE, kpm_alloc_ok(s)
  PROVE  FramesPerBlock[ChosenOrder(s)] < 2 * FramesNeeded(s)
<1> DEFINE o == ChosenOrder(s)
           n == FramesNeeded(s)
           fits == Fits(n)
           best == find_best_fit_order(s)
           b(k) == FramesPerBlock[k]
<1>1. o \in Orders /\ o <= best
  BY ChosenBlock DEF kpm_alloc_ok, Candidates
<1>2. n \in Nat /\ n >= 1
  <2>1. n \in Nat /\ n * PAGE_SIZE >= s
    BY RoundFacts
  <2> HIDE DEF n
  <2>2. n # 0
    BY <2>1, KpmAssumption
  <2> QED
    BY <2>1, <2>2
<1>3. fits \in SUBSET Nat /\ \A k \in Orders : k \in fits <=> b(k) >= n
  BY OrdersFacts DEF Fits
<1>4. \A k \in Orders : b(k) \in Nat
  BY FramesPerBlockFacts
<1>5. CASE fits = {}
  <2>1. ~(b(o) >= n)
    BY <1>1, <1>3, <1>5
  <2>2. b(o) \in Nat
    BY <1>1, <1>4
  <2> HIDE DEF n, o
  <2> QED
    BY <1>2, <2>1, <2>2 DEF n, o
<1>6. CASE fits # {}
  <2>1. \E x \in fits : \A y \in fits : x <= y
    <3> HIDE DEF fits
    <3> QED
      BY <1>3, <1>6, LeastNat
  <2>2. best \in fits /\ \A y \in fits : best <= y
    BY <1>6, <2>1 DEF find_best_fit_order
  <2>3. best \in Orders
    BY BestFitFacts
  <2>4. b(o) <= b(best) /\ b(o) \in Nat /\ b(best) \in Nat
    BY <1>1, <1>4, <2>3, BlocksGrow
  <2>5. CASE best = 0
    <3>1. b(best) = 1
      BY <2>5, FramesPerBlockFacts
    <3> HIDE DEF n, o, best
    <3> QED
      BY <1>2, <2>4, <3>1 DEF n, o
  <2>6. CASE best # 0
    <3>1. best - 1 \in Orders /\ best \in Nat /\ b(best) = 2 * b(best - 1)
      BY <2>3, <2>6, OrdersFacts, FramesPerBlockFacts
    <3>2. best - 1 \notin fits
      BY <2>2, <3>1
    <3>3. ~(b(best - 1) >= n) /\ b(best - 1) \in Nat
      BY <1>3, <1>4, <3>1, <3>2
    <3> HIDE DEF n, o, best
    <3> QED
      BY <1>2, <2>4, <3>1, <3>3 DEF n, o
  <2> QED
    BY <2>5, <2>6
<1> QED
  BY <1>5, <1>6

\* A chunk that kpm_alloc fills in has as many frames as its size says.
LEMMA ChunkCount ==
  ASSUME IndInv, NEW s, kpm_alloc_ok(s)
  PROVE  /\ IsFiniteSet(ChunkFrames(chunk'))
         /\ Cardinality(ChunkFrames(chunk')) = FramesPerBlock[ChosenOrder(s)]
         /\ FramesPerBlock[ChosenOrder(s)] \in Nat \ {0}
         /\ chunk'.size = FramesPerBlock[ChosenOrder(s)] * PAGE_SIZE
<1> DEFINE o == ChosenOrder(s)
           i == bitmap_ffu(free[o])
           b == FramesPerBlock[o]
           q == i * b
<1>1. o \in Orders /\ i \in Nat
  BY ChosenBlock DEF kpm_alloc_ok
<1>2. ChunkFrames(chunk') = FramesOf(o, i) /\ chunk'.size = PAGE_SIZE * b
  BY AllocOkEffect
<1>3. FramesOf(o, i) = q .. (q + b - 1)
  BY DEF FramesOf
<1> HIDE DEF o, i
<1>4. b \in Nat \ {0}
  BY <1>1, FramesPerBlockFacts
<1> HIDE DEF b
<1>5. q \in Nat
  BY <1>1, <1>4
<1> HIDE DEF q
<1>6. /\ IsFiniteSet(q .. (q + b - 1))
      /\ Cardinality(q .. (q + b - 1)) = IF q > (q + b - 1) THEN 0 ELSE (q + b - 1) - q + 1
  BY <1>4, <1>5, FS_Interval
<1>7. Cardinality(q .. (q + b - 1)) = b
  BY <1>4, <1>5, <1>6
<1>8. PAGE_SIZE * b = b * PAGE_SIZE
  BY <1>4, KpmAssumption
<1> QED
  BY <1>2, <1>3, <1>4, <1>6, <1>7, <1>8 DEF b, o

\* An iteration that gets a chunk adds its frames to those of the loop.
LEMMA ChunkAddsFrames ==
  ASSUME BInv, LoopInv, LoopChunk
  PROVE  LET had == Cardinality(FramesOfAll(got))
             new == FramesPerBlock[ChosenOrder(size)]
         IN  /\ had \in Nat
             /\ Cardinality(FramesOfAll(got')) = had + new
<1> DEFINE R == ChunkFrames(chunk')
           G == FramesOfAll(got)
<1>1. pc = "alloc_loop" /\ kpm_alloc_ok(size) /\ got' = got \cup {chunk'} /\ IndInv
  BY DEF LoopChunk, BInv
<1>2. R \subseteq free[0]
  BY <1>1, AllocOkEffect
<1>3. got \subseteq held
  BY <1>1 DEF LoopInv
<1>4. G \cap R = {}
  BY <1>2, <1>3 DEF BInv, HeldApart, FramesOfAll
<1>5. FramesOfAll(got') = G \cup R
  BY <1>1 DEF FramesOfAll
<1>6. G \subseteq Frames
  BY <1>1, <1>3 DEF BInv, IndInv, TypeOK, FramesOfAll, GoodChunk
<1>7. IsFiniteSet(Frames)
  BY FramesFacts, FS_Interval DEF Frames
<1>8. IsFiniteSet(G)
  BY <1>6, <1>7, FS_Subset
<1>9. IsFiniteSet(R) /\ Cardinality(R) = FramesPerBlock[ChosenOrder(size)]
        /\ FramesPerBlock[ChosenOrder(size)] \in Nat
  BY <1>1, ChunkCount
<1> HIDE DEF R, G
<1>10. Cardinality(G) \in Nat
  BY <1>8, FS_CardinalityType
<1>11. Cardinality(G \cup R) = Cardinality(G) + Cardinality(R) - Cardinality(G \cap R)
  BY <1>8, <1>9, FS_Union
<1>12. Cardinality(G \cap R) = 0
  BY <1>4, FS_EmptySet
<1> QED
  BY <1>5, <1>9, <1>10, <1>11, <1>12 DEF G

\* An iteration that gets a chunk keeps the balance, or ends within the bounds.
LEMMA ChunkKeepsLoopInv ==
  ASSUME BInv, LoopInv, LoopChunk
  PROVE  LoopInv'
<1> DEFINE P == PAGE_SIZE
           had == Cardinality(FramesOfAll(got))
           has == Cardinality(FramesOfAll(got'))
           b == FramesPerBlock[ChosenOrder(size)]
           n == FramesNeeded(size)
           N == FramesNeeded(asked)
<1>1. /\ pc = "alloc_loop" /\ kpm_alloc_ok(size) /\ size > 0 /\ asked' = asked
      /\ got' = got \cup {chunk'} /\ held' = held \cup {chunk'} /\ IndInv
      /\ size \in Nat /\ asked \in Nat /\ P \in Nat \ {0}
  BY KpmAssumption DEF LoopChunk, BInv, BTypeOK
<1>2. got \subseteq held /\ had * P + size = asked /\ asked + P <= ADDR_SPACE
  BY <1>1 DEF LoopInv
<1>3. had \in Nat /\ has = had + b
  BY ChunkAddsFrames
<1>4. b \in Nat \ {0} /\ chunk'.size = b * P
  BY <1>1, ChunkCount
<1>5. had * P \in Nat /\ b * P \in Nat /\ has * P = had * P + b * P
  BY <1>1, <1>3, <1>4
<1>6. size <= asked /\ size + P <= ADDR_SPACE
  <2> HIDE DEF had, P
  <2> QED
    BY <1>1, <1>2, <1>3, <1>5, KpmAssumption
<1>7. CASE chunk'.size < size
  <2>1. size' = size - b * P /\ pc' = "alloc_loop"
    BY <1>1, <1>4, <1>7 DEF LoopChunk
  <2>2. has * P + size' = asked /\ size' # 0
    <3> HIDE DEF had, has, P, b
    <3> QED
      BY <1>1, <1>2, <1>4, <1>5, <1>7, <2>1
  <2> QED
    BY <1>1, <1>2, <2>1, <2>2 DEF LoopInv
<1>8. CASE chunk'.size >= size
  <2>1. pc' = "prompt"
    <3>1. ~(chunk'.size < size)
      <4> HIDE DEF P, b
      <4> QED
        BY <1>1, <1>4, <1>5, <1>8
    <3> QED
      BY <3>1 DEF LoopChunk, LoopReturns
  <2>2. b < 2 * n
    BY <1>1, <1>6, BlockNotTwice
  <2>3. n \in Nat /\ n * P >= size /\ n * P < size + P
    BY <1>1, <1>6, RoundFacts
  <2>4. N \in Nat /\ N * P >= asked /\ N * P < asked + P
    BY <1>1, <1>2, RoundFacts
  <2> HIDE DEF had, has, P, b, n, N
  <2>5. has \in Nat
    BY <1>3, <1>4
  <2>6. has * P >= asked
    BY <1>1, <1>2, <1>4, <1>5, <1>8
  <2>7. \A x, y \in Nat : x * P < y * P + P => x <= y
    <3> SUFFICES ASSUME NEW x \in Nat, NEW y \in Nat, x >= y + 1
                 PROVE  x * P >= y * P + P
      BY <1>1
    <3>1. x * P >= (y + 1) * P /\ (y + 1) * P = y * P + P
      BY <1>1
    <3> QED
      BY <3>1
  <2>8. N <= has
    <3>1. N * P < has * P + P
      BY <1>1, <2>4, <2>5, <2>6
    <3> QED
      BY <2>4, <2>5, <2>7, <3>1
  <2>9. had + n <= N
    <3>1. (had + n) * P = had * P + n * P /\ n * P \in Nat /\ N * P \in Nat
      BY <1>1, <1>3, <2>3, <2>4
    <3>2. (had + n) * P < N * P + P
      BY <1>1, <1>2, <1>5, <2>3, <2>4, <3>1
    <3> QED
      BY <1>3, <2>3, <2>4, <2>7, <3>2
  <2>10. has < 2 * N
    BY <1>3, <1>4, <2>2, <2>3, <2>4, <2>9
  <2> QED
    BY <1>1, <1>2, <2>1, <2>8, <2>10, <2>4, <2>5 DEF LoopInv, has, N, P
<1> QED
  <2>1. chunk'.size \in Nat
    BY <1>4, <1>5
  <2> QED
    BY <1>1, <1>7, <1>8, <2>1

\* No other step changes what the loop has, and alloc starts it afresh.
LEMMA NextKeepsLoopInv == BInv /\ LoopInv /\ [BNext]_vars => LoopInv'
<1> SUFFICES ASSUME BInv, LoopInv, [BNext]_vars
             PROVE  LoopInv'
  OBVIOUS
<1>1. CASE Boot
  BY <1>1 DEF Boot, shvars, LoopInv
<1>2. ASSUME NEW s \in SIZES, AllocStart(s)
      PROVE  LoopInv'
  <2>1. s \in Nat /\ s + PAGE_SIZE <= ADDR_SPACE
    BY KpmAssumption
  <2>2. asked' = s /\ size' = s /\ got' = {} /\ pc' = "alloc_loop"
    BY <1>2 DEF AllocStart
  <2>3. FramesOfAll(got') = {}
    BY <2>2 DEF FramesOfAll
  <2>4. Cardinality(FramesOfAll(got')) = 0
    BY <2>3, FS_EmptySet
  <2>5. 0 * PAGE_SIZE + s = s
    BY <2>1, KpmAssumption
  <2> QED
    BY <2>1, <2>2, <2>4, <2>5 DEF LoopInv
<1>3. CASE Usage
  BY <1>3 DEF Usage, LoopInv
<1>4. CASE LoopNothing
  BY <1>4 DEF LoopNothing, LoopReturns, LoopInv
<1>5. CASE LoopChunk
  BY <1>5, ChunkKeepsLoopInv
<1>6. CASE LoopFails
  BY <1>6 DEF LoopFails, LoopReturns, LoopInv
<1>7. ASSUME NEW c \in held, FreeChunk(c)
      PROVE  LoopInv'
  BY <1>7 DEF FreeChunk, LoopInv
<1>8. CASE UNCHANGED vars
  BY <1>8 DEF vars, shvars, LoopInv
<1> QED
  BY <1>1, <1>2, <1>3, <1>4, <1>5, <1>6, <1>7, <1>8 DEF BNext

\* When alloc_loop returns 0, the chunks it printed hold what was asked for and
\* fewer than twice the frames that needs, however fragmented the memory is.
THEOREM LoopAlwaysDelivers == BSafety => []LoopDelivers
<1>1. BInit => LoopInv
  <2> SUFFICES ASSUME BInit
               PROVE  LoopInv
    OBVIOUS
  <2>1. pc = "prompt" /\ got = {} /\ asked = 0
    BY DEF BInit
  <2> QED
    BY <2>1, KpmAssumption, ImageAssumption DEF LoopInv
<1>2. LoopInv => LoopDelivers
  BY DEF LoopInv, LoopDelivers
<1>3. BSafeInv /\ LoopInv /\ [BNext]_vars => LoopInv'
  <2>1. oob /\ LoopInv /\ [BNext]_vars => LoopInv'
    BY BEscapeEnds DEF LoopInv, FramesOfAll, vars, shvars
  <2> QED
    BY <2>1, NextKeepsLoopInv DEF BSafeInv
<1> QED
  BY <1>1, <1>2, <1>3, BInvHolds, PTL DEF BSafety

-----------------------------------------------------------------------------
(***************************************************************************)
(* The refinement                                                          *)
(***************************************************************************)

\* The variables of the frame allocator, as the mapping defines them.
AUp == Running
ATotal == IF Running THEN enabled ELSE {}
AAvail == IF Running THEN free[0] ELSE {}
AGranted == {ChunkFrames(c) : c \in held}

\* kpm_init: the last call starts the allocator, the others are not seen.
LEMMA BootRefines ==
  ASSUME BInv, Boot, LowMemory
  PROVE  FA!Start \/ UNCHANGED FA!avars
<1>1. ~Running /\ BSafeInv' /\ held = {} /\ held' = held
  BY BootKeepsBInv
<1>2. CASE ~Running'
  <2>1. Running' <=> Running
    BY <1>1, <1>2
  <2>2. /\ (IF Running' THEN enabled' ELSE {}) = (IF Running THEN enabled ELSE {})
        /\ (IF Running' THEN free'[0] ELSE {}) = (IF Running THEN free[0] ELSE {})
    BY <1>1, <1>2
  <2>3. {ChunkFrames(c) : c \in held'} = {ChunkFrames(c) : c \in held}
    BY <1>1
  <2>4. Running' = Running
    BY <2>1 DEF Running, BootDone
  <2> QED
    BY <2>2, <2>3, <2>4 DEF FA!avars
<1>3. CASE Running'
  <2>1. BInv'
    BY <1>1, <1>3 DEF BSafeInv, Running
  <2>2. free'[0] = enabled' /\ enabled' \subseteq Frames
    <3>1. held' = {}
      BY <1>1
    <3>2. NoneLost' /\ TypeOK' /\ ~oob'
      BY <2>1 DEF BInv, IndInv
    <3> QED
      BY <3>1, <3>2 DEF NoneLost, TypeOK
  <2> QED
    BY <1>1, <1>3, <2>2 DEF FA!Start
<1> QED
  BY <1>2, <1>3

\* A chunk obtained is a grant of its frames.
LEMMA ChunkRefines ==
  ASSUME BInv, LoopChunk
  PROVE  \E S \in SUBSET AAvail : FA!Grant(S)
<1> DEFINE R == ChunkFrames(chunk')
<1>1. Running /\ Running' /\ kpm_alloc_ok(size) /\ held' = held \cup {chunk'}
  BY ChunkKeepsBInv DEF LoopChunk
<1>2. /\ R # {} /\ R \subseteq free[0] /\ free'[0] = free[0] \ R
      /\ UNCHANGED <<enabled, oob>>
  BY <1>1, AllocOkEffect DEF BInv
<1>3. {ChunkFrames(c) : c \in held'} = {ChunkFrames(c) : c \in held} \cup {R}
  BY <1>1
<1> HIDE DEF R
<1>4. FA!Grant(R)
  BY <1>1, <1>2, <1>3 DEF FA!Grant
<1> QED
  BY <1>1, <1>2, <1>4 DEF AAvail

\* free of a printed chunk releases its frames; no other chunk has the same.
LEMMA FreeRefines ==
  ASSUME BInv, NEW c \in held, FreeChunk(c), LowMemory
  PROVE  \E S \in AGranted : FA!Release(S)
<1> DEFINE R == ChunkFrames(c)
<1>1. Running /\ Running' /\ held' = held \ {c}
  BY FreeKeepsBInv DEF FreeChunk
<1>2. free'[0] = free[0] \cup R /\ UNCHANGED <<enabled, oob>>
  BY FreeHeld
<1>3. \A d \in held : d # c => ChunkFrames(d) # R
  BY DEF BInv, HeldApart, GoodChunk
<1>4. {ChunkFrames(d) : d \in held'} = {ChunkFrames(d) : d \in held} \ {R}
  BY <1>1, <1>3
<1>5. R \in AGranted
  BY DEF AGranted
<1> HIDE DEF R
<1>6. FA!Release(R)
  BY <1>1, <1>2, <1>4, <1>5 DEF FA!Release, AGranted
<1> QED
  BY <1>5, <1>6

\* On a machine whose addresses a long can hold, the builtins and the buddy
\* allocator under them implement the frame allocator: they grant free frames
\* only, refuse only by granting nothing, and take back exactly what they granted.
THEOREM Refinement ==
  ASSUME LowMemory
  PROVE  BSafety => ImplementsFrameAllocator
<1>1. BInit => FA!AInit
  BY DEF BInit, Init, FA!AInit, Running, BootDone
<1>2. BInv /\ [BNext]_vars => [FA!ANext]_(FA!avars)
  <2> SUFFICES ASSUME BInv, [BNext]_vars
               PROVE  FA!ANext \/ UNCHANGED FA!avars
    BY DEF FA!avars
  <2>1. CASE Boot
    BY <2>1, BootRefines DEF FA!ANext
  <2>2. CASE LoopChunk
    BY <2>2, ChunkRefines DEF FA!ANext, AAvail
  <2>3. CASE \E c \in held : FreeChunk(c)
    BY <2>3, FreeRefines DEF FA!ANext, AGranted
  <2>4. CASE \/ \E s \in SIZES : AllocStart(s)
             \/ Usage \/ LoopNothing \/ LoopFails
             \/ UNCHANGED vars
    BY <2>4, OthersKeepBInv DEF FA!avars, bitmaps, bootvars, Running, BootDone
  <2> QED
    BY <2>1, <2>2, <2>3, <2>4 DEF BNext
<1>3. oob /\ [BNext]_vars => [FA!ANext]_(FA!avars)
  BY BEscapeEnds DEF vars, kpmvars, bitmaps, bootvars, shvars, FA!avars, Running,
     BootDone
<1>4. BSafeInv /\ [BNext]_vars => [FA!ANext]_(FA!avars)
  BY <1>2, <1>3 DEF BSafeInv
<1> QED
  BY <1>1, <1>4, BInvHolds, PTL DEF BSafety, ImplementsFrameAllocator, FA!ASpec
=============================================================================
