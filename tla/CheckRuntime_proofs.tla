------------------------- MODULE CheckRuntime_proofs -------------------------
(***************************************************************************)
(* Proofs about the commands in real time, for every configuration and     *)
(* every set of plans.  Three inductive invariants, one per part, each     *)
(* kept by the whole of Next: CardIInv (Delivery), WalkIInv                *)
(* (QuotaCollection) and SpentIInv (ModelAttempt with the command).  The   *)
(* lemmas ...Steps say what a step of the composition does to the          *)
(* variables of one part.                                                  *)
(*                                                                         *)
(* The times follow: WalkClockInv, AttemptClockInv and ElapsedInv bound    *)
(* what each clock shows by what the budget's sums have left at the place  *)
(* where the walk, the attempt and the command are.                        *)
(***************************************************************************)
EXTENDS CheckRuntime, SequenceTheorems, FiniteSetTheorems, FunctionTheorems, TLAPS

-----------------------------------------------------------------------------
(* Sums over finite sets: SumFunctionOnSet of the library, by its          *)
(* recursion.  What holds of every finite set is proved by induction on    *)
(* its size, as the membership of every number in a set.                   *)

\* Induction for a set of naturals.
LEMMA SetInduction ==
  ASSUME NEW S, 0 \in S, \A n \in Nat : n \in S => n + 1 \in S
  PROVE  Nat \subseteq S
<1> SUFFICES ASSUME NEW k \in Nat, k \notin S PROVE FALSE
  OBVIOUS
<1> DEFINE B == (0 .. k) \ S
           f == [b \in B |-> b - 1]
<1>1. IsFiniteSet(B) /\ k \in B
  <2>1. IsFiniteSet(0 .. k)
    BY FS_Interval
  <2>2. B \in SUBSET (0 .. k) /\ k \in B
    OBVIOUS
  <2> HIDE DEF B
  <2>3. QED
    BY <2>1, <2>2, FS_Subset
<1>2. f \in [B -> B \ {k}]
  <2> SUFFICES ASSUME NEW b \in B PROVE b - 1 \in B \ {k}
    OBVIOUS
  <2>1. b \in 1 .. k /\ b \notin S
    OBVIOUS
  <2>2. b - 1 \in Nat /\ (b - 1) + 1 = b
    BY <2>1
  <2>3. b - 1 \notin S
    BY <2>1, <2>2
  <2>4. QED
    BY <2>1, <2>3
<1> HIDE DEF B, f
<1>3. IsFiniteSet(B \ {k}) /\ Cardinality(B \ {k}) < Cardinality(B)
  <2>1. Cardinality(B) \in Nat
    BY <1>1, FS_CardinalityType
  <2>2. IsFiniteSet(B \ {k}) /\ Cardinality(B \ {k}) = Cardinality(B) - 1
    BY <1>1, FS_RemoveElement
  <2>3. QED
    BY <2>1, <2>2
<1>4. \E x, y \in B : x # y /\ f[x] = f[y]
  BY <1>1, <1>2, <1>3, FS_PigeonHole
<1>5. QED
  BY <1>4 DEF f, B

\* One step of the recursion, with the sums of smaller sets in G.
Partial(cost, T, G) ==
  IF T = {} THEN 0
  ELSE LET x == CHOOSE x \in T : TRUE IN cost[x] + G[T \ {x}]

AreSums(G, cost, U) == G = [T \in U |-> Partial(cost, T, G)]
Sums(cost, D) == CHOOSE G : AreSums(G, cost, SUBSET D)

LEMMA SumIs ==
  ASSUME NEW cost, NEW D
  PROVE  SumFunctionOnSet(cost, D) = Sums(cost, D)[D]
BY DEF SumFunctionOnSet, FoldFunctionOnSet, MapThenFoldSet, Sums, AreSums, Partial

\* Taking an element out of a finite set.
LEMMA OneLess ==
  ASSUME NEW T, IsFiniteSet(T), NEW x \in T
  PROVE  /\ IsFiniteSet(T \ {x})
         /\ Cardinality(T) \in Nat /\ Cardinality(T) # 0
         /\ Cardinality(T \ {x}) = Cardinality(T) - 1
         /\ Cardinality(T \ {x}) \in Nat
<1>1. Cardinality(T) \in Nat /\ Cardinality(T) # 0
  BY FS_CardinalityType, FS_EmptySet
<1>2. IsFiniteSet(T \ {x}) /\ Cardinality(T \ {x}) = Cardinality(T) - 1
  BY FS_RemoveElement
<1>3. QED
  BY <1>1, <1>2

LEMMA FewerThan ==
  ASSUME NEW T, IsFiniteSet(T), NEW x \in T, NEW k \in Nat, Cardinality(T) <= k + 1
  PROVE  Cardinality(T \ {x}) <= k
BY OneLess

Chosen(T) == CHOOSE x \in T : TRUE

LEMMA ChosenIn ==
  ASSUME NEW T, T # {}
  PROVE  Chosen(T) \in T
BY DEF Chosen

Small(D, n) == {T \in SUBSET D : Cardinality(T) <= n}

\* The recursion has a solution on the sets of at most n elements.
LEMMA SumsOfSmall ==
  ASSUME NEW cost, NEW D, IsFiniteSet(D), NEW n \in Nat
  PROVE  \E G : AreSums(G, cost, Small(D, n))
<1> DEFINE S == {k \in Nat : \E G : AreSums(G, cost, Small(D, k))}
<1>1. 0 \in S
  <2> DEFINE G == [T \in Small(D, 0) |-> 0]
  <2>1. \A T \in Small(D, 0) : T = {}
    <3> SUFFICES ASSUME NEW T \in Small(D, 0) PROVE T = {}
      OBVIOUS
    <3>1. IsFiniteSet(T) /\ Cardinality(T) \in Nat /\ Cardinality(T) <= 0
      BY FS_Subset, FS_CardinalityType DEF Small
    <3>2. QED
      BY <3>1, FS_EmptySet
  <2>2. AreSums(G, cost, Small(D, 0))
    BY <2>1 DEF AreSums, Partial
  <2>3. QED
    BY <2>2
<1>2. ASSUME NEW k \in Nat, k \in S PROVE k + 1 \in S
  <2>1. PICK G : AreSums(G, cost, Small(D, k))
    BY <1>2
  <2> DEFINE H == [T \in Small(D, k + 1) |-> Partial(cost, T, G)]
  <2>2. ASSUME NEW T \in Small(D, k + 1)
        PROVE  Partial(cost, T, G) = Partial(cost, T, H)
    <3>1. CASE T = {}
      BY <3>1 DEF Partial
    <3>2. CASE T # {}
      <4> DEFINE x == CHOOSE x \in T : TRUE
      <4>1. x \in T
        BY <3>2
      <4>2. IsFiniteSet(T) /\ Cardinality(T) <= k + 1
        BY FS_Subset DEF Small
      <4> HIDE DEF x
      <4>3. T \ {x} \in Small(D, k) /\ T \ {x} \in Small(D, k + 1)
        BY <4>1, <4>2, OneLess DEF Small
      <4>4. G[T \ {x}] = Partial(cost, T \ {x}, G)
        BY <2>1, <4>3 DEF AreSums
      <4>5. H[T \ {x}] = Partial(cost, T \ {x}, G)
        BY <4>3
      <4>6. QED
        BY <4>4, <4>5 DEF Partial, x
    <3>3. QED
      BY <3>1, <3>2
  <2>3. AreSums(H, cost, Small(D, k + 1))
    BY <2>2 DEF AreSums
  <2>4. QED
    BY <2>3
<1> HIDE DEF S
<1>3. n \in S
  BY <1>1, <1>2, SetInduction
<1>4. QED
  BY <1>3 DEF S

LEMMA SumsOfFinite ==
  ASSUME NEW cost, NEW D, IsFiniteSet(D)
  PROVE  \A T \in SUBSET D : Sums(cost, D)[T] = Partial(cost, T, Sums(cost, D))
<1>1. Cardinality(D) \in Nat
  BY FS_CardinalityType
<1>2. Small(D, Cardinality(D)) = SUBSET D
  BY FS_Subset DEF Small
<1>3. \E G : AreSums(G, cost, SUBSET D)
  <2>1. \E G : AreSums(G, cost, Small(D, Cardinality(D)))
    BY <1>1, SumsOfSmall
  <2>2. QED
    BY <1>2, <2>1
<1>4. AreSums(Sums(cost, D), cost, SUBSET D)
  BY <1>3 DEF Sums
<1>5. QED
  BY <1>4 DEF AreSums

\* The sum over nothing, and one step of the recursion.
LEMMA SumStep ==
  ASSUME NEW cost, NEW D, IsFiniteSet(D), NEW T \in SUBSET D
  PROVE  /\ T = {} => Sums(cost, D)[T] = 0
         /\ T # {} => /\ Chosen(T) \in T
                      /\ Sums(cost, D)[T] = cost[Chosen(T)] + Sums(cost, D)[T \ {Chosen(T)}]
<1>1. Sums(cost, D)[T] = Partial(cost, T, Sums(cost, D))
  BY SumsOfFinite
<1>2. CASE T = {}
  BY <1>1, <1>2 DEF Partial
<1>3. CASE T # {}
  BY <1>1, <1>3, ChosenIn DEF Partial, Chosen
<1>4. QED
  BY <1>2, <1>3

\* The sum over a subset does not depend on the set it is computed in.
LEMMA SumsAgree ==
  ASSUME NEW cost, NEW D, IsFiniteSet(D), NEW E \in SUBSET D
  PROVE  \A T \in SUBSET E : Sums(cost, D)[T] = Sums(cost, E)[T]
<1> DEFINE S == {k \in Nat : \A T \in SUBSET E : Cardinality(T) <= k
                               => Sums(cost, D)[T] = Sums(cost, E)[T]}
<1>0. IsFiniteSet(E)
  BY FS_Subset
<1>1. 0 \in S
  <2> SUFFICES ASSUME NEW T \in SUBSET E, Cardinality(T) <= 0
               PROVE  Sums(cost, D)[T] = Sums(cost, E)[T]
    OBVIOUS
  <2>1. T = {}
    <3>1. IsFiniteSet(T) /\ Cardinality(T) \in Nat
      BY <1>0, FS_Subset, FS_CardinalityType
    <3>2. QED
      BY <3>1, FS_EmptySet
  <2>2. QED
    BY <1>0, <2>1, SumStep
<1>2. ASSUME NEW k \in Nat, k \in S PROVE k + 1 \in S
  <2> SUFFICES ASSUME NEW T \in SUBSET E, Cardinality(T) <= k + 1
               PROVE  Sums(cost, D)[T] = Sums(cost, E)[T]
    OBVIOUS
  <2>1. CASE T = {}
    BY <1>0, <2>1, SumStep
  <2>2. CASE T # {}
    <3> DEFINE x == Chosen(T)
    <3>1. /\ x \in T
          /\ Sums(cost, D)[T] = cost[x] + Sums(cost, D)[T \ {x}]
          /\ Sums(cost, E)[T] = cost[x] + Sums(cost, E)[T \ {x}]
      BY <1>0, <2>2, SumStep
    <3> HIDE DEF x
    <3>2. IsFiniteSet(T)
      BY <1>0, FS_Subset
    <3>3. T \ {x} \in SUBSET E /\ Cardinality(T \ {x}) <= k
      BY <3>1, <3>2, FewerThan
    <3>4. QED
      BY <1>2, <3>1, <3>3
  <2>3. QED
    BY <2>1, <2>2
<1> HIDE DEF S
<1>3. Nat \subseteq S
  BY <1>1, <1>2, SetInduction
<1>4. QED
  <2> SUFFICES ASSUME NEW T \in SUBSET E
               PROVE  Sums(cost, D)[T] = Sums(cost, E)[T]
    OBVIOUS
  <2>1. Cardinality(T) \in Nat
    BY <1>0, FS_Subset, FS_CardinalityType
  <2>2. Cardinality(T) \in S
    BY <1>3, <2>1
  <2>3. QED
    BY <2>1, <2>2 DEF S

\* A cost is a natural number for each element of D.
Costs(cost, D) == \A x \in D : cost[x] \in Nat

LEMMA SumOverNothing ==
  ASSUME NEW cost
  PROVE  SumFunctionOnSet(cost, {}) = 0
BY FS_EmptySet, SumIs, SumStep

LEMMA SumType ==
  ASSUME NEW cost, NEW D, IsFiniteSet(D), Costs(cost, D)
  PROVE  SumFunctionOnSet(cost, D) \in Nat
<1> DEFINE S == {k \in Nat : \A T \in SUBSET D : Cardinality(T) <= k
                               => Sums(cost, D)[T] \in Nat}
<1>1. 0 \in S
  <2> SUFFICES ASSUME NEW T \in SUBSET D, Cardinality(T) <= 0
               PROVE  Sums(cost, D)[T] \in Nat
    OBVIOUS
  <2>1. T = {}
    <3>1. IsFiniteSet(T) /\ Cardinality(T) \in Nat
      BY FS_Subset, FS_CardinalityType
    <3>2. QED
      BY <3>1, FS_EmptySet
  <2>2. Sums(cost, D)[T] = 0
    BY <2>1, SumStep
  <2>3. QED
    BY <2>2
<1>2. ASSUME NEW k \in Nat, k \in S PROVE k + 1 \in S
  <2> SUFFICES ASSUME NEW T \in SUBSET D, Cardinality(T) <= k + 1
               PROVE  Sums(cost, D)[T] \in Nat
    OBVIOUS
  <2>1. CASE T = {}
    <3>1. Sums(cost, D)[T] = 0
      BY <2>1, SumStep
    <3>2. QED
      BY <3>1
  <2>2. CASE T # {}
    <3> DEFINE x == Chosen(T)
    <3>1. x \in T /\ Sums(cost, D)[T] = cost[x] + Sums(cost, D)[T \ {x}]
      BY <2>2, SumStep
    <3> HIDE DEF x
    <3>2. IsFiniteSet(T)
      BY FS_Subset
    <3>3. T \ {x} \in SUBSET D /\ Cardinality(T \ {x}) <= k
      BY <3>1, <3>2, FewerThan
    <3>4. QED
      BY <1>2, <3>1, <3>3 DEF Costs
  <2>3. QED
    BY <2>1, <2>2
<1> HIDE DEF S
<1>3. Nat \subseteq S
  BY <1>1, <1>2, SetInduction
<1>4. Cardinality(D) \in Nat
  BY FS_CardinalityType
<1>5. Cardinality(D) \in S
  BY <1>3, <1>4
<1>6. Sums(cost, D)[D] \in Nat
  BY <1>4, <1>5 DEF S
<1>7. QED
  BY <1>6, SumIs

LEMMA SubsetCosts ==
  ASSUME NEW cost, NEW D, IsFiniteSet(D), Costs(cost, D), NEW T \in SUBSET D
  PROVE  /\ IsFiniteSet(T) /\ Costs(cost, T)
         /\ Sums(cost, D)[T] = SumFunctionOnSet(cost, T)
         /\ Sums(cost, D)[T] \in Nat
<1>1. IsFiniteSet(T) /\ Costs(cost, T)
  BY FS_Subset DEF Costs
<1>2. Sums(cost, D)[T] = Sums(cost, T)[T]
  BY SumsAgree
<1>3. SumFunctionOnSet(cost, T) = Sums(cost, T)[T]
  BY SumIs
<1>4. SumFunctionOnSet(cost, T) \in Nat
  BY <1>1, SumType
<1>5. QED
  BY <1>1, <1>2, <1>3, <1>4

\* Any element may be taken out first.
LEMMA SumSplit ==
  ASSUME NEW cost, NEW D, IsFiniteSet(D), Costs(cost, D), NEW e \in D
  PROVE  SumFunctionOnSet(cost, D) = cost[e] + SumFunctionOnSet(cost, D \ {e})
<1> DEFINE s == Sums(cost, D)
           S == {k \in Nat : \A T \in SUBSET D : Cardinality(T) <= k
                               => \A x \in T : s[T] = cost[x] + s[T \ {x}]}
<1> HIDE DEF s
<1>0. \A T \in SUBSET D : s[T] \in Nat
  BY SubsetCosts DEF s
<1>1. 0 \in S
  <2> SUFFICES ASSUME NEW T \in SUBSET D, Cardinality(T) <= 0
               PROVE  T = {}
    OBVIOUS
  <2>1. IsFiniteSet(T) /\ Cardinality(T) \in Nat
    BY FS_Subset, FS_CardinalityType
  <2>2. QED
    BY <2>1, FS_EmptySet
<1>2. ASSUME NEW k \in Nat, k \in S PROVE k + 1 \in S
  <2> SUFFICES ASSUME NEW T \in SUBSET D, Cardinality(T) <= k + 1, NEW x \in T
               PROVE  s[T] = cost[x] + s[T \ {x}]
    OBVIOUS
  <2> DEFINE y == Chosen(T)
  <2>1. y \in T /\ s[T] = cost[y] + s[T \ {y}]
    BY SumStep DEF s
  <2> HIDE DEF y
  <2>2. CASE x = y
    BY <2>1, <2>2
  <2>3. CASE x # y
    <3>1. IsFiniteSet(T)
      BY FS_Subset
    <3>2. /\ T \ {x} \in SUBSET D /\ Cardinality(T \ {x}) <= k
          /\ T \ {y} \in SUBSET D /\ Cardinality(T \ {y}) <= k
      BY <2>1, <3>1, FewerThan
    <3>3. s[T \ {y}] = cost[x] + s[(T \ {y}) \ {x}]
      BY <1>2, <2>3, <3>2
    <3>4. s[T \ {x}] = cost[y] + s[(T \ {x}) \ {y}]
      BY <1>2, <2>1, <2>3, <3>2
    <3>5. (T \ {y}) \ {x} = (T \ {x}) \ {y} /\ (T \ {x}) \ {y} \in SUBSET D
      OBVIOUS
    <3>6. /\ cost[x] \in Nat /\ cost[y] \in Nat
          /\ s[(T \ {x}) \ {y}] \in Nat
      BY <1>0, <2>1, <3>5 DEF Costs
    <3>7. s[T] = cost[y] + (cost[x] + s[(T \ {x}) \ {y}])
      BY <2>1, <3>3, <3>5
    <3>8. QED
      BY <3>4, <3>6, <3>7
  <2>4. QED
    BY <2>2, <2>3
<1> HIDE DEF S
<1>3. Nat \subseteq S
  BY <1>1, <1>2, SetInduction
<1>4. Cardinality(D) \in Nat
  BY FS_CardinalityType
<1>5. Cardinality(D) \in S
  BY <1>3, <1>4
<1>6. s[D] = cost[e] + s[D \ {e}]
  BY <1>4, <1>5 DEF S
<1>7. s[D] = SumFunctionOnSet(cost, D) /\ s[D \ {e}] = SumFunctionOnSet(cost, D \ {e})
  BY SubsetCosts DEF s
<1>8. QED
  BY <1>6, <1>7

\* A sum grows with its terms and with the set it is over.
LEMMA SumGrows ==
  ASSUME NEW cost, NEW more, NEW D, IsFiniteSet(D), NEW E \in SUBSET D,
         Costs(cost, E), Costs(more, D), \A x \in E : cost[x] <= more[x]
  PROVE  SumFunctionOnSet(cost, E) <= SumFunctionOnSet(more, D)
<1> DEFINE S == {k \in Nat : \A U \in SUBSET D : Cardinality(U) <= k
                   => \A T \in SUBSET E : T \subseteq U
                        => SumFunctionOnSet(cost, T) <= SumFunctionOnSet(more, U)}
<1>0. /\ \A T \in SUBSET E : IsFiniteSet(T) /\ Costs(cost, T) /\ SumFunctionOnSet(cost, T) \in Nat
      /\ \A U \in SUBSET D : IsFiniteSet(U) /\ Costs(more, U) /\ SumFunctionOnSet(more, U) \in Nat
  <2>1. IsFiniteSet(E)
    BY FS_Subset
  <2>2. QED
    BY <2>1, SubsetCosts
<1>1. 0 \in S
  <2> SUFFICES ASSUME NEW U \in SUBSET D, Cardinality(U) <= 0,
                      NEW T \in SUBSET E, T \subseteq U
               PROVE  SumFunctionOnSet(cost, T) <= SumFunctionOnSet(more, U)
    OBVIOUS
  <2>1. T = {}
    <3>1. IsFiniteSet(U) /\ Cardinality(U) \in Nat
      BY FS_Subset, FS_CardinalityType
    <3>2. QED
      BY <3>1, FS_EmptySet
  <2>2. SumFunctionOnSet(cost, T) = 0
    BY <2>1, SumOverNothing
  <2>3. SumFunctionOnSet(more, U) \in Nat
    BY <1>0
  <2>4. QED
    BY <2>2, <2>3
<1>2. ASSUME NEW k \in Nat, k \in S PROVE k + 1 \in S
  <2> SUFFICES ASSUME NEW U \in SUBSET D, Cardinality(U) <= k + 1,
                      NEW T \in SUBSET E, T \subseteq U
               PROVE  SumFunctionOnSet(cost, T) <= SumFunctionOnSet(more, U)
    OBVIOUS
  <2>1. CASE T = {}
    <3>1. SumFunctionOnSet(cost, T) = 0
      BY <2>1, SumOverNothing
    <3>2. SumFunctionOnSet(more, U) \in Nat
      BY <1>0
    <3>3. QED
      BY <3>1, <3>2
  <2>2. CASE T # {}
    <3>1. PICK x : x \in T
      BY <2>2
    <3>2. /\ x \in U /\ U \ {x} \in SUBSET D /\ Cardinality(U \ {x}) <= k
          /\ T \ {x} \in SUBSET E /\ T \ {x} \subseteq U \ {x}
      BY <1>0, <3>1, FewerThan
    <3>3. SumFunctionOnSet(cost, T \ {x}) <= SumFunctionOnSet(more, U \ {x})
      BY <1>2, <3>2
    <3>4. SumFunctionOnSet(cost, T) = cost[x] + SumFunctionOnSet(cost, T \ {x})
      BY <1>0, <3>1, SumSplit
    <3>5. SumFunctionOnSet(more, U) = more[x] + SumFunctionOnSet(more, U \ {x})
      BY <1>0, <3>2, SumSplit
    <3>6. /\ cost[x] \in Nat /\ more[x] \in Nat /\ cost[x] <= more[x]
          /\ SumFunctionOnSet(cost, T \ {x}) \in Nat
          /\ SumFunctionOnSet(more, U \ {x}) \in Nat
      BY <1>0, <3>1, <3>2 DEF Costs
    <3>7. QED
      BY <3>3, <3>4, <3>5, <3>6
  <2>3. QED
    BY <2>1, <2>2
<1> HIDE DEF S
<1>3. Nat \subseteq S
  BY <1>1, <1>2, SetInduction
<1>4. Cardinality(D) \in Nat
  BY FS_CardinalityType
<1>5. Cardinality(D) \in S
  BY <1>3, <1>4
<1>6. QED
  BY <1>4, <1>5 DEF S

\* What is left of a sum over an interval after its first term.
LEMMA SumOfInterval ==
  ASSUME NEW cost, NEW i \in Nat, NEW n \in Nat, Costs(cost, i .. n)
  PROVE  /\ SumFunctionOnSet(cost, i .. n) \in Nat
         /\ i <= n => /\ cost[i] \in Nat /\ SumFunctionOnSet(cost, (i + 1) .. n) \in Nat
                      /\ SumFunctionOnSet(cost, i .. n)
                           = cost[i] + SumFunctionOnSet(cost, (i + 1) .. n)
         /\ n < i => SumFunctionOnSet(cost, i .. n) = 0
<1>1. IsFiniteSet(i .. n)
  BY FS_Interval
<1>2. SumFunctionOnSet(cost, i .. n) \in Nat
  BY <1>1, SumType
<1>3. ASSUME i <= n
      PROVE  /\ cost[i] \in Nat /\ SumFunctionOnSet(cost, (i + 1) .. n) \in Nat
             /\ SumFunctionOnSet(cost, i .. n)
                  = cost[i] + SumFunctionOnSet(cost, (i + 1) .. n)
  <2>1. i \in i .. n /\ (i .. n) \ {i} = (i + 1) .. n /\ (i + 1) .. n \in SUBSET (i .. n)
    BY <1>3
  <2>2. SumFunctionOnSet(cost, i .. n) = cost[i] + SumFunctionOnSet(cost, (i .. n) \ {i})
    BY <1>1, <2>1, SumSplit
  <2>3. IsFiniteSet((i + 1) .. n) /\ Costs(cost, (i + 1) .. n)
    BY <1>1, <2>1, SubsetCosts
  <2>4. SumFunctionOnSet(cost, (i + 1) .. n) \in Nat
    BY <2>3, SumType
  <2>5. QED
    BY <2>1, <2>2, <2>4 DEF Costs
<1>4. ASSUME n < i PROVE SumFunctionOnSet(cost, i .. n) = 0
  <2>1. i .. n = {}
    BY <1>4
  <2>2. QED
    BY <2>1, SumOverNothing
<1>5. QED
  BY <1>2, <1>3, <1>4

\* The sums over two disjoint parts are not more than the sum over the whole.
LEMMA SumsApart ==
  ASSUME NEW cost, NEW D, IsFiniteSet(D), Costs(cost, D),
         NEW A \in SUBSET D, NEW B \in SUBSET (D \ A)
  PROVE  SumFunctionOnSet(cost, A) + SumFunctionOnSet(cost, B) <= SumFunctionOnSet(cost, D)
<1> DEFINE sum(T) == SumFunctionOnSet(cost, T)
           S == {k \in Nat : \A U \in SUBSET D : Cardinality(U) <= k
                   => \A T \in SUBSET A : T \subseteq U /\ B \subseteq U
                        => sum(T) + sum(B) <= sum(U)}
<1>0. \A U \in SUBSET D : IsFiniteSet(U) /\ Costs(cost, U) /\ sum(U) \in Nat
  BY SubsetCosts
<1>1. ASSUME NEW U \in SUBSET D, NEW T \in SUBSET A, T = {}, B \subseteq U
      PROVE  sum(T) + sum(B) <= sum(U)
  <2>1. sum(T) = 0
    BY <1>1, SumOverNothing
  <2>2. sum(B) <= sum(U)
    <3>1. B \in SUBSET U /\ IsFiniteSet(U) /\ Costs(cost, U) /\ Costs(cost, B)
      BY <1>0, <1>1
    <3>2. \A x \in B : cost[x] <= cost[x]
      BY <3>1 DEF Costs
    <3>3. QED
      BY <3>1, <3>2, SumGrows
  <2>3. sum(B) \in Nat /\ sum(U) \in Nat
    BY <1>0
  <2> HIDE DEF sum
  <2>4. QED
    BY <2>1, <2>2, <2>3
<1>2. 0 \in S
  <2> SUFFICES ASSUME NEW U \in SUBSET D, Cardinality(U) <= 0, NEW T \in SUBSET A,
                      T \subseteq U, B \subseteq U
               PROVE  sum(T) + sum(B) <= sum(U)
    OBVIOUS
  <2>1. T = {}
    <3>1. IsFiniteSet(U) /\ Cardinality(U) \in Nat
      BY <1>0, FS_CardinalityType
    <3>2. QED
      BY <3>1, FS_EmptySet
  <2>2. QED
    BY <1>1, <2>1
<1>3. ASSUME NEW k \in Nat, k \in S PROVE k + 1 \in S
  <2> SUFFICES ASSUME NEW U \in SUBSET D, Cardinality(U) <= k + 1, NEW T \in SUBSET A,
                      T \subseteq U, B \subseteq U
               PROVE  sum(T) + sum(B) <= sum(U)
    OBVIOUS
  <2>1. CASE T = {}
    BY <1>1, <2>1
  <2>2. CASE T # {}
    <3>1. PICK x : x \in T
      BY <2>2
    <3>2. /\ x \in U /\ U \ {x} \in SUBSET D /\ T \ {x} \in SUBSET A
          /\ T \ {x} \subseteq U \ {x} /\ B \subseteq U \ {x}
          /\ Cardinality(U \ {x}) <= k
      BY <1>0, <3>1, FewerThan
    <3>3. sum(T \ {x}) + sum(B) <= sum(U \ {x})
      BY <1>3, <3>2
    <3>4. sum(T) = cost[x] + sum(T \ {x}) /\ sum(U) = cost[x] + sum(U \ {x})
      BY <1>0, <3>1, <3>2, SumSplit
    <3>5. /\ cost[x] \in Nat /\ sum(T \ {x}) \in Nat /\ sum(B) \in Nat /\ sum(U \ {x}) \in Nat
      BY <1>0, <3>1, <3>2 DEF Costs
    <3> HIDE DEF sum
    <3>6. QED
      BY <3>3, <3>4, <3>5
  <2>3. QED
    BY <2>1, <2>2
<1> HIDE DEF S
<1>4. Nat \subseteq S
  BY <1>2, <1>3, SetInduction
<1>5. Cardinality(D) \in Nat
  BY FS_CardinalityType
<1>6. Cardinality(D) \in S
  BY <1>4, <1>5
<1>7. QED
  BY <1>5, <1>6 DEF S

\* A finite set of natural numbers has a greatest.
LEMMA Greatest ==
  ASSUME NEW T, IsFiniteSet(T), T \subseteq Nat
  PROVE  Most(T) \in Nat /\ (\A y \in T : y <= Most(T)) /\ (Most(T) = 0 \/ Most(T) \in T)
<1> DEFINE S == {k \in Nat : \A U \in SUBSET T : Cardinality(U) <= k /\ U # {}
                                => \E x \in U : \A y \in U : x >= y}
<1>1. 0 \in S
  <2> SUFFICES ASSUME NEW U \in SUBSET T, Cardinality(U) <= 0
               PROVE  U = {}
    OBVIOUS
  <2>1. IsFiniteSet(U) /\ Cardinality(U) \in Nat
    BY FS_Subset, FS_CardinalityType
  <2>2. QED
    BY <2>1, FS_EmptySet
<1>2. ASSUME NEW k \in Nat, k \in S PROVE k + 1 \in S
  <2> SUFFICES ASSUME NEW U \in SUBSET T, Cardinality(U) <= k + 1, U # {}
               PROVE  \E x \in U : \A y \in U : x >= y
    OBVIOUS
  <2>1. PICK z : z \in U
    OBVIOUS
  <2>2. U \ {z} \in SUBSET T /\ Cardinality(U \ {z}) <= k
    BY <2>1, FS_Subset, FewerThan
  <2>3. CASE U \ {z} = {}
    BY <2>1, <2>3
  <2>4. CASE U \ {z} # {}
    <3>1. PICK x \in U \ {z} : \A y \in U \ {z} : x >= y
      BY <1>2, <2>2, <2>4
    <3>2. x \in Nat /\ z \in Nat /\ \A y \in U : y \in Nat
      BY <2>1
    <3>3. CASE x >= z
      BY <3>1, <3>3
    <3>4. CASE z >= x
      BY <2>1, <3>1, <3>2, <3>4
    <3>5. QED
      BY <3>2, <3>3, <3>4
  <2>5. QED
    BY <2>3, <2>4
<1> HIDE DEF S
<1>3. Nat \subseteq S
  BY <1>1, <1>2, SetInduction
<1>4. Cardinality(T) \in Nat
  BY FS_CardinalityType
<1>5. Cardinality(T) \in S
  BY <1>3, <1>4
<1>6. CASE T = {}
  BY <1>6 DEF Most
<1>7. CASE T # {}
  <2>1. \E x \in T : \A y \in T : x >= y
    BY <1>4, <1>5, <1>7 DEF S
  <2>2. Max(T) \in T /\ \A y \in T : Max(T) >= y
    BY <2>1 DEF Max
  <2>3. Most(T) = Max(T)
    BY <1>7 DEF Most
  <2>4. QED
    BY <2>2, <2>3
<1>8. QED
  BY <1>6, <1>7

-----------------------------------------------------------------------------
(* Delivery: one card, and the time it takes.                              *)

\* What a step of the composition does to the card being sent.
LEMMA CardSteps ==
  ASSUME [Next]_vars
  PROVE  /\ UNCHANGED plan
         /\ \/ UNCHANGED <<post, inflight, shown>>
            \/ plan.notify /\ Deliver
            \/ post' = NoPost /\ inflight' = {} /\ shown' = {}
            \/ DeliveryStep
<1>1. CASE UNCHANGED vars
  BY <1>1 DEF vars
<1>2. CASE Next
  <2>1. CASE CommandStep
    <3>1. CASE Card
      BY <1>2, <3>1 DEF Next, Card, KeepPost
    <3>2. CASE CardDone
      BY <1>2, <3>2 DEF Next, CardDone
    <3>3. CASE Begin \/ Ready \/ Prepare \/ FirstRound \/ RunModel \/ ModelDone \/ EndRound
               \/ SaveSnapshot \/ SnapshotsSaved \/ QuotaLock \/ EndCollect
      BY <1>2, <3>3
         DEF Next, Begin, Ready, Prepare, FirstRound, RunModel, ModelDone, EndRound,
             SaveSnapshot, SnapshotsSaved, QuotaLock, EndCollect, KeepParts, KeepPost
    <3>4. QED
      BY <2>1, <3>1, <3>2, <3>3 DEF CommandStep
  <2>2. QED
    BY <1>2, <2>1 DEF Next, KeepPost
<1>3. QED
  BY <1>1, <1>2

\* Every post carries the one id; a card that was sent is shown.
CardInv ==
  /\ shown \subseteq {1} /\ inflight \subseteq {1}
  /\ post.at = "sent" => 1 \in shown

\* What a delivery has spent when it is at a place, with what one read of a
\* credential and one request cost.
ClockInv ==
  LET C == CredentialRead
      T == UrllibHttp
  IN  /\ Posting => plan.notify
      /\ post.at \in {"user", "require", "secrets", "token"} => post.tries = 0
      /\ post.at = "user" => post.clock = 0
      /\ post.at = "require" => post.clock = C
      /\ post.at = "secrets" => post.clock = 4 * C
      /\ post.at = "token" => post.clock = 6 * C
      /\ post.at = "send" =>
           \/ post.tries = 0 /\ post.clock = 6 * C + T
           \/ post.tries = 1 /\ post.clock = 6 * C + 2 * T + 1
           \/ post.tries = 2 /\ post.clock = 6 * C + 3 * T + 3
      /\ Posting => post.clock <= 6 * C + 4 * T + 3

Cards ==
  [at : {"user", "require", "secrets", "token", "send", "sent", "failed"},
   tries : 0 .. 3, clock : Nat]
PostType == post = NoPost \/ post \in Cards

CardIInv == PostType /\ CardInv /\ ClockInv

LEMMA CardInit == Init => CardIInv
BY DEF Init, CardIInv, CardInv, PostType, NoPost, ClockInv, Posting

LEMMA PostSpends ==
  ASSUME PostType, post.at # "idle", NEW cost \in Nat,
         NEW to \in {"require", "secrets", "token", "send", "sent", "failed"}, Spent(cost, to)
  PROVE  /\ post' \in Cards /\ post'.at = to
         /\ post'.clock = post.clock + cost /\ post'.tries = post.tries
<1>1. post \in Cards
  BY DEF PostType, NoPost
<1>2. post' = [post EXCEPT !.at = to, !.clock = post.clock + cost]
  BY DEF Spent
<1>3. post.clock + cost \in Nat
  BY <1>1 DEF Cards
<1>4. QED
  BY <1>1, <1>2, <1>3 DEF Cards

LEMMA PostsAgain ==
  ASSUME post \in Cards, post.tries \in {0, 1, 2}, NEW T \in Nat,
         post' = [post EXCEPT !.tries = post.tries + 1,
                !.at = IF post.tries + 1 > RETRIES THEN "failed" ELSE "send",
                !.clock = @ + T + IF post.tries + 1 > RETRIES THEN 0 ELSE Backoff(post.tries + 1)]
  PROVE  /\ post' \in Cards /\ post'.tries = post.tries + 1
         /\ post.tries = 0 => post'.at = "send" /\ post'.clock = post.clock + T + 1
         /\ post.tries = 1 => post'.at = "send" /\ post'.clock = post.clock + T + 2
         /\ post.tries = 2 => post'.at = "failed" /\ post'.clock = post.clock + T
<1> DEFINE at == IF post.tries + 1 > RETRIES THEN "failed" ELSE "send"
           pause == IF post.tries + 1 > RETRIES THEN 0 ELSE Backoff(post.tries + 1)
<1>1. /\ at \in {"send", "failed"} /\ pause \in Nat
      /\ post.tries = 0 => at = "send" /\ pause = 1
      /\ post.tries = 1 => at = "send" /\ pause = 2
      /\ post.tries = 2 => at = "failed" /\ pause = 0
  BY DEF RETRIES, Backoff
<1>2. post' = [post EXCEPT !.tries = post.tries + 1, !.at = at, !.clock = post.clock + T + pause]
  OBVIOUS
<1> HIDE DEF at, pause
<1>3. post.clock + T + pause \in Nat /\ post.tries + 1 \in 0 .. 3
  BY <1>1 DEF Cards
<1>4. post' \in Cards /\ post'.tries = post.tries + 1 /\ post'.at = at
      /\ post'.clock = post.clock + T + pause
  BY <1>1, <1>2, <1>3 DEF Cards
<1>5. QED
  BY <1>1, <1>4 DEF Cards

LEMMA CardStep == CardIInv /\ [Next]_vars => CardIInv'
<1> SUFFICES ASSUME CardIInv, [Next]_vars PROVE CardIInv'
  OBVIOUS
<1> DEFINE C == CredentialRead
           T == UrllibHttp
<1>0. C \in Nat /\ T \in Nat /\ UNCHANGED plan
  BY CardSteps, BudgetAssumption DEF CredentialRead, UrllibHttp, CLEANUP_ALLOWANCE_SECONDS
<1>1. CASE UNCHANGED <<post, inflight, shown>>
  BY <1>0, <1>1 DEF CardIInv, PostType, CardInv, ClockInv, Posting
<1>2. CASE plan.notify /\ Deliver
  <2>1. post' = [at |-> "user", tries |-> 0, clock |-> 0] /\ inflight' = {} /\ shown' = {}
    BY <1>2 DEF Deliver
  <2>2. QED
    BY <1>0, <1>2, <2>1 DEF CardIInv, PostType, Cards, CardInv, ClockInv, Posting
<1>3. CASE post' = NoPost /\ inflight' = {} /\ shown' = {}
  BY <1>3 DEF CardIInv, PostType, CardInv, ClockInv, Posting, NoPost
<1>4. CASE Arrive
  BY <1>0, <1>4 DEF Arrive, CardIInv, PostType, CardInv, ClockInv, Posting
<1>5. ASSUME NEW reads \in {1, 3, 2}, NEW from, NEW to, Read(from, reads, to),
             \/ from = "user" /\ reads = 1 /\ to = "require"
             \/ from = "require" /\ reads = 3 /\ to = "secrets"
             \/ from = "secrets" /\ reads = 2 /\ to = "token"
      PROVE  CardIInv'
  <2>1. PICK next \in {to, "failed"} : Spent(reads * C, next)
    BY <1>5 DEF Read
  <2>2. /\ post' \in Cards /\ post'.at = next
        /\ post'.clock = post.clock + reads * C /\ post'.tries = post.tries
    BY <1>0, <1>5, <2>1, PostSpends DEF Read, CardIInv
  <2>3. post.at = from /\ UNCHANGED <<shown, inflight>>
    BY <1>5 DEF Read, KeepMessages
  <2>4. \/ from = "user" /\ to = "require" /\ post'.clock = post.clock + C
        \/ from = "require" /\ to = "secrets" /\ post'.clock = post.clock + 3 * C
        \/ from = "secrets" /\ to = "token" /\ post'.clock = post.clock + 2 * C
    BY <1>0, <1>5, <2>2
  <2>5. QED
    <3>1. PostType' /\ CardInv'
      BY <2>1, <2>2, <2>3, <2>4 DEF CardIInv, PostType, CardInv
    <3>2. post.tries = 0 /\ plan.notify
      BY <2>3, <2>4 DEF CardIInv, ClockInv, Posting
    <3>3. post.at = from /\ post.clock \in Nat
      BY <2>3, <2>4 DEF CardIInv, PostType, Cards, NoPost
    <3>4. ClockInv'
      <4>1. CASE from = "user" /\ to = "require" /\ post'.clock = post.clock + C
        <5>1. post'.clock = C
           BY <4>1, <3>3, <1>0 DEF CardIInv, ClockInv
        <5>2. QED
           BY <4>1, <5>1, <1>0, <2>1, <2>2, <3>2 DEF ClockInv, Posting
      <4>2. CASE from = "require" /\ to = "secrets" /\ post'.clock = post.clock + 3 * C
        <5>1. post'.clock = 4 * C
           BY <4>2, <3>3, <1>0 DEF CardIInv, ClockInv
        <5>2. QED
           BY <4>2, <5>1, <1>0, <2>1, <2>2, <3>2 DEF ClockInv, Posting
      <4>3. CASE from = "secrets" /\ to = "token" /\ post'.clock = post.clock + 2 * C
        <5>1. post'.clock = 6 * C
           BY <4>3, <3>3, <1>0 DEF CardIInv, ClockInv
        <5>2. QED
           BY <4>3, <5>1, <1>0, <2>1, <2>2, <3>2 DEF ClockInv, Posting
      <4>4. QED
        BY <4>1, <4>2, <4>3, <2>4
    <3>5. QED
      BY <3>1, <3>4 DEF CardIInv
<1>6. CASE tenant_token
  <2>1. PICK next \in {"send", "failed"} : Spent(T, next)
    BY <1>6 DEF tenant_token
  <2>2. /\ post' \in Cards /\ post'.at = next
        /\ post'.clock = post.clock + T /\ post'.tries = post.tries
    BY <1>0, <1>6, <2>1, PostSpends DEF tenant_token, CardIInv
  <2>3. post.at = "token" /\ UNCHANGED <<shown, inflight>>
    BY <1>6 DEF tenant_token, KeepMessages
  <2>4. QED
    BY <1>0, <2>1, <2>2, <2>3 DEF CardIInv, PostType, CardInv, ClockInv, Posting
<1>7. CASE _post
  <2>1. post.at = "send" /\ post \in Cards /\ post.tries \in {0, 1, 2}
    BY <1>7 DEF _post, CardIInv, PostType, NoPost, ClockInv
  <2>2. CASE /\ Spent(T, "sent") /\ shown' = shown \cup {1} /\ UNCHANGED inflight
    <3>1. /\ post' \in Cards /\ post'.at = "sent"
          /\ post'.clock = post.clock + T /\ post'.tries = post.tries
      BY <1>0, <2>1, <2>2, PostSpends DEF CardIInv
    <3>2. QED
      BY <1>0, <2>1, <2>2, <3>1 DEF CardIInv, PostType, CardInv, ClockInv, Posting
  <2>3. CASE Spent(T, "failed") /\ KeepMessages
    <3>1. /\ post' \in Cards /\ post'.at = "failed"
          /\ post'.clock = post.clock + T /\ post'.tries = post.tries
      BY <1>0, <2>1, <2>3, PostSpends DEF CardIInv
    <3>2. QED
      BY <1>0, <2>1, <2>3, <3>1 DEF CardIInv, PostType, CardInv, ClockInv, Posting, KeepMessages
  <2>4. CASE /\ post' = [post EXCEPT !.tries = post.tries + 1,
                           !.at = IF post.tries + 1 > RETRIES THEN "failed" ELSE "send",
                           !.clock = @ + T + IF post.tries + 1 > RETRIES THEN 0
                                             ELSE Backoff(post.tries + 1)]
             /\ \/ inflight' = inflight \cup {1} /\ UNCHANGED shown
                \/ KeepMessages
    <3>1. /\ post' \in Cards /\ post'.tries = post.tries + 1
          /\ post.tries = 0 => post'.at = "send" /\ post'.clock = post.clock + T + 1
          /\ post.tries = 1 => post'.at = "send" /\ post'.clock = post.clock + T + 2
          /\ post.tries = 2 => post'.at = "failed" /\ post'.clock = post.clock + T
      BY <1>0, <2>1, <2>4, PostsAgain
    <3>2. QED
      BY <1>0, <2>1, <2>4, <3>1 DEF CardIInv, PostType, CardInv, ClockInv, Posting, KeepMessages
  <2>5. QED
    BY <1>7, <2>2, <2>3, <2>4 DEF _post, uuid
<1>8. QED
  BY <1>1, <1>2, <1>3, <1>4, <1>5, <1>6, <1>7, CardSteps
     DEF DeliveryStep, _user, require_credentials, Secrets

LEMMA Posts == Spec => []CardIInv
BY CardInit, CardStep, PTL DEF Spec

(* However its posts time out, are repeated and arrive late, a card is     *)
(* shown at most once, and it is shown when its delivery says it was sent  *)
(* (runtime/feishu.py: one uuid for all the posts of a card).              *)
THEOREM ShownOnce == Spec => []OneCard
<1>1. CardIInv => OneCard
  BY DEF CardIInv, CardInv, OneCard
<1>2. QED
  BY <1>1, Posts, PTL

(* For whatever deadlines are configured, a delivery takes no longer than  *)
(* the share of it that runtime/budgets.py puts into the command's budget. *)
THEOREM DeliversInTime == Spec => []DeliveryWithinBudget(plan)
<1>1. CardIInv => DeliveryWithinBudget(plan)
  <2>1. CredentialRead = _credential /\ CredentialRead \in Nat /\ UrllibHttp \in Nat
    BY BudgetAssumption
       DEF CredentialRead, _credential, UrllibHttp, CLEANUP_ALLOWANCE_SECONDS
  <2>2. Posting /\ CardIInv => plan.notify /\ post.clock \in Nat
                              /\ post.clock <= 6 * CredentialRead + 4 * UrllibHttp + 3
    BY DEF CardIInv, ClockInv, PostType, Cards, Posting, NoPost
  <2>3. QED
    BY <2>1, <2>2 DEF DeliveryWithinBudget, _delivery, UrllibHttp
<1>2. QED
  BY <1>1, Posts, PTL

-----------------------------------------------------------------------------
(* Collection: the search for a live reading, and what is stored.          *)

\* What a step of the composition does to the collection.
LEMMA CollectionSteps ==
  ASSUME [Next]_vars
  PROVE  /\ UNCHANGED plan
         /\ \/ UNCHANGED <<walk, written>>
            \/ walk' = NoWalk /\ written' = {}
            \/ UNCHANGED walk /\ written' = {}
            \/ UNCHANGED written
               /\ \E purpose \in {"display", "schedule"} : Collect(plan, purpose, cmd.capture)
            \/ UNCHANGED walk /\ \E p \in cmd.todo : save_pi_snapshot(p, cmd.capture[p])
            \/ WalkStep(plan)
<1>1. CASE UNCHANGED vars
  BY <1>1 DEF vars
<1>2. CASE Next
  <2>1. CASE CommandStep
    <3>1. CASE QuotaLock
      BY <1>2, <3>1 DEF Next, QuotaLock, KeepWalk
    <3>2. CASE EndCollect
      BY <1>2, <3>2 DEF Next, EndCollect
    <3>3. CASE SaveSnapshot
      BY <1>2, <3>3 DEF Next, SaveSnapshot
    <3>4. CASE SnapshotsSaved
      BY <1>2, <3>4 DEF Next, SnapshotsSaved
    <3>5. CASE Begin \/ Ready \/ Prepare \/ FirstRound \/ RunModel \/ ModelDone \/ EndRound
               \/ Card \/ CardDone
      BY <1>2, <3>5
         DEF Next, Begin, Ready, Prepare, FirstRound, RunModel, ModelDone, EndRound,
             Card, CardDone, KeepParts, KeepWalk
    <3>6. QED
      BY <2>1, <3>1, <3>2, <3>3, <3>4, <3>5 DEF CommandStep
  <2>2. QED
    BY <1>2, <2>1 DEF Next, KeepWalk
<1>3. QED
  BY <1>1, <1>2

-----------------------------------------------------------------------------
(* Readings.                                                               *)

Sound ==
  [fresh : BOOLEAN, five : 0 .. 100, weekly : 0 .. 100, monthly : SUBSET (0 .. 100),
   resets : {TRUE}]

LEMMA Clamps ==
  ASSUME NEW used \in Int
  PROVE  _remaining_percent(used) \in 0 .. 100
BY DEF _remaining_percent, Left

LEMMA ReportNumbers ==
  ASSUME NEW r \in Report
  PROVE  r.five.used \in Int /\ r.weekly.used \in Int /\ r.monthly.used \in Int
BY DEF Report, Windows, Window, Absent

\* A live report that is accepted is fresh.
LEMMA AnswersAreFresh ==
  ASSUME NEW p \in PROVIDERS, NEW tier \in FRESH_TIERS, NEW q \in Answers(p, tier)
  PROVE  q.fresh = TRUE
<1>1. PICK r \in Report : q \in Normalized(p, tier, r)
  BY DEF Answers
<1>2. CASE tier = "native"
  <2>1. \A monthly : Plain(TRUE, r, monthly).fresh = TRUE
    BY DEF Plain, ProviderQuota
  <2>2. QED
    BY <1>1, <1>2, <2>1
       DEF Normalized, NORMALIZE_NATIVE, PROVIDERS, _native_codex_windows, antigravity_report,
           opencode_report, clinepass_report
<1>3. CASE tier = "codexbar-live"
  <2>1. \A monthly : Clamped(r, monthly).fresh = TRUE
    BY DEF Clamped, ProviderQuota
  <2>2. QED
    BY <1>1, <1>3, <2>1
       DEF Normalized, NORMALIZE_BAR, PROVIDERS, normalize_codexbar_codex,
           normalize_codexbar_antigravity, normalize_codexbar_opencode, normalize_codexbar_clinepass
<1>4. CASE tier = "pi-live"
  <2>1. \A monthly : Plain(TRUE, r, monthly).fresh = TRUE
    BY DEF Plain, ProviderQuota
  <2>2. QED
    BY <1>1, <1>4, <2>1 DEF Normalized, normalize_pi_live
<1>5. QED
  BY <1>2, <1>3, <1>4 DEF FRESH_TIERS

\* What CodexBar reports has sound windows, clamped.
LEMMA BarIsSound ==
  ASSUME NEW p \in PROVIDERS, NEW q \in Answers(p, "codexbar-live")
  PROVE  q \in Sound
<1>1. PICK r \in Report : q \in NORMALIZE_BAR(p, r)
  BY DEF Answers, Normalized
<1>2. ASSUME NEW monthly \in SUBSET (0 .. 100) PROVE Clamped(r, monthly) \in Sound
  BY ReportNumbers, Clamps DEF Clamped, ProviderQuota, Sound
<1>3. {_remaining_percent(r.monthly.used)} \in SUBSET (0 .. 100) /\ {} \in SUBSET (0 .. 100)
  BY ReportNumbers, Clamps
<1>4. QED
  BY <1>1, <1>2, <1>3
     DEF NORMALIZE_BAR, PROVIDERS, normalize_codexbar_codex, normalize_codexbar_antigravity,
         normalize_codexbar_opencode, normalize_codexbar_clinepass

\* Whoever wrote the capture, its monthly window is in range or cannot be read.
LEMMA CapturedMonthly ==
  ASSUME NEW p, NEW channel, NEW c \in Captured(p, channel)
  PROVE  _tonumber_window(c.monthly) => c.monthly.used \in 0 .. 100
<1>1. ASSUME NEW w \in Windows
      PROVE  _tonumber_window(normalizeWindow(w)) => normalizeWindow(w).used \in 0 .. 100
  <2>1. w.used \in Int 
       /\ w = [shown |-> w.shown, numeric |-> w.numeric, used |-> w.used, reset |-> w.reset]
    BY DEF Windows, Window, Absent
  <2>2. 100 - _remaining_percent(w.used) \in 0 .. 100
    BY <2>1, Clamps
  <2>3. QED
    BY <2>1, <2>2 DEF normalizeWindow, Absent, Window, _tonumber_window
<1>2. ASSUME NEW w \in Windows PROVE _tonumber_window(_window(w)) => _window(w).used \in 0 .. 100
  BY <1>2 DEF _window, InRange, Absent, Window, _tonumber_window
<1>3. ~_tonumber_window(Absent)
  BY DEF _tonumber_window, Absent, Window
<1>4. ASSUME NEW r \in Report PROVE r.monthly \in Windows /\ captureCodexQuota(r).monthly = Absent
  BY DEF Report, captureCodexQuota
<1>5. CASE channel = "pi" /\ p = "codex"
  BY <1>3, <1>4, <1>5 DEF Captured
<1>6. CASE channel = "pi" /\ p = "antigravity"
  BY <1>3, <1>6 DEF Captured, captureAntigravityQuota
<1>7. CASE channel = "pi" /\ p = "opencode"
  BY <1>1, <1>4, <1>7 DEF Captured, captureOpencodeQuota
<1>8. CASE channel = "direct" /\ p = "opencode"
  BY <1>2, <1>4, <1>8 DEF Captured, _snapshot_opencode
<1>9. CASE channel = "direct" /\ p = "clinepass"
  BY <1>2, <1>4, <1>9 DEF Captured, _snapshot_clinepass
<1>10. QED
  BY <1>5, <1>6, <1>7, <1>8, <1>9 DEF Captured

LEMMA SoundRecord ==
  ASSUME NEW five \in 0 .. 100, NEW weekly \in 0 .. 100, NEW monthly \in SUBSET (0 .. 100)
  PROVE  [fresh |-> FALSE, five |-> five, weekly |-> weekly, monthly |-> monthly,
          resets |-> TRUE] \in Sound
BY DEF Sound

\* What is saved of a capture has sound windows too.
LEMMA SnapshotIsSound ==
  ASSUME NEW p, NEW channel, NEW c \in Captured(p, channel), NEW q \in NORMALIZE_PI(p, c)
  PROVE  q \in Sound /\ q.fresh = FALSE
<1>1. p \in PROVIDERS
  BY DEF Captured, PROVIDERS
<1>2. Both(InRange, c) /\ q \in {Plain(FALSE, c, {}), Plain(FALSE, c, PlainMonthly(c.monthly))}
  BY <1>1 DEF PROVIDERS, NORMALIZE_PI, normalize_pi_codex, normalize_pi_antigravity,
              normalize_pi_opencode, normalize_pi_clinepass
<1>3. /\ Left(c.five.used) \in 0 .. 100 /\ Left(c.weekly.used) \in 0 .. 100
      /\ PlainMonthly(c.monthly) \in SUBSET (0 .. 100)
  BY <1>2, CapturedMonthly DEF Both, InRange, Left, PlainMonthly, LeftOf
<1>4. ASSUME NEW monthly \in SUBSET (0 .. 100)
      PROVE  Plain(FALSE, c, monthly) \in Sound /\ Plain(FALSE, c, monthly).fresh = FALSE
  <2>1. Plain(FALSE, c, monthly) =
          [fresh |-> FALSE, five |-> Left(c.five.used), weekly |-> Left(c.weekly.used),
           monthly |-> monthly, resets |-> TRUE]
    BY DEF Plain, ProviderQuota
  <2>2. Plain(FALSE, c, monthly).fresh = FALSE
    BY DEF Plain, ProviderQuota
  <2>3. Left(c.five.used) \in 0 .. 100 /\ Left(c.weekly.used) \in 0 .. 100
    BY <1>3
  <2>4. Plain(FALSE, c, monthly) \in Sound
    BY <2>1, <2>3, SoundRecord, Zenon
  <2>5. QED
    BY <2>2, <2>4
<1>5. CASE q = Plain(FALSE, c, {})
  BY <1>4, <1>5
<1>6. CASE q = Plain(FALSE, c, PlainMonthly(c.monthly))
  BY <1>3, <1>4, <1>6
<1>7. QED
  BY <1>2, <1>5, <1>6

LEMMA SoundReadsBack ==
  ASSUME NEW q \in Sound, q.fresh = FALSE
  PROVE  \E r \in ReadStored(q) : SameWindows(q, r)
<1> DEFINE r == demote_to_cached(q)
<1>1. r.five = q.five /\ r.weekly = q.weekly /\ r.monthly = q.monthly
  BY DEF demote_to_cached, Sound
<1>2. renormalize_document(q) = {q}
  BY DEF renormalize_document, Sound
<1>3. parse_document(r) = {r}
  BY <1>1 DEF parse_document, _parse_window, Sound
<1>4. r \in ReadStored(q)
  BY <1>2, <1>3 DEF ReadStored
<1>5. QED
  BY <1>1, <1>4 DEF SameWindows

-----------------------------------------------------------------------------
(* The walk.                                                               *)

Probed == {plan.probes[i] : i \in DOMAIN plan.probes}

Queue(queue) == queue \in Seq(PROVIDERS) /\ \A i \in 1 .. Len(queue) : queue[i] \in Probed

WalkType ==
  /\ plan \in Plans
  /\ \/ walk = NoWalk
     \/ /\ walk.at = "next"
        /\ walk = [at |-> walk.at, purpose |-> walk.purpose, capture |-> walk.capture,
                   queue |-> walk.queue, auth_required |-> walk.auth_required]
        /\ walk.auth_required \in BOOLEAN /\ Queue(walk.queue)
     \/ /\ walk.at \in {"tier", "chosen"}
        /\ walk = [at |-> walk.at, purpose |-> walk.purpose, capture |-> walk.capture,
                   queue |-> walk.queue, auth_required |-> walk.auth_required,
                   p |-> walk.p, up |-> walk.up, tier |-> walk.tier, first |-> walk.first,
                   clock |-> walk.clock]
        /\ walk.auth_required \in BOOLEAN /\ Queue(walk.queue)
        /\ walk.p \in Probed /\ walk.tier \in 1 .. Len(Tiers(plan))
        /\ walk.up \subseteq {Tiers(plan)[i] : i \in 1 .. Len(Tiers(plan))} \cap FRESH_TIERS
        /\ walk.first.fresh \in BOOLEAN

\* For the schedule, the walk goes on only over tiers that do not answer.
LadderInv ==
  walk.at = "tier" /\ walk.purpose = "schedule" =>
    /\ walk.first.fresh = FALSE
    /\ \A i \in 1 .. walk.tier - 1 : Tiers(plan)[i] \notin walk.up \ Skipped

StoredInv == \A q \in written : q \in Sound /\ q.fresh = FALSE

WalkIInv == WalkType /\ LadderInv /\ SchedulesOnLive /\ StoredInv

LEMMA ProbedLadders ==
  ASSUME plan \in Plans, NEW p \in Probed
  PROVE  /\ p \in PROVIDERS /\ plan.tiers[p] \in Seq(TIERS)
         /\ Len(plan.tiers[p]) \in Nat \ {0}
         /\ \A i \in 1 .. Len(plan.tiers[p]) : plan.tiers[p][i] \in TIERS
<1>1. PICK i \in DOMAIN plan.probes : p = plan.probes[i]
  BY DEF Probed
<1>2. plan.probes \in Seq(PROVIDERS) /\ plan.tiers[plan.probes[i]] \in Seq(TIERS) \ {<<>>}
  BY <1>1, PlansAssumption
<1>3. p \in PROVIDERS /\ plan.tiers[p] \in Seq(TIERS) \ {<<>>}
  BY <1>1, <1>2
<1>4. QED
  BY <1>3, EmptySeq, LenProperties

LEMMA ProbesQueue ==
  ASSUME plan \in Plans PROVE Queue(plan.probes)
BY PlansAssumption DEF Queue, Probed

LEMMA FoundIsBoolean ==
  ASSUME NEW tier, NEW q
  PROVE  Found(tier, q).fresh \in BOOLEAN
<1>1. Found(tier, q).fresh = (tier \in FRESH_TIERS /\ q.fresh)
  BY DEF Found
<1>2. (tier \in FRESH_TIERS /\ q.fresh) \in BOOLEAN
  OBVIOUS
<1>3. QED
  BY <1>1, <1>2

\* A tier has been asked, and the walk goes on, or its provider is settled.
LEMMA AfterTier ==
  ASSUME WalkType, walk.at = "tier", NEW quota, NEW cost, NEW auth \in BOOLEAN,
         After(plan, quota, cost, auth), UNCHANGED plan
  PROVE  LET enough == \E q \in quota : Enough(Tier(plan), q)
             last == walk.tier = Len(Tiers(plan))
         IN  /\ WalkType'
             /\ walk'.at = IF enough \/ last THEN "chosen" ELSE "tier"
             /\ walk'.tier = IF enough \/ last THEN walk.tier ELSE walk.tier + 1
             /\ walk'.p = walk.p /\ walk'.up = walk.up /\ walk'.purpose = walk.purpose
             /\ walk'.auth_required = auth
             /\ walk'.first \in {walk.first} \cup {Found(Tier(plan), q) : q \in quota}
             /\ enough => walk'.first \in {Found(Tier(plan), q) : q \in quota}
<1> DEFINE enough == \E q \in quota : Enough(Tier(plan), q)
           last == walk.tier = Len(Tiers(plan))
           found == {Found(Tier(plan), q) : q \in quota}
           first == IF found # {} /\ (enough \/ ~walk.first.some)
                    THEN CHOOSE f \in found : TRUE ELSE walk.first
           at == IF enough \/ last THEN "chosen" ELSE "tier"
           tier == IF enough \/ last THEN walk.tier ELSE walk.tier + 1
<1>1. walk' = [walk EXCEPT !.clock = walk.clock + cost, !.auth_required = auth, !.first = first,
                           !.at = at, !.tier = tier]
  BY DEF After
<1>2. /\ walk = [at |-> walk.at, purpose |-> walk.purpose, capture |-> walk.capture,
                 queue |-> walk.queue, auth_required |-> walk.auth_required,
                 p |-> walk.p, up |-> walk.up, tier |-> walk.tier, first |-> walk.first,
                 clock |-> walk.clock]
      /\ Queue(walk.queue) /\ plan \in Plans
      /\ walk.p \in Probed /\ walk.tier \in 1 .. Len(Tiers(plan))
      /\ walk.up \subseteq {Tiers(plan)[i] : i \in 1 .. Len(Tiers(plan))} \cap FRESH_TIERS
      /\ walk.first.fresh \in BOOLEAN
  BY DEF WalkType, NoWalk
<1>3. first \in {walk.first} \cup found /\ (enough => first \in found)
  <2>1. enough => found # {}
    OBVIOUS
  <2>2. found # {} => (CHOOSE f \in found : TRUE) \in found
    OBVIOUS
  <2>3. QED
    BY <2>1, <2>2
<1>4. first.fresh \in BOOLEAN
  <2>1. \A f \in found : f.fresh \in BOOLEAN
    BY FoundIsBoolean
  <2>2. QED
    BY <1>2, <1>3, <2>1
<1>5. Len(Tiers(plan)) \in Nat /\ tier \in 1 .. Len(Tiers(plan))
  BY <1>2, ProbedLadders DEF Tiers
<1> HIDE DEF first, at, tier, found
<1>6. /\ walk'.at = at /\ walk'.tier = tier /\ walk'.first = first /\ walk'.auth_required = auth
      /\ walk'.p = walk.p /\ walk'.up = walk.up /\ walk'.purpose = walk.purpose
      /\ walk'.queue = walk.queue
      /\ walk' = [at |-> walk'.at, purpose |-> walk'.purpose, capture |-> walk'.capture,
                  queue |-> walk'.queue, auth_required |-> walk'.auth_required,
                  p |-> walk'.p, up |-> walk'.up, tier |-> walk'.tier, first |-> walk'.first,
                  clock |-> walk'.clock]
  BY <1>1, <1>2
<1>7. Tiers(plan)' = Tiers(plan) /\ Probed' = Probed
  BY <1>6 DEF Tiers, Probed
<1>8. at \in {"tier", "chosen"}
  BY DEF at
<1>9. WalkType'
  BY <1>2, <1>4, <1>5, <1>6, <1>7, <1>8 DEF WalkType, Queue
<1>10. QED
  BY <1>3, <1>6, <1>9 DEF at, tier, found

LEMMA WalkInit == Init => WalkIInv
BY DEF Init, WalkIInv, WalkType, LadderInv, SchedulesOnLive, StoredInv, NoWalk

LEMMA TierIsKnown ==
  ASSUME WalkType, walk.at = "tier"
  PROVE  /\ walk.tier \in 1 .. Len(Tiers(plan)) /\ Len(Tiers(plan)) \in Nat
         /\ Tier(plan) = Tiers(plan)[walk.tier] /\ Tier(plan) \in TIERS
         /\ walk.p \in PROVIDERS /\ walk.auth_required \in BOOLEAN
         /\ walk.first.fresh \in BOOLEAN
         /\ walk.up \subseteq {Tiers(plan)[i] : i \in 1 .. Len(Tiers(plan))} \cap FRESH_TIERS
<1>1. /\ plan \in Plans /\ walk.p \in Probed /\ walk.tier \in 1 .. Len(Tiers(plan))
      /\ walk.auth_required \in BOOLEAN /\ walk.first.fresh \in BOOLEAN
      /\ walk.up \subseteq {Tiers(plan)[i] : i \in 1 .. Len(Tiers(plan))} \cap FRESH_TIERS
  BY DEF WalkType, NoWalk
<1>2. QED
  BY <1>1, ProbedLadders DEF Tiers, Tier

\* A sign-in, once needed, is needed for the rest of the collection.
LEMMA SkippedGrows ==
  ASSUME walk'.p = walk.p, walk.auth_required => walk'.auth_required
  PROVE  Skipped \subseteq Skipped'
BY DEF Skipped

\* A tier that brought nothing live leaves the search where it was, one tier on.
LEMMA NothingLive ==
  ASSUME WalkType, LadderInv, walk.at = "tier",
         NEW quota, NEW cost, NEW auth \in BOOLEAN, After(plan, quota, cost, auth), UNCHANGED plan,
         walk.auth_required => auth,
         \A q \in quota : Found(Tier(plan), q).fresh = FALSE,
         Tier(plan) \notin walk.up \ Skipped'
  PROVE  WalkType' /\ LadderInv' /\ SchedulesOnLive'
<1> DEFINE enough == \E q \in quota : Enough(Tier(plan), q)
           last == walk.tier = Len(Tiers(plan))
<1>1. /\ WalkType'
      /\ walk'.at = IF enough \/ last THEN "chosen" ELSE "tier"
      /\ walk'.tier = IF enough \/ last THEN walk.tier ELSE walk.tier + 1
      /\ walk'.p = walk.p /\ walk'.up = walk.up /\ walk'.purpose = walk.purpose
      /\ walk'.auth_required = auth
      /\ walk'.first \in {walk.first} \cup {Found(Tier(plan), q) : q \in quota}
  BY AfterTier
<1>2. Skipped \subseteq Skipped' /\ Tiers(plan)' = Tiers(plan)
  BY <1>1, SkippedGrows DEF Tiers
<1> SUFFICES ASSUME walk.purpose = "schedule" PROVE LadderInv' /\ SchedulesOnLive'
  BY <1>1 DEF LadderInv, SchedulesOnLive
<1>3. ~enough
  BY DEF Enough
<1> HIDE DEF enough
<1>4. /\ walk.first.fresh = FALSE
      /\ \A i \in 1 .. walk.tier - 1 : Tiers(plan)[i] \notin walk.up \ Skipped'
  BY <1>2 DEF LadderInv
<1>5. walk'.first.fresh = FALSE
  BY <1>1, <1>4
<1>6. \A i \in 1 .. walk.tier : Tiers(plan)[i] \notin walk.up \ Skipped'
  BY <1>4, TierIsKnown
<1>7. CASE last
  <2>1. \A i \in 1 .. Len(Tiers(plan)) : Tiers(plan)[i] \notin walk.up \ Skipped'
    BY <1>6, <1>7
  <2>2. walk.up \ Skipped' = {}
    BY <2>1, TierIsKnown
  <2>3. QED
    BY <1>1, <1>3, <1>5, <1>7, <2>2 DEF LadderInv, SchedulesOnLive
<1>8. CASE ~last
  <2>1. walk'.at = "tier" /\ walk'.tier - 1 = walk.tier
    BY <1>1, <1>3, <1>8, TierIsKnown
  <2>2. QED
    BY <1>1, <1>2, <1>5, <1>6, <2>1 DEF LadderInv, SchedulesOnLive
<1>9. QED
  BY <1>7, <1>8

\* A live tier that answers ends the search.
LEMMA SomethingLive ==
  ASSUME WalkType, walk.at = "tier",
         NEW q, NEW cost, After(plan, {q}, cost, walk.auth_required), UNCHANGED plan,
         q.fresh = TRUE, Tier(plan) \in walk.up \ Skipped
  PROVE  WalkType' /\ LadderInv' /\ SchedulesOnLive'
<1>1. Found(Tier(plan), q).fresh = TRUE
  BY TierIsKnown DEF Found
<1>2. \E r \in {q} : Enough(Tier(plan), r)
  BY <1>1 DEF Enough
<1>3. /\ WalkType' /\ walk'.at = "chosen"
      /\ walk'.p = walk.p /\ walk'.up = walk.up /\ walk'.auth_required = walk.auth_required
      /\ walk'.first \in {Found(Tier(plan), r) : r \in {q}}
  BY <1>2, AfterTier, TierIsKnown
<1>4. walk'.first.fresh = TRUE /\ Skipped' = Skipped
  BY <1>1, <1>3 DEF Skipped
<1>5. QED
  BY <1>3, <1>4 DEF LadderInv, SchedulesOnLive

\* The walk takes up the next provider of its queue.
LEMMA TakesNext ==
  ASSUME WalkType, NextProvider(plan), UNCHANGED plan
  PROVE  WalkType' /\ LadderInv' /\ SchedulesOnLive'
<1>1. /\ walk.at = "next" /\ walk.queue # <<>> /\ plan \in Plans
      /\ walk.auth_required \in BOOLEAN /\ Queue(walk.queue)
  BY DEF NextProvider, WalkType, NoWalk
<1> DEFINE p == Head(walk.queue)
<1>2. PICK up \in SUBSET {t \in ToSet(plan.tiers[p]) \cap FRESH_TIERS : Answers(p, t) # {}} :
        walk' = [at |-> "tier", purpose |-> walk.purpose, capture |-> walk.capture,
                 queue |-> Tail(walk.queue), auth_required |-> walk.auth_required,
                 p |-> p, up |-> up, tier |-> 1, first |-> Unavailable, clock |-> 0]
  BY DEF NextProvider
<1>3. p \in Probed /\ Queue(Tail(walk.queue))
  <2>1. walk.queue \in Seq(PROVIDERS) /\ Len(walk.queue) \in Nat \ {0}
    BY <1>1, EmptySeq, LenProperties DEF Queue
  <2>2. p = walk.queue[1] /\ Tail(walk.queue) \in Seq(PROVIDERS)
        /\ Len(Tail(walk.queue)) = Len(walk.queue) - 1
        /\ \A i \in 1 .. Len(Tail(walk.queue)) : Tail(walk.queue)[i] = walk.queue[i + 1]
    BY <1>1, <2>1, HeadTailProperties
  <2>3. QED
    BY <1>1, <2>1, <2>2 DEF Queue
<1>4. /\ plan.tiers[p] \in Seq(TIERS) /\ Len(plan.tiers[p]) \in Nat \ {0}
  BY <1>1, <1>3, ProbedLadders
<1>5. up \subseteq {plan.tiers[p][i] : i \in 1 .. Len(plan.tiers[p])} \cap FRESH_TIERS
  BY <1>4 DEF ToSet
<1>6. Tiers(plan)' = plan.tiers[p] /\ Probed' = Probed /\ walk'.first.fresh = FALSE
  BY <1>2 DEF Tiers, Probed, Unavailable
<1> HIDE DEF p
<1>7. /\ walk'.at = "tier" /\ walk'.auth_required = walk.auth_required
      /\ walk'.queue = Tail(walk.queue) /\ walk'.p = p /\ walk'.up = up /\ walk'.tier = 1
      /\ walk' = [at |-> walk'.at, purpose |-> walk'.purpose, capture |-> walk'.capture,
                  queue |-> walk'.queue, auth_required |-> walk'.auth_required,
                  p |-> walk'.p, up |-> walk'.up, tier |-> walk'.tier, first |-> walk'.first,
                  clock |-> walk'.clock]
  BY <1>2
<1>8. WalkType'
  <2>1. Queue(walk.queue)' /\ walk'.p \in Probed'
    BY <1>3, <1>6, <1>7 DEF Queue
  <2>2. walk'.tier \in 1 .. Len(Tiers(plan)')
    BY <1>4, <1>6, <1>7
  <2>3. walk'.up \subseteq {Tiers(plan)'[i] : i \in 1 .. Len(Tiers(plan)')} \cap FRESH_TIERS
    BY <1>5, <1>6, <1>7
  <2>4. walk'.first.fresh \in BOOLEAN /\ walk'.auth_required \in BOOLEAN
    BY <1>1, <1>6, <1>7
  <2> HIDE DEF Queue, Tiers
  <2>5. QED
    BY <1>1, <1>7, <2>1, <2>2, <2>3, <2>4 DEF WalkType
<1>9. LadderInv' /\ SchedulesOnLive'
  <2>1. walk'.at # "chosen" /\ \A i \in 1 .. walk'.tier - 1 : FALSE
    BY <1>7
  <2>2. LadderInv'
    BY <1>6, <2>1 DEF LadderInv
  <2>3. SchedulesOnLive'
    BY <2>1 DEF SchedulesOnLive
  <2>4. QED
    BY <2>2, <2>3
<1>10. QED
  BY <1>8, <1>9

LEMMA WalkStepInvariant ==
  ASSUME WalkIInv, WalkStep(plan), UNCHANGED plan
  PROVE  WalkIInv'
<1> USE DEF WalkIInv
<1>0. ASSUME walk.at = "tier", written' = {}, NEW cost, NEW auth \in BOOLEAN,
             walk.auth_required => auth, After(plan, {}, cost, auth),
             Tier(plan) \notin walk.up \ Skipped'
      PROVE  WalkIInv'
  <2>1. PICK quota : quota = {}
    OBVIOUS
  <2>2. After(plan, quota, cost, auth) /\ \A q \in quota : Found(Tier(plan), q).fresh = FALSE
    BY <1>0, <2>1
  <2>3. WalkType' /\ LadderInv' /\ SchedulesOnLive'
    BY <1>0, <2>2, NothingLive
  <2>4. QED
    BY <1>0, <2>3 DEF StoredInv
<1>1. CASE NextProvider(plan)
  BY <1>1, TakesNext DEF StoredInv, NextProvider
<1>2. CASE LiveFails(plan)
  <2>1. PICK auth \in {walk.auth_required,
                      walk.auth_required \/ (walk.p = "antigravity" /\ Tier(plan) = "native")} :
          After(plan, {}, Cost(walk.p, Tier(plan)), auth)
    BY <1>2 DEF LiveFails
  <2>2. /\ walk.at = "tier" /\ Tier(plan) \notin walk.up /\ written' = {}
    BY <1>2 DEF LiveFails, At, Tier
  <2>3. auth \in BOOLEAN /\ (walk.auth_required => auth)
    <3>1. walk.auth_required \in BOOLEAN
      BY <2>2, TierIsKnown
    <3>2. CASE auth = walk.auth_required
      BY <3>1, <3>2
    <3>3. CASE auth = (walk.auth_required \/ (walk.p = "antigravity" /\ Tier(plan) = "native"))
      BY <3>3
    <3>4. QED
      BY <2>1, <3>2, <3>3
  <2>4. QED
    BY <1>0, <2>1, <2>2, <2>3
<1>3. CASE CodexbarSkipped(plan)
  <2>1. /\ walk.at = "tier" /\ Tier(plan) \in Skipped /\ written' = {}
        /\ After(plan, {}, 0, TRUE)
    BY <1>3 DEF CodexbarSkipped, At, Tier
  <2>2. PICK auth \in BOOLEAN : auth = TRUE /\ After(plan, {}, 0, auth)
    BY <2>1
  <2>3. Tier(plan) \in Skipped'
    <3>1. walk'.p = walk.p /\ walk'.auth_required = auth
      BY <2>1, <2>2, AfterTier
    <3>2. QED
      BY <2>1, <2>2, <3>1, SkippedGrows
  <2>4. walk.auth_required => auth
    BY <2>2
  <2>5. QED
    BY <1>0, <2>1, <2>2, <2>3, <2>4
<1>4. CASE LiveAnswers(plan)
  <2>1. PICK q \in Answers(walk.p, Tier(plan)) :
          /\ After(plan, {q}, Cost(walk.p, Tier(plan)), walk.auth_required)
          /\ \/ Tier(plan) = "codexbar-live" /\ written' = {demote_to_cached(q)}
             \/ written' = {}
    BY <1>4 DEF LiveAnswers
  <2>2. /\ walk.at = "tier" /\ Tier(plan) \in walk.up \ Skipped
    BY <1>4 DEF LiveAnswers, At, Tier
  <2>3. Tier(plan) \in FRESH_TIERS /\ walk.p \in PROVIDERS
    BY <2>2, TierIsKnown
  <2>4. q.fresh = TRUE
    BY <2>3, AnswersAreFresh
  <2>5. StoredInv'
    <3>1. CASE written' = {}
      BY <3>1 DEF StoredInv
    <3>2. CASE Tier(plan) = "codexbar-live" /\ written' = {demote_to_cached(q)}
      <4>1. q \in Sound
        BY <2>3, <3>2, BarIsSound
      <4>2. demote_to_cached(q) \in Sound /\ demote_to_cached(q).fresh = FALSE
        BY <4>1 DEF demote_to_cached, Sound
      <4>3. QED
        BY <3>2, <4>2 DEF StoredInv
    <3>3. QED
      BY <2>1, <3>1, <3>2
  <2>6. QED
    BY <2>1, <2>2, <2>4, <2>5, SomethingLive
<1>5. ASSUME NEW quota, NEW tier \in TIERS \ FRESH_TIERS, At(plan, {tier}),
             After(plan, quota, 1, walk.auth_required), written' = {}
      PROVE  WalkIInv'
  <2>1. walk.at = "tier" /\ Tier(plan) = tier /\ tier \notin FRESH_TIERS
    BY <1>5 DEF At, Tier
  <2>2. walk.auth_required \in BOOLEAN /\ tier \notin walk.up
    BY <2>1, TierIsKnown
  <2>3. \A q \in quota : Found(Tier(plan), q).fresh = FALSE
    BY <2>1 DEF Found
  <2>4. QED
    BY <1>5, <2>1, <2>2, <2>3, NothingLive DEF StoredInv
<1>6. CASE _read_cache(plan)
  BY <1>5, <1>6 DEF _read_cache, TIERS, FRESH_TIERS
<1>7. CASE _read_pi(plan)
  BY <1>5, <1>7 DEF _read_pi, TIERS, FRESH_TIERS
<1>8. CASE Settle
  <2>1. /\ walk.at = "chosen" /\ written' = {} /\ plan \in Plans
        /\ walk' = [at |-> "next", purpose |-> walk.purpose, capture |-> walk.capture,
                    queue |-> walk.queue, auth_required |-> walk.auth_required]
        /\ walk.auth_required \in BOOLEAN /\ Queue(walk.queue)
    BY <1>8 DEF Settle, Between, WalkType, NoWalk
  <2>2. QED
    BY <2>1 DEF WalkType, Queue, Probed, LadderInv, SchedulesOnLive, StoredInv
<1>9. QED
  BY <1>1, <1>2, <1>3, <1>4, <1>6, <1>7, <1>8 DEF WalkStep

LEMMA CollectionStep == WalkIInv /\ [Next]_vars => WalkIInv'
<1> SUFFICES ASSUME WalkIInv, [Next]_vars PROVE WalkIInv'
  OBVIOUS
<1>0. UNCHANGED plan
  BY CollectionSteps
<1>1. ASSUME UNCHANGED walk PROVE (WalkType /\ LadderInv /\ SchedulesOnLive)'
  BY <1>0, <1>1
     DEF WalkIInv, WalkType, LadderInv, SchedulesOnLive, Tiers, Queue, Probed, Skipped
<1>2. CASE UNCHANGED <<walk, written>>
  BY <1>1, <1>2 DEF WalkIInv, StoredInv
<1>3. CASE walk' = NoWalk /\ written' = {}
  BY <1>0, <1>3 DEF WalkIInv, WalkType, LadderInv, SchedulesOnLive, StoredInv, NoWalk
<1>4. CASE UNCHANGED walk /\ written' = {}
  BY <1>1, <1>4 DEF WalkIInv, StoredInv
<1>5. CASE UNCHANGED written
           /\ \E purpose \in {"display", "schedule"} : Collect(plan, purpose, cmd.capture)
  <2>1. PICK purpose \in {"display", "schedule"} : Collect(plan, purpose, cmd.capture)
    BY <1>5
  <2>2. walk' = [at |-> "next", purpose |-> purpose, capture |-> cmd.capture,
                 queue |-> plan.probes, auth_required |-> FALSE]
    BY <2>1 DEF Collect
  <2>3. plan \in Plans /\ Queue(plan.probes)
    BY ProbesQueue DEF WalkIInv, WalkType
  <2>4. QED
    BY <1>0, <1>5, <2>2, <2>3
       DEF WalkIInv, WalkType, Queue, Probed, LadderInv, SchedulesOnLive, StoredInv
<1>6. CASE UNCHANGED walk /\ \E p \in cmd.todo : save_pi_snapshot(p, cmd.capture[p])
  <2>1. PICK p \in cmd.todo : save_pi_snapshot(p, cmd.capture[p])
    BY <1>6
  <2>2. PICK r \in Captured(p, cmd.capture[p]) : written' \in {{}, NORMALIZE_PI(p, r)}
    BY <2>1 DEF save_pi_snapshot
  <2>3. StoredInv'
    BY <2>2, SnapshotIsSound DEF StoredInv
  <2>4. QED
    BY <1>1, <1>6, <2>3 DEF WalkIInv
<1>7. CASE WalkStep(plan)
  BY <1>0, <1>7, WalkStepInvariant
<1>8. QED
  BY <1>2, <1>3, <1>4, <1>5, <1>6, <1>7, CollectionSteps

LEMMA Walks == Spec => []WalkIInv
BY WalkInit, CollectionStep, PTL DEF Spec

(* A collection for the schedule ends on a live reading exactly when some  *)
(* live tier of the provider's ladder would have answered, for every       *)
(* ladder a plan may configure (quota_probe.py, collect with the purpose   *)
(* schedule).                                                              *)
THEOREM CollectsForTheSchedule == Spec => []SchedulesOnLive
BY Walks, PTL DEF WalkIInv

(* Whatever a command stores, a demoted CodexBar reading or a snapshot of  *)
(* a capture, the strict reader of the next command takes back, with the   *)
(* same windows (quota/normalize.py against models.parse_document).        *)
THEOREM StoredIsReadBack == Spec => []ReadsBack
<1>1. WalkIInv => ReadsBack
  BY SoundReadsBack DEF WalkIInv, StoredInv, ReadsBack
<1>2. QED
  BY <1>1, Walks, PTL

-----------------------------------------------------------------------------
(* Attempts: what is spent, and who may still be asked.                    *)

Channels == {"pi", "codex", "agy", "direct"}

Shape(s) ==
  s = [stage |-> s.stage, phase |-> s.phase, todo |-> s.todo, channel |-> s.channel,
       round |-> s.round, burst |-> s.burst, failed |-> s.failed, retry |-> s.retry,
       due |-> s.due, recovered |-> s.recovered, start |-> s.start,
       capture |-> s.capture, elapsed |-> s.elapsed]
CommandShape == Shape(cmd)

AttemptShape ==
  attempt = [at |-> attempt.at, p |-> attempt.p, start |-> attempt.start, i |-> attempt.i,
             last |-> attempt.last, clock |-> attempt.clock, turn |-> attempt.turn,
             tries |-> attempt.tries, billed |-> attempt.billed, success |-> attempt.success,
             capture |-> attempt.capture]

Before == {"visit", "guard", "version", "credential", "turn"}

\* An attempt is at a channel of its provider's chain.
AttemptType ==
  \/ attempt = NoAttempt
  \/ /\ AttemptShape
     /\ attempt.at \in Before \cup {"judge", "snapshot", "done"}
     /\ attempt.p \in plan.opening /\ attempt.i \in 1 .. Len(plan.chains[attempt.p])
     /\ attempt.turn \in Turns
     /\ attempt.success = TRUE => attempt.at = "done"

Answer == IF Anchors(Channel(plan), attempt.turn) THEN 1 ELSE 0

\* What the attempt in flight has spent, and what the ledger says of it.
AttemptInv ==
  /\ attempt.at \in Before => attempt.billed = 0 /\ answered[attempt.p] = lost[attempt.p]
  /\ attempt.at \in {"judge", "snapshot"} =>
       /\ attempt.billed = IF attempt.turn.billed THEN 1 ELSE 0
       /\ answered[attempt.p] = lost[attempt.p] + Answer
  /\ attempt.at = "done" =>
       /\ attempt.billed \in {0, 1}
       /\ ~attempt.success => answered[attempt.p] = lost[attempt.p]

LedgerInv ==
  /\ answered \in [PROVIDERS -> Nat] /\ lost \in [PROVIDERS -> Nat]
  /\ \A p \in PROVIDERS : answered[p] \in {lost[p], lost[p] + 1}

Bursting == cmd.stage \in {"ready", "prepare", "round"}

\* The command never opens but what the plan has to open, each from a channel of its chain.
CommandType ==
  /\ plan \in Plans /\ CommandShape
  /\ cmd.todo \subseteq PROVIDERS
  /\ cmd.burst \subseteq plan.opening /\ cmd.failed \subseteq plan.opening
  /\ cmd.retry \subseteq plan.opening /\ cmd.due \subseteq plan.opening \ cmd.retry
  /\ cmd.start \in [PROVIDERS -> Nat] /\ cmd.channel \in Nat \ {0}
  /\ \A p \in plan.opening : cmd.start[p] \in 1 .. Len(plan.chains[p])

\* A burst of the retries stays among them; who failed in a round is done with it.
BurstInv ==
  /\ Bursting =>
       /\ cmd.phase = "retry" => cmd.burst \subseteq cmd.retry
       /\ cmd.stage # "ready" => cmd.todo \subseteq cmd.burst
       /\ cmd.failed \subseteq cmd.burst /\ cmd.failed \cap cmd.todo = {}
       /\ cmd.stage # "round" => cmd.failed = {}
  /\ cmd.stage = "begin" => cmd.phase \in {"usage", "retry"} /\ cmd.retry = {} /\ cmd.due = {}
  /\ cmd.stage = "prepare" =>
       \A p \in cmd.todo : First(p) => cmd.channel \in 1 .. Len(plan.chains[p])
  /\ Attempting => cmd.stage = "round" /\ attempt.p \in cmd.todo

Later == IF cmd.phase = "retry" THEN plan.opening \ cmd.retry ELSE {}
Now ==
  CASE cmd.stage \in {"ready", "prepare"} -> cmd.burst
    [] cmd.stage = "round" -> (cmd.todo \cup cmd.failed) \ (IF Attempting THEN {attempt.p} ELSE {})
    [] OTHER -> {}

\* Whoever may still be asked has no answer that was not lost.
OwedInv == \A p \in Later \cup Now : answered[p] = lost[p]

SpentIInv == CommandType /\ BurstInv /\ AttemptType /\ AttemptInv /\ LedgerInv /\ OwedInv
-----------------------------------------------------------------------------
LEMMA OpeningsAreProviders ==
  ASSUME plan \in Plans, NEW p \in plan.opening
  PROVE  /\ p \in PROVIDERS /\ plan.chains[p] \in Seq(Channels)
         /\ Len(plan.chains[p]) \in Nat \ {0}
         /\ \A i \in 1 .. Len(plan.chains[p]) : plan.chains[p][i] \in Channels
<1>1. PICK i \in DOMAIN plan.probes : plan.probes[i] = p
  BY PlansAssumption
<1>2. plan.probes \in Seq(PROVIDERS)
  BY PlansAssumption
<1>3. p \in PROVIDERS
  BY <1>1, <1>2
<1>4. plan.chains[p] \in Seq(Channels) \ {<<>>}
  BY PlansAssumption DEF Channels
<1>5. QED
  BY <1>3, <1>4, EmptySeq, LenProperties

\* No answer that anchored a window is refused.
LEMMA AnchoringIsAccepted ==
  ASSUME NEW ch \in Channels, NEW t \in Turns, Anchors(ch, t)
  PROVE  _functional(ch, t) /\ ~_one_turn(t)
<1>1. t.reported \in 0 .. 2 /\ t.billed /\ t.completed /\ t.reply
  BY DEF Anchors, Answered, Turns
<1>2. ~_one_turn(t) /\ Answered(t)
  BY <1>1 DEF _one_turn, Answered
<1>3. CASE ch \in {"agy", "codex"}
  <2>1. t.reported > 0 /\ ~t.reasoned
    BY <1>3 DEF Anchors
  <2>2. t.reported >= 1
    BY <1>1, <2>1
  <2>3. agy_functional(t) /\ codex_functional(t)
    BY <1>2, <2>1, <2>2 DEF agy_functional, codex_functional
  <2>4. QED
    BY <1>2, <1>3, <2>3 DEF _functional
<1>4. CASE ch \in {"pi", "direct"}
  BY <1>2, <1>4 DEF _functional, pi_success, direct_success
<1>5. QED
  BY <1>3, <1>4 DEF Channels

\* A turn that is taken again for free was not billed.
LEMMA FreeTurnIsUnbilled ==
  ASSUME NEW t \in Turns, _one_turn(t)
  PROVE  ~t.billed
BY DEF Turns, _one_turn

LEMMA TurnsOfAreTurns ==
  ASSUME NEW ch \in Channels
  PROVE  TurnsOf(ch) \subseteq Turns
BY DEF Channels, TurnsOf, parse_result, parse_events, pi_output, _read_completion

LEMMA NoTurnIsATurn == NoTurn \in Turns
BY DEF NoTurn, Turns

LEMMA ChannelIsKnown ==
  ASSUME plan \in Plans, AttemptType, Attempting
  PROVE  /\ AttemptShape /\ attempt.p \in plan.opening /\ attempt.p \in PROVIDERS
         /\ attempt.i \in 1 .. Len(plan.chains[attempt.p])
         /\ Len(plan.chains[attempt.p]) \in Nat
         /\ Channel(plan) \in Channels /\ attempt.turn \in Turns
         /\ attempt.success = TRUE => attempt.at = "done"
         /\ attempt.at \in Before \cup {"judge", "snapshot", "done"}
<1>1. attempt # NoAttempt
  BY DEF Attempting, NoAttempt
<1>2. QED
  BY <1>1, OpeningsAreProviders DEF AttemptType, Channel

\* The channel is left: for the next one, where nothing is spent yet, or for good.
LEMMA LeavesChannel ==
  ASSUME plan \in Plans, AttemptType, Attempting, NEW cost, NEW last,
         NextChannel(plan, cost, last), UNCHANGED plan, attempt.at # "done"
  PROVE  /\ AttemptType' /\ attempt'.at \in {"visit", "done"} /\ attempt'.p = attempt.p
         /\ attempt'.billed = 0 /\ attempt'.success # TRUE
<1> DEFINE left == attempt.i < Len(plan.chains[attempt.p])
           at == IF left THEN "visit" ELSE "done"
           i == IF left THEN attempt.i + 1 ELSE attempt.i
           capture == Captures(plan, last)
<1>1. attempt' = [[attempt EXCEPT !.at = at, !.i = i, !.last = last, !.capture = capture,
                                  !.turn = NoTurn, !.tries = 0, !.billed = 0]
                  EXCEPT !.clock = @ + cost]
  BY DEF NextChannel, Spend
<1>2. i \in 1 .. Len(plan.chains[attempt.p]) /\ at \in {"visit", "done"}
  BY ChannelIsKnown
<1> HIDE DEF at, i, capture
<1>3. /\ AttemptShape' /\ attempt'.at = at /\ attempt'.i = i /\ attempt'.p = attempt.p
      /\ attempt'.turn = NoTurn /\ attempt'.billed = 0 /\ attempt'.success = attempt.success
  BY <1>1, ChannelIsKnown DEF AttemptShape
<1>4. QED
  BY <1>2, <1>3, ChannelIsKnown, NoTurnIsATurn DEF AttemptType, Before

AttemptIInv == plan \in Plans /\ AttemptType /\ AttemptInv /\ LedgerInv

\* A step of the attempt in flight: it stays in flight, and touches no other provider's ledger.
StepsOn ==
  /\ AttemptType' /\ AttemptInv' /\ LedgerInv'
  /\ Attempting' /\ attempt'.p = attempt.p
  /\ \A p \in PROVIDERS \ {attempt.p} : answered'[p] = answered[p] /\ lost'[p] = lost[p]

\* The places of an attempt that only move on.
LEMMA MovesOn ==
  ASSUME AttemptIInv, Attempting, attempt.at \in Before, NEW to \in Before, NEW cost,
         \/ attempt' = [attempt EXCEPT !.at = to]
         \/ Spend(cost, [attempt EXCEPT !.at = to]),
         KeepLedger, UNCHANGED plan
  PROVE  StepsOn
<1>1. /\ AttemptShape' /\ attempt'.at = to /\ attempt'.p = attempt.p /\ attempt'.i = attempt.i
      /\ attempt'.turn = attempt.turn /\ attempt'.billed = attempt.billed
      /\ attempt'.success = attempt.success
  <2>1. CASE attempt' = [attempt EXCEPT !.at = to]
    BY <2>1, ChannelIsKnown DEF AttemptShape, AttemptIInv
  <2>2. CASE Spend(cost, [attempt EXCEPT !.at = to])
    BY <2>2, ChannelIsKnown DEF AttemptShape, AttemptIInv, Spend
  <2>3. QED
    BY <2>1, <2>2
<1>2. answered' = answered /\ lost' = lost
  BY DEF KeepLedger
<1>3. AttemptType' /\ Attempting'
  BY <1>1, ChannelIsKnown DEF AttemptIInv, AttemptType, Before, Attempting
<1>4. AttemptInv'
  BY <1>1, <1>2 DEF AttemptIInv, AttemptInv, Before
<1>5. QED
  BY <1>1, <1>2, <1>3, <1>4 DEF AttemptIInv, LedgerInv, StepsOn

\* A channel may be left when whatever was answered is lost.
LEMMA LeavesUnspent ==
  ASSUME AttemptIInv, Attempting, attempt.at # "done", NEW cost, NEW last,
         NextChannel(plan, cost, last), UNCHANGED plan,
         answered'[attempt.p] = lost'[attempt.p], LedgerInv',
         \A p \in PROVIDERS \ {attempt.p} : answered'[p] = answered[p] /\ lost'[p] = lost[p]
  PROVE  StepsOn
<1>1. /\ AttemptType' /\ attempt'.at \in {"visit", "done"} /\ attempt'.p = attempt.p
      /\ attempt'.billed = 0 /\ attempt'.success # TRUE
  BY LeavesChannel DEF AttemptIInv
<1>2. AttemptInv' /\ Attempting'
  BY <1>1 DEF AttemptInv, Before, Attempting
<1>3. QED
  BY <1>1, <1>2 DEF StepsOn

\* An answer is accepted: the attempt ends.
LEMMA Accepts ==
  ASSUME AttemptIInv, attempt.at \in {"judge", "snapshot"}, NEW change,
         \E clock, capture :
           change = [attempt EXCEPT !.clock = clock, !.capture = capture],
         Accept(change), KeepLedger, UNCHANGED plan
  PROVE  StepsOn
<1>1. PICK clock, capture : change = [attempt EXCEPT !.clock = clock, !.capture = capture]
  OBVIOUS
<1>2. attempt' = [[attempt EXCEPT !.clock = clock, !.capture = capture]
                  EXCEPT !.at = "done", !.success = TRUE]
  BY <1>1 DEF Accept
<1>3. Attempting
  BY DEF Attempting
<1>4. /\ AttemptShape' /\ attempt'.at = "done" /\ attempt'.p = attempt.p /\ attempt'.i = attempt.i
      /\ attempt'.turn = attempt.turn /\ attempt'.billed = attempt.billed
      /\ attempt'.success = TRUE
  BY <1>2, <1>3, ChannelIsKnown DEF AttemptShape, AttemptIInv
<1>5. answered' = answered /\ lost' = lost
  BY DEF KeepLedger
<1>6. AttemptType' /\ Attempting'
  BY <1>3, <1>4, ChannelIsKnown DEF AttemptIInv, AttemptType, Attempting
<1>7. AttemptInv'
  BY <1>4 DEF AttemptIInv, AttemptInv, Before
<1>8. QED
  BY <1>4, <1>5, <1>6, <1>7 DEF AttemptIInv, LedgerInv, StepsOn

\* What the turn at hand left in the ledger, and that a refused one left nothing.
LEMMA Judged ==
  ASSUME AttemptIInv, attempt.at \in {"judge", "snapshot"}
  PROVE  /\ Attempting /\ attempt.p \in PROVIDERS
         /\ answered[attempt.p] = lost[attempt.p] + Answer /\ Answer \in {0, 1}
         /\ ~Accepted(plan) => Answer = 0
         /\ attempt.billed = IF attempt.turn.billed THEN 1 ELSE 0
<1>1. Attempting
  BY DEF Attempting
<1>2. Channel(plan) \in Channels /\ attempt.turn \in Turns /\ attempt.p \in PROVIDERS
  BY <1>1, ChannelIsKnown DEF AttemptIInv
<1>3. QED
  BY <1>1, <1>2, AnchoringIsAccepted DEF AttemptIInv, AttemptInv, Answer, Accepted, Before

\* The answer of a turn, if one came, is lost with the channel.
LEMMA LosesTurn ==
  ASSUME AttemptIInv, attempt.at \in {"judge", "snapshot"}, NEW cost, LoseTurn(plan, cost),
         UNCHANGED plan
  PROVE  StepsOn
<1>1. /\ NextChannel(plan, cost, attempt.last) /\ answered' = answered
      /\ lost' = [lost EXCEPT ![attempt.p] = @ + Answer]
  BY DEF LoseTurn, Raises, Answer
<1>2. /\ answered[attempt.p] = lost[attempt.p] + Answer /\ Answer \in {0, 1}
      /\ attempt.p \in PROVIDERS /\ Attempting
  BY Judged
<1>3. answered'[attempt.p] = lost'[attempt.p] /\ LedgerInv'
  BY <1>1, <1>2 DEF AttemptIInv, LedgerInv
<1>4. \A p \in PROVIDERS \ {attempt.p} : answered'[p] = answered[p] /\ lost'[p] = lost[p]
  BY <1>1 DEF AttemptIInv, LedgerInv
<1>5. QED
  BY <1>1, <1>2, <1>3, <1>4, LeavesUnspent

LEMMA AttemptStepInvariant ==
  ASSUME AttemptIInv, AttemptStep(plan), UNCHANGED plan
  PROVE  Attempting /\ StepsOn
<1>1. Attempting
  BY DEF AttemptStep, Visit, AgyGuard, On, agy_version, codex_version, _key_reader, Turn,
         CannotAsk, WriteFails, codex_run, pi_run_judged, _run_agy, agy_run, direct_run,
         _write_snapshot, Attempting
<1> SUFFICES StepsOn
  BY <1>1
<1>2. /\ AttemptShape /\ attempt.p \in plan.opening /\ attempt.p \in PROVIDERS
      /\ attempt.i \in 1 .. Len(plan.chains[attempt.p])
      /\ Channel(plan) \in Channels /\ attempt.turn \in Turns
      /\ attempt.success = TRUE => attempt.at = "done"
  BY <1>1, ChannelIsKnown DEF AttemptIInv
<1>3. ASSUME attempt.at \in Before, NEW cost, NEW last, NextChannel(plan, cost, last), KeepLedger
      PROVE  StepsOn
  <2>1. answered[attempt.p] = lost[attempt.p] /\ UNCHANGED <<answered, lost>>
    BY <1>3 DEF AttemptIInv, AttemptInv, KeepLedger
  <2>2. QED
    BY <1>1, <1>3, <2>1, LeavesUnspent DEF AttemptIInv, LedgerInv, Before
<1>4. ASSUME attempt.at = "judge", ~Accepted(plan), Fails(plan, 0), KeepLedger
      PROVE  StepsOn
  <2>1. answered[attempt.p] = lost[attempt.p] /\ UNCHANGED <<answered, lost>>
    BY <1>4, Judged DEF AttemptIInv, LedgerInv, KeepLedger
  <2>2. QED
    BY <1>1, <1>4, <2>1, LeavesUnspent DEF AttemptIInv, LedgerInv, Fails
<1>5. ASSUME attempt.at = "judge", Accept(attempt), KeepLedger
      PROVE  StepsOn
  <2>1. attempt = [attempt EXCEPT !.clock = attempt.clock, !.capture = attempt.capture]
    BY <1>2 DEF AttemptShape
  <2>2. QED
    BY <1>5, <2>1, Accepts
<1>6. CASE Visit(plan)
  <2>1. attempt.at \in Before /\ Opening(Channel(plan)) \in Before
    BY <1>2, <1>6 DEF Visit, Before, Opening, Channels
  <2>2. QED
    BY <1>1, <1>3, <1>6, <2>1, MovesOn DEF Visit, Raises
<1>7. CASE AgyGuard(plan)
  BY <1>1, <1>3, <1>7, MovesOn DEF AgyGuard, On, Fails, Before
<1>8. CASE agy_version(plan) \/ codex_version(plan)
  BY <1>1, <1>8, MovesOn DEF agy_version, codex_version, On, Before
<1>9. CASE _key_reader(plan)
  BY <1>1, <1>3, <1>9, MovesOn DEF _key_reader, On, Fails, Before
<1>10. CASE CannotAsk(plan)
  BY <1>3, <1>10 DEF CannotAsk, Raises, Before
<1>11. CASE WriteFails(plan)
  BY <1>11, LosesTurn DEF WriteFails
<1>12. CASE codex_run(plan)
  BY <1>4, <1>5, <1>12 DEF codex_run, On
<1>13. CASE agy_run(plan)
  BY <1>4, <1>5, <1>13 DEF agy_run, On
<1>14. CASE pi_run_judged(plan)
  <2>1. CASE Accepted(plan)
    <3>1. [attempt EXCEPT !.capture = Captures(plan, "pi")]
            = [attempt EXCEPT !.clock = attempt.clock, !.capture = Captures(plan, "pi")]
      BY <1>2 DEF AttemptShape
    <3>2. QED
      BY <1>14, <2>1, <3>1, Accepts DEF pi_run_judged, On
  <2>2. QED
    BY <1>4, <1>14, <2>1 DEF pi_run_judged, On
<1>15. CASE Turn(plan)
  <2>1. PICK t \in TurnsOf(Channel(plan)) :
          /\ Spend(TurnCost(Channel(plan)),
                   [attempt EXCEPT !.at = "judge", !.turn = t, !.tries = @ + 1,
                                   !.billed = @ + IF t.billed THEN 1 ELSE 0])
          /\ answered' = [answered EXCEPT
               ![attempt.p] = @ + IF Anchors(Channel(plan), t) THEN 1 ELSE 0]
    BY <1>15 DEF Turn
  <2>2. /\ attempt.at = "turn" /\ lost' = lost
        /\ attempt.billed = 0 /\ answered[attempt.p] = lost[attempt.p]
    BY <1>15 DEF Turn, AttemptIInv, AttemptInv, Before
  <2>3. t \in Turns
    BY <1>2, <2>1, TurnsOfAreTurns
  <2> DEFINE tries == attempt.tries + 1
             billed == attempt.billed + IF t.billed THEN 1 ELSE 0
             clock == attempt.clock + TurnCost(Channel(plan))
  <2>4. attempt' = [[attempt EXCEPT !.at = "judge", !.turn = t, !.tries = tries, !.billed = billed]
                    EXCEPT !.clock = @ + TurnCost(Channel(plan))]
    BY <2>1 DEF Spend
  <2>5. billed = IF t.billed THEN 1 ELSE 0
    BY <2>2
  <2> HIDE DEF tries, billed
  <2>6. /\ AttemptShape' /\ attempt'.at = "judge" /\ attempt'.p = attempt.p
        /\ attempt'.i = attempt.i /\ attempt'.turn = t /\ attempt'.billed = billed
        /\ attempt'.success = attempt.success
    BY <1>2, <2>4 DEF AttemptShape
  <2>7. AttemptType' /\ Attempting'
    BY <1>2, <2>2, <2>3, <2>6 DEF AttemptType, Attempting, AttemptIInv
  <2>8. Answer' = IF Anchors(Channel(plan), t) THEN 1 ELSE 0
    BY <2>6 DEF Answer, Channel
  <2>9. answered' = [answered EXCEPT ![attempt.p] = lost[attempt.p] + Answer']
    BY <2>1, <2>2, <2>8
  <2>10. Answer' \in {0, 1}
    BY <2>8
  <2> HIDE DEF Answer
  <2>11. /\ answered'[attempt.p] = lost'[attempt.p] + Answer' /\ LedgerInv'
         /\ \A p \in PROVIDERS \ {attempt.p} : answered'[p] = answered[p] /\ lost'[p] = lost[p]
    BY <1>2, <2>2, <2>9, <2>10 DEF AttemptIInv, LedgerInv
  <2>12. AttemptInv'
    BY <2>5, <2>6, <2>11 DEF AttemptInv, Before
  <2>13. QED
    BY <2>6, <2>7, <2>11, <2>12 DEF StepsOn
<1>16. CASE _run_agy(plan)
  <2>1. /\ attempt.at = "judge" /\ _one_turn(attempt.turn) /\ KeepLedger
        /\ attempt' = [attempt EXCEPT !.at = "turn"]
    BY <1>16 DEF _run_agy, On
  <2>2. attempt.billed = 0 /\ answered[attempt.p] = lost[attempt.p]
    <3>1. ~attempt.turn.billed
      BY <1>2, <2>1, FreeTurnIsUnbilled
    <3>2. Answer = 0
      BY <3>1 DEF Answer, Anchors
    <3>3. QED
      BY <2>1, <3>1, <3>2, Judged DEF AttemptIInv, LedgerInv
  <2>3. /\ AttemptShape' /\ attempt'.at = "turn" /\ attempt'.p = attempt.p
        /\ attempt'.i = attempt.i /\ attempt'.turn = attempt.turn
        /\ attempt'.billed = attempt.billed /\ attempt'.success = attempt.success
    BY <1>2, <2>1 DEF AttemptShape
  <2>4. AttemptType' /\ Attempting'
    BY <1>2, <2>1, <2>3 DEF AttemptType, Attempting, Before
  <2>5. UNCHANGED <<answered, lost>>
    BY <2>1 DEF KeepLedger
  <2>6. AttemptInv'
    BY <2>2, <2>3, <2>5 DEF AttemptInv, Before
  <2>7. QED
    BY <2>3, <2>4, <2>5, <2>6 DEF StepsOn, AttemptIInv, LedgerInv
<1>17. CASE direct_run(plan)
  <2>1. CASE Accepted(plan) /\ CapturesSnapshot(plan, attempt.p)
    <3>1. attempt.at = "judge" /\ KeepLedger /\ attempt' = [attempt EXCEPT !.at = "snapshot"]
      BY <1>17, <2>1 DEF direct_run, On
    <3>2. /\ AttemptShape' /\ attempt'.at = "snapshot" /\ attempt'.p = attempt.p
          /\ attempt'.i = attempt.i /\ attempt'.turn = attempt.turn
          /\ attempt'.billed = attempt.billed /\ attempt'.success = attempt.success
      BY <1>2, <3>1 DEF AttemptShape
    <3>3. AttemptType' /\ Attempting'
      BY <1>2, <3>1, <3>2 DEF AttemptType, Attempting
    <3>4. UNCHANGED <<answered, lost>> /\ Answer' = Answer
      BY <3>1, <3>2 DEF KeepLedger, Answer, Channel
    <3>5. AttemptInv'
      BY <3>1, <3>2, <3>4, Judged DEF AttemptInv, Before
    <3>6. QED
      BY <3>2, <3>3, <3>4, <3>5 DEF StepsOn, AttemptIInv, LedgerInv
  <2>2. QED
    BY <1>4, <1>5, <1>17, <2>1 DEF direct_run, On
<1>18. CASE _write_snapshot(plan)
  <2>1. attempt.at = "snapshot"
    BY <1>18 DEF _write_snapshot, On
  <2>2. CASE LoseTurn(plan, _curl)
    BY <2>1, <2>2, LosesTurn
  <2>3. ASSUME NEW capture, KeepLedger,
               Accept([attempt EXCEPT !.clock = @ + _curl, !.capture = capture])
        PROVE  StepsOn
    <3>1. \E clock, c : [attempt EXCEPT !.clock = @ + _curl, !.capture = capture]
                          = [attempt EXCEPT !.clock = clock, !.capture = c]
      OBVIOUS
    <3>2. QED
      BY <2>1, <2>3, <3>1, Accepts
  <2>4. QED
    BY <1>18, <2>2, <2>3 DEF _write_snapshot
<1>19. QED
  BY <1>1, <1>6, <1>7, <1>8, <1>9, <1>10, <1>11, <1>12, <1>13, <1>14, <1>15, <1>16, <1>17, <1>18
     DEF AttemptStep
-----------------------------------------------------------------------------
(* The command.                                                            *)

Fields ==
  {"stage", "phase", "todo", "channel", "round", "burst", "failed", "retry", "due",
   "recovered", "start", "capture", "elapsed"}

LEMMA ShapeHasFields == ASSUME NEW s, Shape(s) PROVE DOMAIN s = Fields
BY DEF Shape, Fields

LEMMA FieldsShape ==
  ASSUME NEW s, DOMAIN s = Fields, s = [f \in DOMAIN s |-> s[f]]
  PROVE  Shape(s)
BY DEF Shape, Fields

LEMMA BurstFields ==
  ASSUME NEW s, Shape(s), NEW phase, NEW S
  PROVE  /\ Shape(Burst(s, phase, S))
         /\ Burst(s, phase, S).stage = "ready" /\ Burst(s, phase, S).phase = phase
         /\ Burst(s, phase, S).burst = S /\ Burst(s, phase, S).failed = {}
         /\ Burst(s, phase, S).todo = s.todo /\ Burst(s, phase, S).channel = s.channel
         /\ Burst(s, phase, S).retry = s.retry /\ Burst(s, phase, S).due = s.due
         /\ Burst(s, phase, S).start = s.start
<1> DEFINE b == Burst(s, phase, S)
<1>1. b.stage = "ready" /\ b.phase = phase /\ b.burst = S /\ b.failed = {}
  BY DEF Shape, Burst
<1>2. b.todo = s.todo /\ b.channel = s.channel /\ b.retry = s.retry /\ b.due = s.due
  BY DEF Shape, Burst
<1>3. b.start = s.start
  BY DEF Shape, Burst
<1>4. Shape(b)
  <2>1. DOMAIN b = DOMAIN s
    BY DEF Burst
  <2>2. b = [f \in DOMAIN b |-> b[f]]
    BY DEF Burst
  <2>3. QED
    BY <2>1, <2>2, ShapeHasFields, FieldsShape
<1>5. QED
  BY <1>1, <1>2, <1>3, <1>4

LEMMA ThenFields ==
  ASSUME NEW s, Shape(s), NEW stage
  PROVE  /\ Shape(Then(s, stage)) /\ Then(s, stage).stage = stage
         /\ Then(s, stage).phase = s.phase /\ Then(s, stage).burst = s.burst
         /\ Then(s, stage).failed = s.failed /\ Then(s, stage).todo = s.todo
         /\ Then(s, stage).channel = s.channel /\ Then(s, stage).retry = s.retry
         /\ Then(s, stage).due = s.due /\ Then(s, stage).start = s.start
BY DEF Shape, Then

LEMMA EndedFields ==
  ASSUME NEW s, Shape(s)
  PROVE  Ended(s) = Then(s, "ended")
BY DEF Ended, Then

\* A state of the command that differs from the current one in its time, at most.
Agrees(s) ==
  /\ Shape(s) /\ s.stage = cmd.stage /\ s.phase = cmd.phase /\ s.burst = cmd.burst
  /\ s.failed = cmd.failed /\ s.todo = cmd.todo /\ s.channel = cmd.channel
  /\ s.retry = cmd.retry /\ s.due = cmd.due /\ s.start = cmd.start

LEMMA PaidAgrees ==
  ASSUME CommandShape, NEW cost
  PROVE  Agrees([cmd EXCEPT !.elapsed = @ + cost])
BY DEF Shape, CommandShape, Agrees

AtRest == {"begin", "save", "lock", "collect", "card", "ended"}
KeepsLedger == UNCHANGED <<plan, attempt, answered, lost>>

\* A step that leaves the attempts alone, and adds nobody to those still owed.
LEMMA CommandKeeps ==
  ASSUME SpentIInv, KeepsLedger, CommandType', BurstInv',
         (Later \cup Now)' \subseteq Later \cup Now
  PROVE  SpentIInv'
<1>1. plan' = plan /\ attempt' = attempt /\ answered' = answered /\ lost' = lost
  BY DEF KeepsLedger
<1>2. AttemptType' /\ AttemptInv' /\ LedgerInv'
  BY <1>1 DEF SpentIInv, AttemptType, AttemptShape, AttemptInv, LedgerInv, Answer, Channel
<1>3. OwedInv'
  BY <1>1 DEF SpentIInv, OwedInv
<1>4. QED
  BY <1>2, <1>3 DEF SpentIInv

\* Outside a burst only the retries' phase leaves anybody to be asked.
LEMMA Rests ==
  ASSUME SpentIInv, KeepsLedger, ~Attempting, Shape(cmd'), cmd'.stage \in AtRest \ {"begin"},
         cmd'.phase = cmd.phase, cmd'.retry = cmd.retry,
         cmd'.due \subseteq plan.opening \ cmd.retry,
         cmd'.start = cmd.start, cmd'.channel \in Nat \ {0}, cmd'.todo \subseteq PROVIDERS,
         cmd'.burst \subseteq plan.opening, cmd'.failed \subseteq plan.opening
  PROVE  SpentIInv'
<1>1. plan' = plan /\ ~Attempting'
  BY DEF KeepsLedger, Attempting
<1>2. CommandType'
  BY <1>1 DEF SpentIInv, CommandType, CommandShape
<1>3. BurstInv'
  BY <1>1 DEF BurstInv, Bursting, AtRest
<1>4. Later' = Later /\ Now' = {}
  BY <1>1 DEF Later, Now, AtRest
<1>5. QED
  BY <1>2, <1>3, <1>4, CommandKeeps

\* A burst begins over providers that were left for later.
LEMMA Bursts ==
  ASSUME SpentIInv, KeepsLedger, ~Attempting, NEW S \in SUBSET Later,
         Shape(cmd'), cmd'.stage = "ready", cmd'.burst = S, cmd'.failed = {},
         cmd'.todo = cmd.todo, cmd'.channel = cmd.channel, cmd'.start = cmd.start,
         cmd'.retry \subseteq plan.opening, cmd'.due \subseteq plan.opening \ cmd'.retry,
         \/ cmd'.phase = "initial"
         \/ /\ cmd.phase = "retry" /\ cmd.retry = {}
            /\ cmd'.phase = "retry" /\ cmd'.retry = S
  PROVE  SpentIInv'
<1>1. plan' = plan /\ ~Attempting'
  BY DEF KeepsLedger, Attempting
<1>2. (S \subseteq plan.opening /\ cmd.phase = "retry") \/ S = {}
  BY DEF Later
<1>3. CommandType'
  BY <1>1, <1>2 DEF SpentIInv, CommandType, CommandShape
<1>4. BurstInv'
  BY <1>1 DEF BurstInv, Bursting
<1>5. Now' = S
  BY DEF Now
<1>6. Later' \subseteq Later \cup S
  BY <1>1, <1>2 DEF Later
<1>7. QED
  BY <1>3, <1>4, <1>5, <1>6, CommandKeeps

LEMMA AfterCardInvariant ==
  ASSUME SpentIInv, KeepsLedger, ~Attempting, NEW s, Agrees(s), cmd' = AfterCard(s)
  PROVE  SpentIInv'
<1>1. CASE s.phase = "retry" /\ s.due # {}
  <2>1. cmd' = Burst(s, "initial", cmd.due) /\ cmd.due \subseteq Later
    BY <1>1 DEF AfterCard, Agrees, Later, SpentIInv, CommandType
  <2>2. /\ Shape(cmd') /\ cmd'.stage = "ready" /\ cmd'.burst = cmd.due /\ cmd'.failed = {}
        /\ cmd'.todo = cmd.todo /\ cmd'.channel = cmd.channel /\ cmd'.start = cmd.start
        /\ cmd'.retry = cmd.retry /\ cmd'.due = cmd.due /\ cmd'.phase = "initial"
    BY <2>1, BurstFields DEF Agrees
  <2>3. cmd.retry \subseteq plan.opening /\ cmd.due \subseteq plan.opening \ cmd.retry
    BY DEF SpentIInv, CommandType
  <2>4. QED
    BY <2>1, <2>2, <2>3, Bursts
<1>2. CASE ~(s.phase = "retry" /\ s.due # {})
  <2>1. cmd' = Then(s, "ended")
    BY <1>2, EndedFields DEF AfterCard, Agrees
  <2>2. /\ Shape(cmd') /\ cmd'.stage = "ended" /\ cmd'.phase = cmd.phase
        /\ cmd'.retry = cmd.retry /\ cmd'.due = cmd.due /\ cmd'.start = cmd.start
        /\ cmd'.channel = cmd.channel /\ cmd'.todo = cmd.todo /\ cmd'.burst = cmd.burst
        /\ cmd'.failed = cmd.failed
    BY <2>1, ThenFields DEF Agrees
  <2>3. QED
    BY <2>2, Rests DEF SpentIInv, CommandType, AtRest
<1>3. QED
  BY <1>1, <1>2

\* The command moves on, outside a burst.
LEMMA MovesOnTo ==
  ASSUME SpentIInv, KeepsLedger, ~Attempting, NEW s, Agrees(s), NEW stage \in AtRest \ {"begin"},
         cmd' = Then(s, stage)
  PROVE  SpentIInv'
<1>1. /\ Shape(cmd') /\ cmd'.stage = stage /\ cmd'.phase = cmd.phase
      /\ cmd'.retry = cmd.retry /\ cmd'.due = cmd.due /\ cmd'.start = cmd.start
      /\ cmd'.channel = cmd.channel /\ cmd'.todo = cmd.todo /\ cmd'.burst = cmd.burst
      /\ cmd'.failed = cmd.failed
  BY ThenFields DEF Agrees
<1>2. QED
  BY <1>1, Rests DEF SpentIInv, CommandType

LEMMA BeginInvariant ==
  ASSUME SpentIInv, Begin, UNCHANGED plan
  PROVE  SpentIInv'
<1>1. KeepsLedger /\ cmd.stage = "begin"
  BY DEF Begin, KeepParts, KeepAttempt, KeepsLedger, At_
<1>2. /\ ~Attempting /\ Shape(cmd) /\ Agrees(cmd)
      /\ cmd.phase \in {"usage", "retry"} /\ cmd.retry = {} /\ cmd.due = {}
  BY <1>1 DEF SpentIInv, BurstInv, CommandType, CommandShape, Agrees
<1>3. CASE cmd' = Then(cmd, "lock")
  BY <1>1, <1>2, <1>3, MovesOnTo DEF AtRest
<1>4. ASSUME NEW retry \in SUBSET plan.opening, cmd.phase = "retry",
             cmd' = Burst([cmd EXCEPT !.retry = retry], "retry", retry)
      PROVE  SpentIInv'
  <2> DEFINE s == [cmd EXCEPT !.retry = retry]
  <2>0. cmd' = Burst(s, "retry", retry)
    BY <1>4
  <2>1. /\ Shape(s) /\ s.todo = cmd.todo /\ s.channel = cmd.channel /\ s.retry = retry
        /\ s.due = cmd.due /\ s.start = cmd.start
    BY <1>2 DEF Shape
  <2> HIDE DEF s
  <2>2. /\ Shape(cmd') /\ cmd'.stage = "ready" /\ cmd'.burst = retry /\ cmd'.failed = {}
        /\ cmd'.todo = cmd.todo /\ cmd'.channel = cmd.channel /\ cmd'.start = cmd.start
        /\ cmd'.retry = retry /\ cmd'.due = {} /\ cmd'.phase = "retry"
    BY <1>2, <2>0, <2>1, BurstFields
  <2>3. retry \in SUBSET Later
    BY <1>2, <1>4 DEF Later
  <2>4. QED
    BY <1>1, <1>2, <1>4, <2>2, <2>3, Bursts
<1>5. QED
  BY <1>2, <1>3, <1>4 DEF Begin

LEMMA ReadyInvariant ==
  ASSUME SpentIInv, Ready, UNCHANGED plan
  PROVE  SpentIInv'
<1> DEFINE cost == IF plan.notify THEN 3 * CredentialRead ELSE 0
           elapsed == cmd.elapsed + cost
           ready == [cmd EXCEPT !.stage = "prepare", !.todo = cmd.burst,
                                !.channel = 1, !.elapsed = elapsed]
<1>1. KeepsLedger /\ cmd.stage = "ready" /\ cmd' \in {ready, Ended(ready)}
  BY DEF Ready, KeepParts, KeepAttempt, KeepsLedger, At_
<1>2. ~Attempting /\ Shape(cmd)
  BY <1>1 DEF SpentIInv, BurstInv, CommandType, CommandShape
<1> HIDE DEF elapsed
<1>3. /\ ready.stage = "prepare" /\ ready.phase = cmd.phase /\ ready.todo = cmd.burst
      /\ ready.channel = 1 /\ ready.burst = cmd.burst /\ ready.failed = cmd.failed
      /\ ready.retry = cmd.retry /\ ready.due = cmd.due /\ ready.start = cmd.start
  BY <1>2 DEF Shape
<1>4. Shape(ready)
  BY <1>2, ShapeHasFields, FieldsShape
<1> HIDE DEF ready
<1>5. \A p \in plan.opening : p \in PROVIDERS /\ 1 \in 1 .. Len(plan.chains[p])
  BY OpeningsAreProviders DEF SpentIInv, CommandType
<1>6. CASE cmd' = ready
  <2>1. CommandType'
    BY <1>1, <1>3, <1>4, <1>5, <1>6 DEF SpentIInv, CommandType, CommandShape, KeepsLedger
  <2>2. BurstInv'
    BY <1>1, <1>2, <1>3, <1>5, <1>6
       DEF SpentIInv, BurstInv, Bursting, CommandType, KeepsLedger, Attempting
  <2>3. Later' = Later /\ Now' = Now
    BY <1>1, <1>3, <1>6 DEF Later, Now, KeepsLedger
  <2>4. QED
    BY <1>1, <2>1, <2>2, <2>3, CommandKeeps
<1>7. CASE cmd' = Ended(ready)
  <2>1. /\ Shape(cmd') /\ cmd'.stage = "ended" /\ cmd'.phase = cmd.phase
        /\ cmd'.retry = cmd.retry /\ cmd'.due = cmd.due /\ cmd'.start = cmd.start
        /\ cmd'.channel = 1 /\ cmd'.todo = cmd.burst /\ cmd'.burst = cmd.burst
        /\ cmd'.failed = cmd.failed
    BY <1>3, <1>4, <1>7, ThenFields, EndedFields
  <2>2. QED
    BY <1>1, <1>2, <1>5, <2>1, Rests DEF SpentIInv, CommandType, AtRest
<1>8. QED
  BY <1>1, <1>6, <1>7

LEMMA OneIsFirst ==
  ASSUME plan \in Plans, cmd.todo \subseteq plan.opening, NEW p, NEW q, First(p), First(q)
  PROVE  p = q
<1>1. /\ plan.probes \in Seq(PROVIDERS)
      /\ \A r \in plan.opening : \E i \in DOMAIN plan.probes : plan.probes[i] = r
  BY PlansAssumption
<1>2. \A r \in cmd.todo : Place(r) \in DOMAIN plan.probes /\ plan.probes[Place(r)] = r
  BY <1>1 DEF Place
<1>3. \A i \in DOMAIN plan.probes : i \in Int
  BY <1>1
<1>4. Place(p) = Place(q)
  BY <1>2, <1>3 DEF First
<1>5. QED
  BY <1>2, <1>4 DEF First

LEMMA PrepareInvariant ==
  ASSUME SpentIInv, Prepare, UNCHANGED plan
  PROVE  SpentIInv'
<1>1. /\ KeepsLedger /\ cmd.stage = "prepare" /\ ~Attempting /\ Shape(cmd)
      /\ cmd.todo \subseteq cmd.burst /\ cmd.burst \subseteq plan.opening /\ cmd.failed = {}
      /\ plan \in Plans
  BY DEF Prepare, KeepParts, KeepAttempt, KeepsLedger, At_, SpentIInv, BurstInv, Bursting,
         CommandType, CommandShape
<1>2. PICK p \in cmd.todo :
        LET chain == plan.chains[p]
            paid == [cmd EXCEPT !.elapsed = @ + PrepareCost(p, chain[cmd.channel])]
        IN  /\ First(p)
            /\ \/ cmd' = [paid EXCEPT !.start[p] = cmd.channel, !.todo = @ \ {p}, !.channel = 1]
               \/ cmd' = IF cmd.channel < Len(chain) THEN [paid EXCEPT !.channel = @ + 1]
                         ELSE Ended(paid)
  BY DEF Prepare
<1> DEFINE cost == PrepareCost(p, plan.chains[p][cmd.channel])
           paid == [cmd EXCEPT !.elapsed = @ + cost]
<1>3. /\ Agrees(paid) /\ First(p) /\ p \in plan.opening /\ p \in PROVIDERS
      /\ cmd.channel \in 1 .. Len(plan.chains[p]) /\ Len(plan.chains[p]) \in Nat \ {0}
  BY <1>1, <1>2, PaidAgrees, OpeningsAreProviders DEF SpentIInv, BurstInv, CommandShape
<1>4. \/ cmd' = [paid EXCEPT !.start[p] = cmd.channel, !.todo = @ \ {p}, !.channel = 1]
      \/ cmd.channel < Len(plan.chains[p]) /\ cmd' = [paid EXCEPT !.channel = @ + 1]
      \/ cmd' = Ended(paid)
  BY <1>2
<1> HIDE DEF paid
<1>5. \A q \in plan.opening : 1 \in 1 .. Len(plan.chains[q])
  BY <1>1, OpeningsAreProviders
<1>6. ASSUME Shape(cmd'), cmd'.stage = "prepare", cmd'.phase = cmd.phase, cmd'.burst = cmd.burst,
             cmd'.failed = cmd.failed, cmd'.retry = cmd.retry, cmd'.due = cmd.due,
             cmd'.todo \subseteq cmd.todo, cmd'.start \in [PROVIDERS -> Nat],
             cmd'.channel \in Nat \ {0},
             \A q \in plan.opening : cmd'.start[q] \in 1 .. Len(plan.chains[q]),
             \A q \in cmd'.todo : First(q)' => cmd'.channel \in 1 .. Len(plan.chains[q])
      PROVE  SpentIInv'
  <2>1. CommandType'
    <3>1. CommandShape' /\ plan' = plan
      BY <1>6 DEF CommandShape
    <3>2. /\ cmd'.todo \subseteq PROVIDERS /\ cmd'.burst \subseteq plan.opening
          /\ cmd'.failed \subseteq plan.opening /\ cmd'.retry \subseteq plan.opening
          /\ cmd'.due \subseteq plan.opening \ cmd'.retry
      BY <1>6 DEF SpentIInv, CommandType
    <3>3. /\ cmd'.start \in [PROVIDERS -> Nat] /\ cmd'.channel \in Nat \ {0}
          /\ \A q \in plan.opening : cmd'.start[q] \in 1 .. Len(plan.chains[q])
      BY <1>6
    <3>4. QED
      BY <1>1, <3>1, <3>2, <3>3 DEF CommandType
  <2>2. BurstInv'
    BY <1>1, <1>6 DEF SpentIInv, BurstInv, Bursting, KeepsLedger, Attempting
  <2>3. Later' = Later /\ Now' = Now
    BY <1>1, <1>6 DEF Later, Now, KeepsLedger
  <2>4. QED
    BY <1>1, <2>1, <2>2, <2>3, CommandKeeps
<1>7. CASE cmd' = [paid EXCEPT !.start[p] = cmd.channel, !.todo = @ \ {p}, !.channel = 1]
  <2> DEFINE start == [cmd.start EXCEPT ![p] = cmd.channel]
             todo == cmd.todo \ {p}
  <2>1. cmd' = [paid EXCEPT !.start = start, !.todo = todo, !.channel = 1]
    <3>1. paid.start = cmd.start /\ paid.todo = cmd.todo
      BY <1>3 DEF Agrees
    <3>2. cmd' = [paid EXCEPT !.start = [paid.start EXCEPT ![p] = cmd.channel],
                              !.todo = paid.todo \ {p}, !.channel = 1]
      BY <1>7
    <3>3. QED
      BY <3>1, <3>2
  <2> HIDE DEF start, todo
  <2>2. /\ cmd'.stage = "prepare" /\ cmd'.phase = cmd.phase /\ cmd'.burst = cmd.burst
        /\ cmd'.failed = cmd.failed /\ cmd'.retry = cmd.retry /\ cmd'.due = cmd.due
        /\ cmd'.todo = todo /\ cmd'.start = start /\ cmd'.channel = 1
    BY <1>1, <1>3, <2>1 DEF Agrees, Shape
  <2>3. Shape(cmd')
    BY <1>3, <2>1, ShapeHasFields, FieldsShape DEF Agrees
  <2>4. /\ start \in [PROVIDERS -> Nat]
        /\ \A q \in plan.opening : start[q] \in 1 .. Len(plan.chains[q])
    <3>1. /\ cmd.start \in [PROVIDERS -> Nat] /\ cmd.channel \in Nat
          /\ \A q \in plan.opening :
               q \in PROVIDERS /\ cmd.start[q] \in 1 .. Len(plan.chains[q])
      BY <1>1, OpeningsAreProviders DEF SpentIInv, CommandType
    <3>2. QED
      BY <1>3, <3>1 DEF start
  <2>5. QED
    BY <1>1, <1>5, <1>6, <2>2, <2>3, <2>4 DEF todo
<1>8. CASE cmd.channel < Len(plan.chains[p]) /\ cmd' = [paid EXCEPT !.channel = @ + 1]
  <2>1. /\ cmd'.stage = "prepare" /\ cmd'.phase = cmd.phase /\ cmd'.burst = cmd.burst
        /\ cmd'.failed = cmd.failed /\ cmd'.retry = cmd.retry /\ cmd'.due = cmd.due
        /\ cmd'.todo = cmd.todo /\ cmd'.start = cmd.start /\ cmd'.channel = cmd.channel + 1
        /\ Shape(cmd')
    BY <1>1, <1>3, <1>8 DEF Agrees, Shape
  <2>2. \A q \in cmd'.todo : First(q)' => q = p
    <3>1. \A q \in cmd.todo : First(q)' => First(q)
      BY <1>1, <2>1 DEF First, Place, KeepsLedger
    <3>2. QED
      BY <1>1, <1>3, <2>1, <3>1, OneIsFirst
  <2>3. cmd.channel + 1 \in Nat \ {0} /\ cmd.channel + 1 \in 1 .. Len(plan.chains[p])
    BY <1>3, <1>8
  <2>4. QED
    BY <1>1, <1>6, <2>1, <2>2, <2>3 DEF SpentIInv, CommandType
<1>9. CASE cmd' = Ended(paid)
  BY <1>1, <1>3, <1>9, EndedFields, MovesOnTo DEF Agrees, AtRest
<1>10. QED
  BY <1>4, <1>7, <1>8, <1>9

LEMMA FirstRoundInvariant ==
  ASSUME SpentIInv, FirstRound, UNCHANGED plan
  PROVE  SpentIInv'
<1>1. /\ KeepsLedger /\ cmd.stage = "prepare" /\ ~Attempting /\ Shape(cmd)
      /\ cmd.burst \subseteq plan.opening /\ cmd.failed = {} /\ plan \in Plans
      /\ cmd' = [cmd EXCEPT !.stage = "round", !.round = 1, !.todo = cmd.burst]
  BY DEF FirstRound, KeepParts, KeepAttempt, KeepsLedger, At_, SpentIInv, BurstInv, Bursting,
         CommandType, CommandShape
<1>2. /\ cmd'.stage = "round" /\ cmd'.phase = cmd.phase /\ cmd'.burst = cmd.burst
      /\ cmd'.failed = cmd.failed /\ cmd'.retry = cmd.retry /\ cmd'.due = cmd.due
      /\ cmd'.todo = cmd.burst /\ cmd'.start = cmd.start /\ cmd'.channel = cmd.channel
  BY <1>1 DEF Shape
<1>3. Shape(cmd')
  BY <1>1, ShapeHasFields, FieldsShape
<1>4. CommandType'
  BY <1>1, <1>2, <1>3, OpeningsAreProviders DEF SpentIInv, CommandType, CommandShape, KeepsLedger
<1>5. BurstInv'
  BY <1>1, <1>2 DEF SpentIInv, BurstInv, Bursting, KeepsLedger, Attempting
<1>6. Later' = Later /\ Now' = Now
  BY <1>1, <1>2 DEF Later, Now, KeepsLedger, Attempting
<1>7. QED
  BY <1>1, <1>4, <1>5, <1>6, CommandKeeps

\* An attempt begins, of a provider that is owed one.
LEMMA RunModelInvariant ==
  ASSUME SpentIInv, RunModel, UNCHANGED plan
  PROVE  SpentIInv'
<1>1. /\ cmd.stage = "round" /\ ~Attempting /\ plan \in Plans /\ cmd.todo \subseteq plan.opening
      /\ cmd' = cmd /\ answered' = answered /\ lost' = lost /\ plan' = plan
      /\ cmd.failed \cap cmd.todo = {}
  BY DEF RunModel, At_, SpentIInv, BurstInv, Bursting, CommandType
<1>2. PICK p \in cmd.todo : Attempt(p, cmd.start[p])
  BY DEF RunModel
<1>3. p \in plan.opening /\ cmd.start[p] \in 1 .. Len(plan.chains[p])
  BY <1>1 DEF SpentIInv, CommandType
<1>4. /\ AttemptShape' /\ attempt'.at = "visit" /\ attempt'.p = p
      /\ attempt'.i = cmd.start[p] /\ attempt'.turn = NoTurn /\ attempt'.billed = 0
      /\ attempt'.success = FALSE
  BY <1>2 DEF Attempt, AttemptShape
<1>5. AttemptType' /\ Attempting'
  BY <1>1, <1>3, <1>4, NoTurnIsATurn DEF AttemptType, Attempting, Before
<1>6. answered[p] = lost[p]
  BY <1>1 DEF SpentIInv, OwedInv, Now
<1>7. AttemptInv'
  BY <1>1, <1>4, <1>6 DEF AttemptInv, Before
<1>8. CommandType' /\ LedgerInv'
  BY <1>1 DEF SpentIInv, CommandType, CommandShape, LedgerInv
<1>9. BurstInv'
  BY <1>1, <1>4 DEF SpentIInv, BurstInv, Bursting, First, Place
<1>10. OwedInv'
  <2>1. Later' = Later /\ Now' \subseteq Now
    BY <1>1 DEF Later, Now
  <2>2. QED
    BY <1>1, <2>1 DEF SpentIInv, OwedInv
<1>11. QED
  BY <1>5, <1>7, <1>8, <1>9, <1>10 DEF SpentIInv

\* An attempt ends; without success its provider is owed another.
LEMMA ModelDoneInvariant ==
  ASSUME SpentIInv, ModelDone, UNCHANGED plan
  PROVE  SpentIInv'
<1> DEFINE p == attempt.p
           todo == cmd.todo \ {p}
           failed == IF attempt.success THEN cmd.failed ELSE cmd.failed \cup {p}
           capture == [cmd.capture EXCEPT ![p] =
             IF attempt.success \/ attempt.last # "none" THEN attempt.capture ELSE @]
<1>1. /\ attempt.at = "done" /\ attempt' = NoAttempt /\ Shape(cmd) /\ plan' = plan
      /\ answered' = answered /\ lost' = lost
      /\ cmd' = [cmd EXCEPT !.todo = todo, !.failed = failed, !.capture = capture]
  BY DEF ModelDone, SpentIInv, CommandType, CommandShape
<1>2. Attempting /\ cmd.stage = "round" /\ p \in cmd.todo /\ p \in plan.opening
  BY <1>1, ChannelIsKnown DEF Attempting, SpentIInv, BurstInv, CommandType
<1> HIDE DEF capture
<1>3. /\ cmd'.stage = "round" /\ cmd'.phase = cmd.phase /\ cmd'.burst = cmd.burst
      /\ cmd'.failed = failed /\ cmd'.retry = cmd.retry /\ cmd'.due = cmd.due
      /\ cmd'.todo = todo /\ cmd'.start = cmd.start /\ cmd'.channel = cmd.channel
  BY <1>1, <1>2 DEF Shape
<1>4. Shape(cmd')
  BY <1>1, ShapeHasFields, FieldsShape
<1>5. AttemptType' /\ AttemptInv' /\ ~Attempting'
  BY <1>1 DEF AttemptType, AttemptInv, NoAttempt, Attempting, Before
<1>6. failed \subseteq plan.opening
  BY <1>2 DEF SpentIInv, CommandType
<1> HIDE DEF failed
<1>7. CommandType' /\ LedgerInv'
  BY <1>1, <1>3, <1>4, <1>6 DEF SpentIInv, CommandType, CommandShape, LedgerInv
<1>8. BurstInv'
  BY <1>2, <1>3, <1>5 DEF SpentIInv, BurstInv, Bursting, failed
<1>9. Later' = Later /\ Now' = todo \cup failed
  BY <1>1, <1>3, <1>5 DEF Later, Now
<1>10. Now = (cmd.todo \cup cmd.failed) \ {p}
  BY <1>2 DEF Now
<1>11. p \in failed => answered[p] = lost[p]
  <2>1. p \notin cmd.failed
    BY <1>2 DEF SpentIInv, BurstInv, Bursting
  <2>2. QED
    BY <1>1, <2>1 DEF failed, SpentIInv, AttemptInv
<1>12. \A q \in todo \cup failed : q = p \/ q \in Now
  BY <1>10 DEF failed
<1>13. OwedInv'
  BY <1>1, <1>9, <1>11, <1>12 DEF SpentIInv, OwedInv
<1>14. QED
  BY <1>5, <1>7, <1>8, <1>13 DEF SpentIInv

LEMMA EndRoundInvariant ==
  ASSUME SpentIInv, EndRound, UNCHANGED plan
  PROVE  SpentIInv'
<1> DEFINE longest == Most({AttemptFrom(plan, p, cmd.start[p]) : p \in cmd.burst})
           after == [cmd EXCEPT !.burst = cmd.failed, !.failed = {}, !.elapsed = @ + longest]
           opened == IF cmd.phase = "retry" THEN cmd.retry ELSE cmd.due
           recovered == IF cmd.phase = "retry" THEN opened \ cmd.failed ELSE after.recovered
           todo == {p \in opened : cmd.capture[p] # "none"}
           round == after.round + 1
           elapsed == after.elapsed + Budget.retry_interval
           more == [after EXCEPT !.round = round, !.todo = cmd.failed, !.elapsed = elapsed]
           save == [after EXCEPT !.stage = "save", !.recovered = recovered, !.todo = todo]
<1>1. /\ KeepsLedger /\ cmd.stage = "round" /\ cmd.todo = {} /\ ~Attempting
      /\ Shape(cmd) /\ plan \in Plans
  BY DEF EndRound, At_, KeepParts, KeepAttempt, KeepsLedger, SpentIInv, CommandType, CommandShape
<1>2. cmd' = more \/ cmd' = save
  BY DEF EndRound
<1> HIDE DEF longest
<1>3. /\ after.stage = "round" /\ after.phase = cmd.phase
      /\ after.burst = cmd.failed /\ after.failed = {} /\ after.retry = cmd.retry
      /\ after.due = cmd.due /\ after.start = cmd.start /\ after.channel = cmd.channel
  BY <1>1 DEF Shape
<1>4. Shape(after)
  BY <1>1, ShapeHasFields, FieldsShape
<1> HIDE DEF after
<1>5. /\ cmd.failed \subseteq plan.opening /\ cmd.failed \subseteq cmd.burst
      /\ opened \subseteq plan.opening /\ plan.opening \subseteq PROVIDERS
  BY <1>1, OpeningsAreProviders DEF SpentIInv, CommandType, BurstInv, Bursting
<1>6. todo \subseteq PROVIDERS
  BY <1>5
<1> HIDE DEF recovered, todo, round, elapsed
<1>7. CASE cmd' = more
  <2>1. /\ cmd'.stage = "round" /\ cmd'.phase = cmd.phase /\ cmd'.burst = cmd.failed
        /\ cmd'.failed = {} /\ cmd'.retry = cmd.retry /\ cmd'.due = cmd.due
        /\ cmd'.start = cmd.start /\ cmd'.channel = cmd.channel /\ cmd'.todo = cmd.failed
    BY <1>3, <1>4, <1>7 DEF Shape
  <2>2. Shape(cmd')
    BY <1>4, <1>7, ShapeHasFields, FieldsShape
  <2>3. CommandType'
    BY <1>1, <1>5, <2>1, <2>2 DEF SpentIInv, CommandType, CommandShape, KeepsLedger
  <2>4. BurstInv'
    BY <1>1, <1>5, <2>1 DEF SpentIInv, BurstInv, Bursting, KeepsLedger, Attempting
  <2>5. Later' = Later /\ Now' = Now
    BY <1>1, <2>1 DEF Later, Now, KeepsLedger, Attempting
  <2>6. QED
    BY <1>1, <2>3, <2>4, <2>5, CommandKeeps
<1>8. CASE cmd' = save
  <2>1. /\ cmd'.stage = "save" /\ cmd'.phase = cmd.phase /\ cmd'.burst = cmd.failed
        /\ cmd'.failed = {} /\ cmd'.retry = cmd.retry /\ cmd'.due = cmd.due
        /\ cmd'.start = cmd.start /\ cmd'.channel = cmd.channel /\ cmd'.todo = todo
    BY <1>3, <1>4, <1>8 DEF Shape
  <2>2. Shape(cmd')
    BY <1>4, <1>8, ShapeHasFields, FieldsShape
  <2>3. QED
    BY <1>1, <1>5, <1>6, <2>1, <2>2, Rests DEF SpentIInv, CommandType, AtRest
<1>9. QED
  BY <1>2, <1>7, <1>8

LEMMA EndCollectInvariant ==
  ASSUME SpentIInv, EndCollect, cmd.stage = "collect", UNCHANGED plan
  PROVE  SpentIInv'
<1> DEFINE paid == [cmd EXCEPT !.elapsed = @ + probe_phase(plan)]
<1>1. KeepsLedger /\ ~Attempting /\ CommandShape /\ cmd.retry \subseteq plan.opening
  BY DEF EndCollect, KeepAttempt, KeepsLedger, SpentIInv, BurstInv, CommandType
<1>2. Agrees(paid)
  BY <1>1, PaidAgrees
<1>3. CASE cmd.phase # "retry"
  <2>1. cmd' = Then(paid, "card")
    BY <1>3 DEF EndCollect
  <2>2. QED
    BY <1>1, <1>2, <2>1, MovesOnTo DEF AtRest
<1>4. CASE cmd.phase = "retry"
  <2>1. PICK due \in SUBSET (plan.opening \ cmd.retry) :
          LET decided == [paid EXCEPT !.due = due] IN
          \/ cmd' = Then(decided, "card")
          \/ cmd' = Burst(decided, "initial", due)
          \/ cmd' = Ended(decided)
    BY <1>4 DEF EndCollect
  <2> DEFINE decided == [paid EXCEPT !.due = due]
  <2>2. \/ cmd' = Then(decided, "card")
        \/ cmd' = Burst(decided, "initial", due)
        \/ cmd' = Then(decided, "ended")
    <3>1. Ended(decided) = Then(decided, "ended")
      BY DEF Ended, Then
    <3>2. QED
      BY <2>1, <3>1
  <2> HIDE DEF paid
  <2>3. /\ Shape(decided) /\ decided.phase = "retry" /\ decided.burst = cmd.burst
        /\ decided.failed = cmd.failed /\ decided.todo = cmd.todo
        /\ decided.channel = cmd.channel /\ decided.retry = cmd.retry
        /\ decided.due = due /\ decided.start = cmd.start
    BY <1>2, <1>4 DEF Agrees, Shape
  <2> HIDE DEF decided
  <2>4. ASSUME NEW stage \in {"card", "ended"}, cmd' = Then(decided, stage)
        PROVE  SpentIInv'
    <3>1. /\ Shape(cmd') /\ cmd'.stage = stage /\ cmd'.phase = cmd.phase
          /\ cmd'.retry = cmd.retry /\ cmd'.due = due /\ cmd'.start = cmd.start
          /\ cmd'.channel = cmd.channel /\ cmd'.todo = cmd.todo /\ cmd'.burst = cmd.burst
          /\ cmd'.failed = cmd.failed
      BY <1>4, <2>3, <2>4, ThenFields
    <3>2. QED
      BY <1>1, <2>1, <3>1, Rests DEF SpentIInv, CommandType, AtRest
  <2>5. CASE cmd' = Burst(decided, "initial", due)
    <3>1. /\ Shape(cmd') /\ cmd'.stage = "ready" /\ cmd'.burst = due /\ cmd'.failed = {}
          /\ cmd'.todo = cmd.todo /\ cmd'.channel = cmd.channel /\ cmd'.start = cmd.start
          /\ cmd'.retry = cmd.retry /\ cmd'.due = due /\ cmd'.phase = "initial"
      BY <2>3, <2>5, BurstFields
    <3>2. due \in SUBSET Later
      BY <1>4 DEF Later
    <3>3. QED
      BY <1>1, <2>1, <3>1, <3>2, Bursts
  <2>6. QED
    BY <2>2, <2>4, <2>5
<1>5. QED
  BY <1>3, <1>4

\* A collection and a card belong to their stages of the command.
PartsInv == (Collecting => cmd.stage = "collect") /\ (Posting => cmd.stage = "card")

LEMMA PartsStep ==
  ASSUME CommandShape, PartsInv, [Next]_vars
  PROVE  PartsInv'
<1>1. CASE UNCHANGED vars
  BY <1>1 DEF vars, PartsInv, Collecting, Posting
<1>2. CASE Next /\ CommandStep
  <2>1. CASE KeepWalk /\ KeepPost /\ cmd.stage \notin {"collect", "card"}
    BY <2>1 DEF PartsInv, Collecting, Posting, KeepWalk, KeepPost
  <2>2. CASE Begin \/ Ready \/ Prepare \/ FirstRound \/ EndRound
    BY <2>1, <2>2 DEF Begin, Ready, Prepare, FirstRound, EndRound, KeepParts, At_
  <2>3. CASE RunModel
    BY <2>1, <2>3 DEF RunModel, At_
  <2>4. CASE ModelDone
    <3>1. cmd'.stage = cmd.stage
      BY <2>4 DEF ModelDone, CommandShape, Shape
    <3>2. QED
      BY <2>4, <3>1 DEF ModelDone, PartsInv, Collecting, Posting, KeepWalk, KeepPost
  <2>5. CASE SaveSnapshot \/ SnapshotsSaved
    BY <2>5 DEF SaveSnapshot, SnapshotsSaved, At_, PartsInv, Collecting, Posting, KeepPost
  <2>6. CASE QuotaLock
    <3>1. cmd.stage = "lock" /\ UNCHANGED post
      BY <2>6 DEF QuotaLock, At_, KeepPost
    <3>2. CASE KeepWalk
      BY <3>1, <3>2 DEF PartsInv, Collecting, Posting, KeepWalk
    <3>3. CASE ~KeepWalk
      <4> DEFINE cost == IF cmd.phase = "retry" THEN 0 ELSE Budget.quota_wait
      <4>1. cmd' = Then([cmd EXCEPT !.elapsed = @ + cost], "collect")
        BY <2>6, <3>3 DEF QuotaLock
      <4>2. cmd'.stage = "collect"
        BY <4>1, PaidAgrees, ThenFields DEF Agrees
      <4>3. QED
        BY <3>1, <4>2 DEF PartsInv, Posting
    <3>4. QED
      BY <3>2, <3>3
  <2>7. CASE EndCollect
    BY <2>7 DEF EndCollect, Collected, PartsInv, Collecting, Posting, KeepPost, NoWalk
  <2>8. CASE Card
    BY <2>8 DEF Card, At_, PartsInv, Collecting, Posting, KeepPost, KeepWalk
  <2>9. CASE CardDone
    BY <2>9 DEF CardDone, PartsInv, Collecting, Posting, NoPost, KeepWalk
  <2>10. QED
    BY <1>2, <2>2, <2>3, <2>4, <2>5, <2>6, <2>7, <2>8, <2>9 DEF CommandStep
<1>3. CASE UNCHANGED cmd /\ KeepWalk /\ KeepPost /\ AttemptStep(plan)
  BY <1>3 DEF PartsInv, Collecting, Posting, KeepWalk, KeepPost
<1>4. CASE UNCHANGED cmd /\ KeepAttempt /\ KeepPost /\ WalkStep(plan)
  <2>1. Collecting
    BY <1>4 DEF WalkStep, NextProvider, LiveFails, CodexbarSkipped, LiveAnswers, _read_cache,
                _read_pi, Settle, At, Collecting
  <2>2. QED
    BY <1>4, <2>1 DEF PartsInv, Collecting, Posting, KeepPost
<1>5. CASE UNCHANGED cmd /\ KeepAttempt /\ KeepWalk /\ DeliveryStep
  <2>1. Posting
    BY <1>5 DEF DeliveryStep, _user, require_credentials, Secrets, Read, tenant_token, _post,
                Arrive, Posting
  <2>2. QED
    BY <1>5, <2>1 DEF PartsInv, Collecting, Posting, KeepWalk
<1>6. QED
  BY <1>1, <1>2, <1>3, <1>4, <1>5 DEF Next

LEMMA CommandStepInvariant ==
  ASSUME SpentIInv, PartsInv, CommandStep, UNCHANGED plan
  PROVE  SpentIInv'
<1>1. cmd.stage # "round" => ~Attempting
  BY DEF SpentIInv, BurstInv
<1>2. Shape(cmd) /\ Agrees(cmd)
  BY DEF SpentIInv, CommandType, CommandShape, Agrees
<1>3. CASE Begin
  BY <1>3, BeginInvariant
<1>4. CASE Ready
  BY <1>4, ReadyInvariant
<1>5. CASE Prepare
  BY <1>5, PrepareInvariant
<1>6. CASE FirstRound
  BY <1>6, FirstRoundInvariant
<1>7. CASE RunModel
  BY <1>7, RunModelInvariant
<1>8. CASE ModelDone
  BY <1>8, ModelDoneInvariant
<1>9. CASE EndRound
  BY <1>9, EndRoundInvariant
<1>10. CASE SaveSnapshot
  <2>1. PICK p \in cmd.todo : cmd' = [cmd EXCEPT !.todo = cmd.todo \ {p}]
    BY <1>10 DEF SaveSnapshot
  <2>2. KeepsLedger /\ cmd.stage = "save"
    BY <1>10 DEF SaveSnapshot, At_, KeepAttempt, KeepsLedger
  <2>3. /\ Shape(cmd') /\ cmd'.stage = "save" /\ cmd'.phase = cmd.phase
        /\ cmd'.retry = cmd.retry /\ cmd'.due = cmd.due /\ cmd'.start = cmd.start
        /\ cmd'.channel = cmd.channel /\ cmd'.todo = cmd.todo \ {p} /\ cmd'.burst = cmd.burst
        /\ cmd'.failed = cmd.failed
    BY <1>2, <2>1, <2>2 DEF Shape
  <2>4. QED
    BY <1>1, <2>2, <2>3, Rests DEF SpentIInv, CommandType, AtRest
<1>11. CASE SnapshotsSaved
  BY <1>1, <1>2, <1>11, MovesOnTo DEF SnapshotsSaved, At_, KeepAttempt, KeepsLedger, AtRest
<1>12. CASE QuotaLock
  <2> DEFINE cost == IF cmd.phase = "retry" THEN 0 ELSE Budget.quota_wait
             waited == [cmd EXCEPT !.elapsed = @ + cost]
  <2>1. cmd.stage = "lock" /\ KeepsLedger
    BY <1>12 DEF QuotaLock, At_, KeepAttempt, KeepsLedger
  <2>2. PICK stage \in {"collect", "ended", "card"} : cmd' = Then(waited, stage)
    BY <1>12 DEF QuotaLock
  <2>3. Agrees(waited)
    BY <1>2, PaidAgrees DEF CommandShape
  <2>4. QED
    BY <1>1, <2>1, <2>2, <2>3, MovesOnTo DEF AtRest
<1>13. CASE EndCollect
  BY <1>13, EndCollectInvariant DEF EndCollect, Collected, PartsInv, Collecting
<1>14. CASE Card
  <2>1. KeepsLedger /\ cmd.stage = "card" /\ (UNCHANGED cmd \/ cmd' = AfterCard(cmd))
    BY <1>14 DEF Card, At_, KeepAttempt, KeepsLedger
  <2>2. CASE cmd' = AfterCard(cmd)
    BY <1>1, <1>2, <2>1, <2>2, AfterCardInvariant
  <2>3. CASE UNCHANGED cmd
    <3>1. CommandType' /\ BurstInv' /\ Later' = Later /\ Now' = Now
      BY <2>1, <2>3 DEF SpentIInv, CommandType, CommandShape, BurstInv, Bursting, Attempting,
                        First, Place, Later, Now, KeepsLedger
    <3>2. QED
      BY <2>1, <3>1, CommandKeeps
  <2>4. QED
    BY <2>1, <2>2, <2>3
<1>15. CASE CardDone
  <2> DEFINE paid == [cmd EXCEPT !.elapsed = @ + _delivery(plan)]
  <2>1. KeepsLedger /\ cmd.stage = "card"
    BY <1>15 DEF CardDone, KeepAttempt, KeepsLedger, PartsInv, Posting
  <2>2. cmd' = AfterCard(paid) \/ cmd' = Ended(paid)
    BY <1>15 DEF CardDone
  <2>3. Agrees(paid)
    BY <1>2, PaidAgrees DEF CommandShape
  <2> HIDE DEF paid
  <2>4. CASE cmd' = AfterCard(paid)
    BY <1>1, <2>1, <2>3, <2>4, AfterCardInvariant
  <2>5. CASE cmd' = Ended(paid)
    BY <1>1, <2>1, <2>3, <2>5, EndedFields, MovesOnTo DEF Agrees, AtRest
  <2>6. QED
    BY <2>2, <2>4, <2>5
<1>16. QED
  BY <1>3, <1>4, <1>5, <1>6, <1>7, <1>8, <1>9, <1>10, <1>11, <1>12, <1>13, <1>14, <1>15
     DEF CommandStep

LEMMA SpentInit == Init => SpentIInv /\ PartsInv
<1> SUFFICES ASSUME Init PROVE SpentIInv /\ PartsInv
  OBVIOUS
<1>1. /\ plan \in Plans /\ cmd.stage = "begin" /\ cmd.todo = {} /\ cmd.channel = 1
      /\ cmd.burst = {} /\ cmd.failed = {} /\ cmd.retry = {} /\ cmd.due = {}
      /\ cmd.start = [p \in PROVIDERS |-> 1] /\ cmd.phase \in {"usage", "retry"}
      /\ cmd.phase = "usage" <=> plan.opening = {}
  BY DEF Init
<1>2. CommandShape
  BY DEF Init, CommandShape, Shape
<1>3. /\ ~Attempting /\ ~Collecting /\ ~Posting
      /\ answered = [p \in PROVIDERS |-> 0] /\ lost = [p \in PROVIDERS |-> 0]
      /\ attempt = NoAttempt
  BY DEF Init, Attempting, Collecting, Posting, NoAttempt, NoWalk, NoPost
<1>4. \A p \in plan.opening : p \in PROVIDERS /\ Len(plan.chains[p]) \in Nat \ {0}
  BY <1>1, OpeningsAreProviders
<1>5. CommandType
  BY <1>1, <1>2, <1>4 DEF CommandType
<1>6. BurstInv
  BY <1>1, <1>3 DEF BurstInv, Bursting
<1>7. AttemptType /\ AttemptInv
  BY <1>3 DEF AttemptType, AttemptInv, NoAttempt, Before
<1>8. LedgerInv
  BY <1>3 DEF LedgerInv
<1>9. OwedInv
  BY <1>1, <1>3, <1>4 DEF OwedInv, Later, Now
<1>10. QED
  BY <1>3, <1>5, <1>6, <1>7, <1>8, <1>9 DEF SpentIInv, PartsInv

LEMMA SpentStep == SpentIInv /\ PartsInv /\ [Next]_vars => SpentIInv' /\ PartsInv'
<1> SUFFICES ASSUME SpentIInv, PartsInv, [Next]_vars PROVE SpentIInv' /\ PartsInv'
  OBVIOUS
<1>1. PartsInv'
  BY PartsStep DEF SpentIInv, CommandType
<1>2. CASE UNCHANGED <<plan, cmd>> /\ KeepAttempt
  <2>1. KeepsLedger /\ cmd' = cmd
    BY <1>2 DEF KeepsLedger, KeepAttempt
  <2>2. CommandType'
    BY <2>1 DEF SpentIInv, CommandType, CommandShape, KeepsLedger
  <2>3. BurstInv'
    BY <2>1 DEF SpentIInv, BurstInv, Bursting, Attempting, First, Place, KeepsLedger
  <2>4. Later' = Later /\ Now' = Now
    BY <2>1 DEF Later, Now, Attempting, KeepsLedger
  <2>5. QED
    BY <1>1, <2>1, <2>2, <2>3, <2>4, CommandKeeps
<1>3. CASE CommandStep /\ UNCHANGED plan
  BY <1>1, <1>3, CommandStepInvariant
<1>4. CASE UNCHANGED <<plan, cmd>> /\ AttemptStep(plan)
  <2>1. Attempting /\ StepsOn
    BY <1>4, AttemptStepInvariant DEF AttemptIInv, SpentIInv, CommandType
  <2>2. CommandType'
    BY <1>4 DEF SpentIInv, CommandType, CommandShape
  <2>3. BurstInv'
    BY <1>4, <2>1 DEF StepsOn, SpentIInv, BurstInv, Bursting, First, Place
  <2>4. Later' = Later /\ Now' = Now
    BY <1>4, <2>1 DEF StepsOn, Later, Now
  <2>5. attempt.p \notin Later \cup Now
    BY <2>1 DEF SpentIInv, BurstInv, Bursting, Later, Now
  <2>6. Later \cup Now \subseteq PROVIDERS
    <3>1. plan.opening \subseteq PROVIDERS
      BY OpeningsAreProviders DEF SpentIInv, CommandType
    <3>2. /\ cmd.todo \subseteq PROVIDERS /\ cmd.burst \subseteq plan.opening
          /\ cmd.failed \subseteq plan.opening
      BY DEF SpentIInv, CommandType
    <3>3. Now \subseteq cmd.burst \cup cmd.todo \cup cmd.failed
      BY DEF Now
    <3>4. QED
      BY <3>1, <3>2, <3>3 DEF Later
  <2>7. OwedInv'
    BY <2>1, <2>4, <2>5, <2>6 DEF StepsOn, SpentIInv, OwedInv
  <2>8. QED
    BY <1>1, <2>1, <2>2, <2>3, <2>7 DEF StepsOn, SpentIInv
<1>5. QED
  BY <1>2, <1>3, <1>4 DEF Next, vars, KeepAttempt

LEMMA Spending == Spec => [](SpentIInv /\ PartsInv)
BY SpentInit, SpentStep, PTL DEF Spec

LEMMA SpentIsOnce == SpentIInv => SpentOnce
<1> SUFFICES ASSUME SpentIInv PROVE SpentOnce
  OBVIOUS
<1>1. \A p \in DOMAIN answered : answered[p] <= 1 + lost[p]
  <2>1. DOMAIN answered = PROVIDERS
    BY DEF SpentIInv, LedgerInv
  <2>2. \A p \in PROVIDERS : /\ answered[p] \in Nat /\ lost[p] \in Nat
                           /\ answered[p] \in {lost[p], lost[p] + 1}
    BY DEF SpentIInv, LedgerInv
  <2>3. QED
    BY <2>1, <2>2
<1>2. Attempting => attempt.billed \in {0, 1}
  <2>1. Attempting => attempt.at \in Before \cup {"judge", "snapshot", "done"}
    BY ChannelIsKnown DEF SpentIInv, CommandType
  <2>2. QED
    BY <2>1 DEF SpentIInv, AttemptInv
<1>3. QED
  BY <1>1, <1>2 DEF SpentOnce

(* Within a command no provider is asked again after an accepted answer:   *)
(* whatever anchored its window more than once was lost to a failed write  *)
(* (runtime/chains.py, app.py _burst); and at most one turn of a channel   *)
(* is billed (runtime/agy_exec.py, the free retries of the handshake).     *)
THEOREM AskedOnce == Spec => []SpentOnce
BY Spending, SpentIsOnce, PTL

-----------------------------------------------------------------------------
(* Numbers: what the settings are, and what the formulas make of them.     *)

LEMMA BudgetNumbers ==
  /\ Budget.agy_timeout \in Nat /\ Budget.agy_kill_grace \in Nat
  /\ Budget.agy_preflight \in BOOLEAN /\ Budget.agy_transient_attempts \in Nat
  /\ Budget.pi_timeout \in Nat /\ Budget.pi_kill_grace \in Nat
  /\ Budget.pi_auth_timeout \in Nat /\ Budget.pi_plugin_timeout \in Nat
  /\ Budget.codex_timeout \in Nat /\ Budget.codex_kill_grace \in Nat
  /\ Budget.direct_timeout \in Nat /\ Budget.credential_timeout \in Nat
  /\ Budget.notification_timeout \in Nat
  /\ Budget.antigravity_native_timeout \in Nat /\ Budget.opencode_native_timeout \in Nat
  /\ Budget.clinepass_native_timeout \in Nat /\ Budget.codexbar_timeout \in Nat
  /\ Budget.antigravity_codexbar_timeout \in Nat /\ Budget.opencode_codexbar_timeout \in Nat
  /\ Budget.clinepass_codexbar_timeout \in Nat /\ Budget.codexbar_kill_grace \in Nat
  /\ Budget.pi_live_timeout \in Nat /\ Budget.pi_live_kill_grace \in Nat
  /\ Budget.quota_wait \in Nat /\ Budget.check_timeout \in Nat
  /\ Budget.retry_interval \in Nat
  /\ Budget.initial_attempts \in Nat \ {0} /\ Budget.watchdog_attempts \in Nat \ {0}
BY BudgetAssumption

LEMMA Product ==
  ASSUME NEW k \in Nat, NEW cost \in Nat
  PROVE  /\ k * cost \in Nat
         /\ k # 0 => (k - 1) * cost \in Nat /\ k * cost = cost + (k - 1) * cost
         /\ \A m \in Nat : m <= k => m * cost <= k * cost
<1>1. k * cost \in Nat
  OBVIOUS
<1>2. k # 0 => (k - 1) * cost \in Nat /\ k * cost = cost + (k - 1) * cost
  OBVIOUS
<1>3. ASSUME NEW m \in Nat, m <= k PROVE m * cost <= k * cost
  <2>1. PICK d \in Nat : k = m + d
    <3>1. k - m \in Nat /\ k = m + (k - m)
      BY <1>3
    <3>2. QED
      BY <3>1
  <2>2. k * cost = m * cost + d * cost
    BY <2>1
  <2>3. d * cost \in Nat /\ m * cost \in Nat
    OBVIOUS
  <2>4. QED
    BY <2>2, <2>3
<1>4. QED
  BY <1>1, <1>2, <1>3

\* The wrapper's deadlines add up to the command's and the margin.
LEMMA Guards == agent_listed = _guard /\ _guard = Budget.agy_timeout + 8
<1> DEFINE grace == Least(Budget.agy_kill_grace, Budget.agy_timeout \div 2)
<1>1. grace \in Int
  BY BudgetNumbers DEF Least
<1>2. _guard = ((Budget.agy_timeout - grace) + grace + 1) + 7
  BY DEF _guard, _guard_deadline, CLEANUP_ALLOWANCE_SECONDS
<1>3. agent_listed = ((Budget.agy_timeout - grace) + grace + 1) + 0 + 7
  BY DEF agent_listed, _guard_deadlines, run_bounded, CLEANUP_ALLOWANCE_SECONDS
<1> HIDE DEF grace
<1>4. QED
  BY <1>1, <1>2, <1>3, BudgetNumbers

\* A preparation takes what the budget has for it.
LEMMA Preparations ==
  ASSUME NEW p, NEW ch \in Channels
  PROVE  PrepareCost(p, ch) = _prepare(p, ch) /\ _prepare(p, ch) \in Nat
<1>1. CASE ch = "pi"
  BY <1>1, BudgetNumbers
     DEF PrepareCost, _prepare, pi_prepare, check_pi_plugin, _refresh_pi_credentials, run_bounded,
         CLEANUP_ALLOWANCE_SECONDS
<1>2. CASE ch = "codex"
  BY <1>2 DEF PrepareCost, _prepare, codex_ready, run_bounded, CLEANUP_ALLOWANCE_SECONDS
<1>3. CASE ch = "agy"
  BY <1>3, Guards, BudgetNumbers DEF PrepareCost, _prepare, agy_ready
<1>4. CASE ch = "direct"
  BY <1>4, BudgetNumbers
     DEF PrepareCost, _prepare, direct_ready, _credential, run_bounded, CLEANUP_ALLOWANCE_SECONDS
<1>5. QED
  BY <1>1, <1>2, <1>3, <1>4 DEF Channels

-----------------------------------------------------------------------------
(* The time of a walk.                                                     *)

LEMMA TierCosts ==
  ASSUME NEW p \in PROVIDERS, NEW tier \in TIERS
  PROVE  /\ Cost(p, tier) \in Nat /\ TierBound(p, tier) \in Nat
         /\ Cost(p, tier) <= TierBound(p, tier)
<1>1. CASE tier = "native" /\ p = "codex"
  BY <1>1 DEF Cost, TierBound, _native_codex, _native_bound_seconds, CLEANUP_ALLOWANCE_SECONDS, Keyed
<1>2. CASE tier = "native" /\ p # "codex"
  <2>1. NativeTimeout(p) \in Nat
    BY <1>2, BudgetNumbers DEF NativeTimeout, PROVIDERS
  <2>2. Cost(p, tier) = (IF p \in Keyed THEN Budget.credential_timeout + 7 ELSE 0)
                          + (NativeTimeout(p) + 5 + 1 + 7)
    BY <1>2, <2>1, BudgetNumbers
       DEF Cost, _native_helper, _api_key, run_bounded, CLEANUP_ALLOWANCE_SECONDS,
           NATIVE_HELPER_SLACK_SECONDS
  <2>3. TierBound(p, tier) = (NativeTimeout(p) + 5 + 1 + 7 + (IF p \in Keyed THEN 5 + 7 ELSE 0))
                               + (IF p \in Keyed THEN Budget.credential_timeout - 5 ELSE 0)
    BY <1>2, <2>1, BudgetNumbers
       DEF TierBound, _native_bound_seconds, CLEANUP_ALLOWANCE_SECONDS,
           NATIVE_HELPER_SLACK_SECONDS, KEYCHAIN_READ_TIMEOUT_SECONDS
  <2>4. QED
    BY <2>1, <2>2, <2>3, BudgetNumbers
<1>3. CASE tier = "codexbar-live"
  <2>1. CodexbarTimeout(p) \in Nat /\ codexbar_calls(p) \in {1, 2}
    BY BudgetNumbers DEF CodexbarTimeout, codexbar_calls, PROVIDERS
  <2>2. /\ Cost(p, tier) = codexbar_calls(p) * (CodexbarTimeout(p) + Budget.codexbar_kill_grace + 7)
        /\ TierBound(p, tier)
             = codexbar_calls(p) * (CodexbarTimeout(p) + Budget.codexbar_kill_grace + 7)
    BY <1>3
       DEF Cost, TierBound, _codexbar, _codexbar_bound_seconds, run_bounded,
           CLEANUP_ALLOWANCE_SECONDS
  <2>3. QED
    BY <2>1, <2>2, BudgetNumbers
<1>4. CASE tier = "pi-live"
  BY <1>4, BudgetNumbers DEF Cost, TierBound, pi_live_query, run_bounded, CLEANUP_ALLOWANCE_SECONDS
<1>5. CASE tier \in {"codexbar-cache", "pi-snapshot"}
  BY <1>5 DEF Cost, TierBound
<1>6. QED
  BY <1>1, <1>2, <1>3, <1>4, <1>5 DEF TIERS, FRESH_TIERS

\* What is left of the ladder from a tier on.
LEMMA LadderLeft ==
  ASSUME plan \in Plans, NEW p \in Probed, NEW i \in 1 .. Len(plan.tiers[p])
  PROVE  /\ TierBound(p, plan.tiers[p][i]) \in Nat
         /\ TiersFrom(plan, p, i + 1) \in Nat
         /\ TiersFrom(plan, p, i) = TierBound(p, plan.tiers[p][i]) + TiersFrom(plan, p, i + 1)
<1> DEFINE n == Len(plan.tiers[p])
           cost == TierBounds(plan, p)
<1>1. n \in Nat /\ \A j \in 1 .. n : cost[j] = TierBound(p, plan.tiers[p][j]) /\ cost[j] \in Nat
  BY ProbedLadders, TierCosts DEF TierBounds
<1>2. i \in Nat /\ i <= n /\ Costs(cost, i .. n)
  BY <1>1 DEF Costs
<1> HIDE DEF n, cost
<1>3. /\ cost[i] \in Nat /\ SumFunctionOnSet(cost, (i + 1) .. n) \in Nat
      /\ SumFunctionOnSet(cost, i .. n) = cost[i] + SumFunctionOnSet(cost, (i + 1) .. n)
  BY <1>1, <1>2, SumOfInterval
<1>4. cost[i] = TierBound(p, plan.tiers[p][i])
  BY <1>1 DEF n
<1>5. QED
  BY <1>3, <1>4 DEF TiersFrom, n, cost

LEMMA LadderTotal ==
  ASSUME plan \in Plans, NEW p \in Probed
  PROVE  TiersFrom(plan, p, 1) \in Nat
<1>1. 1 \in 1 .. Len(plan.tiers[p])
  BY ProbedLadders
<1>2. QED
  BY <1>1, LadderLeft

WalkClockInv ==
  walk.at \in {"tier", "chosen"} =>
    /\ walk.clock \in Nat
    /\ walk.at = "tier" =>
         walk.clock + TiersFrom(plan, walk.p, walk.tier) <= TiersFrom(plan, walk.p, 1)
    /\ walk.at = "chosen" => walk.clock <= TiersFrom(plan, walk.p, 1)

LEMMA TierIsPaid ==
  ASSUME WalkType, WalkClockInv, walk.at = "tier", NEW quota, NEW auth \in BOOLEAN, NEW cost \in Nat,
         cost <= TierBound(walk.p, Tier(plan)), After(plan, quota, cost, auth), UNCHANGED plan
  PROVE  WalkClockInv'
<1> DEFINE total == TiersFrom(plan, walk.p, 1)
           next == TiersFrom(plan, walk.p, walk.tier + 1)
           bound == TierBound(walk.p, Tier(plan))
<1>1. plan \in Plans /\ walk.p \in Probed /\ walk.tier \in 1 .. Len(plan.tiers[walk.p])
  BY DEF WalkType, NoWalk, Tiers
<1>2. /\ bound \in Nat /\ next \in Nat
      /\ TiersFrom(plan, walk.p, walk.tier) = bound + next /\ total \in Nat
  BY <1>1, LadderLeft, LadderTotal DEF Tier, Tiers
<1>3. walk.clock \in Nat /\ walk.clock + (bound + next) <= total
  BY <1>2 DEF WalkClockInv
<1>4. /\ walk'.at \in {"tier", "chosen"} /\ walk'.p = walk.p
      /\ walk'.at = "tier" => walk'.tier = walk.tier + 1
  BY AfterTier
<1>5. walk'.clock = walk.clock + cost
  BY DEF After, WalkType, NoWalk
<1>6. total' = total /\ (walk'.at = "tier" => TiersFrom(plan, walk.p, walk.tier)' = next)
  BY <1>4 DEF TiersFrom, TierBounds
<1> HIDE DEF total, next, bound
<1>7. walk.clock + cost \in Nat /\ walk.clock + cost + next <= total /\ walk.clock + cost <= total
  BY <1>2, <1>3 DEF bound
<1>8. QED
  BY <1>4, <1>5, <1>6, <1>7 DEF WalkClockInv, total

LEMMA CollectionClock == WalkIInv /\ WalkClockInv /\ [Next]_vars => WalkClockInv'
<1> SUFFICES ASSUME WalkIInv, WalkClockInv, [Next]_vars PROVE WalkClockInv'
  OBVIOUS
<1>0. WalkType /\ UNCHANGED plan
  BY CollectionSteps DEF WalkIInv
<1>1. CASE UNCHANGED walk
  BY <1>0, <1>1 DEF WalkClockInv, TiersFrom, TierBounds
<1>2. CASE walk' = NoWalk
  BY <1>2 DEF WalkClockInv, NoWalk
<1>3. ASSUME NEW purpose, Collect(plan, purpose, cmd.capture) PROVE WalkClockInv'
  BY <1>3 DEF WalkClockInv, Collect
<1>4. CASE WalkStep(plan)
  <2>1. CASE NextProvider(plan)
    <3>1. walk'.at = "tier" /\ walk'.tier = 1 /\ walk'.clock = 0 /\ WalkType'
      <4>1. WalkType'
        BY <1>0, <2>1, TakesNext
      <4>2. \E up, p : walk' = [at |-> "tier", purpose |-> walk.purpose, capture |-> walk.capture,
                  queue |-> Tail(walk.queue), auth_required |-> walk.auth_required,
                  p |-> p, up |-> up, tier |-> 1, first |-> Unavailable, clock |-> 0]
        BY <2>1 DEF NextProvider
      <4>3. QED
        BY <4>1, <4>2
    <3>2. plan' \in Plans' /\ walk'.p \in Probed'
      BY <3>1 DEF WalkType, NoWalk
    <3>3. TiersFrom(plan, walk.p, 1)' \in Nat
      <4>1. plan \in Plans /\ walk'.p \in Probed
        BY <1>0, <3>2 DEF Probed
      <4>2. TiersFrom(plan, walk'.p, 1) \in Nat
        BY <4>1, LadderTotal
      <4>3. QED
        BY <1>0, <4>2 DEF TiersFrom, TierBounds
    <3>4. QED
      BY <3>1, <3>3 DEF WalkClockInv
  <2>2. ASSUME walk.at = "tier", NEW quota, NEW auth \in BOOLEAN, After(plan, quota, Cost(walk.p, Tier(plan)), auth)
        PROVE  WalkClockInv'
    BY <1>0, <2>2, TierIsPaid, TierIsKnown, TierCosts
  <2>3. CASE LiveFails(plan)
    <3>1. PICK auth : auth \in {walk.auth_required,
                  walk.auth_required \/ (walk.p = "antigravity" /\ Tier(plan) = "native")}
                  /\ After(plan, {}, Cost(walk.p, Tier(plan)), auth)
      BY <2>3 DEF LiveFails
    <3>2. walk.at = "tier" /\ auth \in BOOLEAN
      BY <1>0, <2>3, <3>1, TierIsKnown DEF LiveFails, At
    <3>3. QED
      BY <2>2, <3>1, <3>2
  <2>4. CASE CodexbarSkipped(plan)
    <3>1. walk.at = "tier" /\ After(plan, {}, 0, TRUE)
      BY <2>4 DEF CodexbarSkipped, At
    <3>2. TierBound(walk.p, Tier(plan)) \in Nat
      BY <1>0, <3>1, TierIsKnown, TierCosts
    <3>3. 0 \in Nat /\ 0 <= TierBound(walk.p, Tier(plan)) /\ TRUE \in BOOLEAN
      BY <3>2
    <3>4. PICK quota : quota = {}
      OBVIOUS
    <3>5. After(plan, quota, 0, TRUE)
      BY <3>1, <3>4
    <3>6. QED
      BY <1>0, <3>1, <3>3, <3>5, TierIsPaid
  <2>5. CASE LiveAnswers(plan)
    <3>1. PICK q : After(plan, {q}, Cost(walk.p, Tier(plan)), walk.auth_required)
      BY <2>5 DEF LiveAnswers
    <3>2. walk.at = "tier" /\ walk.auth_required \in BOOLEAN
      BY <1>0, <2>5, TierIsKnown DEF LiveAnswers, At
    <3>3. QED
      BY <2>2, <3>1, <3>2
  <2>6. CASE _read_cache(plan) \/ _read_pi(plan)
    <3>1. PICK quota : After(plan, quota, 1, walk.auth_required)
      BY <2>6 DEF _read_cache, _read_pi
    <3>2. walk.at = "tier" /\ Tier(plan) \in {"codexbar-cache", "pi-snapshot"}
      BY <2>6 DEF _read_cache, _read_pi, At, Tier
    <3>3. 1 <= TierBound(walk.p, Tier(plan)) /\ walk.auth_required \in BOOLEAN
      BY <1>0, <3>2, TierIsKnown DEF TierBound
    <3>4. QED
      BY <1>0, <3>1, <3>2, <3>3, TierIsPaid
  <2>7. CASE Settle
    BY <2>7 DEF Settle, Between, WalkClockInv
  <2>8. QED
    BY <1>4, <2>1, <2>3, <2>4, <2>5, <2>6, <2>7 DEF WalkStep
<1>5. QED
  BY <1>1, <1>2, <1>3, <1>4, CollectionSteps

LEMMA ClockedWalks == Spec => [](WalkIInv /\ WalkClockInv)
<1>1. Init => WalkIInv /\ WalkClockInv
  BY WalkInit DEF Init, NoWalk, WalkClockInv
<1>2. WalkIInv /\ WalkClockInv /\ [Next]_vars => (WalkIInv /\ WalkClockInv)'
  BY CollectionStep, CollectionClock
<1>3. QED
  BY <1>1, <1>2, PTL DEF Spec

(* For whatever deadlines and ladders are configured, the walk of one      *)
(* provider takes no longer than the share of the budget its ladder has    *)
(* (runtime/budgets.py probe_phase, runtime/probe_budget.py).              *)
THEOREM CollectsInTime == Spec => []WalkWithinBudget(plan)
<1>1. WalkIInv /\ WalkClockInv => WalkWithinBudget(plan)
  <2>1. ASSUME WalkType, walk.at = "tier", WalkClockInv
        PROVE  walk.clock <= TiersFrom(plan, walk.p, 1)
    <3>1. plan \in Plans /\ walk.p \in Probed /\ walk.tier \in 1 .. Len(plan.tiers[walk.p])
      BY <2>1 DEF WalkType, NoWalk, Tiers
    <3>2. /\ TiersFrom(plan, walk.p, walk.tier) \in Nat /\ TiersFrom(plan, walk.p, 1) \in Nat
      <4>1. /\ TierBound(walk.p, plan.tiers[walk.p][walk.tier]) \in Nat
            /\ TiersFrom(plan, walk.p, walk.tier + 1) \in Nat
            /\ TiersFrom(plan, walk.p, walk.tier)
                 = TierBound(walk.p, plan.tiers[walk.p][walk.tier]) + TiersFrom(plan, walk.p, walk.tier + 1)
        BY <3>1, LadderLeft
      <4>2. QED
        BY <3>1, <4>1, LadderTotal
    <3>3. QED
      BY <2>1, <3>2 DEF WalkClockInv
  <2>2. QED
    BY <2>1 DEF WalkIInv, WalkWithinBudget, WalkClockInv
<1>2. QED
  BY <1>1, ClockedWalks, PTL

-----------------------------------------------------------------------------
(* The time of an attempt.                                                 *)

\* How often a channel asks, at most.
Asks(pl, p, ch) ==
  CASE ch = "agy"    -> Budget.agy_transient_attempts + 1
    [] ch = "direct" -> IF CapturesSnapshot(pl, p) THEN 2 ELSE 1
    [] OTHER         -> 1

\* What the channel at hand may still cost, by how far the attempt is in it.
HereAt(pl, p, start, i, at, tries) ==
  LET ch == pl.chains[p][i]
      turns == Asks(pl, p, ch) * TurnCost(ch)
  IN  CASE at = "visit"      -> ChannelCosts(pl, p, start)[i]
        [] at = "guard"      -> agent_listed + run_bounded(20, 0) + turns
        [] at = "version"    -> run_bounded(20, 0) + turns
        [] at = "credential" -> direct_ready + turns
        [] OTHER             -> (Asks(pl, p, ch) - tries) * TurnCost(ch)

Here == HereAt(plan, attempt.p, attempt.start, attempt.i, attempt.at, attempt.tries)
Beyond(pl, p, start, i) ==
  SumFunctionOnSet(ChannelCosts(pl, p, start), (i + 1) .. Len(pl.chains[p]))

TriesInv ==
  LET ch == Channel(plan)
      asks == Asks(plan, attempt.p, ch)
  IN  /\ attempt.start \in 1 .. attempt.i /\ attempt.clock \in Nat /\ attempt.tries \in Nat
      /\ attempt.at \in {"visit", "guard", "version", "credential"} => attempt.tries = 0
      /\ attempt.at = "turn" => attempt.tries < asks /\ (ch # "agy" => attempt.tries = 0)
      /\ attempt.at = "judge" => attempt.tries <= asks /\ (ch # "agy" => attempt.tries = 1)
      /\ attempt.at = "snapshot" => ch = "direct" /\ attempt.tries = 1 /\ asks = 2

AttemptClockInv ==
  Attempting =>
    /\ TriesInv
    /\ attempt.at # "done" =>
         attempt.clock + Here + Beyond(plan, attempt.p, attempt.start, attempt.i)
           <= AttemptFrom(plan, attempt.p, attempt.start)
    /\ attempt.at = "done" => attempt.clock <= AttemptFrom(plan, attempt.p, attempt.start)

LEMMA TurnCosts ==
  ASSUME NEW pl, NEW p, NEW ch \in Channels
  PROVE  /\ TurnCost(ch) \in Nat /\ Asks(pl, p, ch) \in Nat \ {0}
         /\ Asks(pl, p, ch) * TurnCost(ch) \in Nat
         /\ _turn(pl, p, ch) \in Nat
         /\ ch = "pi" => _turn(pl, p, ch) = TurnCost(ch)
         /\ ch = "codex" => _turn(pl, p, ch) = run_bounded(20, 0) + TurnCost(ch)
         /\ ch = "agy" => _turn(pl, p, ch) = (IF Budget.agy_preflight THEN agent_listed ELSE 0)
                                               + run_bounded(20, 0) + Asks(pl, p, ch) * TurnCost(ch)
         /\ ch = "direct" => _turn(pl, p, ch) = direct_ready + Asks(pl, p, ch) * TurnCost(ch)
<1> USE BudgetNumbers DEF run_bounded, run_with_timeout, CLEANUP_ALLOWANCE_SECONDS
<1>1. TurnCost(ch) \in Nat
  BY DEF TurnCost, _run_cli, _run_codex, pi_run, _curl, Channels
<1>2. Asks(pl, p, ch) \in Nat \ {0}
  BY DEF Asks
<1>3. Asks(pl, p, ch) * TurnCost(ch) \in Nat
  BY <1>1, <1>2
<1>4. CASE ch = "pi"
  BY <1>1, <1>2, <1>3, <1>4 DEF _turn, TurnCost, pi_run, Wrapped
<1>5. CASE ch = "codex"
  BY <1>1, <1>2, <1>3, <1>5 DEF _turn, TurnCost, _run_codex, Wrapped
<1>6. CASE ch = "agy"
  <2>1. TurnCost(ch) = Wrapped(Budget.agy_timeout, Budget.agy_kill_grace)
    BY <1>6 DEF TurnCost, _run_cli, Wrapped
  <2>2. Asks(pl, p, ch) = Budget.agy_transient_attempts + 1
    BY <1>6 DEF Asks
  <2>3. _turn(pl, p, ch) = Asks(pl, p, ch) * TurnCost(ch)
                             + (IF Budget.agy_preflight THEN _guard ELSE 0) + 20 + 7
    BY <1>6, <2>1, <2>2 DEF _turn
  <2> DEFINE turns == Asks(pl, p, ch) * TurnCost(ch)
  <2>4. turns \in Nat
    BY <1>3
  <2> HIDE DEF turns
  <2>5. _turn(pl, p, ch) = turns + (IF Budget.agy_preflight THEN _guard ELSE 0) + 20 + 7
    BY <2>3 DEF turns
  <2>6. _turn(pl, p, ch) = (IF Budget.agy_preflight THEN agent_listed ELSE 0)
                             + run_bounded(20, 0) + turns /\ _turn(pl, p, ch) \in Nat
    BY <2>4, <2>5, Guards
  <2>7. QED
    BY <1>1, <1>2, <1>3, <1>6, <2>6 DEF turns
<1>7. CASE ch = "direct"
  <2>1. TurnCost(ch) = Budget.direct_timeout + 5 + 2 + 7
    BY <1>7 DEF TurnCost, _curl
  <2>2. Asks(pl, p, ch) = IF CapturesSnapshot(pl, p) THEN 2 ELSE 1
    BY <1>7 DEF Asks
  <2>3. _turn(pl, p, ch) = Asks(pl, p, ch) * TurnCost(ch) + (Budget.credential_timeout + 7)
    BY <1>7, <2>1, <2>2 DEF _turn, _credential
  <2>4. direct_ready = Budget.credential_timeout + 7
    BY DEF direct_ready
  <2>5. QED
    BY <1>1, <1>2, <1>3, <1>7, <2>3, <2>4
<1>8. QED
  BY <1>4, <1>5, <1>6, <1>7 DEF Channels

\* The chain from a channel on.
LEMMA ChainLeft ==
  ASSUME plan \in Plans, NEW p \in plan.opening, NEW start,
         NEW i \in 1 .. Len(plan.chains[p])
  PROVE  LET ch == plan.chains[p][i]
             here == ChannelCosts(plan, p, start)[i]
         IN  /\ ch \in Channels /\ here \in Nat /\ Beyond(plan, p, start, i) \in Nat
             /\ here = _turn(plan, p, ch) + IF i = start THEN 0 ELSE _prepare(p, ch)
             /\ SumFunctionOnSet(ChannelCosts(plan, p, start), i .. Len(plan.chains[p]))
                  = here + Beyond(plan, p, start, i)
<1> DEFINE n == Len(plan.chains[p])
           cost == ChannelCosts(plan, p, start)
<1>1. n \in Nat /\ \A j \in 1 .. n : plan.chains[p][j] \in Channels
  BY OpeningsAreProviders
<1>2. \A j \in 1 .. n :
        /\ cost[j] = _turn(plan, p, plan.chains[p][j])
                       + IF j = start THEN 0 ELSE _prepare(p, plan.chains[p][j])
        /\ cost[j] \in Nat
  <2> SUFFICES ASSUME NEW j \in 1 .. n
               PROVE  /\ cost[j] = _turn(plan, p, plan.chains[p][j])
                                     + IF j = start THEN 0 ELSE _prepare(p, plan.chains[p][j])
                      /\ cost[j] \in Nat
    OBVIOUS
  <2>1. _turn(plan, p, plan.chains[p][j]) \in Nat /\ _prepare(p, plan.chains[p][j]) \in Nat
    BY <1>1, TurnCosts, Preparations
  <2>2. QED
    BY <2>1 DEF ChannelCosts
<1>3. i \in Nat /\ i <= n /\ Costs(cost, i .. n)
  BY <1>1, <1>2 DEF Costs
<1> HIDE DEF n, cost
<1>4. /\ cost[i] \in Nat /\ SumFunctionOnSet(cost, (i + 1) .. n) \in Nat
      /\ SumFunctionOnSet(cost, i .. n) = cost[i] + SumFunctionOnSet(cost, (i + 1) .. n)
  BY <1>1, <1>3, SumOfInterval
<1>5. QED
  BY <1>1, <1>2, <1>4 DEF Beyond, n, cost

\* What is known of an attempt in flight, in time.
LEMMA AttemptTimes ==
  ASSUME plan \in Plans, AttemptType, Attempting, AttemptClockInv, attempt.at # "done"
  PROVE  LET n == Len(plan.chains[attempt.p])
             cost == ChannelCosts(plan, attempt.p, attempt.start)
         IN  /\ AttemptShape /\ attempt.p \in plan.opening
             /\ n \in Nat /\ attempt.i \in 1 .. n /\ attempt.start \in 1 .. attempt.i
             /\ Channel(plan) = plan.chains[attempt.p][attempt.i] /\ Channel(plan) \in Channels
             /\ attempt.clock \in Nat /\ attempt.tries \in Nat /\ TriesInv
             /\ AttemptFrom(plan, attempt.p, attempt.start) \in Nat
             /\ cost[attempt.i] \in Nat
             /\ cost[attempt.i] = _turn(plan, attempt.p, Channel(plan))
                  + IF attempt.i = attempt.start THEN 0 ELSE _prepare(attempt.p, Channel(plan))
             /\ Beyond(plan, attempt.p, attempt.start, attempt.i) \in Nat
             /\ attempt.i < n =>
                  /\ cost[attempt.i + 1] \in Nat
                  /\ Beyond(plan, attempt.p, attempt.start, attempt.i + 1) \in Nat
                  /\ Beyond(plan, attempt.p, attempt.start, attempt.i)
                       = cost[attempt.i + 1] + Beyond(plan, attempt.p, attempt.start, attempt.i + 1)
<1> DEFINE n == Len(plan.chains[attempt.p])
           cost == ChannelCosts(plan, attempt.p, attempt.start)
<1>1. /\ AttemptShape /\ attempt.p \in plan.opening /\ attempt.i \in 1 .. n /\ n \in Nat
      /\ Channel(plan) \in Channels
  BY ChannelIsKnown
<1>2. TriesInv
  BY DEF AttemptClockInv
<1>3. /\ attempt.start \in 1 .. attempt.i /\ attempt.clock \in Nat /\ attempt.tries \in Nat
  BY <1>2 DEF TriesInv
<1>4. /\ cost[attempt.i] \in Nat
      /\ cost[attempt.i] = _turn(plan, attempt.p, Channel(plan))
           + IF attempt.i = attempt.start THEN 0 ELSE _prepare(attempt.p, Channel(plan))
      /\ Beyond(plan, attempt.p, attempt.start, attempt.i) \in Nat
  BY <1>1, ChainLeft DEF Channel
<1>5. ASSUME attempt.i < n
      PROVE  /\ cost[attempt.i + 1] \in Nat
             /\ Beyond(plan, attempt.p, attempt.start, attempt.i + 1) \in Nat
             /\ Beyond(plan, attempt.p, attempt.start, attempt.i)
                  = cost[attempt.i + 1] + Beyond(plan, attempt.p, attempt.start, attempt.i + 1)
  <2>1. attempt.i + 1 \in 1 .. n
    BY <1>1, <1>5
  <2>2. /\ cost[attempt.i + 1] \in Nat
        /\ Beyond(plan, attempt.p, attempt.start, attempt.i + 1) \in Nat
        /\ SumFunctionOnSet(cost, (attempt.i + 1) .. n)
             = cost[attempt.i + 1] + Beyond(plan, attempt.p, attempt.start, attempt.i + 1)
    BY <1>1, <2>1, ChainLeft
  <2>3. QED
    BY <2>2 DEF Beyond
<1>6. AttemptFrom(plan, attempt.p, attempt.start) \in Nat
  <2>1. attempt.start \in 1 .. n
    BY <1>1, <1>3
  <2>2. /\ cost[attempt.start] \in Nat
        /\ Beyond(plan, attempt.p, attempt.start, attempt.start) \in Nat
        /\ SumFunctionOnSet(cost, attempt.start .. n)
             = cost[attempt.start] + Beyond(plan, attempt.p, attempt.start, attempt.start)
    BY <1>1, <2>1, ChainLeft
  <2>3. QED
    BY <2>2 DEF AttemptFrom
<1>7. Channel(plan) = plan.chains[attempt.p][attempt.i]
  BY DEF Channel
<1>8. QED
  BY <1>1, <1>2, <1>3, <1>4, <1>5, <1>6, <1>7

\* The attempt goes on in its channel, or ends there, and what it spends was left for it.
LEMMA SpendsHere ==
  ASSUME plan \in Plans, AttemptType, Attempting, AttemptClockInv, attempt.at # "done",
         UNCHANGED plan, NEW cost \in Nat, NEW next \in Nat,
         attempt'.p = attempt.p, attempt'.start = attempt.start, attempt'.i = attempt.i,
         attempt'.clock = attempt.clock + cost,
         TriesInv', cost + next <= Here,
         attempt'.at # "done" => HereAt(plan, attempt.p, attempt.start, attempt.i, attempt'.at, attempt'.tries) = next
  PROVE  AttemptClockInv'
<1> DEFINE total == AttemptFrom(plan, attempt.p, attempt.start)
           beyond == Beyond(plan, attempt.p, attempt.start, attempt.i)
<1>1. total' = total /\ beyond' = beyond
  OBVIOUS
<1>2. Here' = HereAt(plan, attempt.p, attempt.start, attempt.i, attempt'.at, attempt'.tries)
  BY DEF Here
<1>3. total \in Nat /\ beyond \in Nat /\ attempt.clock \in Nat
  BY AttemptTimes
<1>4. attempt.clock + Here + beyond <= total
  BY DEF AttemptClockInv
<1>5. Here \in Int
  <2>1. HereAt(plan, attempt.p, attempt.start, attempt.i, attempt.at, attempt.tries) \in Int
    <3>1. LET ch == Channel(plan) IN
          /\ ch = plan.chains[attempt.p][attempt.i] /\ ch \in Channels /\ attempt.tries \in Nat
          /\ ChannelCosts(plan, attempt.p, attempt.start)[attempt.i] \in Nat
      BY AttemptTimes
    <3> DEFINE ch == Channel(plan)
    <3>2. /\ TurnCost(ch) \in Nat /\ Asks(plan, attempt.p, ch) \in Nat
          /\ Asks(plan, attempt.p, ch) * TurnCost(ch) \in Nat
      BY <3>1, TurnCosts
    <3>3. (Asks(plan, attempt.p, ch) - attempt.tries) * TurnCost(ch) \in Int
      BY <3>1, <3>2
    <3>4. agent_listed \in Nat /\ run_bounded(20, 0) \in Nat /\ direct_ready \in Nat
      BY Guards, BudgetNumbers DEF run_bounded, direct_ready, CLEANUP_ALLOWANCE_SECONDS
    <3> HIDE DEF ch
    <3>5. QED
      BY <3>1, <3>2, <3>3, <3>4 DEF HereAt, ch
  <2>2. QED
    BY <2>1 DEF Here
<1> HIDE DEF total, beyond
<1>6. attempt.clock + cost + next + beyond <= total /\ attempt.clock + cost <= total
  BY <1>3, <1>4, <1>5
<1>7. attempt'.at # "done" => attempt'.clock + Here' + beyond' <= total'
  BY <1>1, <1>2, <1>6
<1>8. attempt'.at = "done" => attempt'.clock <= total'
  BY <1>1, <1>6
<1>9. QED
  BY <1>7, <1>8 DEF AttemptClockInv, total, beyond

\* A channel is left within what was left for it.
LEMMA LeavesInTime ==
  ASSUME plan \in Plans, AttemptType, Attempting, AttemptClockInv, attempt.at # "done",
         UNCHANGED plan, NEW cost \in Nat, NEW last, NextChannel(plan, cost, last), cost <= Here, Here \in Nat
  PROVE  AttemptClockInv'
<1> DEFINE n == Len(plan.chains[attempt.p])
           left == attempt.i < n
           at == IF left THEN "visit" ELSE "done"
           i == IF left THEN attempt.i + 1 ELSE attempt.i
           capture == Captures(plan, last)
           costs == ChannelCosts(plan, attempt.p, attempt.start)
           total == AttemptFrom(plan, attempt.p, attempt.start)
           beyond == Beyond(plan, attempt.p, attempt.start, attempt.i)
           after == Beyond(plan, attempt.p, attempt.start, attempt.i + 1)
<1>1. attempt' = [[attempt EXCEPT !.at = at, !.i = i, !.last = last, !.capture = capture,
                                  !.turn = NoTurn, !.tries = 0, !.billed = 0]
                  EXCEPT !.clock = @ + cost]
  BY DEF NextChannel, Spend
<1>2. /\ AttemptShape /\ n \in Nat /\ attempt.i \in 1 .. n /\ attempt.start \in 1 .. attempt.i
      /\ attempt.clock \in Nat /\ total \in Nat /\ beyond \in Nat
      /\ left => costs[attempt.i + 1] \in Nat /\ after \in Nat
                 /\ beyond = costs[attempt.i + 1] + after
  BY AttemptTimes
<1> HIDE DEF at, i, capture
<1>3. /\ attempt'.at = at /\ attempt'.i = i /\ attempt'.p = attempt.p /\ attempt'.tries = 0
      /\ attempt'.start = attempt.start /\ attempt'.clock = attempt.clock + cost
  BY <1>1, <1>2 DEF AttemptShape
<1>4. total' = total /\ costs' = costs /\ Attempting'
  BY <1>3 DEF AttemptFrom, ChannelCosts, _turn, CapturesSnapshot, Attempting, at
<1>5. attempt.clock + Here + beyond <= total
  BY DEF AttemptClockInv
<1>6. TriesInv'
  BY <1>2, <1>3 DEF TriesInv, i, at
<1>7. CASE left
  <2>1. attempt'.at = "visit" /\ attempt'.i = attempt.i + 1
    BY <1>3, <1>7 DEF at, i
  <2>2. Here' = costs[attempt.i + 1]
    BY <1>3, <1>4, <2>1 DEF Here, HereAt
  <2>3. Beyond(plan, attempt.p, attempt.start, attempt.i)' = after
    BY <1>3, <1>4, <2>1 DEF Beyond
  <2> HIDE DEF total, beyond, after, costs
  <2>4. attempt'.clock + Here' + after <= total
    BY <1>2, <1>3, <1>5, <1>7, <2>2
  <2>5. QED
    BY <1>4, <1>6, <2>1, <2>3, <2>4 DEF AttemptClockInv, total
<1>8. CASE ~left
  <2>1. attempt'.at = "done"
    BY <1>3, <1>8 DEF at
  <2>2. attempt'.clock <= total
    BY <1>2, <1>3, <1>5
  <2>3. QED
    BY <1>4, <1>6, <2>1, <2>2 DEF AttemptClockInv
<1>9. QED
  BY <1>7, <1>8

\* What is left of the channel at hand, by the place the attempt is at.
LEMMA HereCosts ==
  ASSUME plan \in Plans, AttemptType, Attempting, AttemptClockInv, attempt.at # "done"
  PROVE  LET ch == Channel(plan)
             asks == Asks(plan, attempt.p, ch)
             cost == TurnCost(ch)
             left(at, tries) == HereAt(plan, attempt.p, attempt.start, attempt.i, at, tries)
         IN  /\ ch \in Channels /\ asks \in Nat \ {0} /\ cost \in Nat /\ asks * cost \in Nat
             /\ attempt.clock \in Nat /\ attempt.tries \in Nat
             /\ run_bounded(20, 0) \in Nat /\ agent_listed \in Nat /\ direct_ready \in Nat
             /\ _prepare(attempt.p, ch) \in Nat /\ _turn(plan, attempt.p, ch) \in Nat
             /\ PrepareCost(attempt.p, ch) = _prepare(attempt.p, ch)
             /\ left("visit", 0) = _turn(plan, attempt.p, ch)
                  + IF attempt.i = attempt.start THEN 0 ELSE _prepare(attempt.p, ch)
             /\ left("guard", 0) = agent_listed + run_bounded(20, 0) + asks * cost
             /\ left("version", 0) = run_bounded(20, 0) + asks * cost
             /\ left("credential", 0) = direct_ready + asks * cost
             /\ left("turn", 0) = asks * cost
             /\ \A at \in {"turn", "judge", "snapshot"}, tries \in Nat :
                  left(at, tries) = (asks - tries) * cost
             /\ Here = left(attempt.at, attempt.tries)
<1> DEFINE ch == Channel(plan)
           asks == Asks(plan, attempt.p, ch)
           cost == TurnCost(ch)
           left(at, tries) == HereAt(plan, attempt.p, attempt.start, attempt.i, at, tries)
<1>1. /\ ch = plan.chains[attempt.p][attempt.i] /\ ch \in Channels /\ attempt.tries \in Nat
      /\ attempt.clock \in Nat
      /\ ChannelCosts(plan, attempt.p, attempt.start)[attempt.i]
           = _turn(plan, attempt.p, ch)
               + IF attempt.i = attempt.start THEN 0 ELSE _prepare(attempt.p, ch)
  BY AttemptTimes
<1>2. cost \in Nat /\ asks \in Nat \ {0} /\ asks * cost \in Nat /\ _turn(plan, attempt.p, ch) \in Nat
  BY <1>1, TurnCosts
<1>3. run_bounded(20, 0) \in Nat /\ agent_listed \in Nat /\ direct_ready \in Nat
  BY Guards, BudgetNumbers DEF run_bounded, direct_ready, CLEANUP_ALLOWANCE_SECONDS
<1>4. _prepare(attempt.p, ch) \in Nat /\ PrepareCost(attempt.p, ch) = _prepare(attempt.p, ch)
  BY <1>1, Preparations
<1>5. \A at \in {"turn", "judge", "snapshot"}, tries \in Nat : left(at, tries) = (asks - tries) * cost
  BY <1>1 DEF HereAt
<1>6. left("turn", 0) = asks * cost
  <2>1. left("turn", 0) = (asks - 0) * cost
    BY <1>5
  <2>2. asks - 0 = asks
    BY <1>2
  <2>3. QED
    BY <2>1, <2>2
<1>7. /\ left("visit", 0) = _turn(plan, attempt.p, ch)
           + IF attempt.i = attempt.start THEN 0 ELSE _prepare(attempt.p, ch)
      /\ left("guard", 0) = agent_listed + run_bounded(20, 0) + asks * cost
      /\ left("version", 0) = run_bounded(20, 0) + asks * cost
      /\ left("credential", 0) = direct_ready + asks * cost
  BY <1>1 DEF HereAt
<1>8. Here = left(attempt.at, attempt.tries)
  BY DEF Here
<1> HIDE DEF ch, asks, cost, left
<1>9. QED
  BY <1>1, <1>2, <1>3, <1>4, <1>5, <1>6, <1>7, <1>8 DEF ch, asks, cost, left

\* What a channel has left when it is opened is what its turn may cost.
LEMMA OpeningCost ==
  ASSUME plan \in Plans, AttemptType, Attempting, AttemptClockInv, attempt.at # "done"
  PROVE  HereAt(plan, attempt.p, attempt.start, attempt.i, Opening(Channel(plan)), 0)
           = _turn(plan, attempt.p, Channel(plan))
<1> DEFINE ch == Channel(plan)
           turn == _turn(plan, attempt.p, ch)
           turns == Asks(plan, attempt.p, ch) * TurnCost(ch)
           left(at) == HereAt(plan, attempt.p, attempt.start, attempt.i, at, 0)
<1>1. /\ ch \in Channels /\ turns \in Nat /\ turn \in Nat
      /\ run_bounded(20, 0) \in Nat /\ agent_listed \in Nat /\ direct_ready \in Nat
      /\ left("guard") = agent_listed + run_bounded(20, 0) + turns
      /\ left("version") = run_bounded(20, 0) + turns
      /\ left("credential") = direct_ready + turns
      /\ left("turn") = turns
  BY HereCosts
<1>2. /\ ch = "pi" => turn = TurnCost(ch)
      /\ ch = "codex" => turn = run_bounded(20, 0) + TurnCost(ch)
      /\ ch = "agy" => turn = (IF Budget.agy_preflight THEN agent_listed ELSE 0)
                                + run_bounded(20, 0) + turns
      /\ ch = "direct" => turn = direct_ready + turns
      /\ TurnCost(ch) \in Nat
  BY <1>1, TurnCosts
<1>3. ch \in {"pi", "codex"} => turns = TurnCost(ch)
  <2>1. ch \in {"pi", "codex"} => Asks(plan, attempt.p, ch) = 1
    BY DEF Asks
  <2>2. QED
    BY <1>2, <2>1
<1>4. Opening(ch) = CASE ch = "pi" -> "turn" [] ch = "codex" -> "version"
                      [] ch = "agy" -> IF Budget.agy_preflight THEN "guard" ELSE "version"
                      [] ch = "direct" -> "credential"
  BY DEF Opening
<1> HIDE DEF ch, turn, turns, left
<1>5. left(Opening(ch)) = turn
  <2>1. CASE ch = "pi"
    BY <1>1, <1>2, <1>3, <1>4, <2>1
  <2>2. CASE ch = "codex"
    BY <1>1, <1>2, <1>3, <1>4, <2>2
  <2>3. CASE ch = "agy" /\ Budget.agy_preflight
    BY <1>1, <1>2, <1>4, <2>3
  <2>4. CASE ch = "agy" /\ ~Budget.agy_preflight
    BY <1>1, <1>2, <1>4, <2>4
  <2>5. CASE ch = "direct"
    BY <1>1, <1>2, <1>4, <2>5
  <2>6. QED
    BY <1>1, <2>1, <2>2, <2>3, <2>4, <2>5 DEF Channels
<1>6. QED
  BY <1>5 DEF left, turn, ch

\* The attempt's place in its chain is kept.
LEMMA TriesStay ==
  ASSUME TriesInv, UNCHANGED plan, NEW to, NEW tries \in Nat, NEW cost \in Nat,
         attempt'.p = attempt.p, attempt'.start = attempt.start, attempt'.i = attempt.i,
         attempt'.clock = attempt.clock + cost, attempt'.at = to, attempt'.tries = tries,
         \/ to \in {"guard", "version", "credential"} /\ tries = 0
         \/ to = "turn" /\ tries < Asks(plan, attempt.p, Channel(plan))
              /\ (Channel(plan) # "agy" => tries = 0)
         \/ to = "judge" /\ tries <= Asks(plan, attempt.p, Channel(plan))
              /\ (Channel(plan) # "agy" => tries = 1)
         \/ to = "snapshot" /\ Channel(plan) = "direct" /\ tries = 1
              /\ Asks(plan, attempt.p, Channel(plan)) = 2
         \/ to = "done"
  PROVE  TriesInv'
<1>1. Channel(plan)' = Channel(plan)
  BY DEF Channel
<1> DEFINE asks == Asks(plan, attempt.p, Channel(plan))
<1>2. asks' = asks
  BY <1>1
<1>3. attempt'.clock \in Nat
  BY DEF TriesInv
<1> HIDE DEF asks
<1>4. QED
  BY <1>1, <1>2, <1>3 DEF TriesInv, asks

\* A step before the turn is paid out of what the channel has left.
LEMMA OpensOn ==
  ASSUME plan \in Plans, AttemptType, Attempting, AttemptClockInv, UNCHANGED plan,
         attempt.at \in {"visit", "guard", "version", "credential"},
         NEW to \in {"guard", "version", "credential", "turn"}, NEW cost \in Nat,
         attempt' = [attempt EXCEPT !.at = to, !.clock = attempt.clock + cost],
         HereAt(plan, attempt.p, attempt.start, attempt.i, to, 0) \in Nat,
         cost + HereAt(plan, attempt.p, attempt.start, attempt.i, to, 0) <= Here
  PROVE  AttemptClockInv'
<1>1. AttemptShape /\ TriesInv /\ attempt.tries = 0
  BY AttemptTimes DEF TriesInv
<1>2. /\ attempt'.p = attempt.p /\ attempt'.start = attempt.start /\ attempt'.i = attempt.i
      /\ attempt'.clock = attempt.clock + cost /\ attempt'.at = to /\ attempt'.tries = 0
  BY <1>1 DEF AttemptShape
<1>3. 0 \in Nat /\ 0 < Asks(plan, attempt.p, Channel(plan))
  BY HereCosts
<1>4. TriesInv'
  <2>1. PICK tries \in Nat : tries = 0
    OBVIOUS
  <2>2. QED
    BY <1>1, <1>2, <1>3, <2>1, TriesStay
<1>5. QED
  BY <1>2, <1>4, SpendsHere

\* An attempt that is accepted is over.
LEMMA AcceptsInTime ==
  ASSUME plan \in Plans, AttemptType, Attempting, AttemptClockInv, UNCHANGED plan,
         attempt.at # "done", NEW cost \in Nat, Here \in Nat, cost <= Here,
         attempt'.p = attempt.p, attempt'.start = attempt.start, attempt'.i = attempt.i,
         attempt'.tries = attempt.tries, attempt'.clock = attempt.clock + cost,
         attempt'.at = "done"
  PROVE  AttemptClockInv'
<1>1. TriesInv /\ attempt.tries \in Nat
  BY AttemptTimes
<1>2. TriesInv'
  BY <1>1, TriesStay
<1>3. PICK next \in Nat : next = 0
  OBVIOUS
<1>4. cost + next <= Here
  BY <1>3
<1>5. QED
  BY <1>2, <1>4, SpendsHere

\* Every step of an attempt is paid out of what the chain has left.
LEMMA AttemptClockStep ==
  ASSUME plan \in Plans, AttemptType, AttemptClockInv, AttemptStep(plan), UNCHANGED plan
  PROVE  AttemptClockInv'
<1>1. Attempting /\ attempt.at # "done"
  BY DEF AttemptStep, Visit, AgyGuard, On, agy_version, codex_version, _key_reader, Turn,
         CannotAsk, WriteFails, codex_run, pi_run_judged, _run_agy, agy_run, direct_run,
         _write_snapshot, Attempting
<1> DEFINE ch == Channel(plan)
           asks == Asks(plan, attempt.p, ch)
           cost == TurnCost(ch)
           left(at, tries) == HereAt(plan, attempt.p, attempt.start, attempt.i, at, tries)
<1>2. /\ ch \in Channels /\ asks \in Nat \ {0} /\ cost \in Nat /\ asks * cost \in Nat
      /\ attempt.clock \in Nat /\ attempt.tries \in Nat
      /\ run_bounded(20, 0) \in Nat /\ agent_listed \in Nat /\ direct_ready \in Nat
      /\ _prepare(attempt.p, ch) \in Nat /\ _turn(plan, attempt.p, ch) \in Nat
      /\ PrepareCost(attempt.p, ch) = _prepare(attempt.p, ch)
      /\ left("visit", 0) = _turn(plan, attempt.p, ch)
           + IF attempt.i = attempt.start THEN 0 ELSE _prepare(attempt.p, ch)
      /\ left("guard", 0) = agent_listed + run_bounded(20, 0) + asks * cost
      /\ left("version", 0) = run_bounded(20, 0) + asks * cost
      /\ left("credential", 0) = direct_ready + asks * cost
      /\ left("turn", 0) = asks * cost
      /\ \A at \in {"turn", "judge", "snapshot"}, tries \in Nat : left(at, tries) = (asks - tries) * cost
      /\ Here = left(attempt.at, attempt.tries)
  BY <1>1, HereCosts
<1>3. /\ AttemptShape /\ TriesInv
  BY <1>1, AttemptTimes
<1>4. left(Opening(ch), 0) = _turn(plan, attempt.p, ch)
  BY <1>1, OpeningCost
<1> DEFINE turns == asks * cost
<1> HIDE DEF ch, asks, cost, left, turns
<1>5. /\ attempt.at \in {"visit", "guard", "version", "credential"} =>
           attempt.tries = 0 /\ Here = left(attempt.at, 0)
      /\ attempt.at = "turn" => attempt.tries < asks /\ (ch # "agy" => attempt.tries = 0)
      /\ attempt.at = "judge" => attempt.tries <= asks /\ (ch # "agy" => attempt.tries = 1)
      /\ attempt.at = "snapshot" => ch = "direct" /\ attempt.tries = 1 /\ asks = 2
  BY <1>2, <1>3 DEF TriesInv, ch, asks
<1>6. attempt.at \in {"turn", "judge", "snapshot"} =>
        Here = (asks - attempt.tries) * cost /\ Here \in Nat /\ 0 <= Here
  <2> SUFFICES ASSUME attempt.at \in {"turn", "judge", "snapshot"}
               PROVE  Here = (asks - attempt.tries) * cost /\ Here \in Nat /\ 0 <= Here
    OBVIOUS
  <2>1. Here = (asks - attempt.tries) * cost
    BY <1>2
  <2>2. asks - attempt.tries \in Nat
    BY <1>2, <1>5
  <2>3. (asks - attempt.tries) * cost \in Nat
    BY <1>2, <2>2
  <2>4. QED
    BY <2>1, <2>3
<1>7. ASSUME attempt.at \in {"turn", "judge"}, NEW last, NextChannel(plan, 0, last)
      PROVE  AttemptClockInv'
  <2>1. PICK none \in Nat : none = 0
    OBVIOUS
  <2>2. NextChannel(plan, none, last) /\ none <= Here /\ Here \in Nat
    BY <1>6, <1>7, <2>1
  <2>3. QED
    BY <1>1, <2>2, LeavesInTime
<1>8. ASSUME attempt.at = "judge", NEW change, Accept(change),
             change.p = attempt.p, change.start = attempt.start, change.i = attempt.i,
             change.tries = attempt.tries, change.clock = attempt.clock,
             \E capture : change = [attempt EXCEPT !.capture = capture]
      PROVE  AttemptClockInv'
  <2>1. PICK none \in Nat : none = 0
    OBVIOUS
  <2>2. attempt' = [change EXCEPT !.at = "done", !.success = TRUE]
    BY <1>8 DEF Accept
  <2>3. /\ attempt'.p = attempt.p /\ attempt'.start = attempt.start /\ attempt'.i = attempt.i
        /\ attempt'.tries = attempt.tries /\ attempt'.clock = attempt.clock + none
        /\ attempt'.at = "done"
    BY <1>2, <1>3, <1>8, <2>1, <2>2 DEF AttemptShape
  <2>4. none <= Here /\ Here \in Nat
    BY <1>6, <1>8, <2>1
  <2>5. QED
    BY <1>1, <2>3, <2>4, AcceptsInTime
<1>9. ASSUME attempt.at = "judge", Accept(attempt) PROVE AttemptClockInv'
  <2>1. attempt = [attempt EXCEPT !.capture = attempt.capture]
    BY <1>3 DEF AttemptShape
  <2>2. QED
    BY <1>8, <1>9, <2>1
<1>10. CASE Visit(plan)
  <2>1. attempt.at = "visit" /\ Opening(ch) \in {"guard", "version", "credential", "turn"}
    BY <1>2, <1>10 DEF Visit, Opening, Channels, ch
  <2>2. Here = _turn(plan, attempt.p, ch)
                 + IF attempt.i = attempt.start THEN 0 ELSE _prepare(attempt.p, ch)
    BY <1>2, <1>5, <2>1
  <2>3. CASE attempt.i = attempt.start
    <3>1. PICK none \in Nat : none = 0
      OBVIOUS
    <3>2. attempt' = [attempt EXCEPT !.at = Opening(ch)]
      BY <1>10, <2>3 DEF Visit, ch
    <3>3. attempt' = [attempt EXCEPT !.at = Opening(ch), !.clock = attempt.clock + none]
      <4>1. attempt.clock + none = attempt.clock
        BY <1>2, <3>1
      <4>2. QED
        BY <1>3, <3>2, <4>1 DEF AttemptShape
    <3>4. left(Opening(ch), 0) \in Nat /\ none + left(Opening(ch), 0) <= Here
      BY <1>2, <1>4, <2>2, <2>3, <3>1
    <3>5. QED
      BY <1>1, <2>1, <3>3, <3>4, OpensOn DEF left
  <2>4. CASE attempt.i # attempt.start
    <3> DEFINE prepare == _prepare(attempt.p, ch)
    <3>1. \/ Spend(prepare, [attempt EXCEPT !.at = Opening(ch)])
          \/ NextChannel(plan, prepare, attempt.last)
      BY <1>2, <1>10, <2>4 DEF Visit, Raises, ch
    <3>2. /\ prepare \in Nat /\ Here \in Nat /\ prepare <= Here
          /\ left(Opening(ch), 0) \in Nat /\ prepare + left(Opening(ch), 0) <= Here
      BY <1>2, <1>4, <2>2, <2>4
    <3> HIDE DEF prepare
    <3>3. CASE Spend(prepare, [attempt EXCEPT !.at = Opening(ch)])
      <4>1. attempt' = [attempt EXCEPT !.at = Opening(ch), !.clock = attempt.clock + prepare]
        BY <1>3, <3>3 DEF Spend, AttemptShape
      <4>2. QED
        BY <1>1, <2>1, <3>2, <4>1, OpensOn DEF left
    <3>4. CASE NextChannel(plan, prepare, attempt.last)
      BY <1>1, <3>2, <3>4, LeavesInTime
    <3>5. QED
      BY <3>1, <3>3, <3>4
  <2>5. QED
    BY <2>3, <2>4
<1>11. CASE AgyGuard(plan)
  <2>1. attempt.at = "guard"
    BY <1>11 DEF AgyGuard, On
  <2>2. Here = agent_listed + run_bounded(20, 0) + turns
    BY <1>2, <1>5, <2>1 DEF turns
  <2>3. /\ Here \in Nat /\ agent_listed <= Here /\ left("version", 0) \in Nat
        /\ agent_listed + left("version", 0) <= Here
    <3>1. turns \in Nat /\ left("version", 0) = run_bounded(20, 0) + turns
      BY <1>2 DEF turns
    <3>2. run_bounded(20, 0) \in Nat /\ agent_listed \in Nat
      BY <1>2
    <3>3. QED
      BY <2>2, <3>1, <3>2
  <2>4. CASE Spend(agent_listed, [attempt EXCEPT !.at = "version"])
    <3>1. attempt' = [attempt EXCEPT !.at = "version", !.clock = attempt.clock + agent_listed]
      BY <1>3, <2>4 DEF Spend, AttemptShape
    <3>2. QED
      BY <1>1, <1>2, <2>1, <2>3, <3>1, OpensOn DEF left
  <2>5. CASE NextChannel(plan, agent_listed, ch)
    BY <1>1, <1>2, <2>3, <2>5, LeavesInTime
  <2>6. QED
    BY <1>11, <2>4, <2>5 DEF AgyGuard, Fails, ch
<1>12. CASE agy_version(plan) \/ codex_version(plan)
  <2>1. attempt.at = "version" /\ Spend(run_bounded(20, 0), [attempt EXCEPT !.at = "turn"])
    BY <1>12 DEF agy_version, codex_version, On
  <2>2. Here = run_bounded(20, 0) + turns
    BY <1>2, <1>5, <2>1 DEF turns
  <2>3. left("turn", 0) \in Nat /\ run_bounded(20, 0) + left("turn", 0) <= Here
    BY <1>2, <2>2 DEF turns
  <2>4. attempt' = [attempt EXCEPT !.at = "turn", !.clock = attempt.clock + run_bounded(20, 0)]
    BY <1>3, <2>1 DEF Spend, AttemptShape
  <2>5. QED
    BY <1>1, <1>2, <2>1, <2>3, <2>4, OpensOn DEF left
<1>13. CASE _key_reader(plan)
  <2>1. attempt.at = "credential"
    BY <1>13 DEF _key_reader, On
  <2>2. Here = direct_ready + turns
    BY <1>2, <1>5, <2>1 DEF turns
  <2>3. /\ Here \in Nat /\ direct_ready <= Here /\ left("turn", 0) \in Nat
        /\ direct_ready + left("turn", 0) <= Here
    BY <1>2, <2>2 DEF turns
  <2>4. CASE Spend(direct_ready, [attempt EXCEPT !.at = "turn"])
    <3>1. attempt' = [attempt EXCEPT !.at = "turn", !.clock = attempt.clock + direct_ready]
      BY <1>3, <2>4 DEF Spend, AttemptShape
    <3>2. QED
      BY <1>1, <1>2, <2>1, <2>3, <3>1, OpensOn DEF left
  <2>5. CASE NextChannel(plan, direct_ready, ch)
    BY <1>1, <1>2, <2>3, <2>5, LeavesInTime
  <2>6. QED
    BY <1>13, <2>4, <2>5 DEF _key_reader, Fails, ch
<1>14. CASE Turn(plan)
  <2>1. PICK t \in TurnsOf(Channel(plan)) :
          Spend(cost, [attempt EXCEPT !.at = "judge", !.turn = t, !.tries = @ + 1,
                                      !.billed = @ + IF t.billed THEN 1 ELSE 0])
    BY <1>14 DEF Turn, cost, ch
  <2> DEFINE tries == attempt.tries + 1
             billed == attempt.billed + IF t.billed THEN 1 ELSE 0
  <2>2. attempt' = [[attempt EXCEPT !.at = "judge", !.turn = t, !.tries = tries, !.billed = billed]
                    EXCEPT !.clock = @ + cost]
    BY <2>1 DEF Spend
  <2>3. attempt.at = "turn" /\ tries \in Nat /\ tries = attempt.tries + 1
    BY <1>2, <1>14 DEF Turn
  <2> HIDE DEF tries, billed
  <2>4. /\ attempt'.p = attempt.p /\ attempt'.start = attempt.start /\ attempt'.i = attempt.i
        /\ attempt'.clock = attempt.clock + cost /\ attempt'.at = "judge" /\ attempt'.tries = tries
    BY <1>3, <2>2 DEF AttemptShape
  <2>5. tries <= asks /\ (ch # "agy" => tries = 1)
    BY <1>2, <1>5, <2>3
  <2>6. TriesInv'
    BY <1>2, <1>3, <2>3, <2>4, <2>5, TriesStay DEF ch, asks
  <2> DEFINE next == (asks - tries) * cost
  <2>7. next \in Nat /\ left("judge", tries) = next
    <3>1. asks - tries \in Nat
      BY <1>2, <2>3, <2>5
    <3>2. QED
      BY <1>2, <2>3, <3>1
  <2>8. cost + next <= Here
    <3> DEFINE more == asks - attempt.tries
    <3>1. more \in Nat /\ more # 0 /\ more - 1 = asks - tries
      BY <1>2, <1>5, <2>3
    <3>2. Here = more * cost
      BY <1>6, <2>3
    <3> HIDE DEF more
    <3>3. more * cost = cost + (more - 1) * cost
      BY <1>2, <3>1, Product
    <3>4. QED
      BY <1>2, <2>7, <3>1, <3>2, <3>3
  <2> HIDE DEF next
  <2>9. QED
    BY <1>1, <1>2, <2>4, <2>6, <2>7, <2>8, SpendsHere DEF left
<1>15. CASE CannotAsk(plan)
  BY <1>7, <1>15 DEF CannotAsk, Raises
<1>16. CASE WriteFails(plan)
  BY <1>7, <1>16 DEF WriteFails, LoseTurn, Raises
<1>17. CASE codex_run(plan)
  BY <1>7, <1>9, <1>17 DEF codex_run, On, Fails
<1>18. CASE agy_run(plan)
  BY <1>7, <1>9, <1>18 DEF agy_run, On, Fails
<1>19. CASE pi_run_judged(plan)
  <2>1. CASE Accepted(plan)
    <3> DEFINE change == [attempt EXCEPT !.capture = Captures(plan, "pi")]
    <3>1. attempt.at = "judge" /\ Accept(change)
      BY <1>19, <2>1 DEF pi_run_judged, On
    <3>2. /\ change.p = attempt.p /\ change.start = attempt.start /\ change.i = attempt.i
          /\ change.tries = attempt.tries /\ change.clock = attempt.clock
      BY <1>3 DEF AttemptShape
    <3>3. \E capture : change = [attempt EXCEPT !.capture = capture]
      OBVIOUS
    <3> HIDE DEF change
    <3>4. QED
      BY <1>8, <3>1, <3>2, <3>3
  <2>2. CASE ~Accepted(plan)
    BY <1>7, <1>19, <2>2 DEF pi_run_judged, On, Fails
  <2>3. QED
    BY <2>1, <2>2
<1>20. CASE _run_agy(plan)
  <2>1. /\ attempt.at = "judge" /\ ch = "agy" /\ attempt' = [attempt EXCEPT !.at = "turn"]
        /\ attempt.tries <= Budget.agy_transient_attempts
    BY <1>20 DEF _run_agy, On, ch
  <2>2. PICK none \in Nat : none = 0
    OBVIOUS
  <2>3. /\ attempt'.p = attempt.p /\ attempt'.start = attempt.start /\ attempt'.i = attempt.i
        /\ attempt'.clock = attempt.clock + none /\ attempt'.at = "turn"
        /\ attempt'.tries = attempt.tries
    BY <1>2, <1>3, <2>1, <2>2 DEF AttemptShape
  <2>4. attempt.tries < asks
    <3>1. asks = Budget.agy_transient_attempts + 1
      BY <2>1 DEF asks, Asks
    <3>2. attempt.tries \in Nat /\ Budget.agy_transient_attempts \in Nat
      BY <1>2, BudgetNumbers
    <3>3. QED
      BY <2>1, <3>1, <3>2
  <2>5. TriesInv'
    BY <1>2, <1>3, <2>1, <2>3, <2>4, TriesStay DEF ch, asks
  <2>6. left("turn", attempt.tries) = Here /\ Here \in Nat
    <3>1. left("turn", attempt.tries) = (asks - attempt.tries) * cost
      BY <1>2
    <3>2. Here = (asks - attempt.tries) * cost /\ Here \in Nat
      BY <1>6, <2>1
    <3>3. QED
      BY <3>1, <3>2
  <2>7. none + Here <= Here
    BY <2>2, <2>6
  <2>8. QED
    BY <1>1, <2>3, <2>5, <2>6, <2>7, SpendsHere DEF left
<1>21. CASE direct_run(plan)
  <2>1. attempt.at = "judge" /\ ch = "direct"
    BY <1>21 DEF direct_run, On, ch
  <2>2. CASE Accepted(plan) /\ CapturesSnapshot(plan, attempt.p)
    <3>1. attempt' = [attempt EXCEPT !.at = "snapshot"]
      BY <1>21, <2>2 DEF direct_run
    <3>2. PICK none \in Nat : none = 0
      OBVIOUS
    <3>3. /\ attempt'.p = attempt.p /\ attempt'.start = attempt.start /\ attempt'.i = attempt.i
          /\ attempt'.clock = attempt.clock + none /\ attempt'.at = "snapshot"
          /\ attempt'.tries = attempt.tries
      BY <1>2, <1>3, <3>1, <3>2 DEF AttemptShape
    <3>4. asks = 2 /\ attempt.tries = 1
      BY <1>5, <2>1, <2>2 DEF asks, Asks
    <3>5. TriesInv'
      BY <1>2, <1>3, <2>1, <3>3, <3>4, TriesStay DEF ch, asks
    <3>6. left("snapshot", attempt.tries) = Here /\ Here \in Nat
      BY <1>2, <1>6, <2>1
    <3>7. none + Here <= Here
      BY <3>2, <3>6
    <3>8. QED
      BY <1>1, <3>3, <3>5, <3>6, <3>7, SpendsHere DEF left
  <2>3. CASE ~(Accepted(plan) /\ CapturesSnapshot(plan, attempt.p))
    BY <1>7, <1>9, <1>21, <2>1, <2>3 DEF direct_run, Fails
  <2>4. QED
    BY <2>2, <2>3
<1>22. CASE _write_snapshot(plan)
  <2>1. attempt.at = "snapshot"
    BY <1>22 DEF _write_snapshot, On
  <2>2. ch = "direct" /\ attempt.tries = 1 /\ asks = 2
    BY <1>5, <2>1
  <2>3. cost = _curl
    BY <2>2 DEF cost, TurnCost
  <2>4. Here = cost /\ Here \in Nat /\ _curl \in Nat /\ _curl <= Here
    <3>1. Here = (2 - 1) * cost
      BY <1>6, <2>1, <2>2
    <3>2. QED
      BY <1>2, <2>3, <3>1
  <2>5. CASE LoseTurn(plan, _curl)
    BY <1>1, <2>4, <2>5, LeavesInTime DEF LoseTurn, Raises
  <2>6. ASSUME NEW capture, Accept([attempt EXCEPT !.clock = @ + _curl, !.capture = capture])
        PROVE  AttemptClockInv'
    <3>1. /\ attempt'.p = attempt.p /\ attempt'.start = attempt.start /\ attempt'.i = attempt.i
          /\ attempt'.tries = attempt.tries /\ attempt'.clock = attempt.clock + _curl
          /\ attempt'.at = "done"
      BY <1>3, <2>6 DEF Accept, AttemptShape
    <3>2. QED
      BY <1>1, <2>4, <3>1, AcceptsInTime
  <2>7. QED
    BY <1>22, <2>5, <2>6 DEF _write_snapshot
<1>23. QED
  BY <1>10, <1>11, <1>12, <1>13, <1>14, <1>15, <1>16, <1>17, <1>18, <1>19, <1>20, <1>21, <1>22
     DEF AttemptStep

\* What a step of the composition does to the attempt.
LEMMA AttemptSteps ==
  ASSUME [Next]_vars
  PROVE  /\ UNCHANGED plan
         /\ UNCHANGED attempt \/ attempt' = NoAttempt \/ RunModel \/ AttemptStep(plan)
<1>1. CASE UNCHANGED vars
  BY <1>1 DEF vars
<1>2. CASE Next /\ CommandStep
  <2>1. CASE RunModel \/ ModelDone
    BY <1>2, <2>1 DEF Next, ModelDone
  <2>2. CASE Begin \/ Ready \/ Prepare \/ FirstRound \/ EndRound
    BY <1>2, <2>2 DEF Next, Begin, Ready, Prepare, FirstRound, EndRound, KeepParts, KeepAttempt
  <2>3. CASE SaveSnapshot \/ SnapshotsSaved \/ QuotaLock \/ EndCollect \/ Card \/ CardDone
    BY <1>2, <2>3
       DEF Next, SaveSnapshot, SnapshotsSaved, QuotaLock, EndCollect, Card, CardDone, KeepAttempt
  <2>4. QED
    BY <1>2, <2>1, <2>2, <2>3 DEF CommandStep
<1>3. CASE Next /\ ~CommandStep
  BY <1>3 DEF Next, KeepAttempt
<1>4. QED
  BY <1>1, <1>2, <1>3

LEMMA HereIsLeft ==
  ASSUME plan \in Plans, AttemptType, Attempting, AttemptClockInv, attempt.at # "done"
  PROVE  Here \in Nat
<1> DEFINE ch == Channel(plan)
           asks == Asks(plan, attempt.p, ch)
           cost == TurnCost(ch)
           left(at, tries) == HereAt(plan, attempt.p, attempt.start, attempt.i, at, tries)
<1>1. /\ asks \in Nat /\ cost \in Nat /\ asks * cost \in Nat /\ attempt.tries \in Nat
      /\ run_bounded(20, 0) \in Nat /\ agent_listed \in Nat /\ direct_ready \in Nat
      /\ _prepare(attempt.p, ch) \in Nat /\ _turn(plan, attempt.p, ch) \in Nat
      /\ left("visit", 0) = _turn(plan, attempt.p, ch)
           + IF attempt.i = attempt.start THEN 0 ELSE _prepare(attempt.p, ch)
      /\ left("guard", 0) = agent_listed + run_bounded(20, 0) + asks * cost
      /\ left("version", 0) = run_bounded(20, 0) + asks * cost
      /\ left("credential", 0) = direct_ready + asks * cost
  BY HereCosts
<1>2. /\ \A at \in {"turn", "judge", "snapshot"}, tries \in Nat : left(at, tries) = (asks - tries) * cost
      /\ Here = left(attempt.at, attempt.tries)
  BY HereCosts
<1>3. TriesInv /\ attempt.at \in Before \cup {"judge", "snapshot"}
  BY AttemptTimes, ChannelIsKnown DEF Before
<1> DEFINE turns == asks * cost
<1> HIDE DEF ch, asks, cost, left, turns
<1>4. turns \in Nat
  BY <1>1 DEF turns
<1>5. CASE attempt.at \in {"visit", "guard", "version", "credential"}
  <2>1. Here = left(attempt.at, 0)
    BY <1>2, <1>3, <1>5 DEF TriesInv
  <2>2. CASE attempt.at = "visit"
    BY <1>1, <2>1, <2>2
  <2>3. CASE attempt.at # "visit"
    BY <1>1, <1>4, <1>5, <2>1, <2>3 DEF turns
  <2>4. QED
    BY <2>2, <2>3
<1>6. CASE attempt.at \in {"turn", "judge", "snapshot"}
  <2>1. Here = (asks - attempt.tries) * cost
    BY <1>1, <1>2, <1>6
  <2>2. asks - attempt.tries \in Nat
    BY <1>1, <1>3, <1>6 DEF TriesInv, asks, ch
  <2>3. QED
    BY <1>1, <2>1, <2>2
<1>7. QED
  BY <1>3, <1>5, <1>6 DEF Before

LEMMA AttemptClock == SpentIInv /\ AttemptClockInv /\ [Next]_vars => AttemptClockInv'
<1> SUFFICES ASSUME SpentIInv, AttemptClockInv, [Next]_vars PROVE AttemptClockInv'
  OBVIOUS
<1>1. plan \in Plans /\ AttemptType /\ UNCHANGED plan
  BY AttemptSteps DEF SpentIInv, CommandType
<1>2. CASE UNCHANGED attempt
  <2>1. Here' = Here /\ TriesInv' = TriesInv /\ Attempting' = Attempting
    BY <1>1, <1>2 DEF Here, TriesInv, Channel, Attempting
  <2>2. QED
    BY <1>1, <1>2, <2>1 DEF AttemptClockInv
<1>3. CASE attempt' = NoAttempt
  BY <1>3 DEF AttemptClockInv, NoAttempt, Attempting
<1>4. CASE RunModel
  <2>1. PICK p \in cmd.todo : Attempt(p, cmd.start[p])
    BY <1>4 DEF RunModel
  <2>2. p \in plan.opening /\ cmd.start[p] \in 1 .. Len(plan.chains[p])
    BY <1>4, <2>1 DEF RunModel, At_, SpentIInv, BurstInv, Bursting, CommandType
  <2> DEFINE s == cmd.start[p]
             cost == ChannelCosts(plan, p, s)
             beyond == Beyond(plan, p, s, s)
  <2>3. /\ attempt'.at = "visit" /\ attempt'.p = p /\ attempt'.start = s /\ attempt'.i = s
        /\ attempt'.clock = 0 /\ attempt'.tries = 0
    BY <2>1 DEF Attempt
  <2>4. /\ cost[s] \in Nat /\ beyond \in Nat
        /\ SumFunctionOnSet(cost, s .. Len(plan.chains[p])) = cost[s] + beyond
    BY <1>1, <2>2, ChainLeft
  <2>5. AttemptFrom(plan, attempt.p, attempt.start)' = cost[s] + beyond
    BY <1>1, <2>3, <2>4 DEF AttemptFrom
  <2>6. Here' = cost[s]
    BY <1>1, <2>3 DEF Here, HereAt
  <2>7. Beyond(plan, attempt.p, attempt.start, attempt.i)' = beyond
    BY <1>1, <2>3
  <2> HIDE DEF beyond, cost
  <2>8. attempt'.clock + Here' + beyond <= cost[s] + beyond
    BY <2>3, <2>4, <2>6
  <2>9. TriesInv'
    <3>1. Len(plan.chains[p]) \in Nat
      BY <1>1, <2>2, OpeningsAreProviders
    <3>2. s \in 1 .. s
      BY <2>2, <3>1
    <3>3. QED
      BY <2>3, <3>2 DEF TriesInv
  <2>10. QED
    BY <2>3, <2>5, <2>7, <2>8, <2>9 DEF AttemptClockInv
<1>5. CASE AttemptStep(plan)
  BY <1>1, <1>5, AttemptClockStep
<1>6. QED
  BY <1>2, <1>3, <1>4, <1>5, AttemptSteps

LEMMA ClockedAttempts == Spec => [](SpentIInv /\ PartsInv /\ AttemptClockInv)
<1>1. Init => SpentIInv /\ PartsInv /\ AttemptClockInv
  BY SpentInit DEF Init, NoAttempt, AttemptClockInv, Attempting
<1>2. SpentIInv /\ PartsInv /\ AttemptClockInv /\ [Next]_vars
        => (SpentIInv /\ PartsInv /\ AttemptClockInv)'
  BY SpentStep, AttemptClock
<1>3. QED
  BY <1>1, <1>2, PTL DEF Spec

(* For whatever deadlines and chains are configured, an attempt takes no   *)
(* longer than the share of the budget that its chain has from the         *)
(* prepared channel on, retries of the handshake and the second request    *)
(* for the snapshot included (runtime/budgets.py _turn, check_budget).     *)
THEOREM AttemptsInTime == Spec => []AttemptWithinBudget(plan)
<1>1. SpentIInv /\ AttemptClockInv => AttemptWithinBudget(plan)
  <2> SUFFICES ASSUME SpentIInv, AttemptClockInv, Attempting
               PROVE  attempt.clock <= AttemptFrom(plan, attempt.p, attempt.start)
    BY DEF AttemptWithinBudget
  <2>1. plan \in Plans /\ AttemptType
    BY DEF SpentIInv, CommandType
  <2>2. CASE attempt.at = "done"
    BY <2>2 DEF AttemptClockInv
  <2>3. CASE attempt.at # "done"
    <3>1. /\ attempt.clock \in Nat /\ AttemptFrom(plan, attempt.p, attempt.start) \in Nat
          /\ Beyond(plan, attempt.p, attempt.start, attempt.i) \in Nat
      BY <2>1, <2>3, AttemptTimes
    <3>2. Here \in Nat
      BY <2>1, <2>3, HereIsLeft
    <3>3. attempt.clock + Here + Beyond(plan, attempt.p, attempt.start, attempt.i)
            <= AttemptFrom(plan, attempt.p, attempt.start)
      BY <2>3 DEF AttemptClockInv
    <3>4. QED
      BY <3>1, <3>2, <3>3
  <2>4. QED
    BY <2>2, <2>3
<1>2. QED
  BY <1>1, ClockedAttempts, PTL

-----------------------------------------------------------------------------
(* The time of a command.                                                  *)

\* What the readiness reads cost, and the longest attempt of the plan.
Credentials(pl) == IF pl.notify THEN 3 * CredentialRead ELSE 0
Longest(pl) == Most({AttemptFrom(pl, p, 1) : p \in pl.opening})

LEMMA ManyProviders ==
  ASSUME plan \in Plans
  PROVE  IsFiniteSet(plan.opening) /\ plan.opening \subseteq PROVIDERS
<1>1. plan.opening \subseteq PROVIDERS
  BY OpeningsAreProviders
<1>2. IsFiniteSet(PROVIDERS)
  <2>1. IsFiniteSet({}) /\ PROVIDERS = ((({} \cup {"codex"}) \cup {"antigravity"}) \cup {"opencode"}) \cup {"clinepass"}
    BY FS_EmptySet DEF PROVIDERS
  <2>2. IsFiniteSet({} \cup {"codex"})
    BY <2>1, FS_AddElement
  <2>3. IsFiniteSet(({} \cup {"codex"}) \cup {"antigravity"})
    BY <2>2, FS_AddElement
  <2>4. IsFiniteSet((({} \cup {"codex"}) \cup {"antigravity"}) \cup {"opencode"})
    BY <2>3, FS_AddElement
  <2>5. IsFiniteSet(((({} \cup {"codex"}) \cup {"antigravity"}) \cup {"opencode"}) \cup {"clinepass"})
    BY <2>4, FS_AddElement
  <2>6. QED
    BY <2>1, <2>5
<1>3. QED
  BY <1>1, <1>2, FS_Subset

\* The preparations from a channel on.
LEMMA RestLeft ==
  ASSUME plan \in Plans, NEW p \in plan.opening, NEW i \in 1 .. Len(plan.chains[p])
  PROVE  /\ _prepare(p, plan.chains[p][i]) \in Nat
         /\ PrepareCost(p, plan.chains[p][i]) = _prepare(p, plan.chains[p][i])
         /\ Rest(plan, p, i + 1) \in Nat
         /\ Rest(plan, p, i) = _prepare(p, plan.chains[p][i]) + Rest(plan, p, i + 1)
<1> DEFINE n == Len(plan.chains[p])
           cost == Preparing(plan, p)
<1>1. n \in Nat /\ \A j \in 1 .. n : plan.chains[p][j] \in Channels
  BY OpeningsAreProviders
<1>2. \A j \in 1 .. n : cost[j] = _prepare(p, plan.chains[p][j]) /\ cost[j] \in Nat
  BY <1>1, Preparations DEF Preparing
<1>3. i \in Nat /\ i <= n /\ Costs(cost, i .. n)
  BY <1>1, <1>2 DEF Costs
<1>4. PrepareCost(p, plan.chains[p][i]) = _prepare(p, plan.chains[p][i])
  BY <1>1, Preparations
<1> HIDE DEF n, cost
<1>5. /\ cost[i] \in Nat /\ SumFunctionOnSet(cost, (i + 1) .. n) \in Nat
      /\ SumFunctionOnSet(cost, i .. n) = cost[i] + SumFunctionOnSet(cost, (i + 1) .. n)
  BY <1>1, <1>3, SumOfInterval
<1>6. cost[i] = _prepare(p, plan.chains[p][i])
  BY <1>2 DEF n
<1>7. QED
  BY <1>4, <1>5, <1>6 DEF Rest, n, cost

\* The preparations of several providers.
LEMMA EveryLeft ==
  ASSUME plan \in Plans, NEW S \in SUBSET plan.opening
  PROVE  /\ Every(plan, S) \in Nat
         /\ \A p \in S : /\ Every(plan, S \ {p}) \in Nat /\ Rest(plan, p, 1) \in Nat
                         /\ Every(plan, S) = Rest(plan, p, 1) + Every(plan, S \ {p})
         /\ \A T \in SUBSET (plan.opening \ S) :
              Every(plan, S) + Every(plan, T) <= Every(plan, plan.opening)
<1> DEFINE cost == WholeChains(plan)
<1>1. \A p \in plan.opening : Rest(plan, p, 1) \in Nat /\ cost[p] = Rest(plan, p, 1)
  <2> SUFFICES ASSUME NEW p \in plan.opening
               PROVE  Rest(plan, p, 1) \in Nat /\ cost[p] = Rest(plan, p, 1)
    OBVIOUS
  <2>1. 1 \in 1 .. Len(plan.chains[p])
    BY OpeningsAreProviders
  <2>2. Rest(plan, p, 1) \in Nat
    BY <2>1, RestLeft
  <2>3. QED
    BY <2>2 DEF WholeChains
<1>2. IsFiniteSet(plan.opening) /\ Costs(cost, plan.opening)
  BY <1>1, ManyProviders DEF Costs
<1> HIDE DEF cost
<1>3. \A T \in SUBSET plan.opening :
        IsFiniteSet(T) /\ Costs(cost, T) /\ SumFunctionOnSet(cost, T) \in Nat
  BY <1>2, SubsetCosts
<1>4. \A p \in S : SumFunctionOnSet(cost, S) = cost[p] + SumFunctionOnSet(cost, S \ {p})
  BY <1>3, SumSplit
<1>5. \A T \in SUBSET (plan.opening \ S) :
        SumFunctionOnSet(cost, S) + SumFunctionOnSet(cost, T) <= SumFunctionOnSet(cost, plan.opening)
  BY <1>2, SumsApart
<1>6. QED
  BY <1>1, <1>3, <1>4, <1>5 DEF Every, cost

\* An attempt from a later channel is not longer than one from the first.
LEMMA LaterIsShorter ==
  ASSUME plan \in Plans, NEW p \in plan.opening, NEW start \in 1 .. Len(plan.chains[p])
  PROVE  /\ AttemptFrom(plan, p, start) \in Nat /\ AttemptFrom(plan, p, 1) \in Nat
         /\ AttemptFrom(plan, p, start) <= AttemptFrom(plan, p, 1)
<1> DEFINE n == Len(plan.chains[p])
           cost(s) == ChannelCosts(plan, p, s)
<1>1. n \in Nat \ {0} /\ \A j \in 1 .. n : plan.chains[p][j] \in Channels
  BY OpeningsAreProviders
<1>2. \A s \in 1 .. n : \A j \in 1 .. n :
        /\ cost(s)[j] = _turn(plan, p, plan.chains[p][j])
                         + IF j = s THEN 0 ELSE _prepare(p, plan.chains[p][j])
        /\ _turn(plan, p, plan.chains[p][j]) \in Nat /\ _prepare(p, plan.chains[p][j]) \in Nat
  BY <1>1, TurnCosts, Preparations DEF ChannelCosts
<1>3. \A s \in 1 .. n : \A j \in 1 .. n : cost(s)[j] \in Nat
  BY <1>2
<1>4. \A j \in start .. n : cost(start)[j] <= cost(1)[j]
  <2> SUFFICES ASSUME NEW j \in start .. n PROVE cost(start)[j] <= cost(1)[j]
    OBVIOUS
  <2>1. j \in 1 .. n /\ 1 \in 1 .. n /\ (j = 1 => start = 1)
    BY <1>1
  <2>2. /\ cost(start)[j] = _turn(plan, p, plan.chains[p][j])
                             + IF j = start THEN 0 ELSE _prepare(p, plan.chains[p][j])
        /\ cost(1)[j] = _turn(plan, p, plan.chains[p][j])
                             + IF j = 1 THEN 0 ELSE _prepare(p, plan.chains[p][j])
        /\ _turn(plan, p, plan.chains[p][j]) \in Nat /\ _prepare(p, plan.chains[p][j]) \in Nat
    BY <1>2, <2>1
  <2> HIDE DEF cost
  <2>3. QED
    BY <2>1, <2>2
<1>5. IsFiniteSet(1 .. n) /\ start .. n \in SUBSET (1 .. n)
  <2> HIDE DEF n
  <2>1. n \in Int /\ 1 \in Int
    BY <1>1
  <2>2. IsFiniteSet(1 .. n)
    BY <2>1, FS_Interval
  <2>3. start \in 1 .. n
    BY DEF n
  <2>4. QED
    BY <2>1, <2>2, <2>3
<1>6. Costs(cost(start), start .. n) /\ Costs(cost(1), 1 .. n)
  <2>1. 1 \in 1 .. n
    BY <1>1
  <2>2. \A j \in 1 .. n : cost(start)[j] \in Nat /\ cost(1)[j] \in Nat
    BY <1>3, <2>1
  <2> HIDE DEF cost
  <2>3. QED
    BY <1>5, <2>2 DEF Costs
<1> HIDE DEF n, cost
<1>7. SumFunctionOnSet(cost(start), start .. n) <= SumFunctionOnSet(cost(1), 1 .. n)
  BY <1>4, <1>5, <1>6, SumGrows
<1>8. SumFunctionOnSet(cost(start), start .. n) \in Nat /\ SumFunctionOnSet(cost(1), 1 .. n) \in Nat
  BY <1>5, <1>6, FS_Subset, SumType
<1>9. QED
  BY <1>7, <1>8 DEF AttemptFrom, n, cost

LEMMA RoundIsBounded ==
  ASSUME plan \in Plans, NEW S \in SUBSET plan.opening, NEW start,
         \A p \in plan.opening : start[p] \in 1 .. Len(plan.chains[p])
  PROVE  LET longest == Most({AttemptFrom(plan, p, start[p]) : p \in S})
         IN  /\ longest \in Nat /\ Longest(plan) \in Nat /\ longest <= Longest(plan)
<1> DEFINE T == {AttemptFrom(plan, p, start[p]) : p \in S}
           U == {AttemptFrom(plan, p, 1) : p \in plan.opening}
<1>1. \A p \in plan.opening :
        /\ AttemptFrom(plan, p, start[p]) \in Nat /\ AttemptFrom(plan, p, 1) \in Nat
        /\ AttemptFrom(plan, p, start[p]) <= AttemptFrom(plan, p, 1)
  BY LaterIsShorter
<1>2. IsFiniteSet(plan.opening) /\ IsFiniteSet(S)
  BY ManyProviders, FS_Subset
<1>3. IsFiniteSet(T) /\ IsFiniteSet(U)
  <2> DEFINE f == [p \in S |-> AttemptFrom(plan, p, start[p])]
             g == [p \in plan.opening |-> AttemptFrom(plan, p, 1)]
  <2>1. f \in Surjection(S, T) /\ g \in Surjection(plan.opening, U)
    BY DEF Surjection
  <2> HIDE DEF f, g, T, U
  <2>2. QED
    BY <1>2, <2>1, FS_Surjection
<1>4. T \subseteq Nat /\ U \subseteq Nat
  BY <1>1
<1>5. \A t \in T : \E u \in U : t <= u
  BY <1>1
<1> HIDE DEF T, U
<1>6. /\ Most(T) \in Nat /\ (Most(T) = 0 \/ Most(T) \in T)
      /\ Most(U) \in Nat /\ \A u \in U : u <= Most(U)
  BY <1>3, <1>4, Greatest
<1>7. Most(T) <= Most(U)
  BY <1>4, <1>5, <1>6
<1>8. QED
  BY <1>6, <1>7 DEF Longest, T, U

\* Whom the burst of a phase opens.
Opened(c) == IF c.phase = "retry" THEN c.retry ELSE c.due

\* The rounds before round k with the pauses after them, and k rounds.
Passed(pl, k) == (k - 1) * (Longest(pl) + Budget.retry_interval)
BurstCost(pl, S, k) == Credentials(pl) + Every(pl, S) + Passed(pl, k) + Longest(pl)

\* What a command may have spent: before its phase; when its burst is prepared
\* and when it is over; and when it comes to a stage outside a burst.
Base(pl, c) ==
  IF c.phase = "initial"
  THEN BurstCost(pl, c.retry, Budget.watchdog_attempts) + probe_phase(pl) + _delivery(pl) ELSE 0
Prepared(pl, c) == Base(pl, c) + Credentials(pl) + Every(pl, Opened(c))
Rounds(c) == IF c.phase = "retry" THEN Budget.watchdog_attempts ELSE Budget.initial_attempts
AfterBurst(pl, c) ==
  IF c.phase = "usage" THEN 0 ELSE Base(pl, c) + BurstCost(pl, Opened(c), Rounds(c))
Waits(c) == IF c.phase = "retry" THEN 0 ELSE Budget.quota_wait
Ceiling(pl, c, stage) ==
  CASE stage = "begin"            -> 0
    [] stage \in {"save", "lock"} -> AfterBurst(pl, c)
    [] stage = "collect"          -> AfterBurst(pl, c) + Waits(c)
    [] stage = "card"             -> AfterBurst(pl, c) + Waits(c) + probe_phase(pl)
    [] stage = "ended"            -> AfterBurst(pl, c) + Waits(c) + probe_phase(pl) + _delivery(pl)

PhaseInv ==
  /\ cmd.phase \in {"usage", "retry", "initial"}
  /\ cmd.phase = "usage" <=> plan.opening = {}
  /\ cmd.stage \in AtRest \cup {"ready", "prepare", "round"}
  /\ cmd.phase = "usage" => cmd.stage \in AtRest

SpendingInv ==
  /\ cmd.elapsed \in Nat
  /\ cmd.stage \in AtRest => cmd.elapsed <= Ceiling(plan, cmd, cmd.stage)
  /\ cmd.stage = "ready" => cmd.elapsed <= Base(plan, cmd) /\ cmd.burst = Opened(cmd)
  /\ cmd.stage = "prepare" =>
       /\ cmd.elapsed <= Prepared(plan, cmd)
       /\ \A p \in cmd.todo : First(p) =>
            cmd.elapsed + Rest(plan, p, cmd.channel) + Every(plan, cmd.todo \ {p})
              <= Prepared(plan, cmd)
  /\ cmd.stage = "round" =>
       /\ cmd.round \in 1 .. Rounds(cmd)
       /\ cmd.elapsed <= Prepared(plan, cmd) + Passed(plan, cmd.round)

ElapsedInv == PhaseInv /\ SpendingInv

LEMMA RoundNumbers ==
  ASSUME plan \in Plans
  PROVE  /\ Longest(plan) \in Nat /\ Budget.retry_interval \in Nat
         /\ \A k \in Nat \ {0} : Passed(plan, k) \in Nat
         /\ \A k \in Nat \ {0} :
              Passed(plan, k + 1) = Passed(plan, k) + Longest(plan) + Budget.retry_interval
         /\ \A k \in Nat \ {0} : \A j \in 1 .. k : Passed(plan, j) <= Passed(plan, k)
         /\ Passed(plan, 1) = 0
<1>1. Longest(plan) \in Nat /\ Budget.retry_interval \in Nat
  <2>1. PICK S \in SUBSET plan.opening : S = {}
    OBVIOUS
  <2> DEFINE start == [p \in plan.opening |-> 1]
  <2>2. \A p \in plan.opening : start[p] \in 1 .. Len(plan.chains[p])
    BY OpeningsAreProviders
  <2> HIDE DEF start
  <2>3. Longest(plan) \in Nat
    BY <2>1, <2>2, RoundIsBounded
  <2>4. QED
    BY <2>3, BudgetNumbers
<1> DEFINE step == Longest(plan) + Budget.retry_interval
<1>2. step \in Nat /\ step = Longest(plan) + Budget.retry_interval
  BY <1>1
<1>3. \A k : Passed(plan, k) = (k - 1) * step
  BY DEF Passed
<1> HIDE DEF step
<1>4. ASSUME NEW k \in Nat \ {0} PROVE Passed(plan, k) \in Nat
  <2>1. k - 1 \in Nat
    OBVIOUS
  <2>2. (k - 1) * step \in Nat
    BY <1>2, <2>1, Product
  <2>3. QED
    BY <1>3, <2>2
<1>5. ASSUME NEW k \in Nat \ {0}
      PROVE  Passed(plan, k + 1) = Passed(plan, k) + Longest(plan) + Budget.retry_interval
  <2>1. k \in Nat /\ k # 0 /\ (k + 1) - 1 = k
    OBVIOUS
  <2>2. k * step = step + (k - 1) * step
    BY <1>2, <2>1, Product
  <2>3. Passed(plan, k + 1) = k * step
    BY <1>3, <2>1
  <2>4. Passed(plan, k) = (k - 1) * step /\ Passed(plan, k) \in Nat
    BY <1>3, <1>4
  <2>5. Passed(plan, k + 1) = step + Passed(plan, k)
    BY <2>2, <2>3, <2>4
  <2>6. QED
    BY <1>1, <1>2, <2>4, <2>5
<1>6. ASSUME NEW k \in Nat \ {0}, NEW j \in 1 .. k PROVE Passed(plan, j) <= Passed(plan, k)
  <2>1. k - 1 \in Nat /\ j - 1 \in Nat /\ j - 1 <= k - 1
    OBVIOUS
  <2>2. (j - 1) * step <= (k - 1) * step
    BY <1>2, <2>1, Product
  <2>3. QED
    BY <1>3, <2>2
<1>7. Passed(plan, 1) = 0
  <2>1. 0 * step = 0
    BY <1>2
  <2>2. QED
    BY <1>3, <2>1
<1>8. QED
  BY <1>1, <1>4, <1>5, <1>6, <1>7

LEMMA Parts ==
  ASSUME plan \in Plans
  PROVE  /\ probe_phase(plan) \in Nat /\ _delivery(plan) \in Nat /\ preparation(plan) \in Nat
         /\ Credentials(plan) \in Nat /\ CredentialRead = _credential /\ _credential \in Nat
<1>1. probe_phase(plan) \in Nat
  <2> DEFINE f == [i \in DOMAIN plan.probes |-> TiersFrom(plan, plan.probes[i], 1)]
  <2>1. /\ plan.probes \in Seq(PROVIDERS) /\ DOMAIN plan.probes = 1 .. Len(plan.probes)
        /\ Len(plan.probes) \in Nat
    BY PlansAssumption
  <2>2. \A i \in DOMAIN plan.probes : f[i] \in Nat
    BY LadderTotal DEF Probed
  <2>3. DOMAIN f = DOMAIN plan.probes
    OBVIOUS
  <2>4. probe_phase(plan) = SumFunctionOnSet(f, DOMAIN f)
    BY DEF probe_phase, SumFunction
  <2> HIDE DEF f
  <2>5. IsFiniteSet(DOMAIN f)
    <3>1. 1 \in Int /\ Len(plan.probes) \in Int
      BY <2>1
    <3>2. QED
      BY <2>1, <2>3, <3>1, FS_Interval
  <2>6. Costs(f, DOMAIN f)
    BY <2>2, <2>3 DEF Costs
  <2>7. QED
    BY <2>4, <2>5, <2>6, SumType
<1>2. preparation(plan) \in Nat
  <2> DEFINE f == [p \in plan.opening |-> _prepare(p, plan.chains[p][1])]
  <2>1. \A p \in plan.opening : f[p] \in Nat
    <3> SUFFICES ASSUME NEW p \in plan.opening PROVE _prepare(p, plan.chains[p][1]) \in Nat
      OBVIOUS
    <3>1. 1 \in 1 .. Len(plan.chains[p])
      BY OpeningsAreProviders
    <3>2. QED
      BY <3>1, RestLeft
  <2>2. DOMAIN f = plan.opening
    OBVIOUS
  <2>3. preparation(plan) = SumFunctionOnSet(f, DOMAIN f)
    BY DEF preparation, SumFunction
  <2> HIDE DEF f
  <2>4. IsFiniteSet(DOMAIN f) /\ Costs(f, DOMAIN f)
    BY <2>1, <2>2, ManyProviders DEF Costs
  <2>5. QED
    BY <2>3, <2>4, SumType
<1>3. CredentialRead = _credential /\ _credential \in Nat
  BY BudgetNumbers DEF CredentialRead, _credential, CLEANUP_ALLOWANCE_SECONDS
<1>4. _delivery(plan) \in Nat /\ Credentials(plan) \in Nat
  BY <1>3, BudgetNumbers DEF _delivery, Credentials
<1>5. QED
  BY <1>1, <1>2, <1>3, <1>4

\* The bounds are numbers, in the order in which a command reaches them.
LEMMA Ceilings ==
  ASSUME plan \in Plans, NEW c, c.retry \subseteq plan.opening, c.due \subseteq plan.opening
  PROVE  /\ Base(plan, c) \in Nat /\ Prepared(plan, c) \in Nat /\ AfterBurst(plan, c) \in Nat
         /\ Waits(c) \in Nat /\ Rounds(c) \in Nat \ {0}
         /\ Base(plan, c) + Credentials(plan) <= Prepared(plan, c)
         /\ c.phase # "usage" =>
              /\ Prepared(plan, c) <= AfterBurst(plan, c)
              /\ AfterBurst(plan, c) = Prepared(plan, c) + Passed(plan, Rounds(c)) + Longest(plan)
         /\ Every(plan, c.retry) \in Nat /\ Every(plan, Opened(c)) \in Nat
<1>1. Every(plan, c.retry) \in Nat /\ Every(plan, Opened(c)) \in Nat
  <2>1. Opened(c) \subseteq plan.opening
    BY DEF Opened
  <2>2. QED
    BY <2>1, EveryLeft
<1>2. Rounds(c) \in Nat \ {0} /\ Waits(c) \in Nat /\ Budget.watchdog_attempts \in Nat \ {0}
  BY BudgetNumbers DEF Rounds, Waits
<1>3. /\ Longest(plan) \in Nat /\ Passed(plan, Rounds(c)) \in Nat
      /\ Passed(plan, Budget.watchdog_attempts) \in Nat
  BY <1>2, RoundNumbers
<1>4. probe_phase(plan) \in Nat /\ _delivery(plan) \in Nat /\ Credentials(plan) \in Nat
  BY Parts
<1>5. Base(plan, c) \in Nat
  BY <1>1, <1>3, <1>4 DEF Base, BurstCost
<1>6. /\ Prepared(plan, c) \in Nat /\ Base(plan, c) + Credentials(plan) <= Prepared(plan, c)
      /\ Prepared(plan, c) = Base(plan, c) + Credentials(plan) + Every(plan, Opened(c))
  BY <1>1, <1>4, <1>5 DEF Prepared
<1>7. BurstCost(plan, Opened(c), Rounds(c)) =
        Credentials(plan) + Every(plan, Opened(c)) + Passed(plan, Rounds(c)) + Longest(plan)
  BY DEF BurstCost
<1>8. AfterBurst(plan, c) \in Nat
      /\ (c.phase # "usage" =>
            AfterBurst(plan, c) = Prepared(plan, c) + Passed(plan, Rounds(c)) + Longest(plan))
  BY <1>1, <1>3, <1>4, <1>5, <1>6, <1>7 DEF AfterBurst
<1>9. QED
  BY <1>1, <1>2, <1>3, <1>5, <1>6, <1>8

LEMMA Elapses ==
  ASSUME NEW s, Shape(s)
  PROVE  /\ \A stage : Then(s, stage).elapsed = s.elapsed
         /\ \A phase, S : Burst(s, phase, S).elapsed = s.elapsed
BY DEF Shape, Then, Burst

LEMMA Pays ==
  ASSUME CommandShape, NEW cost
  PROVE  LET paid == [cmd EXCEPT !.elapsed = @ + cost]
         IN  Agrees(paid) /\ Shape(paid) /\ paid.elapsed = cmd.elapsed + cost
BY PaidAgrees DEF CommandShape, Shape, Agrees

\* The command goes on, outside a burst.
LEMMA GoesOn ==
  ASSUME CommandType, PhaseInv, UNCHANGED plan,
         cmd'.phase = cmd.phase, cmd'.retry = cmd.retry,
         cmd'.due = cmd.due \/ cmd.phase = "retry",
         cmd'.stage \in AtRest \ {"begin"}, cmd'.elapsed \in Nat,
         cmd'.elapsed <= Ceiling(plan, cmd, cmd'.stage)
  PROVE  ElapsedInv'
<1>2. /\ AfterBurst(plan, cmd) = AfterBurst(plan, cmd)' /\ Waits(cmd) = Waits(cmd)'
  BY DEF AfterBurst, Base, Opened, Rounds, Waits
<1>3. Ceiling(plan', cmd', cmd'.stage) = Ceiling(plan, cmd, cmd'.stage)
  BY <1>2 DEF Ceiling, AtRest
<1>4. PhaseInv'
  BY DEF PhaseInv, AtRest
<1>5. SpendingInv'
  BY <1>3 DEF SpendingInv, AtRest
<1>6. QED
  BY <1>4, <1>5 DEF ElapsedInv

\* A burst begins.
LEMMA BeginsBurst ==
  ASSUME CommandType, PhaseInv, UNCHANGED plan, cmd.phase # "usage",
         cmd'.stage = "ready", cmd'.phase \in {"retry", "initial"},
         cmd'.burst = Opened(cmd'), cmd'.elapsed \in Nat, cmd'.elapsed <= Base(plan, cmd')
  PROVE  ElapsedInv'
<1>1. PhaseInv'
  BY DEF PhaseInv, AtRest
<1>2. SpendingInv'
  BY DEF SpendingInv, AtRest
<1>3. QED
  BY <1>1, <1>2 DEF ElapsedInv

\* The card is out of the way: the second burst, or the end.
LEMMA AfterCardElapsed ==
  ASSUME CommandType, PhaseInv, UNCHANGED plan, NEW s, Agrees(s), cmd' = AfterCard(s),
         s.elapsed \in Nat, s.elapsed <= Ceiling(plan, cmd, "ended")
  PROVE  ElapsedInv'
<1>1. CASE s.phase = "retry" /\ s.due # {}
  <2>1. cmd' = Burst(s, "initial", cmd.due) /\ Shape(s) /\ cmd.phase = "retry"
    BY <1>1 DEF AfterCard, Agrees
  <2>2. /\ cmd'.stage = "ready" /\ cmd'.burst = cmd.due /\ cmd'.retry = cmd.retry
        /\ cmd'.due = cmd.due /\ cmd'.phase = "initial" /\ cmd'.elapsed = s.elapsed
    BY <2>1, BurstFields, Elapses DEF Agrees
  <2>3. cmd'.burst = Opened(cmd')
    BY <2>2 DEF Opened
  <2>4. Ceiling(plan, cmd, "ended") = Base(plan, cmd')
    <3>1. AfterBurst(plan, cmd) = 0 + BurstCost(plan, cmd.retry, Budget.watchdog_attempts)
      BY <2>1 DEF AfterBurst, Base, Opened, Rounds
    <3>2. Ceiling(plan, cmd, "ended") = AfterBurst(plan, cmd) + 0 + probe_phase(plan) + _delivery(plan)
      BY <2>1 DEF Ceiling, Waits
    <3>3. Base(plan, cmd') = BurstCost(plan, cmd.retry, Budget.watchdog_attempts)
                               + probe_phase(plan) + _delivery(plan)
      BY <2>2 DEF Base
    <3>4. /\ AfterBurst(plan, cmd) \in Nat /\ probe_phase(plan) \in Nat /\ _delivery(plan) \in Nat
      BY Ceilings, Parts DEF CommandType
    <3>5. BurstCost(plan, cmd.retry, Budget.watchdog_attempts) \in Nat
      <4>1. Every(plan, cmd.retry) \in Nat /\ Credentials(plan) \in Nat
        BY Ceilings, Parts DEF CommandType
      <4>2. Passed(plan, Budget.watchdog_attempts) \in Nat /\ Longest(plan) \in Nat
        BY BudgetNumbers, RoundNumbers DEF CommandType
      <4>3. QED
        BY <4>1, <4>2 DEF BurstCost
    <3>6. QED
      BY <3>1, <3>2, <3>3, <3>4, <3>5
  <2>5. QED
    BY <2>1, <2>2, <2>3, <2>4, BeginsBurst
<1>2. CASE ~(s.phase = "retry" /\ s.due # {})
  <2>1. cmd' = Then(s, "ended") /\ Shape(s)
    BY <1>2, EndedFields DEF AfterCard, Agrees
  <2>2. /\ cmd'.stage = "ended" /\ cmd'.phase = cmd.phase /\ cmd'.retry = cmd.retry
        /\ cmd'.due = cmd.due /\ cmd'.elapsed = s.elapsed
    BY <2>1, ThenFields, Elapses DEF Agrees
  <2>3. QED
    BY <2>2, GoesOn DEF AtRest
<1>3. QED
  BY <1>1, <1>2

\* What the command may have spent when it ends, by what it may have spent before.
LEMMA EndsWithin ==
  ASSUME CommandType
  PROVE  /\ Ceiling(plan, cmd, "ended")
              = AfterBurst(plan, cmd) + Waits(cmd) + probe_phase(plan) + _delivery(plan)
         /\ AfterBurst(plan, cmd) \in Nat /\ Waits(cmd) \in Nat
         /\ probe_phase(plan) \in Nat /\ _delivery(plan) \in Nat /\ Credentials(plan) \in Nat
         /\ cmd.phase # "usage" => Prepared(plan, cmd) <= Ceiling(plan, cmd, "ended")
         /\ Base(plan, cmd) \in Nat /\ Prepared(plan, cmd) \in Nat
         /\ Base(plan, cmd) + Credentials(plan) <= Prepared(plan, cmd)
<1>1. plan \in Plans /\ cmd.retry \subseteq plan.opening /\ cmd.due \subseteq plan.opening
  BY DEF CommandType
<1>2. /\ Base(plan, cmd) \in Nat /\ Prepared(plan, cmd) \in Nat /\ AfterBurst(plan, cmd) \in Nat
      /\ Waits(cmd) \in Nat
      /\ Base(plan, cmd) + Credentials(plan) <= Prepared(plan, cmd)
      /\ cmd.phase # "usage" => Prepared(plan, cmd) <= AfterBurst(plan, cmd)
  BY <1>1, Ceilings
<1>3. /\ probe_phase(plan) \in Nat /\ _delivery(plan) \in Nat /\ Credentials(plan) \in Nat
  BY <1>1, Parts
<1>4. Ceiling(plan, cmd, "ended")
        = AfterBurst(plan, cmd) + Waits(cmd) + probe_phase(plan) + _delivery(plan)
  BY DEF Ceiling
<1>5. QED
  BY <1>2, <1>3, <1>4

LEMMA BeginElapsed ==
  ASSUME SpentIInv, ElapsedInv, Begin, UNCHANGED plan
  PROVE  ElapsedInv'
<1>1. /\ CommandType /\ Shape(cmd) /\ cmd.stage = "begin" /\ cmd.elapsed \in Nat /\ PhaseInv
      /\ cmd.retry = {} /\ cmd.due = {} /\ cmd.phase \in {"usage", "retry"}
  BY DEF Begin, At_, SpentIInv, BurstInv, CommandType, CommandShape, ElapsedInv, SpendingInv
<1>2. cmd.elapsed = 0
  <2>1. Ceiling(plan, cmd, "begin") = 0
    BY DEF Ceiling
  <2>2. QED
    BY <1>1, <2>1 DEF ElapsedInv, SpendingInv, AtRest
<1>3. CASE cmd' = Then(cmd, "lock")
  <2>1. /\ cmd'.stage = "lock" /\ cmd'.phase = cmd.phase /\ cmd'.retry = cmd.retry
        /\ cmd'.due = cmd.due /\ cmd'.elapsed = cmd.elapsed
    BY <1>1, <1>3, ThenFields, Elapses
  <2>2. Ceiling(plan, cmd, "lock") = AfterBurst(plan, cmd)
    BY DEF Ceiling
  <2>3. cmd'.elapsed <= Ceiling(plan, cmd, cmd'.stage)
    BY <1>1, <1>2, <2>1, <2>2, EndsWithin
  <2>4. QED
    BY <1>1, <2>1, <2>3, GoesOn DEF AtRest
<1>4. ASSUME NEW retry \in SUBSET plan.opening, cmd.phase = "retry",
             cmd' = Burst([cmd EXCEPT !.retry = retry], "retry", retry)
      PROVE  ElapsedInv'
  <2> DEFINE s == [cmd EXCEPT !.retry = retry]
  <2>1. cmd' = Burst(s, "retry", retry)
    BY <1>4
  <2>2. Shape(s) /\ s.retry = retry /\ s.elapsed = cmd.elapsed
    BY <1>1 DEF Shape
  <2> HIDE DEF s
  <2>3. /\ cmd'.stage = "ready" /\ cmd'.burst = retry /\ cmd'.retry = retry
        /\ cmd'.phase = "retry" /\ cmd'.elapsed = 0
    BY <1>2, <2>1, <2>2, BurstFields, Elapses
  <2>4. cmd'.burst = Opened(cmd') /\ Base(plan, cmd') = 0
    BY <2>3 DEF Opened, Base
  <2>5. cmd'.elapsed \in Nat /\ cmd'.elapsed <= Base(plan, cmd')
    BY <2>3, <2>4
  <2>6. QED
    BY <1>1, <1>4, <2>3, <2>4, <2>5, BeginsBurst
<1>5. QED
  BY <1>1, <1>3, <1>4 DEF Begin

LEMMA ReadyElapsed ==
  ASSUME SpentIInv, ElapsedInv, Ready, UNCHANGED plan
  PROVE  ElapsedInv'
<1> DEFINE elapsed == cmd.elapsed + Credentials(plan)
           ready == [cmd EXCEPT !.stage = "prepare", !.todo = cmd.burst,
                                !.channel = 1, !.elapsed = elapsed]
<1>1. /\ CommandType /\ Shape(cmd) /\ cmd.stage = "ready" /\ cmd.elapsed \in Nat /\ PhaseInv
      /\ cmd.elapsed <= Base(plan, cmd) /\ cmd.burst = Opened(cmd) /\ cmd.burst \subseteq plan.opening
      /\ plan \in Plans /\ cmd.phase # "usage"
  BY DEF Ready, At_, SpentIInv, CommandType, CommandShape, ElapsedInv, SpendingInv, PhaseInv, AtRest
<1>2. cmd' \in {ready, Ended(ready)}
  BY DEF Ready, Credentials
<1>3. elapsed \in Nat /\ elapsed <= Base(plan, cmd) + Credentials(plan) /\ elapsed <= Prepared(plan, cmd)
  BY <1>1, EndsWithin
<1> HIDE DEF elapsed
<1>4. /\ ready.stage = "prepare" /\ ready.phase = cmd.phase /\ ready.todo = cmd.burst
      /\ ready.channel = 1 /\ ready.retry = cmd.retry /\ ready.due = cmd.due
      /\ ready.elapsed = elapsed
  BY <1>1 DEF Shape
<1>5. Shape(ready)
  BY <1>1, ShapeHasFields, FieldsShape
<1> HIDE DEF ready
<1>6. CASE cmd' = Ended(ready)
  <2>1. /\ cmd'.stage = "ended" /\ cmd'.phase = cmd.phase /\ cmd'.retry = cmd.retry
        /\ cmd'.due = cmd.due /\ cmd'.elapsed = elapsed
    BY <1>4, <1>5, <1>6, EndedFields, ThenFields, Elapses
  <2>2. elapsed <= Ceiling(plan, cmd, "ended")
    BY <1>1, <1>3, EndsWithin
  <2>3. QED
    BY <1>1, <1>3, <2>1, <2>2, GoesOn DEF AtRest
<1>7. CASE cmd' = ready
  <2>1. /\ cmd'.stage = "prepare" /\ cmd'.phase = cmd.phase /\ cmd'.todo = cmd.burst
        /\ cmd'.channel = 1 /\ cmd'.retry = cmd.retry /\ cmd'.due = cmd.due
        /\ cmd'.elapsed = elapsed
    BY <1>4, <1>7
  <2>2. Prepared(plan, cmd)' = Prepared(plan, cmd)
    BY <2>1 DEF Prepared, Base, Opened
  <2>3. ASSUME NEW p \in cmd.burst
        PROVE  elapsed + Rest(plan, p, 1) + Every(plan, cmd.burst \ {p}) <= Prepared(plan, cmd)
    <3>1. /\ Every(plan, cmd.burst) = Rest(plan, p, 1) + Every(plan, cmd.burst \ {p})
          /\ Rest(plan, p, 1) \in Nat /\ Every(plan, cmd.burst \ {p}) \in Nat
      BY <1>1, EveryLeft
    <3>2. Prepared(plan, cmd) = Base(plan, cmd) + Credentials(plan) + Every(plan, cmd.burst)
      BY <1>1 DEF Prepared
    <3>3. Base(plan, cmd) \in Nat /\ Credentials(plan) \in Nat
      BY <1>1, EndsWithin
    <3>4. QED
      BY <1>3, <3>1, <3>2, <3>3
  <2>4. SpendingInv'
    BY <1>3, <2>1, <2>2, <2>3 DEF SpendingInv, AtRest
  <2>5. PhaseInv'
    BY <1>1, <2>1 DEF PhaseInv, AtRest
  <2>6. QED
    BY <2>4, <2>5 DEF ElapsedInv
<1>8. QED
  BY <1>2, <1>6, <1>7

\* The command comes to a stage outside a burst, with what it has spent.
LEMMA GoesOnTo ==
  ASSUME CommandType, PhaseInv, UNCHANGED plan, NEW s, Agrees(s),
         NEW stage \in AtRest \ {"begin"}, cmd' = Then(s, stage),
         s.elapsed \in Nat, s.elapsed <= Ceiling(plan, cmd, stage)
  PROVE  ElapsedInv'
<1>1. Shape(s)
  BY DEF Agrees
<1>2. /\ cmd'.stage = stage /\ cmd'.phase = cmd.phase /\ cmd'.retry = cmd.retry
      /\ cmd'.due = cmd.due /\ cmd'.elapsed = s.elapsed
  BY <1>1, ThenFields, Elapses DEF Agrees
<1>3. QED
  BY <1>2, GoesOn

\* Within a burst the bounds stay what they were.
LEMMA SameBounds ==
  ASSUME UNCHANGED plan, cmd'.phase = cmd.phase, cmd'.retry = cmd.retry, cmd'.due = cmd.due
  PROVE  /\ Prepared(plan, cmd)' = Prepared(plan, cmd) /\ Base(plan, cmd)' = Base(plan, cmd)
         /\ Rounds(cmd)' = Rounds(cmd) /\ Opened(cmd)' = Opened(cmd)
BY DEF Prepared, Base, Opened, Rounds

LEMMA PrepareElapsed ==
  ASSUME SpentIInv, ElapsedInv, Prepare, UNCHANGED plan
  PROVE  ElapsedInv'
<1>1. /\ CommandType /\ Shape(cmd) /\ cmd.stage = "prepare" /\ cmd.elapsed \in Nat /\ PhaseInv
      /\ cmd.todo \subseteq plan.opening /\ plan \in Plans /\ cmd.phase # "usage"
  BY DEF Prepare, At_, SpentIInv, BurstInv, Bursting, CommandType, CommandShape, ElapsedInv,
         SpendingInv, PhaseInv, AtRest
<1>2. PICK p \in cmd.todo :
        LET chain == plan.chains[p]
            paid == [cmd EXCEPT !.elapsed = @ + PrepareCost(p, chain[cmd.channel])]
        IN  /\ First(p)
            /\ \/ cmd' = [paid EXCEPT !.start[p] = cmd.channel, !.todo = @ \ {p}, !.channel = 1]
               \/ cmd' = IF cmd.channel < Len(chain) THEN [paid EXCEPT !.channel = @ + 1]
                         ELSE Ended(paid)
  BY DEF Prepare
<1> DEFINE cost == PrepareCost(p, plan.chains[p][cmd.channel])
           paid == [cmd EXCEPT !.elapsed = @ + cost]
           rest == Rest(plan, p, cmd.channel + 1)
           others == Every(plan, cmd.todo \ {p})
<1>3. /\ First(p) /\ p \in plan.opening /\ cmd.channel \in 1 .. Len(plan.chains[p])
      /\ Agrees(paid) /\ Shape(paid) /\ paid.elapsed = cmd.elapsed + cost
  BY <1>1, <1>2, Pays DEF SpentIInv, BurstInv, CommandShape
<1>4. \/ cmd' = [paid EXCEPT !.start[p] = cmd.channel, !.todo = @ \ {p}, !.channel = 1]
      \/ cmd.channel < Len(plan.chains[p]) /\ cmd' = [paid EXCEPT !.channel = @ + 1]
      \/ cmd' = Ended(paid)
  BY <1>2
<1>5. /\ cost \in Nat /\ rest \in Nat /\ others \in Nat
      /\ cmd.elapsed + cost + rest + others <= Prepared(plan, cmd)
      /\ Prepared(plan, cmd) \in Nat
  <2>1. cost \in Nat /\ rest \in Nat /\ Rest(plan, p, cmd.channel) = cost + rest
    BY <1>1, <1>3, RestLeft
  <2>2. others \in Nat
    <3>1. cmd.todo \ {p} \in SUBSET plan.opening
      BY <1>1
    <3>2. QED
      BY <1>1, <3>1, EveryLeft
  <2>3. cmd.elapsed + Rest(plan, p, cmd.channel) + others <= Prepared(plan, cmd)
    BY <1>1, <1>3 DEF ElapsedInv, SpendingInv
  <2>4. Prepared(plan, cmd) \in Nat
    BY <1>1, EndsWithin
  <2> HIDE DEF cost, rest, others
  <2>5. QED
    BY <1>1, <2>1, <2>2, <2>3, <2>4
<1> HIDE DEF paid, cost
<1>6. CASE cmd' = Ended(paid)
  <2>1. cmd' = Then(paid, "ended")
    BY <1>3, <1>6, EndedFields
  <2>2. Prepared(plan, cmd) <= Ceiling(plan, cmd, "ended") /\ Ceiling(plan, cmd, "ended") \in Nat
    BY <1>1, EndsWithin
  <2>3. paid.elapsed \in Nat /\ paid.elapsed <= Ceiling(plan, cmd, "ended")
    <3> HIDE DEF rest, others
    <3>1. QED
      BY <1>1, <1>3, <1>5, <2>2
  <2>4. QED
    BY <1>1, <1>3, <2>1, <2>3, GoesOnTo DEF AtRest
<1>7. CASE cmd.channel < Len(plan.chains[p]) /\ cmd' = [paid EXCEPT !.channel = @ + 1]
  <2>1. /\ cmd'.stage = "prepare" /\ cmd'.phase = cmd.phase /\ cmd'.retry = cmd.retry
        /\ cmd'.due = cmd.due /\ cmd'.todo = cmd.todo /\ cmd'.channel = cmd.channel + 1
        /\ cmd'.elapsed = cmd.elapsed + cost
    BY <1>1, <1>3, <1>7 DEF Agrees, Shape
  <2>2. \A q \in cmd'.todo : First(q)' => q = p
    <3>1. \A q \in cmd.todo : First(q)' => First(q)
      BY <1>1, <2>1 DEF First, Place
    <3>2. QED
      BY <1>1, <1>3, <2>1, <3>1, OneIsFirst
  <2>3. Prepared(plan, cmd)' = Prepared(plan, cmd)
    BY <2>1, SameBounds
  <2>4. /\ cmd'.elapsed \in Nat /\ cmd'.elapsed + rest + others <= Prepared(plan, cmd)'
        /\ cmd'.elapsed <= Prepared(plan, cmd)'
    <3> HIDE DEF rest, others
    <3>1. QED
      BY <1>1, <1>5, <2>1, <2>3
  <2>5. SpendingInv'
    BY <2>1, <2>2, <2>4 DEF SpendingInv, AtRest
  <2>6. PhaseInv'
    BY <1>1, <2>1 DEF PhaseInv, AtRest
  <2>7. QED
    BY <2>5, <2>6 DEF ElapsedInv
<1>8. CASE cmd' = [paid EXCEPT !.start[p] = cmd.channel, !.todo = @ \ {p}, !.channel = 1]
  <2>1. /\ cmd'.stage = "prepare" /\ cmd'.phase = cmd.phase /\ cmd'.retry = cmd.retry
        /\ cmd'.due = cmd.due /\ cmd'.todo = cmd.todo \ {p} /\ cmd'.channel = 1
        /\ cmd'.elapsed = cmd.elapsed + cost
    BY <1>1, <1>3, <1>8 DEF Agrees, Shape
  <2>2. Prepared(plan, cmd)' = Prepared(plan, cmd)
    BY <2>1, SameBounds
  <2>3. /\ cmd'.elapsed \in Nat /\ cmd'.elapsed + others <= Prepared(plan, cmd)'
        /\ cmd'.elapsed <= Prepared(plan, cmd)'
    <3> HIDE DEF rest, others
    <3>1. QED
      BY <1>1, <1>5, <2>1, <2>2
  <2>4. ASSUME NEW q \in cmd'.todo
        PROVE  cmd'.elapsed + Rest(plan, q, 1) + Every(plan, cmd'.todo \ {q}) <= Prepared(plan, cmd)'
    <3> DEFINE one == Rest(plan, q, 1)
               more == Every(plan, cmd'.todo \ {q})
    <3>1. cmd'.todo \in SUBSET plan.opening
      BY <1>1, <2>1
    <3>2. one \in Nat /\ more \in Nat /\ Every(plan, cmd'.todo) = one + more
      BY <1>1, <3>1, EveryLeft
    <3>3. others = one + more
      BY <2>1, <3>2
    <3> HIDE DEF one, more, others
    <3>4. QED
      BY <2>3, <3>2, <3>3 DEF one, more
  <2>5. SpendingInv'
    BY <2>1, <2>3, <2>4 DEF SpendingInv, AtRest
  <2>6. PhaseInv'
    BY <1>1, <2>1 DEF PhaseInv, AtRest
  <2>7. QED
    BY <2>5, <2>6 DEF ElapsedInv
<1>9. QED
  BY <1>4, <1>6, <1>7, <1>8

LEMMA FirstRoundElapsed ==
  ASSUME SpentIInv, ElapsedInv, FirstRound, UNCHANGED plan
  PROVE  ElapsedInv'
<1>1. /\ CommandType /\ Shape(cmd) /\ cmd.stage = "prepare" /\ cmd.elapsed \in Nat /\ PhaseInv
      /\ cmd' = [cmd EXCEPT !.stage = "round", !.round = 1, !.todo = cmd.burst]
      /\ cmd.elapsed <= Prepared(plan, cmd)
  BY DEF FirstRound, At_, SpentIInv, CommandType, CommandShape, ElapsedInv, SpendingInv
<1>2. /\ cmd'.stage = "round" /\ cmd'.phase = cmd.phase /\ cmd'.retry = cmd.retry
      /\ cmd'.due = cmd.due /\ cmd'.round = 1 /\ cmd'.elapsed = cmd.elapsed
  BY <1>1 DEF Shape
<1>3. Prepared(plan, cmd)' = Prepared(plan, cmd) /\ Rounds(cmd)' = Rounds(cmd)
  BY <1>2, SameBounds
<1>4. Passed(plan, 1) = 0 /\ 1 \in 1 .. Rounds(cmd) /\ Prepared(plan, cmd) \in Nat
  <2>1. Rounds(cmd) \in Nat \ {0} /\ Prepared(plan, cmd) \in Nat
    BY <1>1, Ceilings DEF CommandType
  <2>2. Passed(plan, 1) = 0
    BY RoundNumbers DEF SpentIInv, CommandType
  <2>3. QED
    BY <2>1, <2>2
<1>5. Passed(plan, cmd.round)' = 0
  BY <1>2, <1>4
<1>6. SpendingInv'
  BY <1>1, <1>2, <1>3, <1>4, <1>5 DEF SpendingInv, AtRest
<1>7. PhaseInv'
  BY <1>1, <1>2 DEF PhaseInv, AtRest
<1>8. QED
  BY <1>6, <1>7 DEF ElapsedInv

LEMMA ModelDoneElapsed ==
  ASSUME SpentIInv, ElapsedInv, ModelDone, UNCHANGED plan
  PROVE  ElapsedInv'
<1> DEFINE p == attempt.p
           todo == cmd.todo \ {p}
           failed == IF attempt.success THEN cmd.failed ELSE cmd.failed \cup {p}
           capture == [cmd.capture EXCEPT ![p] =
             IF attempt.success \/ attempt.last # "none" THEN attempt.capture ELSE @]
<1>1. /\ attempt.at = "done" /\ Shape(cmd) /\ CommandType /\ cmd.stage = "round" /\ PhaseInv
      /\ cmd' = [cmd EXCEPT !.todo = todo, !.failed = failed, !.capture = capture]
  BY ChannelIsKnown DEF ModelDone, SpentIInv, CommandType, CommandShape, Attempting, BurstInv,
                        ElapsedInv
<1> HIDE DEF todo, failed, capture
<1>2. /\ cmd'.stage = "round" /\ cmd'.phase = cmd.phase /\ cmd'.retry = cmd.retry
      /\ cmd'.due = cmd.due /\ cmd'.round = cmd.round /\ cmd'.elapsed = cmd.elapsed
  BY <1>1 DEF Shape
<1>3. Prepared(plan, cmd)' = Prepared(plan, cmd) /\ Rounds(cmd)' = Rounds(cmd)
  BY <1>2, SameBounds
<1>4. Passed(plan, cmd.round)' = Passed(plan, cmd.round)
  BY <1>2
<1>5. SpendingInv'
  BY <1>1, <1>2, <1>3, <1>4 DEF ElapsedInv, SpendingInv, AtRest
<1>6. PhaseInv'
  BY <1>1, <1>2 DEF PhaseInv, AtRest
<1>7. QED
  BY <1>5, <1>6 DEF ElapsedInv

LEMMA EndRoundElapsed ==
  ASSUME SpentIInv, ElapsedInv, EndRound, UNCHANGED plan
  PROVE  ElapsedInv'
<1> DEFINE longest == Most({AttemptFrom(plan, p, cmd.start[p]) : p \in cmd.burst})
           after == [cmd EXCEPT !.burst = cmd.failed, !.failed = {}, !.elapsed = @ + longest]
           opened == IF cmd.phase = "retry" THEN cmd.retry ELSE cmd.due
           recovered == IF cmd.phase = "retry" THEN opened \ cmd.failed ELSE after.recovered
           todo == {p \in opened : cmd.capture[p] # "none"}
           round == after.round + 1
           elapsed == after.elapsed + Budget.retry_interval
           more == [after EXCEPT !.round = round, !.todo = cmd.failed, !.elapsed = elapsed]
           save == [after EXCEPT !.stage = "save", !.recovered = recovered, !.todo = todo]
           k == cmd.round
<1>1. /\ cmd.stage = "round" /\ Shape(cmd) /\ plan \in Plans /\ CommandType /\ PhaseInv
      /\ cmd.elapsed \in Nat /\ cmd.phase # "usage"
      /\ k \in 1 .. Rounds(cmd) /\ cmd.elapsed <= Prepared(plan, cmd) + Passed(plan, k)
  BY DEF EndRound, At_, SpentIInv, CommandType, CommandShape, ElapsedInv, SpendingInv, PhaseInv, AtRest
<1>2. (cmd' = more /\ k < Rounds(cmd)) \/ cmd' = save
  BY DEF EndRound, Limit, Rounds
<1>3. longest \in Nat /\ Longest(plan) \in Nat /\ longest <= Longest(plan)
  <2>1. cmd.burst \in SUBSET plan.opening
    BY <1>1 DEF CommandType
  <2>2. \A p \in plan.opening : cmd.start[p] \in 1 .. Len(plan.chains[p])
    BY <1>1 DEF CommandType
  <2>3. QED
    BY <1>1, <2>1, <2>2, RoundIsBounded
<1> HIDE DEF longest
<1>4. /\ after.stage = "round" /\ after.phase = cmd.phase /\ after.retry = cmd.retry
      /\ after.due = cmd.due /\ after.round = k /\ after.elapsed = cmd.elapsed + longest
  BY <1>1 DEF Shape
<1>5. Shape(after)
  BY <1>1, ShapeHasFields, FieldsShape
<1> HIDE DEF after
<1>6. /\ round = k + 1 /\ elapsed = cmd.elapsed + longest + Budget.retry_interval
  BY <1>4
<1> HIDE DEF recovered, todo, round, elapsed
<1>7. /\ Rounds(cmd) \in Nat \ {0} /\ Prepared(plan, cmd) \in Nat
      /\ AfterBurst(plan, cmd) = Prepared(plan, cmd) + Passed(plan, Rounds(cmd)) + Longest(plan)
  BY <1>1, Ceilings DEF CommandType
<1>8. /\ Passed(plan, k) \in Nat /\ Budget.retry_interval \in Nat
      /\ Passed(plan, Rounds(cmd)) \in Nat /\ Passed(plan, k) <= Passed(plan, Rounds(cmd))
      /\ Passed(plan, k + 1) = Passed(plan, k) + Longest(plan) + Budget.retry_interval
  <2>1. k \in Nat \ {0}
    BY <1>1, <1>7
  <2>2. QED
    BY <1>1, <1>7, <2>1, RoundNumbers
<1>9. CASE cmd' = more /\ k < Rounds(cmd)
  <2>1. /\ cmd'.stage = "round" /\ cmd'.phase = cmd.phase /\ cmd'.retry = cmd.retry
        /\ cmd'.due = cmd.due /\ cmd'.round = round /\ cmd'.elapsed = elapsed
    BY <1>4, <1>5, <1>9 DEF Shape
  <2>2. Prepared(plan, cmd)' = Prepared(plan, cmd) /\ Rounds(cmd)' = Rounds(cmd)
    BY <2>1, SameBounds
  <2>3. round \in 1 .. Rounds(cmd)
    BY <1>1, <1>6, <1>7, <1>9
  <2>4. elapsed \in Nat /\ elapsed <= Prepared(plan, cmd) + Passed(plan, k + 1)
    <3> DEFINE A == Prepared(plan, cmd)
               B == Passed(plan, k)
               L == Longest(plan)
               C == Passed(plan, k + 1)
               R == Budget.retry_interval
    <3>1. /\ A \in Nat /\ B \in Nat /\ L \in Nat /\ R \in Nat /\ C = B + L + R /\ longest <= L
          /\ elapsed = cmd.elapsed + longest + R /\ cmd.elapsed <= A + B
      BY <1>1, <1>3, <1>6, <1>7, <1>8
    <3> HIDE DEF A, B, L, C, R
    <3>2. elapsed \in Nat /\ elapsed <= A + C
      BY <1>1, <1>3, <3>1
    <3>3. QED
      BY <3>2 DEF A, C
  <2>5. Passed(plan, cmd.round)' = Passed(plan, k + 1)
    BY <1>6, <2>1
  <2>6. SpendingInv'
    BY <2>1, <2>2, <2>3, <2>4, <2>5 DEF SpendingInv, AtRest
  <2>7. PhaseInv'
    BY <1>1, <2>1 DEF PhaseInv, AtRest
  <2>8. QED
    BY <2>6, <2>7 DEF ElapsedInv
<1>10. CASE cmd' = save
  <2>1. /\ cmd'.stage = "save" /\ cmd'.phase = cmd.phase /\ cmd'.retry = cmd.retry
        /\ cmd'.due = cmd.due /\ cmd'.elapsed = cmd.elapsed + longest
    BY <1>4, <1>5, <1>10 DEF Shape
  <2>2. Ceiling(plan, cmd, "save") = AfterBurst(plan, cmd)
    BY DEF Ceiling
  <2>3. cmd'.elapsed \in Nat /\ cmd'.elapsed <= Ceiling(plan, cmd, cmd'.stage)
    <3> DEFINE A == Prepared(plan, cmd)
               B == Passed(plan, k)
               L == Longest(plan)
               C == Passed(plan, Rounds(cmd))
    <3>1. /\ A \in Nat /\ B \in Nat /\ L \in Nat /\ C \in Nat /\ B <= C /\ longest <= L
          /\ cmd.elapsed <= A + B /\ Ceiling(plan, cmd, cmd'.stage) = A + C + L
      BY <1>1, <1>3, <1>7, <1>8, <2>1, <2>2
    <3> HIDE DEF A, B, L, C
    <3>2. QED
      BY <1>1, <1>3, <2>1, <3>1
  <2>4. QED
    BY <1>1, <2>1, <2>3, GoesOn DEF AtRest
<1>11. QED
  BY <1>2, <1>9, <1>10

LEMMA SaveElapsed ==
  ASSUME SpentIInv, ElapsedInv, SaveSnapshot \/ SnapshotsSaved, UNCHANGED plan
  PROVE  ElapsedInv'
<1>1. /\ CommandType /\ Shape(cmd) /\ Agrees(cmd) /\ cmd.stage = "save" /\ cmd.elapsed \in Nat
      /\ PhaseInv /\ cmd.elapsed <= Ceiling(plan, cmd, "save")
  BY DEF SaveSnapshot, SnapshotsSaved, At_, SpentIInv, CommandType, CommandShape, ElapsedInv,
         SpendingInv, AtRest, Agrees
<1>2. CASE SaveSnapshot
  <2>1. PICK p \in cmd.todo : cmd' = [cmd EXCEPT !.todo = cmd.todo \ {p}]
    BY <1>2 DEF SaveSnapshot
  <2>2. /\ cmd'.stage = "save" /\ cmd'.phase = cmd.phase /\ cmd'.retry = cmd.retry
        /\ cmd'.due = cmd.due /\ cmd'.elapsed = cmd.elapsed
    BY <1>1, <2>1 DEF Shape
  <2>3. QED
    BY <1>1, <2>2, GoesOn DEF AtRest
<1>3. CASE SnapshotsSaved
  <2>1. cmd' = Then(cmd, "lock")
    BY <1>3 DEF SnapshotsSaved
  <2>2. Ceiling(plan, cmd, "lock") = Ceiling(plan, cmd, "save")
    BY DEF Ceiling
  <2>3. QED
    BY <1>1, <2>1, <2>2, GoesOnTo DEF AtRest
<1>4. QED
  BY <1>2, <1>3

LEMMA QuotaLockElapsed ==
  ASSUME SpentIInv, ElapsedInv, QuotaLock, UNCHANGED plan
  PROVE  ElapsedInv'
<1> DEFINE cost == IF cmd.phase = "retry" THEN 0 ELSE Budget.quota_wait
           waited == [cmd EXCEPT !.elapsed = @ + cost]
<1>1. /\ CommandType /\ CommandShape /\ cmd.stage = "lock" /\ cmd.elapsed \in Nat
      /\ PhaseInv /\ cmd.elapsed <= Ceiling(plan, cmd, "lock")
  BY DEF QuotaLock, At_, SpentIInv, CommandType, ElapsedInv, SpendingInv, AtRest
<1>2. PICK stage \in {"collect", "ended", "card"} : cmd' = Then(waited, stage)
  BY DEF QuotaLock
<1>3. Agrees(waited) /\ waited.elapsed = cmd.elapsed + cost
  BY <1>1, Pays
<1>4. cost = Waits(cmd)
  BY DEF Waits
<1> HIDE DEF cost, waited
<1>5. /\ AfterBurst(plan, cmd) \in Nat /\ Waits(cmd) \in Nat
      /\ probe_phase(plan) \in Nat /\ _delivery(plan) \in Nat
  BY <1>1, EndsWithin
<1>6. /\ Ceiling(plan, cmd, "lock") = AfterBurst(plan, cmd)
      /\ Ceiling(plan, cmd, "collect") = AfterBurst(plan, cmd) + Waits(cmd)
      /\ Ceiling(plan, cmd, "card") = AfterBurst(plan, cmd) + Waits(cmd) + probe_phase(plan)
      /\ Ceiling(plan, cmd, "ended")
           = AfterBurst(plan, cmd) + Waits(cmd) + probe_phase(plan) + _delivery(plan)
  BY DEF Ceiling
<1>7. waited.elapsed \in Nat /\ waited.elapsed <= Ceiling(plan, cmd, stage)
  <2>1. waited.elapsed \in Nat /\ waited.elapsed <= AfterBurst(plan, cmd) + Waits(cmd)
    BY <1>1, <1>3, <1>4, <1>5, <1>6
  <2>2. CASE stage = "collect"
    BY <1>6, <2>1, <2>2
  <2>3. CASE stage = "card"
    BY <1>5, <1>6, <2>1, <2>3
  <2>4. CASE stage = "ended"
    BY <1>5, <1>6, <2>1, <2>4
  <2>5. QED
    BY <2>2, <2>3, <2>4
<1>8. QED
  BY <1>1, <1>2, <1>3, <1>7, GoesOnTo DEF AtRest

LEMMA EndCollectElapsed ==
  ASSUME SpentIInv, ElapsedInv, EndCollect, cmd.stage = "collect", UNCHANGED plan
  PROVE  ElapsedInv'
<1> DEFINE paid == [cmd EXCEPT !.elapsed = @ + probe_phase(plan)]
<1>1. /\ CommandType /\ CommandShape /\ cmd.elapsed \in Nat /\ plan \in Plans
      /\ PhaseInv /\ cmd.elapsed <= Ceiling(plan, cmd, "collect")
  BY DEF SpentIInv, CommandType, ElapsedInv, SpendingInv, AtRest
<1>2. Agrees(paid) /\ paid.elapsed = cmd.elapsed + probe_phase(plan)
  BY <1>1, Pays
<1>3. /\ AfterBurst(plan, cmd) \in Nat /\ Waits(cmd) \in Nat
      /\ probe_phase(plan) \in Nat /\ _delivery(plan) \in Nat
  BY <1>1, EndsWithin
<1>4. /\ Ceiling(plan, cmd, "collect") = AfterBurst(plan, cmd) + Waits(cmd)
      /\ Ceiling(plan, cmd, "card") = AfterBurst(plan, cmd) + Waits(cmd) + probe_phase(plan)
      /\ Ceiling(plan, cmd, "ended")
           = AfterBurst(plan, cmd) + Waits(cmd) + probe_phase(plan) + _delivery(plan)
  BY DEF Ceiling
<1>5. /\ paid.elapsed \in Nat /\ paid.elapsed <= Ceiling(plan, cmd, "card")
      /\ paid.elapsed <= Ceiling(plan, cmd, "ended")
  <2> HIDE DEF paid
  <2>1. QED
    BY <1>1, <1>2, <1>3, <1>4
<1>6. CASE cmd.phase # "retry"
  <2>1. cmd' = Then(paid, "card")
    BY <1>6 DEF EndCollect
  <2>2. QED
    BY <1>1, <1>2, <1>5, <2>1, GoesOnTo DEF AtRest
<1>7. CASE cmd.phase = "retry"
  <2>1. PICK due \in SUBSET (plan.opening \ cmd.retry) :
          LET decided == [paid EXCEPT !.due = due] IN
          \/ cmd' = Then(decided, "card")
          \/ cmd' = Burst(decided, "initial", due)
          \/ cmd' = Ended(decided)
    BY <1>7 DEF EndCollect
  <2> DEFINE decided == [paid EXCEPT !.due = due]
  <2>2. \/ cmd' = Then(decided, "card")
        \/ cmd' = Burst(decided, "initial", due)
        \/ cmd' = Then(decided, "ended")
    <3>1. Ended(decided) = Then(decided, "ended")
      BY DEF Ended, Then
    <3>2. QED
      BY <2>1, <3>1
  <2> HIDE DEF paid
  <2>3. /\ Shape(decided) /\ decided.phase = "retry" /\ decided.retry = cmd.retry
        /\ decided.due = due /\ decided.elapsed = paid.elapsed
    BY <1>2, <1>7 DEF Agrees, Shape
  <2> HIDE DEF decided
  <2>4. ASSUME NEW stage \in {"card", "ended"}, cmd' = Then(decided, stage)
        PROVE  ElapsedInv'
    <3>1. /\ cmd'.stage = stage /\ cmd'.phase = cmd.phase /\ cmd'.retry = cmd.retry
          /\ cmd'.elapsed = paid.elapsed
      BY <1>7, <2>3, <2>4, ThenFields, Elapses
    <3>2. cmd'.elapsed \in Nat /\ cmd'.elapsed <= Ceiling(plan, cmd, cmd'.stage)
      BY <1>5, <3>1
    <3>3. QED
      BY <1>1, <1>7, <3>1, <3>2, GoesOn DEF AtRest
  <2>5. CASE cmd' = Burst(decided, "initial", due)
    <3>1. /\ cmd'.stage = "ready" /\ cmd'.burst = due /\ cmd'.retry = cmd.retry
          /\ cmd'.due = due /\ cmd'.phase = "initial" /\ cmd'.elapsed = paid.elapsed
      BY <2>3, <2>5, BurstFields, Elapses
    <3>2. cmd'.burst = Opened(cmd')
      BY <3>1 DEF Opened
    <3>3. cmd'.elapsed <= Base(plan, cmd')
      <4> DEFINE cost == BurstCost(plan, cmd.retry, Budget.watchdog_attempts)
      <4>1. AfterBurst(plan, cmd) = 0 + cost
        BY <1>7 DEF AfterBurst, Base, Opened, Rounds
      <4>2. Waits(cmd) = 0
        BY <1>7 DEF Waits
      <4>3. Base(plan, cmd') = cost + probe_phase(plan) + _delivery(plan)
        BY <3>1 DEF Base
      <4>4. cost \in Nat
        <5>1. Every(plan, cmd.retry) \in Nat /\ Credentials(plan) \in Nat
          BY <1>1, Ceilings, Parts DEF CommandType
        <5>2. Passed(plan, Budget.watchdog_attempts) \in Nat /\ Longest(plan) \in Nat
          BY <1>1, BudgetNumbers, RoundNumbers
        <5>3. QED
          BY <5>1, <5>2 DEF BurstCost
      <4> HIDE DEF cost
      <4>5. Ceiling(plan, cmd, "card") <= Base(plan, cmd')
        BY <1>3, <1>4, <4>1, <4>2, <4>3, <4>4
      <4>6. Ceiling(plan, cmd, "card") \in Nat /\ Base(plan, cmd') \in Nat
        BY <1>3, <1>4, <4>3, <4>4
      <4>7. QED
        BY <1>5, <3>1, <4>5, <4>6
    <3>4. QED
      BY <1>1, <1>5, <1>7, <3>1, <3>2, <3>3, BeginsBurst
  <2>6. QED
    BY <2>2, <2>4, <2>5
<1>8. QED
  BY <1>6, <1>7

\* A step that leaves the command alone.
LEMMA ElapsedKept ==
  ASSUME ElapsedInv, UNCHANGED <<plan, cmd>>
  PROVE  ElapsedInv'
<1>1. PhaseInv'
  BY DEF ElapsedInv, PhaseInv
<1>2. \A p : First(p)' <=> First(p)
  BY DEF First, Place
<1>3. SpendingInv'
  BY <1>2 DEF ElapsedInv, SpendingInv
<1>4. QED
  BY <1>1, <1>3 DEF ElapsedInv

LEMMA CardElapsed ==
  ASSUME SpentIInv, ElapsedInv, PartsInv, Card \/ CardDone, UNCHANGED plan
  PROVE  ElapsedInv'
<1>1. /\ CommandType /\ CommandShape /\ Agrees(cmd) /\ cmd.stage = "card" /\ cmd.elapsed \in Nat
      /\ PhaseInv /\ cmd.elapsed <= Ceiling(plan, cmd, "card")
  BY DEF Card, CardDone, PartsInv, Posting, At_, SpentIInv, CommandType, CommandShape, ElapsedInv,
         SpendingInv, AtRest, Agrees
<1>2. /\ AfterBurst(plan, cmd) \in Nat /\ Waits(cmd) \in Nat
      /\ probe_phase(plan) \in Nat /\ _delivery(plan) \in Nat
      /\ Ceiling(plan, cmd, "ended")
           = AfterBurst(plan, cmd) + Waits(cmd) + probe_phase(plan) + _delivery(plan)
  BY <1>1, EndsWithin
<1>3. Ceiling(plan, cmd, "card") = AfterBurst(plan, cmd) + Waits(cmd) + probe_phase(plan)
  BY DEF Ceiling
<1>4. CASE Card
  <2>1. CASE UNCHANGED cmd
    BY <2>1, ElapsedKept
  <2>2. CASE cmd' = AfterCard(cmd)
    <3>1. cmd.elapsed <= Ceiling(plan, cmd, "ended")
      BY <1>1, <1>2, <1>3
    <3>2. QED
      BY <1>1, <2>2, <3>1, AfterCardElapsed
  <2>3. QED
    BY <1>4, <2>1, <2>2 DEF Card
<1>5. CASE CardDone
  <2> DEFINE paid == [cmd EXCEPT !.elapsed = @ + _delivery(plan)]
  <2>1. cmd' = AfterCard(paid) \/ cmd' = Ended(paid)
    BY <1>5 DEF CardDone
  <2>2. Agrees(paid) /\ paid.elapsed = cmd.elapsed + _delivery(plan)
    BY <1>1, Pays
  <2> HIDE DEF paid
  <2>3. paid.elapsed \in Nat /\ paid.elapsed <= Ceiling(plan, cmd, "ended")
    BY <1>1, <1>2, <1>3, <2>2
  <2>4. CASE cmd' = AfterCard(paid)
    BY <1>1, <2>2, <2>3, <2>4, AfterCardElapsed
  <2>5. CASE cmd' = Ended(paid)
    <3>1. cmd' = Then(paid, "ended")
      BY <2>2, <2>5, EndedFields DEF Agrees
    <3>2. QED
      BY <1>1, <2>2, <2>3, <3>1, GoesOnTo DEF AtRest
  <2>6. QED
    BY <2>1, <2>4, <2>5
<1>6. QED
  BY <1>4, <1>5

LEMMA ElapsedInit == Init => ElapsedInv
<1> SUFFICES ASSUME Init PROVE ElapsedInv
  OBVIOUS
<1>1. /\ cmd.stage = "begin" /\ cmd.elapsed = 0
      /\ cmd.phase = IF plan.opening = {} THEN "usage" ELSE "retry"
  BY DEF Init
<1>2. PhaseInv
  BY <1>1 DEF PhaseInv, AtRest
<1>3. Ceiling(plan, cmd, "begin") = 0
  BY DEF Ceiling
<1>4. SpendingInv
  BY <1>1, <1>3 DEF SpendingInv, AtRest
<1>5. QED
  BY <1>2, <1>4 DEF ElapsedInv

LEMMA ElapsedStep == SpentIInv /\ PartsInv /\ ElapsedInv /\ [Next]_vars => ElapsedInv'
<1> SUFFICES ASSUME SpentIInv, PartsInv, ElapsedInv, [Next]_vars PROVE ElapsedInv'
  OBVIOUS
<1>1. CASE UNCHANGED <<plan, cmd>>
  BY <1>1, ElapsedKept
<1>2. CASE CommandStep /\ UNCHANGED plan
  <2>1. CASE Begin
    BY <1>2, <2>1, BeginElapsed
  <2>2. CASE Ready
    BY <1>2, <2>2, ReadyElapsed
  <2>3. CASE Prepare
    BY <1>2, <2>3, PrepareElapsed
  <2>4. CASE FirstRound
    BY <1>2, <2>4, FirstRoundElapsed
  <2>5. CASE RunModel
    BY <1>2, <2>5, ElapsedKept DEF RunModel
  <2>6. CASE ModelDone
    BY <1>2, <2>6, ModelDoneElapsed
  <2>7. CASE EndRound
    BY <1>2, <2>7, EndRoundElapsed
  <2>8. CASE SaveSnapshot \/ SnapshotsSaved
    BY <1>2, <2>8, SaveElapsed
  <2>9. CASE QuotaLock
    BY <1>2, <2>9, QuotaLockElapsed
  <2>10. CASE EndCollect
    BY <1>2, <2>10, EndCollectElapsed DEF EndCollect, Collected, PartsInv, Collecting
  <2>11. CASE Card \/ CardDone
    BY <1>2, <2>11, CardElapsed
  <2>12. QED
    BY <1>2, <2>1, <2>2, <2>3, <2>4, <2>5, <2>6, <2>7, <2>8, <2>9, <2>10, <2>11 DEF CommandStep
<1>3. QED
  BY <1>1, <1>2 DEF Next, vars

LEMMA Elapsing == Spec => [](SpentIInv /\ PartsInv /\ ElapsedInv)
BY SpentInit, SpentStep, ElapsedInit, ElapsedStep, PTL DEF Spec

\* Wherever a command is, it has not spent more than it may have when it ends.
LEMMA NeverMoreThanEnded ==
  ASSUME SpentIInv, ElapsedInv
  PROVE  /\ cmd.elapsed \in Nat /\ Ceiling(plan, cmd, "ended") \in Nat
         /\ cmd.elapsed <= Ceiling(plan, cmd, "ended")
<1>1. CommandType /\ plan \in Plans /\ PhaseInv /\ cmd.elapsed \in Nat
  BY DEF SpentIInv, CommandType, ElapsedInv, SpendingInv
<1>2. /\ AfterBurst(plan, cmd) \in Nat /\ Waits(cmd) \in Nat
      /\ probe_phase(plan) \in Nat /\ _delivery(plan) \in Nat /\ Credentials(plan) \in Nat
      /\ Base(plan, cmd) \in Nat /\ Prepared(plan, cmd) \in Nat
      /\ Base(plan, cmd) + Credentials(plan) <= Prepared(plan, cmd)
      /\ Ceiling(plan, cmd, "ended")
           = AfterBurst(plan, cmd) + Waits(cmd) + probe_phase(plan) + _delivery(plan)
      /\ cmd.phase # "usage" => Prepared(plan, cmd) <= Ceiling(plan, cmd, "ended")
  BY <1>1, EndsWithin
<1>3. Ceiling(plan, cmd, "ended") \in Nat
  BY <1>2
<1>4. CASE cmd.stage \in AtRest
  <2>1. /\ Ceiling(plan, cmd, "begin") = 0
        /\ Ceiling(plan, cmd, "save") = AfterBurst(plan, cmd)
        /\ Ceiling(plan, cmd, "lock") = AfterBurst(plan, cmd)
        /\ Ceiling(plan, cmd, "collect") = AfterBurst(plan, cmd) + Waits(cmd)
        /\ Ceiling(plan, cmd, "card") = AfterBurst(plan, cmd) + Waits(cmd) + probe_phase(plan)
    BY DEF Ceiling
  <2>2. cmd.elapsed <= Ceiling(plan, cmd, cmd.stage)
    BY <1>4 DEF ElapsedInv, SpendingInv
  <2>3. Ceiling(plan, cmd, cmd.stage) \in Nat /\ Ceiling(plan, cmd, cmd.stage) <= Ceiling(plan, cmd, "ended")
    BY <1>2, <1>3, <1>4, <2>1 DEF AtRest
  <2>4. QED
    BY <1>1, <1>3, <2>2, <2>3
<1>5. CASE cmd.stage \in {"ready", "prepare"}
  <2>1. cmd.phase # "usage" /\ cmd.elapsed <= Prepared(plan, cmd)
    BY <1>1, <1>2, <1>5 DEF ElapsedInv, SpendingInv, PhaseInv, AtRest
  <2>2. QED
    BY <1>1, <1>2, <1>3, <2>1
<1>6. CASE cmd.stage = "round"
  <2>1. /\ cmd.phase # "usage" /\ cmd.round \in 1 .. Rounds(cmd)
        /\ cmd.elapsed <= Prepared(plan, cmd) + Passed(plan, cmd.round)
    BY <1>1, <1>6 DEF ElapsedInv, SpendingInv, PhaseInv, AtRest
  <2>2. /\ Rounds(cmd) \in Nat \ {0}
        /\ AfterBurst(plan, cmd) = Prepared(plan, cmd) + Passed(plan, Rounds(cmd)) + Longest(plan)
    BY <1>1, <2>1, Ceilings DEF CommandType
  <2>3. /\ Longest(plan) \in Nat /\ Passed(plan, Rounds(cmd)) \in Nat
        /\ Passed(plan, cmd.round) \in Nat /\ Passed(plan, cmd.round) <= Passed(plan, Rounds(cmd))
    BY <1>1, <2>1, <2>2, RoundNumbers
  <2>4. QED
    BY <1>1, <1>2, <1>3, <2>1, <2>2, <2>3
<1>7. QED
  BY <1>1, <1>3, <1>4, <1>5, <1>6 DEF PhaseInv

\* k rounds: k attempts, and the pauses between them.
LEMMA RoundsCost ==
  ASSUME plan \in Plans, NEW k \in Nat \ {0}
  PROVE  /\ k * Longest(plan) \in Nat /\ (k - 1) * Budget.retry_interval \in Nat
         /\ Passed(plan, k) + Longest(plan)
              = k * Longest(plan) + (k - 1) * Budget.retry_interval
<1> DEFINE L == Longest(plan)
           R == Budget.retry_interval
           j == k - 1
<1>1. L \in Nat /\ R \in Nat /\ j \in Nat /\ k = j + 1
  BY RoundNumbers
<1>2. Passed(plan, k) = j * (L + R)
  BY DEF Passed
<1> HIDE DEF L, R, j
<1>3. j * (L + R) = j * L + j * R /\ (j + 1) * L = j * L + L
  BY <1>1
<1>4. j * L \in Nat /\ j * R \in Nat /\ (j + 1) * L \in Nat
  BY <1>1, Product
<1>5. Passed(plan, k) + L = k * L + j * R /\ k * L \in Nat /\ j * R \in Nat
  BY <1>1, <1>2, <1>3, <1>4
<1>6. QED
  BY <1>5 DEF L, R, j

\* The budget of a check, term by term.
LEMMA CheckBudget ==
  ASSUME plan \in Plans, plan.opening # {}
  PROVE  LET W == Budget.watchdog_attempts
             N == Budget.initial_attempts
             L == Longest(plan)
             R == Budget.retry_interval
         IN  /\ CheckTerms(plan) = W * L + (W - 1) * R + N * L + (N - 1) * R
                   + 2 * preparation(plan) + 2 * probe_phase(plan) + Budget.quota_wait + 10
                   + 2 * _delivery(plan) + 2 * Credentials(plan)
             /\ CheckTerms(plan) \in Nat
<1> DEFINE W == Budget.watchdog_attempts
           N == Budget.initial_attempts
           L == Longest(plan)
           R == Budget.retry_interval
           A == preparation(plan)
           P == probe_phase(plan)
           D == _delivery(plan)
           Q == Budget.quota_wait
           C == Credentials(plan)
           S == IF plan.notify THEN 6 * _credential ELSE 0
           gaps == Most({0, N - 1}) + Most({0, W - 1})
<1>1. /\ W \in Nat \ {0} /\ N \in Nat \ {0} /\ L \in Nat /\ R \in Nat /\ Q \in Nat
      /\ A \in Nat /\ P \in Nat /\ D \in Nat /\ C \in Nat
  BY BudgetNumbers, RoundNumbers, Parts
<1>2. S = 2 * C
  BY Parts DEF Credentials
<1>3. ASSUME NEW n \in Nat \ {0} PROVE Most({0, n - 1}) = n - 1
  <2> DEFINE T == {0, n - 1}
  <2>1. T \subseteq Nat /\ n - 1 \in T /\ \A y \in T : y <= n - 1
    OBVIOUS
  <2>2. IsFiniteSet(T)
    <3>1. PICK E : E = {}
      OBVIOUS
    <3>2. IsFiniteSet(E)
      BY <3>1, FS_EmptySet
    <3>3. IsFiniteSet(E \cup {0})
      BY <3>2, FS_AddElement
    <3>4. IsFiniteSet((E \cup {0}) \cup {n - 1})
      BY <3>3, FS_AddElement
    <3>5. T = (E \cup {0}) \cup {n - 1}
      BY <3>1
    <3>6. QED
      BY <3>4, <3>5
  <2> HIDE DEF T
  <2>3. Most(T) \in Nat /\ (\A y \in T : y <= Most(T)) /\ (Most(T) = 0 \/ Most(T) \in T)
    BY <2>1, <2>2, Greatest
  <2>4. Most(T) = n - 1
    BY <2>1, <2>3
  <2>5. QED
    BY <2>4 DEF T
<1>4. gaps = (N - 1) + (W - 1)
  BY <1>1, <1>3
<1>5. CheckTerms(plan) = (N + W) * L + 2 * A + gaps * R + 2 * P + Q + 10 + 2 * D + S
  BY DEF CheckTerms, Longest
<1> HIDE DEF W, N, L, R, A, P, D, Q, C, S, gaps
<1>6. (N + W) * L = N * L + W * L /\ gaps * R = (N - 1) * R + (W - 1) * R
  BY <1>1, <1>4
<1>7. /\ N * L \in Nat /\ W * L \in Nat
      /\ (N - 1) * R \in Nat /\ (W - 1) * R \in Nat
  <2>1. N - 1 \in Nat /\ W - 1 \in Nat /\ N \in Nat /\ W \in Nat
    BY <1>1
  <2>2. QED
    BY <1>1, <2>1, Product
<1>8. CheckTerms(plan) = W * L + (W - 1) * R + N * L + (N - 1) * R
                   + 2 * A + 2 * P + Q + 10 + 2 * D + 2 * C
  <2> DEFINE w == W * L
             n == N * L
             v == (W - 1) * R
             m == (N - 1) * R
  <2>1. w \in Nat /\ n \in Nat /\ v \in Nat /\ m \in Nat
    BY <1>7
  <2>2. CheckTerms(plan) = (n + w) + 2 * A + (m + v) + 2 * P + Q + 10 + 2 * D + 2 * C
    BY <1>2, <1>5, <1>6
  <2> HIDE DEF w, n, v, m
  <2>3. CheckTerms(plan) = w + v + n + m + 2 * A + 2 * P + Q + 10 + 2 * D + 2 * C
    BY <1>1, <2>1, <2>2
  <2>4. QED
    BY <2>3 DEF w, n, v, m
<1>9. CheckTerms(plan) \in Nat
  <2> DEFINE w == W * L
             n == N * L
             v == (W - 1) * R
             m == (N - 1) * R
  <2>1. w \in Nat /\ n \in Nat /\ v \in Nat /\ m \in Nat
    BY <1>7
  <2>2. CheckTerms(plan) = w + v + n + m + 2 * A + 2 * P + Q + 10 + 2 * D + 2 * C
    BY <1>8
  <2> HIDE DEF w, n, v, m
  <2>3. QED
    BY <1>1, <2>1, <2>2
<1>10. QED
  BY <1>8, <1>9 DEF W, N, L, R, A, P, D, Q, C

\* What a check has spent when it ends, against its budget: all the channels of
\* a provider may have been prepared once, where the budget has the first twice.
LEMMA CheckIsBounded ==
  ASSUME SpentIInv, ElapsedInv, plan.opening # {}
  PROVE  Ceiling(plan, cmd, "ended") + 2 * preparation(plan) + 10
           <= CheckTerms(plan) + Every(plan, plan.opening)
<1> DEFINE W == Budget.watchdog_attempts
           N == Budget.initial_attempts
           L == Longest(plan)
           R == Budget.retry_interval
           A == preparation(plan)
           P == probe_phase(plan)
           D == _delivery(plan)
           Q == Budget.quota_wait
           C == Credentials(plan)
           E == Every(plan, plan.opening)
           e == Every(plan, cmd.retry)
           f == Every(plan, cmd.due)
           w == W * L
           v == (W - 1) * R
           n == N * L
           m == (N - 1) * R
           r == BurstCost(plan, cmd.retry, W)
           i == BurstCost(plan, cmd.due, N)
           top == Ceiling(plan, cmd, "ended")
<1>1. plan \in Plans /\ CommandType /\ PhaseInv /\ cmd.phase \in {"retry", "initial"}
  BY DEF SpentIInv, CommandType, ElapsedInv, PhaseInv
<1>2. /\ W \in Nat \ {0} /\ N \in Nat \ {0} /\ Q \in Nat
      /\ A \in Nat /\ P \in Nat /\ D \in Nat /\ C \in Nat
  BY <1>1, BudgetNumbers, Parts
<1>3. e \in Nat /\ f \in Nat /\ E \in Nat /\ e + f <= E
  <2>1. /\ cmd.retry \in SUBSET plan.opening /\ cmd.due \in SUBSET (plan.opening \ cmd.retry)
        /\ plan.opening \in SUBSET plan.opening /\ cmd.due \in SUBSET plan.opening
    BY <1>1 DEF CommandType
  <2>2. e + f <= E
    BY <1>1, <2>1, EveryLeft
  <2>3. e \in Nat /\ f \in Nat /\ E \in Nat
    BY <1>1, <2>1, EveryLeft
  <2>4. QED
    BY <2>2, <2>3
<1>4. /\ w \in Nat /\ v \in Nat /\ Passed(plan, W) + L = w + v
      /\ n \in Nat /\ m \in Nat /\ Passed(plan, N) + L = n + m
  BY <1>1, <1>2, RoundsCost
<1>5. L \in Nat /\ Passed(plan, W) \in Nat /\ Passed(plan, N) \in Nat
  BY <1>1, <1>2, RoundNumbers
<1>6. r = C + e + Passed(plan, W) + L /\ i = C + f + Passed(plan, N) + L
  BY DEF BurstCost
<1>7. CheckTerms(plan) = w + v + n + m + 2 * A + 2 * P + Q + 10 + 2 * D + 2 * C
  BY <1>1, CheckBudget
<1>8. /\ cmd.phase = "retry" => top = (0 + r) + 0 + P + D
      /\ cmd.phase = "initial" => top = ((r + P + D) + i) + Q + P + D
  <2>1. top = AfterBurst(plan, cmd) + Waits(cmd) + P + D
    BY DEF Ceiling
  <2>2. CASE cmd.phase = "retry"
    <3>1. AfterBurst(plan, cmd) = 0 + r /\ Waits(cmd) = 0
      BY <2>2 DEF AfterBurst, Base, Opened, Rounds, Waits
    <3>2. QED
      BY <2>1, <2>2, <3>1
  <2>3. CASE cmd.phase = "initial"
    <3>1. AfterBurst(plan, cmd) = (r + P + D) + i /\ Waits(cmd) = Q
      BY <2>3 DEF AfterBurst, Base, Opened, Rounds, Waits
    <3>2. QED
      BY <2>1, <2>3, <3>1
  <2>4. QED
    BY <1>1, <2>2, <2>3
<1> DEFINE passedW == Passed(plan, W)
           passedN == Passed(plan, N)
           budget_ == CheckTerms(plan)
<1>9. /\ passedW + L = w + v /\ passedN + L = n + m /\ passedW \in Nat /\ passedN \in Nat
      /\ r = C + e + passedW + L /\ i = C + f + passedN + L
      /\ budget_ = w + v + n + m + 2 * A + 2 * P + Q + 10 + 2 * D + 2 * C
  BY <1>4, <1>5, <1>6, <1>7
<1> HIDE DEF W, N, L, R, A, P, D, Q, C, E, e, f, w, v, n, m, r, i, top, passedW, passedN, budget_
<1>10. r = C + e + w + v /\ i = C + f + n + m /\ r \in Nat /\ i \in Nat
  <2>1. /\ C \in Nat /\ e \in Nat /\ f \in Nat /\ L \in Nat /\ passedW \in Nat /\ passedN \in Nat
        /\ w \in Nat /\ v \in Nat /\ n \in Nat /\ m \in Nat
    BY <1>2, <1>3, <1>4, <1>5, <1>9
  <2>2. passedW + L = w + v /\ r = C + e + passedW + L
    BY <1>9
  <2>3. passedN + L = n + m /\ i = C + f + passedN + L
    BY <1>9
  <2>4. r = C + e + w + v /\ r \in Nat
    BY <2>1, <2>2
  <2>5. i = C + f + n + m /\ i \in Nat
    BY <2>1, <2>3
  <2>6. QED
    BY <2>4, <2>5
<1>11. top <= r + i + 2 * P + 2 * D + Q
  BY <1>1, <1>2, <1>8, <1>10
<1>12. top \in Nat
  BY <1>1, <1>2, <1>8, <1>10
<1>13. top + 2 * A + 10 <= budget_ + E
  <2>1. budget_ = (w + v + n + m) + 2 * A + 2 * P + Q + 10 + 2 * D + 2 * C
    BY <1>2, <1>4, <1>9
  <2>2. r + i = 2 * C + (e + f) + (w + v + n + m)
    BY <1>2, <1>3, <1>4, <1>10
  <2> DEFINE all == w + v + n + m
             ef == e + f
             ri == r + i
  <2>3. all \in Nat /\ ef \in Nat /\ ri \in Nat
    BY <1>3, <1>4, <1>10
  <2>4. /\ budget_ = all + 2 * A + 2 * P + Q + 10 + 2 * D + 2 * C /\ ef <= E
        /\ ri = 2 * C + ef + all /\ top <= ri + 2 * P + 2 * D + Q
    BY <1>2, <1>3, <1>10, <1>11, <2>1, <2>2
  <2> HIDE DEF all, ef, ri
  <2>5. QED
    BY <1>2, <1>3, <1>12, <2>3, <2>4
<1>14. QED
  BY <1>13 DEF top, A, budget_, E

LEMMA CheckIsCovered ==
  ASSUME SpentIInv, ElapsedInv, plan.opening # {}, Covers(plan)
  PROVE  10 * cmd.elapsed <= budget
<1> DEFINE A == preparation(plan)
           B == CheckTerms(plan)
           E == Every(plan, plan.opening)
           top == Ceiling(plan, cmd, "ended")
<1>1. plan \in Plans /\ plan.opening \in SUBSET plan.opening
  BY DEF SpentIInv, CommandType
<1>2. A \in Nat /\ B \in Nat /\ E \in Nat
  <2>1. A \in Nat
    BY <1>1, Parts
  <2>2. B \in Nat
    BY <1>1, CheckBudget
  <2>3. E \in Nat
    BY <1>1, EveryLeft
  <2>4. QED
    BY <2>1, <2>2, <2>3
<1>3. cmd.elapsed \in Nat /\ top \in Nat /\ cmd.elapsed <= top
  BY NeverMoreThanEnded
<1>4. top + 2 * A + 10 <= B + E
  BY CheckIsBounded
<1>5. 10 * E <= 20 * A + 100 + B
  BY DEF Covers
<1>6. budget \in Nat /\ 11 * B <= budget
  <2>1. budget = IF Budget.check_timeout > 0 THEN 10 * Budget.check_timeout ELSE 11 * B
    BY DEF budget, check_command_timeout, check_budget
  <2>2. /\ Budget.check_timeout \in Nat
        /\ Budget.check_timeout > 0 => 10 * Budget.check_timeout >= 11 * B
    BY BudgetAssumption DEF Covers, check_budget
  <2>3. QED
    BY <1>2, <2>1, <2>2
<1> HIDE DEF A, B, E, top
<1>7. QED
  BY <1>2, <1>3, <1>4, <1>5, <1>6

LEMMA UsageIsCovered ==
  ASSUME SpentIInv, ElapsedInv, plan.opening = {}
  PROVE  10 * cmd.elapsed <= budget
<1> DEFINE asked == [plan EXCEPT !.notify = TRUE]
           P == probe_phase(plan)
           Q == Budget.quota_wait
           D == _delivery(plan)
           top == Ceiling(plan, cmd, "ended")
<1>1. plan \in Plans /\ PhaseInv /\ cmd.phase = "usage"
  BY DEF SpentIInv, CommandType, ElapsedInv, PhaseInv
<1>2. P \in Nat /\ D \in Nat /\ _credential \in Nat /\ Q \in Nat /\ Budget.notification_timeout \in Nat
  BY <1>1, Parts, BudgetNumbers
<1>3. cmd.elapsed \in Nat /\ top \in Nat /\ cmd.elapsed <= top
  BY NeverMoreThanEnded
<1>4. top = 0 + Q + P + D
  BY <1>1 DEF Ceiling, AfterBurst, Waits
<1>5. asked.probes = plan.probes /\ asked.tiers = plan.tiers /\ asked.notify = TRUE
  BY <1>1, PlansAssumption
<1> HIDE DEF asked
<1>6. probe_phase(asked) = P
  BY <1>5 DEF probe_phase, TiersFrom, TierBounds
<1>7. _delivery(asked) \in Nat /\ D <= _delivery(asked)
  BY <1>2, <1>5 DEF _delivery
<1>8. budget = 11 * (P + Q + 10 + _delivery(asked))
  BY <1>6 DEF budget, listener_usage_budget, usage_budget, UsageTerms, asked
<1> HIDE DEF P, Q, D, top
<1>9. QED
  BY <1>2, <1>3, <1>4, <1>7, <1>8

(* For all settings that cover the plans, a check or a usage that fails as *)
(* slowly as it can is over before the host kills it, at its budget or at  *)
(* the operator's own deadline, and so is every part of it before its      *)
(* share (app.py, runtime/budgets.py check_budget and usage_budget,        *)
(* helpers/task_orchestrator.py check_command_timeout).                    *)
THEOREM CommandsKeepTheirBudget ==
  ASSUME \A pl \in Plans : pl.opening # {} => Covers(pl)
  PROVE  Spec => []WithinBudget
<1>1. SpentIInv /\ ElapsedInv => 10 * cmd.elapsed <= budget
  <2> SUFFICES ASSUME SpentIInv, ElapsedInv PROVE 10 * cmd.elapsed <= budget
    OBVIOUS
  <2>1. plan \in Plans
    BY DEF SpentIInv, CommandType
  <2>2. QED
    BY <2>1, CheckIsCovered, UsageIsCovered
<1>2. (/\ 10 * cmd.elapsed <= budget /\ WalkWithinBudget(plan)
       /\ AttemptWithinBudget(plan) /\ DeliveryWithinBudget(plan)) => WithinBudget
  BY DEF WithinBudget
<1>3. QED
  BY <1>1, <1>2, Elapsing, CollectsInTime, AttemptsInTime, DeliversInTime, PTL
=============================================================================
