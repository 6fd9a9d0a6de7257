--------------------------- MODULE FiniteTheorems ---------------------------
(***************************************************************************)
(* Finite sets: a least one among some of them, sums over one, as the      *)
(* community modules define them by a fold, without elements, with one     *)
(* element more, with other indices and after one term has changed, and    *)
(* the greatest and the least of some numbers.  The induction is by the    *)
(* least counterexample, a set, so that it needs no operator as a          *)
(* parameter.                                                              *)
(***************************************************************************)
EXTENDS FiniteSetsExt, FiniteSetTheorems, WellFoundedInduction, TLAPS

(* A set of subsets of a finite set has a least one.                       *)
LEMMA LeastSubset ==
    ASSUME NEW S, IsFiniteSet(S), NEW D, D \subseteq SUBSET S, D # {}
    PROVE  \E M \in D : \A U \in D : U \subseteq M => U = M
<1> DEFINE R == StrictSubsetOrdering(S)
<1>1. IsWellFoundedOn(R, SUBSET S)
    BY FS_StrictSubsetOrderingWellFounded, FS_FiniteSubsetsOfFinite
<1>2. PICK M \in D : \A U \in D : ~(<<U, M>> \in R)
    BY <1>1, WFMin
<1>3. ASSUME NEW U \in D, U \subseteq M, U # M
      PROVE  FALSE
    <2>1. <<U, M>> \in (SUBSET S) \X (SUBSET S)
        OBVIOUS
    <2>2. <<U, M>>[1] \subseteq <<U, M>>[2] /\ <<U, M>>[1] # <<U, M>>[2]
        BY <1>3
    <2> QED
        BY <1>2, <2>1, <2>2 DEF StrictSubsetOrdering
<1> QED
    BY <1>3

SumOver(f, S) == MapThenSumSet(LAMBDA x : f[x], S)

Picked(S) == CHOOSE x \in S : TRUE

\* The function by which the fold is defined.
IsFold(h, f, S) ==
    h = [s \in SUBSET S |-> IF s = {} THEN 0 ELSE f[Picked(s)] + h[s \ {Picked(s)}]]

LEMMA SumIsFold ==
    ASSUME NEW f, NEW S
    PROVE  SumOver(f, S) = (CHOOSE h : IsFold(h, f, S))[S]
BY DEF SumOver, MapThenSumSet, MapThenFoldSet, IsFold, Picked

LEMMA PickedIsIn ==
    ASSUME NEW S, S # {}
    PROVE  Picked(S) \in S
BY DEF Picked

LEMMA FoldIsUnique ==
    ASSUME NEW f, NEW S, IsFiniteSet(S), NEW T, NEW g, IsFold(g, f, S), NEW h, IsFold(h, f, T)
    PROVE  \A U \in SUBSET S : U \subseteq T => g[U] = h[U]
<1> DEFINE D == {U \in SUBSET S : U \subseteq T /\ g[U] # h[U]}
<1>1. SUFFICES ASSUME D # {} PROVE FALSE
    OBVIOUS
<1>2. PICK M \in D : \A U \in D : U \subseteq M => U = M
    <2>1. D \subseteq SUBSET S
        OBVIOUS
    <2> HIDE DEF D
    <2> QED
        BY <1>1, <2>1, LeastSubset
<1>3. CASE M = {}
    BY <1>3 DEF IsFold
<1>4. CASE M # {}
    <2> DEFINE x == Picked(M)
    <2>1. x \in M
        BY <1>4, PickedIsIn
    <2> HIDE DEF x
    <2>2. M \ {x} \subseteq M /\ M \ {x} # M /\ M \ {x} \in SUBSET S /\ M \ {x} \subseteq T
        BY <2>1
    <2>3. g[M \ {x}] = h[M \ {x}]
        BY <1>2, <2>2
    <2>4. g[M] = f[x] + g[M \ {x}]
        BY <1>4 DEF IsFold, x
    <2>5. h[M] = f[x] + h[M \ {x}]
        BY <1>4 DEF IsFold, x
    <2> QED
        BY <2>3, <2>4, <2>5
<1> QED
    BY <1>3, <1>4

LEMMA FoldExists ==
    ASSUME NEW f, NEW S, IsFiniteSet(S)
    PROVE  \E h : IsFold(h, f, S)
<1> DEFINE D == {U \in SUBSET S : ~\E h : IsFold(h, f, U)}
<1>1. SUFFICES ASSUME D # {} PROVE FALSE
    OBVIOUS
<1>2. PICK M \in D : \A U \in D : U \subseteq M => U = M
    <2>1. D \subseteq SUBSET S
        OBVIOUS
    <2> HIDE DEF D
    <2> QED
        BY <1>1, <2>1, LeastSubset
<1> DEFINE H == [s \in SUBSET M |-> IF s = {} THEN 0
                                    ELSE f[Picked(s)] + SumOver(f, s \ {Picked(s)})]
<1>3. ASSUME NEW U \in SUBSET M, U # M
      PROVE  H[U] = SumOver(f, U)
    <2>1. IsFold(CHOOSE h : IsFold(h, f, U), f, U)
        BY <1>2, <1>3
    <2> DEFINE g == CHOOSE h : IsFold(h, f, U)
    <2>2. SumOver(f, U) = g[U]
        BY SumIsFold
    <2> HIDE DEF g
    <2>3. CASE U = {}
        BY <2>1, <2>2, <2>3 DEF IsFold, g
    <2>4. CASE U # {}
        <3> DEFINE x == Picked(U)
        <3>1. x \in U
            BY <2>4, PickedIsIn
        <3> HIDE DEF x
        <3>2. /\ U \ {x} \in SUBSET M /\ U \ {x} # M /\ U \ {x} \in SUBSET U
              /\ U \ {x} \in SUBSET S
            BY <3>1
        <3>3. IsFold(CHOOSE h : IsFold(h, f, U \ {x}), f, U \ {x})
            BY <1>2, <1>3, <3>1, <3>2
        <3>4. IsFiniteSet(U)
            BY FS_Subset
        <3>5. g[U \ {x}] = (CHOOSE h : IsFold(h, f, U \ {x}))[U \ {x}]
            BY <2>1, <3>2, <3>3, <3>4, FoldIsUnique DEF g
        <3>6. g[U \ {x}] = SumOver(f, U \ {x})
            BY <3>5, SumIsFold
        <3>7. g[U] = f[x] + g[U \ {x}]
            BY <2>1, <2>4 DEF IsFold, x, g
        <3>8. H[U] = f[x] + SumOver(f, U \ {x})
            BY <2>4 DEF x
        <3> QED
            BY <2>2, <3>6, <3>7, <3>8
    <2> QED
        BY <2>3, <2>4
<1>4. ASSUME NEW s \in SUBSET M, s # {}
      PROVE  H[s] = f[Picked(s)] + H[s \ {Picked(s)}]
    <2>1. s \ {Picked(s)} \in SUBSET M /\ s \ {Picked(s)} # M
        BY <1>4, PickedIsIn
    <2>2. H[s \ {Picked(s)}] = SumOver(f, s \ {Picked(s)})
        BY <1>3, <2>1
    <2> HIDE DEF H
    <2>3. H[s] = f[Picked(s)] + SumOver(f, s \ {Picked(s)})
        BY <1>4 DEF H
    <2> QED
        BY <2>2, <2>3
<1>5. H = [s \in SUBSET M |-> IF s = {} THEN 0 ELSE f[Picked(s)] + H[s \ {Picked(s)}]]
    <2> HIDE DEF H
    <2>1. H = [s \in SUBSET M |-> H[s]]
        BY DEF H
    <2>2. ASSUME NEW s \in SUBSET M
          PROVE  H[s] = IF s = {} THEN 0 ELSE f[Picked(s)] + H[s \ {Picked(s)}]
        <3>1. CASE s = {}
            BY <3>1 DEF H
        <3> QED
            BY <1>4, <3>1
    <2> QED
        BY <2>1, <2>2
<1>6. IsFold(H, f, M)
    BY <1>5 DEF IsFold
<1> QED
    BY <1>2, <1>6

LEMMA SumOfNone == \A f : SumOver(f, {}) = 0
<1>1. ASSUME NEW f
      PROVE  SumOver(f, {}) = 0
    <2>1. IsFold(CHOOSE h : IsFold(h, f, {}), f, {})
        BY FS_EmptySet, FoldExists
    <2> QED
        BY <2>1, SumIsFold DEF IsFold
<1> QED
    BY <1>1

LEMMA SumOfPicked ==
    ASSUME NEW f, NEW S, IsFiniteSet(S), S # {}
    PROVE  SumOver(f, S) = f[Picked(S)] + SumOver(f, S \ {Picked(S)})
<1> DEFINE T == S \ {Picked(S)}
           g == CHOOSE h : IsFold(h, f, S)
           k == CHOOSE h : IsFold(h, f, T)
<1>1. IsFold(g, f, S)
    BY FoldExists
<1>2. IsFiniteSet(T)
    BY FS_Subset
<1>3. IsFold(k, f, T)
    BY <1>2, FoldExists
<1>4. g[S] = SumOver(f, S) /\ k[T] = SumOver(f, T)
    BY SumIsFold
<1>5. T \in SUBSET S /\ T \subseteq T
    OBVIOUS
<1> HIDE DEF g, k
<1>6. g[T] = k[T]
    <2> HIDE DEF T
    <2> QED
        BY <1>1, <1>3, <1>5, FoldIsUnique
<1>7. g[S] = f[Picked(S)] + g[T]
    BY <1>1 DEF IsFold
<1> QED
    BY <1>4, <1>6, <1>7

LEMMA SumIsInt ==
    ASSUME NEW S, IsFiniteSet(S), NEW f, \A x \in S : f[x] \in Int
    PROVE  SumOver(f, S) \in Int
<1> DEFINE D == {U \in SUBSET S : SumOver(f, U) \notin Int}
<1>1. SUFFICES ASSUME D # {} PROVE FALSE
    OBVIOUS
<1>2. PICK M \in D : \A U \in D : U \subseteq M => U = M
    <2>1. D \subseteq SUBSET S
        OBVIOUS
    <2> HIDE DEF D
    <2> QED
        BY <1>1, <2>1, LeastSubset
<1>3. M # {}
    <2>1. SumOver(f, {}) \in Int
        BY SumOfNone
    <2>2. SumOver(f, M) \notin Int
        BY <1>2
    <2> QED
        BY <2>1, <2>2
<1>4. Picked(M) \in M
    BY <1>3, PickedIsIn
<1>5. SumOver(f, M \ {Picked(M)}) \in Int
    BY <1>2, <1>4
<1>6. SumOver(f, M) = f[Picked(M)] + SumOver(f, M \ {Picked(M)})
    BY <1>3, FS_Subset, SumOfPicked
<1> QED
    BY <1>2, <1>4, <1>5, <1>6

(* Any element may be taken out of a sum.                                  *)
LEMMA SumWithout ==
    ASSUME NEW S, IsFiniteSet(S), NEW f, \A x \in S : f[x] \in Int
    PROVE  \A x \in S : SumOver(f, S) = f[x] + SumOver(f, S \ {x})
<1> DEFINE D == {U \in SUBSET S : \E x \in U : SumOver(f, U) # f[x] + SumOver(f, U \ {x})}
<1>1. SUFFICES ASSUME D # {} PROVE FALSE
    OBVIOUS
<1>2. PICK M \in D : \A U \in D : U \subseteq M => U = M
    <2>1. D \subseteq SUBSET S
        OBVIOUS
    <2> HIDE DEF D
    <2> QED
        BY <1>1, <2>1, LeastSubset
<1>3. PICK x \in M : SumOver(f, M) # f[x] + SumOver(f, M \ {x})
    OBVIOUS
<1> DEFINE y == Picked(M)
<1>4. y \in M
    BY <1>3, PickedIsIn
<1>5. SumOver(f, M) = f[y] + SumOver(f, M \ {y})
    BY <1>3, FS_Subset, SumOfPicked
<1>6. y # x
    BY <1>3, <1>5
<1> HIDE DEF y
<1> DEFINE K == (M \ {y}) \ {x}
<1>7. SumOver(f, M \ {y}) = f[x] + SumOver(f, K)
    <2>1. M \ {y} \in SUBSET S /\ M \ {y} \subseteq M /\ M \ {y} # M /\ x \in M \ {y}
        BY <1>4, <1>6
    <2>2. M \ {y} \notin D
        BY <1>2, <2>1
    <2> QED
        BY <2>1, <2>2
<1>8. SumOver(f, M \ {x}) = f[y] + SumOver(f, K)
    <2>1. M \ {x} \in SUBSET S /\ M \ {x} \subseteq M /\ M \ {x} # M /\ y \in M \ {x}
        BY <1>4, <1>6
    <2>2. M \ {x} \notin D
        BY <1>2, <2>1
    <2>3. (M \ {x}) \ {y} = K
        OBVIOUS
    <2> QED
        BY <2>1, <2>2, <2>3
<1>9. SumOver(f, K) \in Int
    <2>1. IsFiniteSet(K)
        BY FS_Subset
    <2> QED
        BY <2>1, SumIsInt
<1>10. f[x] \in Int /\ f[y] \in Int
    BY <1>3, <1>4
<1> HIDE DEF D, K
<1> QED
    BY <1>3, <1>5, <1>7, <1>8, <1>9, <1>10

(* A sum over other indices.                                               *)
LEMMA SumReindexed ==
    ASSUME NEW S, IsFiniteSet(S), NEW f, \A x \in S : f[x] \in Int,
           NEW g, NEW b, \A x, y \in S : b[x] = b[y] => x = y,
           \A x \in S : g[b[x]] = f[x]
    PROVE  SumOver(f, S) = SumOver(g, {b[x] : x \in S})
<1> DEFINE Image(U) == {b[x] : x \in U}
           D == {U \in SUBSET S : SumOver(f, U) # SumOver(g, Image(U))}
<1>1. SUFFICES ASSUME D # {} PROVE FALSE
    OBVIOUS
<1>2. PICK M \in D : \A U \in D : U \subseteq M => U = M
    <2>1. D \subseteq SUBSET S
        OBVIOUS
    <2> HIDE DEF D
    <2> QED
        BY <1>1, <2>1, LeastSubset
<1>3. M # {}
    <2>1. M = {} => Image(M) = {}
        OBVIOUS
    <2> QED
        BY <1>2, <2>1, SumOfNone
<1>4. PICK x \in M : TRUE
    BY <1>3
<1>5. SumOver(f, M \ {x}) = SumOver(g, Image(M \ {x}))
    BY <1>2, <1>4
<1>6. Image(M \ {x}) = Image(M) \ {b[x]}
    BY <1>2, <1>4
<1>7. IsFiniteSet(M)
    BY <1>2, FS_Subset
<1>8. IsFiniteSet(Image(M))
    <2> DEFINE h == [z \in M |-> b[z]]
    <2>1. h \in Surjection(M, Image(M))
        BY DEF Surjection
    <2> QED
        BY <1>7, <2>1, FS_Surjection
<1>9. SumOver(f, M) = f[x] + SumOver(f, M \ {x})
    BY <1>2, <1>7, SumWithout
<1>10. /\ \A z \in Image(M) : g[z] \in Int
       /\ b[x] \in Image(M) /\ g[b[x]] = f[x]
    BY <1>2
<1> HIDE DEF Image
<1>11. SumOver(g, Image(M)) = g[b[x]] + SumOver(g, Image(M) \ {b[x]})
    BY <1>8, <1>10, SumWithout
<1> QED
    BY <1>2, <1>5, <1>6, <1>9, <1>10, <1>11

(* Equal terms have equal sums.                                            *)
LEMMA SumOfSame ==
    ASSUME NEW S, IsFiniteSet(S), NEW f, \A x \in S : f[x] \in Int,
           NEW g, \A x \in S : g[x] = f[x]
    PROVE  SumOver(f, S) = SumOver(g, S)
<1> DEFINE b == [x \in S |-> x]
<1>1. {b[x] : x \in S} = S
    OBVIOUS
<1>2. SumOver(f, S) = SumOver(g, {b[x] : x \in S})
    <2>1. \A x \in S : b[x] = x
        OBVIOUS
    <2> HIDE DEF b
    <2> QED
        BY <2>1, SumReindexed
<1> QED
    BY <1>1, <1>2

LEMMA SumOfZeros ==
    ASSUME NEW S, IsFiniteSet(S), NEW f, \A x \in S : f[x] = 0
    PROVE  SumOver(f, S) = 0
<1> DEFINE D == {U \in SUBSET S : SumOver(f, U) # 0}
<1>1. SUFFICES ASSUME D # {} PROVE FALSE
    OBVIOUS
<1>2. PICK M \in D : \A U \in D : U \subseteq M => U = M
    <2>1. D \subseteq SUBSET S
        OBVIOUS
    <2> HIDE DEF D
    <2> QED
        BY <1>1, <2>1, LeastSubset
<1>3. M # {}
    BY <1>2, SumOfNone
<1>4. Picked(M) \in M
    BY <1>3, PickedIsIn
<1>5. SumOver(f, M \ {Picked(M)}) = 0
    BY <1>2, <1>4
<1>6. SumOver(f, M) = f[Picked(M)] + SumOver(f, M \ {Picked(M)})
    BY <1>3, FS_Subset, SumOfPicked
<1> QED
    BY <1>2, <1>4, <1>5, <1>6

(* A term that grows lets the sum grow.                                    *)
LEMMA SumWithOneMore ==
    ASSUME NEW S, IsFiniteSet(S), NEW f \in [S -> Int], NEW x \in S
    PROVE  SumOver([f EXCEPT ![x] = @ + 1], S) = SumOver(f, S) + 1
<1> DEFINE g == [f EXCEPT ![x] = @ + 1]
           T == S \ {x}
<1>1. g \in [S -> Int] /\ g[x] = f[x] + 1 /\ \A y \in T : g[y] = f[y]
    OBVIOUS
<1>2. IsFiniteSet(T)
    BY FS_Subset
<1> HIDE DEF g
<1>3. SumOver(f, T) = SumOver(g, T)
    BY <1>1, <1>2, SumOfSame
<1>4. SumOver(g, S) = g[x] + SumOver(g, T) /\ SumOver(f, S) = f[x] + SumOver(f, T)
    BY <1>1, SumWithout
<1>5. SumOver(f, T) \in Int
    BY <1>2, SumIsInt
<1> QED
    BY <1>1, <1>3, <1>4, <1>5 DEF g

HasMax(S) == \E x \in S : \A y \in S : x >= y
HasMin(S) == \E x \in S : \A y \in S : x =< y

LEMMA ExtremesExist ==
    ASSUME NEW S, IsFiniteSet(S), \A x \in S : x \in Int, S # {}
    PROVE  HasMax(S) /\ HasMin(S)
<1> DEFINE D == {U \in SUBSET S : U # {} /\ ~(HasMax(U) /\ HasMin(U))}
<1>1. SUFFICES ASSUME D # {} PROVE FALSE
    OBVIOUS
<1>2. PICK M \in D : \A U \in D : U \subseteq M => U = M
    <2>1. D \subseteq SUBSET S
        OBVIOUS
    <2> HIDE DEF D
    <2> QED
        BY <1>1, <2>1, LeastSubset
<1>3. PICK m \in M : m \in Int
    BY <1>2
<1> DEFINE T == M \ {m}
<1>4. T \notin D /\ T \in SUBSET S
    BY <1>2, <1>3
<1>5. ASSUME T = {}
      PROVE  HasMax(M) /\ HasMin(M)
    <2>1. M = {m}
        BY <1>3, <1>5
    <2> QED
        BY <1>3, <2>1 DEF HasMax, HasMin
<1>6. ASSUME T # {}
      PROVE  HasMax(M) /\ HasMin(M)
    <2>1. HasMax(T) /\ HasMin(T)
        BY <1>4, <1>6
    <2>2. PICK x \in T : \A y \in T : x >= y
        BY <2>1 DEF HasMax
    <2>3. PICK z \in T : \A y \in T : z =< y
        BY <2>1 DEF HasMin
    <2>4. (\A y \in M : y \in Int) /\ \A y \in M : y = m \/ y \in T
        BY <1>2
    <2>5. HasMax(M)
        <3>1. CASE x >= m
            BY <2>2, <2>4, <3>1 DEF HasMax
        <3>2. CASE ~(x >= m)
            BY <1>3, <2>2, <2>4, <3>2 DEF HasMax
        <3> QED
            BY <3>1, <3>2
    <2>6. HasMin(M)
        <3>1. CASE z =< m
            BY <2>3, <2>4, <3>1 DEF HasMin
        <3>2. CASE ~(z =< m)
            BY <1>3, <2>3, <2>4, <3>2 DEF HasMin
        <3> QED
            BY <3>1, <3>2
    <2> QED
        BY <2>5, <2>6
<1> QED
    BY <1>2, <1>5, <1>6

(* A set of integers that is finite and not empty has a greatest and a     *)
(* least element.                                                          *)
LEMMA MaxAndMin ==
    ASSUME NEW S, IsFiniteSet(S), \A x \in S : x \in Int, S # {}
    PROVE  /\ Max(S) \in S /\ (\A x \in S : x <= Max(S))
           /\ Min(S) \in S /\ (\A x \in S : Min(S) <= x)
<1>1. HasMax(S) /\ HasMin(S)
    BY ExtremesExist
<1>2. Max(S) \in S /\ \A y \in S : Max(S) >= y
    BY <1>1 DEF HasMax, Max
<1>3. Min(S) \in S /\ \A y \in S : Min(S) =< y
    BY <1>1 DEF HasMin, Min
<1>4. \A y \in S : y \in Int
    OBVIOUS
<1> QED
    BY <1>2, <1>3, <1>4

LEMMA LeastNumber ==
    ASSUME NEW n \in Nat, NEW D \in SUBSET (0..n), D # {}
    PROVE  \E m \in D : \A k \in D : m <= k
<1>1. IsFiniteSet(D)
    <2>1. IsFiniteSet(0..n)
        BY FS_Interval
    <2>2. ASSUME NEW S, NEW T \in SUBSET S, IsFiniteSet(S)
          PROVE  IsFiniteSet(T)
        BY <2>2, FS_Subset
    <2> QED
        BY <2>1, <2>2
<1>2. \A k \in D : k \in Int
    OBVIOUS
<1>3. D # {}
    OBVIOUS
<1> QED
    BY <1>1, <1>2, <1>3, MaxAndMin
=============================================================================
