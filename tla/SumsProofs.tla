----------------------------- MODULE SumsProofs -----------------------------
(***************************************************************************)
(* What a sum over a finite set is worth when one of its terms changes.    *)
(***************************************************************************)
EXTENDS Book, FiniteSetTheorems, TLAPS

\* n units of x are a set of n elements.
LEMMA UnitsFacts ==
  ASSUME NEW x, NEW n \in Nat
  PROVE  /\ IsFiniteSet(Units(x, n))
         /\ Cardinality(Units(x, n)) = n
<1>1. IsFiniteSet({x}) /\ Cardinality({x}) = 1
  BY FS_Singleton
<1>2. IsFiniteSet(1..n) /\ Cardinality(1..n) = n
  BY FS_Interval
<1>3. /\ IsFiniteSet({x} \X (1..n))
      /\ Cardinality({x} \X (1..n)) = Cardinality({x}) * Cardinality(1..n)
  BY <1>1, <1>2, FS_Product
<1>4. Cardinality({x}) * Cardinality(1..n) = n
  BY <1>1, <1>2
<1> QED
  BY <1>3, <1>4 DEF Units

\* The units of the terms of a sum are a finite set.
LEMMA UnitsFinite ==
  ASSUME NEW S, IsFiniteSet(S), NEW f, \A x \in S : f[x] \in Nat
  PROVE  IsFiniteSet(UNION {Units(x, f[x]) : x \in S})
<1> DEFINE T == {Units(x, f[x]) : x \in S}
           F == [x \in S |-> Units(x, f[x])]
<1>1. IsFiniteSet(T)
  <2>1. F \in Surjection(S, T)
    BY DEF Surjection
  <2> QED
    BY <2>1, FS_Surjection
<1>2. \A U \in T : IsFiniteSet(U)
  BY UnitsFacts
<1> QED
  BY <1>1, <1>2, FS_UNION

\* A sum of naturals is a natural.
LEMMA TotalType ==
  ASSUME NEW S, IsFiniteSet(S), NEW f, \A x \in S : f[x] \in Nat
  PROVE  Total(S, f) \in Nat
BY UnitsFinite, FS_CardinalityType DEF Total

\* A sum splits into one term and the sum of the others.
LEMMA TotalSplit ==
  ASSUME NEW S, IsFiniteSet(S), NEW f, \A x \in S : f[x] \in Nat,
         NEW a \in S
  PROVE  Total(S, f) = f[a] + Total(S \ {a}, f)
<1> DEFINE R == UNION {Units(x, f[x]) : x \in S \ {a}}
           A == Units(a, f[a])
<1>1. IsFiniteSet(S \ {a})
  BY FS_RemoveElement
<1>2. IsFiniteSet(R)
  BY <1>1, UnitsFinite
<1>3. IsFiniteSet(A) /\ Cardinality(A) = f[a]
  BY UnitsFacts
<1>4. UNION {Units(x, f[x]) : x \in S} = A \cup R
  OBVIOUS
<1>5. A \cap R = {}
  BY DEF Units
<1>6. Cardinality(A \cup R) = Cardinality(A) + Cardinality(R) - Cardinality({})
  BY <1>2, <1>3, <1>5, FS_Union
<1>7. Cardinality({}) = 0
  BY FS_EmptySet
<1>8. Cardinality(R) \in Nat
  BY <1>2, FS_CardinalityType
<1>9. Total(S, f) = Cardinality(A \cup R)
  BY <1>4 DEF Total
<1>10. Total(S \ {a}, f) = Cardinality(R)
  BY DEF Total
<1> HIDE DEF A, R
<1> QED
  BY <1>3, <1>6, <1>7, <1>8, <1>9, <1>10

\* Sums of functions that agree on the set are equal.
LEMMA TotalCong ==
  ASSUME NEW S, NEW f, NEW g, \A x \in S : f[x] = g[x]
  PROVE  Total(S, f) = Total(S, g)
<1>1. {Units(x, f[x]) : x \in S} = {Units(x, g[x]) : x \in S}
  OBVIOUS
<1> QED
  BY <1>1 DEF Total

\* Changing one term changes the sum by the difference.
LEMMA TotalUpdate ==
  ASSUME NEW S, IsFiniteSet(S), NEW f, NEW g, NEW a \in S,
         \A x \in S : f[x] \in Nat, \A x \in S : g[x] \in Nat,
         \A x \in S \ {a} : f[x] = g[x]
  PROVE  Total(S, g) = Total(S, f) - f[a] + g[a]
<1>1. Total(S, f) = f[a] + Total(S \ {a}, f)
  BY TotalSplit
<1>2. Total(S, g) = g[a] + Total(S \ {a}, g)
  BY TotalSplit
<1>3. Total(S \ {a}, f) = Total(S \ {a}, g)
  BY TotalCong
<1>4. Total(S \ {a}, f) \in Nat
  BY FS_RemoveElement, TotalType
<1> QED
  BY <1>1, <1>2, <1>3, <1>4

\* Two terms may change at once, as when cash moves between two accounts.
LEMMA TotalUpdate2 ==
  ASSUME NEW S, IsFiniteSet(S), NEW f, NEW g, NEW a \in S, NEW b \in S, a # b,
         \A x \in S : f[x] \in Nat, \A x \in S : g[x] \in Nat,
         \A x \in S \ {a, b} : f[x] = g[x]
  PROVE  Total(S, g) = Total(S, f) - f[a] + g[a] - f[b] + g[b]
<1> DEFINE h == [x \in S |-> IF x = a THEN g[a] ELSE f[x]]
<1>1. /\ \A x \in S : h[x] \in Nat
      /\ \A x \in S \ {a} : f[x] = h[x]
      /\ \A x \in S \ {b} : h[x] = g[x]
  OBVIOUS
<1>2. h[a] = g[a] /\ h[b] = f[b]
  OBVIOUS
<1> HIDE DEF h
<1>3. Total(S, h) = Total(S, f) - f[a] + h[a]
  BY <1>1, TotalUpdate
<1>4. Total(S, g) = Total(S, h) - h[b] + g[b]
  BY <1>1, TotalUpdate
<1>5. Total(S, f) \in Nat
  BY TotalType
<1> QED
  BY <1>3, <1>4, <1>2, <1>5

\* A sum of zeros is zero.
LEMMA TotalZero ==
  ASSUME NEW S, NEW f, \A x \in S : f[x] = 0
  PROVE  Total(S, f) = 0
<1>1. \A x \in S : Units(x, f[x]) = {}
  BY DEF Units
<1>2. UNION {Units(x, f[x]) : x \in S} = {}
  BY <1>1
<1> QED
  BY <1>2, FS_EmptySet DEF Total

\* A sum is at least each of its terms.
LEMMA TotalTerm ==
  ASSUME NEW S, IsFiniteSet(S), NEW f, \A x \in S : f[x] \in Nat,
         NEW a \in S
  PROVE  f[a] <= Total(S, f)
<1>1. Total(S \ {a}, f) \in Nat
  BY FS_RemoveElement, TotalType
<1> QED
  BY <1>1, TotalSplit

-----------------------------------------------------------------------------
(* Sums of sums.  Two sums are compared by a bijection between their units,  *)
(* since no induction over the index set is available.                       *)

\* The sizes of disjoint sets add up to the size of their union.
LEMMA DisjointSizes ==
  ASSUME NEW S, IsFiniteSet(S), NEW A,
         \A x \in S : IsFiniteSet(A[x]),
         \A x, y \in S : x # y => A[x] \cap A[y] = {}
  PROVE  Cardinality(UNION {A[x] : x \in S}) = Total(S, [x \in S |-> Cardinality(A[x])])
<1> DEFINE f == [x \in S |-> Cardinality(A[x])]
           U == UNION {Units(x, f[x]) : x \in S}
           B == [x \in S |-> CHOOSE b : b \in Bijection(1..f[x], A[x])]
           F == [e \in U |-> B[e[1]][e[2]]]
           V == UNION {A[x] : x \in S}
<1>1. \A x \in S : f[x] \in Nat /\ B[x] \in Bijection(1..f[x], A[x])
  <2> TAKE x \in S
  <2>1. f[x] \in Nat /\ ExistsBijection(1..f[x], A[x])
    BY FS_CardinalityType
  <2>2. \E b : b \in Bijection(1..f[x], A[x])
    BY <2>1 DEF ExistsBijection
  <2> QED BY <2>1, <2>2
<1> HIDE DEF f, B
<1>2. \A x \in S : \A n \in 1..f[x] :
        <<x, n>> \in U /\ F[<<x, n>>] = B[x][n] /\ B[x][n] \in A[x]
  <2> TAKE x \in S
  <2> TAKE n \in 1..f[x]
  <2>1. <<x, n>> \in U
    BY DEF Units
  <2>2. B[x] \in [1..f[x] -> A[x]]
    BY <1>1 DEF Bijection, Injection
  <2> QED BY <2>1, <2>2
<1>3. \A e \in U : \E x \in S : \E n \in 1..f[x] : e = <<x, n>>
  BY DEF Units
<1>4. F = [e \in U |-> F[e]]
  OBVIOUS
<1> HIDE DEF F, U
<1>10. \A e \in U : F[e] \in V
  BY <1>2, <1>3
<1>5. \A d, e \in U : F[d] = F[e] => d = e
  <2> SUFFICES ASSUME NEW x \in S, NEW m \in 1..f[x], NEW y \in S, NEW n \in 1..f[y],
                      F[<<x, m>>] = F[<<y, n>>]
               PROVE  x = y /\ m = n
    BY <1>3
  <2>1. F[<<x, m>>] \in A[x] /\ F[<<y, n>>] \in A[y]
    BY <1>2
  <2>2. x = y
    BY <2>1
  <2>3. B[x][m] = B[x][n] /\ n \in 1..f[x]
    BY <1>2, <2>2
  <2>4. B[x] \in Injection(1..f[x], A[x])
    BY <1>1 DEF Bijection
  <2> QED BY <2>2, <2>3, <2>4 DEF Injection, IsInjective
<1>6. \A v \in V : \E e \in U : F[e] = v
  <2> SUFFICES ASSUME NEW x \in S, NEW v \in A[x]
               PROVE  \E e \in U : F[e] = v
    OBVIOUS
  <2>1. PICK n \in 1..f[x] : B[x][n] = v
    BY <1>1 DEF Bijection, Surjection
  <2>2. <<x, n>> \in U /\ F[<<x, n>>] = v
    BY <1>2, <2>1
  <2> QED BY <2>2
<1>7. ExistsBijection(U, V)
  <2> HIDE DEF V
  <2>1. F \in [U -> V]
    BY <1>4, <1>10
  <2>2. F \in Injection(U, V)
    BY <1>5, <2>1 DEF Injection, IsInjective
  <2>3. F \in Surjection(U, V)
    BY <1>6, <2>1 DEF Surjection
  <2> QED BY <2>2, <2>3 DEF Bijection, ExistsBijection
<1>8. IsFiniteSet(U)
  BY <1>1, UnitsFinite DEF U
<1>9. Cardinality(V) = Cardinality(U)
  BY <1>7, <1>8, FS_Bijection
<1> QED
  BY <1>9 DEF Total, f, U

\* The units of a table of terms.
Cells(S, T, f) ==
  UNION {{x} \X UNION {Units(y, f[x][y]) : y \in T} : x \in S}

\* Row by row, they are as many as the sum of the row sums.
LEMMA CellsTotal ==
  ASSUME NEW S, IsFiniteSet(S), NEW T, IsFiniteSet(T), NEW f,
         \A x \in S, y \in T : f[x][y] \in Nat
  PROVE  /\ IsFiniteSet(Cells(S, T, f))
         /\ Cardinality(Cells(S, T, f)) = Total(S, [x \in S |-> Total(T, f[x])])
<1> DEFINE row == [x \in S |-> UNION {Units(y, f[x][y]) : y \in T}]
           A == [x \in S |-> {x} \X row[x]]
<1>1. ASSUME NEW x \in S
      PROVE  IsFiniteSet(A[x]) /\ Cardinality(A[x]) = Total(T, f[x])
  <2>1. IsFiniteSet(row[x]) /\ Cardinality(row[x]) = Total(T, f[x])
    BY UnitsFinite DEF Total
  <2>2. IsFiniteSet({x}) /\ Cardinality({x}) = 1
    BY FS_Singleton
  <2>3. Cardinality(row[x]) \in Nat
    BY <2>1, FS_CardinalityType
  <2> HIDE DEF row
  <2>4. IsFiniteSet({x} \X row[x])
        /\ Cardinality({x} \X row[x]) = 1 * Cardinality(row[x])
    BY <2>1, <2>2, FS_Product
  <2> QED BY <2>1, <2>3, <2>4
<1>2. \A x, y \in S : x # y => A[x] \cap A[y] = {}
  OBVIOUS
<1>3. Cells(S, T, f) = UNION {A[x] : x \in S}
  BY DEF Cells
<1> HIDE DEF A
<1>4. Cardinality(Cells(S, T, f)) = Total(S, [x \in S |-> Cardinality(A[x])])
  BY <1>1, <1>2, <1>3, DisjointSizes
<1>5. Total(S, [x \in S |-> Cardinality(A[x])]) = Total(S, [x \in S |-> Total(T, f[x])])
  BY <1>1, TotalCong
<1>6. IsFiniteSet({A[x] : x \in S})
  <2>1. [x \in S |-> A[x]] \in Surjection(S, {A[x] : x \in S})
    BY DEF Surjection
  <2> QED BY <2>1, FS_Surjection
<1>7. IsFiniteSet(Cells(S, T, f))
  BY <1>1, <1>3, <1>6, FS_UNION
<1> QED
  BY <1>4, <1>5, <1>7

RowSums(S, T, f) == [x \in S |-> Total(T, f[x])]
ColumnSums(S, T, f) == [y \in T |-> Total(S, [x \in S |-> f[x][y]])]

\* A table adds up to the same by rows and by columns.
LEMMA TotalSwap ==
  ASSUME NEW S, IsFiniteSet(S), NEW T, IsFiniteSet(T), NEW f,
         \A x \in S, y \in T : f[x][y] \in Nat
  PROVE  Total(S, RowSums(S, T, f)) = Total(T, ColumnSums(S, T, f))
<1> DEFINE t == [y \in T |-> [x \in S |-> f[x][y]]]
           P == Cells(S, T, f)
           Q == Cells(T, S, t)
           F == [e \in P |-> <<e[2][1], <<e[1], e[2][2]>>>>]
<1>1. \A e \in P : \E x \in S, y \in T : \E n \in 1..f[x][y] : e = <<x, <<y, n>>>>
  BY DEF Cells, Units
<1>2. \A x \in S, y \in T : \A n \in 1..f[x][y] : <<x, <<y, n>>>> \in P
  BY DEF Cells, Units
<1>3. \A e \in Q : \E x \in S, y \in T : \E n \in 1..f[x][y] : e = <<y, <<x, n>>>>
  BY DEF Cells, Units
<1>4. \A x \in S, y \in T : \A n \in 1..f[x][y] : <<y, <<x, n>>>> \in Q
  BY DEF Cells, Units
<1> HIDE DEF P, Q
<1>5. \A x \in S, y \in T : \A n \in 1..f[x][y] :
        F[<<x, <<y, n>>>>] = <<y, <<x, n>>>>
  BY <1>2
<1>6. F \in [P -> Q]
  BY <1>1, <1>4
<1> HIDE DEF F
<1>7. \A d, e \in P : F[d] = F[e] => d = e
  <2> TAKE d, e \in P
  <2>1. PICK x \in S, y \in T : \E n \in 1..f[x][y] : d = <<x, <<y, n>>>>
    BY <1>1
  <2>2. PICK u \in S, v \in T : \E m \in 1..f[u][v] : e = <<u, <<v, m>>>>
    BY <1>1
  <2> QED BY <1>5, <2>1, <2>2
<1>8. \A e \in Q : \E d \in P : F[d] = e
  <2> TAKE e \in Q
  <2>1. PICK x \in S, y \in T : \E n \in 1..f[x][y] : e = <<y, <<x, n>>>>
    BY <1>3
  <2>2. PICK n \in 1..f[x][y] : e = <<y, <<x, n>>>>
    BY <2>1
  <2>3. <<x, <<y, n>>>> \in P /\ F[<<x, <<y, n>>>>] = e
    BY <1>2, <1>5, <2>2
  <2> QED BY <2>3
<1>9. ExistsBijection(P, Q)
  <2>1. F \in Injection(P, Q)
    BY <1>6, <1>7 DEF Injection, IsInjective
  <2>2. F \in Surjection(P, Q)
    BY <1>6, <1>8 DEF Surjection
  <2> QED BY <2>1, <2>2 DEF Bijection, ExistsBijection
<1>10. IsFiniteSet(P) /\ Cardinality(P) = Total(S, [x \in S |-> Total(T, f[x])])
  BY CellsTotal DEF P
<1>11. Cardinality(Q) = Total(T, [y \in T |-> Total(S, t[y])])
  <2>1. \A y \in T, x \in S : t[y][x] \in Nat
    OBVIOUS
  <2> HIDE DEF t
  <2> QED BY <2>1, CellsTotal DEF Q
<1>12. Cardinality(Q) = Cardinality(P)
  BY <1>9, <1>10, FS_Bijection
<1>13. Total(T, [y \in T |-> Total(S, t[y])]) = Total(T, ColumnSums(S, T, f))
  BY TotalCong DEF ColumnSums
<1> QED
  BY <1>10, <1>11, <1>12, <1>13 DEF RowSums

\* A sum of equal terms is a product.
LEMMA TotalConst ==
  ASSUME NEW T, IsFiniteSet(T), NEW k \in Nat
  PROVE  Total(T, [y \in T |-> k]) = Cardinality(T) * k
<1>1. UNION {Units(y, [z \in T |-> k][y]) : y \in T} = T \X (1..k)
  BY DEF Units
<1>2. IsFiniteSet(1..k) /\ Cardinality(1..k) = k
  BY FS_Interval
<1> QED
  BY <1>1, <1>2, FS_Product DEF Total

\* Two sums over the same set add up term by term.
LEMMA TotalAdd ==
  ASSUME NEW S, IsFiniteSet(S), NEW f, NEW g,
         \A x \in S : f[x] \in Nat /\ g[x] \in Nat
  PROVE  Total(S, [x \in S |-> f[x] + g[x]]) = Total(S, f) + Total(S, g)
<1> DEFINE T == {1, 2}
           h == [x \in S |-> [y \in T |-> IF y = 1 THEN f[x] ELSE g[x]]]
<1>1. IsFiniteSet(T) /\ 1 \in T /\ 2 \in T /\ T \ {1} = {2} /\ {2} \ {2} = {}
  <2>1. IsFiniteSet({1}) /\ T = {1} \cup {2} /\ IsFiniteSet({2})
    BY FS_Singleton
  <2>2. IsFiniteSet(T)
    BY <2>1, FS_Union
  <2> QED BY <2>2
<1>2. \A e : e[1] \in Nat /\ e[2] \in Nat => Total(T, e) = e[1] + e[2]
  <2> SUFFICES ASSUME NEW e, e[1] \in Nat, e[2] \in Nat
               PROVE  Total(T, e) = e[1] + e[2]
    OBVIOUS
  <2>1. \A y \in T : e[y] \in Nat
    OBVIOUS
  <2>2. Total(T, e) = e[1] + Total({2}, e)
    <3> HIDE DEF T
    <3> QED BY <1>1, <2>1, TotalSplit
  <2>3. IsFiniteSet({2}) /\ \A y \in {2} : e[y] \in Nat
    BY FS_Singleton
  <2>4. Total({2}, e) = e[2] + Total({}, e)
    BY <1>1, <2>3, TotalSplit
  <2>5. Total({}, e) = 0
    BY TotalZero
  <2> QED BY <2>2, <2>4, <2>5
<1>3. \A x \in S, y \in T : h[x][y] \in Nat
  OBVIOUS
<1>4. \A x \in S : Total(T, h[x]) = f[x] + g[x]
  BY <1>2
<1>5. /\ Total(S, [x \in S |-> h[x][1]]) = Total(S, f)
      /\ Total(S, [x \in S |-> h[x][2]]) = Total(S, g)
  BY TotalCong
<1>6. Total(S, f) \in Nat /\ Total(S, g) \in Nat
  BY TotalType
<1> HIDE DEF h, T
<1>7. Total(S, RowSums(S, T, h)) = Total(T, ColumnSums(S, T, h))
  BY <1>1, <1>3, TotalSwap
<1>8. Total(S, RowSums(S, T, h)) = Total(S, [x \in S |-> f[x] + g[x]])
  <2>1. \A x \in S : RowSums(S, T, h)[x] = [y \in S |-> f[y] + g[y]][x]
    BY <1>4 DEF RowSums
  <2> QED BY <2>1, TotalCong
<1> DEFINE e == ColumnSums(S, T, h)
<1>9. e[1] = Total(S, f) /\ e[2] = Total(S, g)
  BY <1>1, <1>5 DEF ColumnSums
<1> HIDE DEF e
<1>10. Total(T, e) = Total(S, f) + Total(S, g)
  BY <1>2, <1>6, <1>9
<1> QED
  BY <1>7, <1>8, <1>10 DEF e

\* A common factor can be taken out of a sum.
LEMMA TotalScale ==
  ASSUME NEW S, IsFiniteSet(S), NEW f, NEW k \in Nat, \A x \in S : f[x] \in Nat
  PROVE  Total(S, [x \in S |-> f[x] * k]) = Total(S, f) * k
<1> DEFINE T == 1..k
           h == [x \in S |-> [y \in T |-> f[x]]]
<1>1. IsFiniteSet(T) /\ Cardinality(T) = k
  BY FS_Interval
<1>2. Total(S, f) \in Nat
  BY TotalType
<1> HIDE DEF T
<1>3. \A x \in S : Total(T, h[x]) = f[x] * k
  <2> TAKE x \in S
  <2>1. h[x] = [y \in T |-> f[x]]
    OBVIOUS
  <2>2. Total(T, h[x]) = k * f[x]
    BY <1>1, <2>1, TotalConst
  <2> QED BY <2>2
<1>4. \A y \in T : Total(S, [x \in S |-> h[x][y]]) = Total(S, f)
  BY TotalCong
<1>5. \A x \in S, y \in T : h[x][y] \in Nat
  OBVIOUS
<1> HIDE DEF h
<1>6. Total(S, RowSums(S, T, h)) = Total(T, ColumnSums(S, T, h))
  BY <1>1, <1>5, TotalSwap
<1>7. Total(S, RowSums(S, T, h)) = Total(S, [x \in S |-> f[x] * k])
  <2>1. \A x \in S : RowSums(S, T, h)[x] = [y \in S |-> f[y] * k][x]
    BY <1>3 DEF RowSums
  <2> QED BY <2>1, TotalCong
<1>8. Total(T, ColumnSums(S, T, h)) = Total(T, [y \in T |-> Total(S, f)])
  <2>1. \A y \in T : ColumnSums(S, T, h)[y] = [z \in T |-> Total(S, f)][y]
    BY <1>4 DEF ColumnSums
  <2> QED BY <2>1, TotalCong
<1>9. Total(T, [y \in T |-> Total(S, f)]) = k * Total(S, f)
  BY <1>1, <1>2, TotalConst
<1>10. k * Total(S, f) = Total(S, f) * k
  BY <1>2
<1> QED
  BY <1>6, <1>7, <1>8, <1>9, <1>10

=============================================================================
